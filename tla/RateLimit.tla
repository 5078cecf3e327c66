----------------------------- MODULE RateLimit -----------------------------
(***************************************************************************)
(* The fixed-window limiter of the API (backend/common/ratelimit.py) on one *)
(* key rl:scope:ip.  Both uvicorn workers drive the same Redis key, and      *)
(* INCR and EXPIRE are two round trips, so other requests, the clock and     *)
(* failures run between them.  Requests are interchangeable: only how many   *)
(* wait for their EXPIRE matters.                                            *)
(***************************************************************************)
EXTENDS Integers, Functions

CONSTANTS
  Limit,       \* requests allowed per window
  Window,      \* the window, in ticks of the clock
  MaxPending,  \* bound: requests waiting for their EXPIRE at once
  MaxFaults    \* bound: failures in a run

ASSUME LimitAssumption ==
  /\ Limit \in Nat \ {0}
  /\ Window \in Nat \ {0}
  /\ MaxPending \in Nat \ {0}
  /\ MaxFaults \in Nat

VARIABLES
  count,     \* the key's value, 0 when the key does not exist
  ttl,       \* ticks the key has left, NoTTL when it has no expiry
  pending,   \* requests whose INCR returned 1 and whose EXPIRE is not done
  faults,    \* failures so far
  (* History, read by the properties only. *)
  orphaned,  \* a failure came between an INCR that returned 1 and its EXPIRE
  age,       \* ticks since the key was created, up to Window
  used,      \* requests admitted against the current key
  usedPrev,  \* requests admitted against the key before it
  recent     \* recent[i] were admitted i ticks ago

history == <<orphaned, age, used, usedPrev, recent>>
vars == <<count, ttl, pending, faults, history>>

NoTTL == -1

(* The handler compares count with 1 and with limit: a value above limit     *)
(* need not be told from limit + 1.                                          *)
Over == Limit + 1

TypeOK ==
  /\ count \in 0 .. Over
  /\ ttl \in {NoTTL} \cup 1 .. Window
  /\ pending \in 0 .. MaxPending
  /\ faults \in 0 .. MaxFaults
  /\ orphaned \in BOOLEAN
  /\ age \in 0 .. Window
  /\ used \in Nat /\ usedPrev \in Nat
  /\ recent \in [0 .. Window - 1 -> Nat]
  /\ count = 0 => ttl = NoTTL

Init ==
  /\ count = 0 /\ ttl = NoTTL /\ pending = 0 /\ faults = 0
  /\ orphaned = FALSE /\ age = 0 /\ used = 0 /\ usedPrev = 0
  /\ recent = [i \in 0 .. Window - 1 |-> 0]

-----------------------------------------------------------------------------
Incremented == IF count = Over THEN Over ELSE count + 1

(* if count == 1: await redis.expire(key, window) *)
NeverFirst(n) == n = 0
First(n) == n = 1

(* if count > limit: raise AppError("RATE_LIMITED", ..., 429) *)
RejectedLate(n) == n > Limit + 1
Rejected(n) == n > Limit

Admit ==
  /\ used' = used + 1
  /\ recent' = [recent EXCEPT ![0] = @ + 1]

Fault == faults < MaxFaults /\ faults' = faults + 1

(* INCR returns 1: the request goes on to its EXPIRE. *)
HitFirst ==
  /\ First(Incremented)
  /\ pending < MaxPending
  /\ count' = Incremented
  /\ pending' = pending + 1
  /\ UNCHANGED <<ttl, faults, history>>

(* INCR returns more: the request is admitted or answered 429 at once. *)
HitAdmitted ==
  /\ ~First(Incremented) /\ ~Rejected(Incremented)
  /\ count' = Incremented
  /\ Admit
  /\ UNCHANGED <<ttl, pending, faults, orphaned, age, usedPrev>>

HitRejected ==
  /\ ~First(Incremented) /\ Rejected(Incremented)
  /\ count' = Incremented
  /\ UNCHANGED <<ttl, pending, faults, history>>

(* The expiry is in seconds. *)
Lifetime == Window

(* EXPIRE starts the window; on a key that is gone it does nothing.  The     *)
(* request that got count = 1 is within any limit.                           *)
Expire ==
  /\ pending > 0
  /\ pending' = pending - 1
  /\ ttl' = IF count = 0 THEN NoTTL ELSE Lifetime
  /\ Admit
  /\ UNCHANGED <<count, faults, orphaned, age, usedPrev>>

-----------------------------------------------------------------------------
(* Redis cannot be reached for the INCR: fail open. *)
IncrFails ==
  /\ Fault
  /\ Admit
  /\ UNCHANGED <<count, ttl, pending, orphaned, age, usedPrev>>

(* Redis ran the INCR but its reply is lost: fail open, with no EXPIRE. *)
IncrReplyLost ==
  /\ Fault
  /\ count' = Incremented
  /\ orphaned' = (orphaned \/ count = 0)
  /\ Admit
  /\ UNCHANGED <<ttl, pending, age, usedPrev>>

(* Redis cannot be reached for the EXPIRE: fail open, the key stays. *)
ExpireFails ==
  /\ pending > 0
  /\ Fault
  /\ pending' = pending - 1
  /\ orphaned' = TRUE
  /\ Admit
  /\ UNCHANGED <<count, ttl, age, usedPrev>>

(* The worker dies between the two calls. *)
Crash ==
  /\ pending > 0
  /\ Fault
  /\ pending' = pending - 1
  /\ orphaned' = TRUE
  /\ UNCHANGED <<count, ttl, age, used, usedPrev, recent>>

NextKey == age' = 0 /\ used' = 0 /\ usedPrev' = used

(* Redis restarts without its data. *)
Restart ==
  /\ Fault
  /\ count' = 0 /\ ttl' = NoTTL
  /\ NextKey
  /\ UNCHANGED <<pending, orphaned, recent>>

-----------------------------------------------------------------------------
(* A tick of the clock; Redis deletes the key when its time is up. *)
Slide == recent' = [i \in 0 .. Window - 1 |-> IF i = 0 THEN 0 ELSE recent[i - 1]]

Tick ==
  /\ Slide
  /\ ttl # 1
  /\ ttl' = IF ttl = NoTTL THEN NoTTL ELSE ttl - 1
  /\ age' = IF count = 0 \/ age = Window THEN age ELSE age + 1
  /\ UNCHANGED <<count, pending, faults, orphaned, used, usedPrev>>

TickDeletes ==
  /\ Slide
  /\ ttl = 1
  /\ count' = 0 /\ ttl' = NoTTL
  /\ NextKey
  /\ UNCHANGED <<pending, faults, orphaned>>

Hit == HitFirst \/ HitAdmitted \/ HitRejected
Failure == IncrFails \/ IncrReplyLost \/ ExpireFails \/ Crash \/ Restart
Clock == Tick \/ TickDeletes

Next == Hit \/ Expire \/ Failure \/ Clock

Spec == Init /\ [][Next]_vars

(* Time passes, and a request whose INCR returned goes on to its EXPIRE. *)
FairSpec == Spec /\ WF_vars(Clock) /\ WF_vars(Expire)

-----------------------------------------------------------------------------
(* ratelimit.py 37: at most 2 x limit requests are admitted in any Window    *)
(* consecutive ticks, as long as nothing failed.                             *)
AtMostTwiceLimit ==
  faults = 0 => SumFunctionOnSet(recent, 0 .. Window - 1) <= 2 * Limit

(* Nobody is answered 429 early: without failures the key counts exactly the *)
(* requests admitted against it or about to be.                              *)
CountIsAdmissions ==
  faults = 0 => used + pending = IF count = Over THEN Limit ELSE count

(* A key is not deleted before it has lasted a whole window, however late    *)
(* its EXPIRE arrives.                                                       *)
KeyLastsAWindow ==
  [][count # 0 /\ count' = 0 /\ faults' = 0 => age >= Window - 1]_vars

(* A client over the limit gets a new window, unless a failure separated an  *)
(* INCR that returned 1 from its EXPIRE.                                     *)
WindowReopens == count = Over ~> (count = 0 \/ orphaned)

(* ratelimit.py 26-29: a Redis blip must never lock users out.               *)
NeverLockedOut == count = Over ~> count = 0

-----------------------------------------------------------------------------
(* The inductive strengthening.  Without failures a key that exists either   *)
(* has its one EXPIRE on the way or an expiry, and the time it has left and  *)
(* the time it has lasted make up a window.                                  *)
KeyIsTimed ==
  faults = 0 =>
    /\ pending \in {0, 1}
    /\ count = 0 => pending = 0
    /\ count # 0 => (pending = 1 <=> ttl = NoTTL)
    /\ ttl # NoTTL => ttl + age >= Window

(* What was admitted since the key was created was admitted against it, and  *)
(* a whole window meets no key but this one and the one before.              *)
KeyTicks == 0 .. (IF age < Window THEN age ELSE Window - 1)

WindowMeetsTwoKeys ==
  faults = 0 =>
    /\ count = 0 => age = 0
    /\ usedPrev <= Limit
    /\ SumFunctionOnSet(recent, KeyTicks) <= used
    /\ SumFunctionOnSet(recent, 0 .. Window - 1) <= used + usedPrev

IInv == TypeOK /\ KeyIsTimed /\ CountIsAdmissions /\ WindowMeetsTwoKeys
=============================================================================
