-------------------------- MODULE RateLimitProofs --------------------------
(***************************************************************************)
(* Theorems about RateLimit for any limit, window and number of failures.   *)
(***************************************************************************)
EXTENDS RateLimit, SumProofs

(* Nothing was admitted before the run. *)
LEMMA SumOfZeros ==
  ASSUME NEW n \in Nat, NEW w, \A i \in 0 .. n : w[i] = 0
  PROVE  SumFunctionOnSet(w, 0 .. n) = 0
<1> DEFINE A == {k \in Nat : k <= n => SumFunctionOnSet(w, 0 .. k) = 0}
<1>1. 0 \in A
  <2>1. PICK j \in Nat : j = 0
    OBVIOUS
  <2>2. SumFunctionOnSet(w, 0 .. j) = SumFunctionOnSet(w, 0 .. (j - 1)) + w[j]
    <3>1. \A i \in 0 .. j : w[i] \in Nat
      BY <2>1
    <3> QED
      BY <3>1, SumNext
  <2>3. 0 .. (j - 1) = {}
    BY <2>1
  <2> QED
    BY <2>1, <2>2, <2>3, SumEmpty
<1>2. ASSUME NEW k \in Nat, k \in A PROVE k + 1 \in A
  <2> SUFFICES ASSUME k + 1 <= n PROVE SumFunctionOnSet(w, 0 .. (k + 1)) = 0
    OBVIOUS
  <2>1. PICK j \in Nat : j = k + 1 /\ j - 1 = k
    OBVIOUS
  <2>2. SumFunctionOnSet(w, 0 .. j) = SumFunctionOnSet(w, 0 .. (j - 1)) + w[j]
    <3>1. \A i \in 0 .. j : w[i] \in Nat
      BY <2>1
    <3> QED
      BY <3>1, SumNext
  <2> QED
    BY <1>2, <2>1, <2>2
<1>3. n \in A
  <2> HIDE DEF A
  <2> QED
    BY <1>1, <1>2, Counting
<1> QED
  BY <1>3

LEMMA InitIInv == Init => IInv
<1> SUFFICES ASSUME Init
             PROVE  IInv
  OBVIOUS
<1> USE LimitAssumption DEF Init, NoTTL, Over
<1>1. TypeOK
  <2>1. orphaned \in BOOLEAN
    OBVIOUS
  <2>2. recent \in [0 .. Window - 1 -> Nat]
    OBVIOUS
  <2>3. /\ count \in 0 .. Over /\ pending \in 0 .. MaxPending
        /\ faults \in 0 .. MaxFaults /\ age \in 0 .. Window
        /\ used \in Nat /\ usedPrev \in Nat
    OBVIOUS
  <2>4. ttl \in {NoTTL} \cup 1 .. Window /\ (count = 0 => ttl = NoTTL)
    OBVIOUS
  <2> QED
    BY <2>1, <2>2, <2>3, <2>4 DEF TypeOK
<1>2. KeyIsTimed
  BY DEF KeyIsTimed
<1>3. CountIsAdmissions
  BY DEF CountIsAdmissions
<1>4. WindowMeetsTwoKeys
  <2>1. \A n \in 0 .. Window - 1 : SumFunctionOnSet(recent, 0 .. n) = 0
    BY SumOfZeros
  <2>2. 0 \in 0 .. Window - 1 /\ Window - 1 \in 0 .. Window - 1 /\ KeyTicks = 0 .. 0
    BY DEF KeyTicks
  <2>3. SumFunctionOnSet(recent, KeyTicks) = 0
    BY <2>1, <2>2
  <2>4. SumFunctionOnSet(recent, 0 .. Window - 1) = 0
    BY <2>1, <2>2
  <2> QED
    BY <2>3, <2>4 DEF WindowMeetsTwoKeys
<1> QED
  BY <1>1, <1>2, <1>3, <1>4 DEF IInv

LEMMA NextKeyInv ==
  IInv /\ [Next]_vars => (TypeOK /\ KeyIsTimed /\ CountIsAdmissions)'
<1> SUFFICES ASSUME IInv, [Next]_vars
             PROVE  (TypeOK /\ KeyIsTimed /\ CountIsAdmissions)'
  OBVIOUS
<1> USE LimitAssumption
    DEF IInv, TypeOK, KeyIsTimed, CountIsAdmissions, Over, NoTTL, Incremented,
        First, Rejected, Admit, Fault, history, NextKey, Slide, Lifetime
<1>1. CASE HitFirst
  BY <1>1 DEF HitFirst
<1>2. CASE HitAdmitted
  BY <1>2 DEF HitAdmitted
<1>3. CASE HitRejected
  BY <1>3 DEF HitRejected
<1>4. CASE Expire
  BY <1>4 DEF Expire
<1>5. CASE IncrFails
  BY <1>5 DEF IncrFails
<1>6. CASE IncrReplyLost
  BY <1>6 DEF IncrReplyLost
<1>7. CASE ExpireFails
  BY <1>7 DEF ExpireFails
<1>8. CASE Crash
  BY <1>8 DEF Crash
<1>9. CASE Restart
  BY <1>9 DEF Restart
<1>10. CASE Tick
  BY <1>10 DEF Tick
<1>11. CASE TickDeletes
  BY <1>11 DEF TickDeletes
<1>12. CASE UNCHANGED vars
  BY <1>12 DEF vars
<1> QED
  BY <1>1, <1>2, <1>3, <1>4, <1>5, <1>6, <1>7, <1>8, <1>9, <1>10, <1>11, <1>12
     DEF Next, Hit, Failure, Clock

(* An admission adds one to every sum that begins at the current tick. *)
LEMMA AdmitAddsOne ==
  ASSUME recent \in [0 .. Window - 1 -> Nat], Admit, NEW n \in 0 .. Window - 1
  PROVE  SumFunctionOnSet(recent', 0 .. n) = SumFunctionOnSet(recent, 0 .. n) + 1
<1>1. IsFiniteSet(0 .. n) /\ 0 \in 0 .. n /\ 0 .. n \subseteq 0 .. Window - 1
  <2>1. n \in Nat /\ n \in Int
    BY LimitAssumption
  <2>2. IsFiniteSet(0 .. n)
    BY <2>1, FS_Interval
  <2> QED
    BY <2>1, <2>2, LimitAssumption
<1>2. SumFunctionOnSet(recent, 0 .. n) \in Nat
  <2>1. \A i \in 0 .. n : recent[i] \in Nat
    BY <1>1
  <2> QED
    BY <1>1, <2>1, SumType
<1>3. recent'[0] = recent[0] + 1 /\ recent[0] \in Nat
  BY <1>1 DEF Admit
<1>4. \A i \in 0 .. n : recent[i] \in Nat /\ recent'[i] \in Nat
  BY <1>1, <1>3 DEF Admit
<1>5. \A i \in (0 .. n) \ {0} : recent'[i] = recent[i]
  BY <1>1 DEF Admit
<1>6. SumFunctionOnSet(recent', 0 .. n) + recent[0]
        = SumFunctionOnSet(recent, 0 .. n) + recent'[0]
  <2>1. PICK v : v = recent'
    OBVIOUS
  <2>2. (\A i \in 0 .. n : recent[i] \in Nat /\ v[i] \in Nat)
        /\ \A i \in (0 .. n) \ {0} : v[i] = recent[i]
    BY <1>4, <1>5, <2>1
  <2>3. PICK w : w = recent
    OBVIOUS
  <2>4. PICK S : S = 0 .. n
    OBVIOUS
  <2>5. PICK i \in S : i = 0
    BY <1>1, <2>4
  <2>6. IsFiniteSet(S)
    BY <1>1, <2>4
  <2>7. \A y \in S : w[y] \in Nat /\ v[y] \in Nat
    BY <2>2, <2>3, <2>4
  <2>8. \A y \in S \ {i} : v[y] = w[y]
    BY <2>2, <2>3, <2>4, <2>5
  <2>9. SumFunctionOnSet(v, S) + w[i] = SumFunctionOnSet(w, S) + v[i]
    BY <2>6, <2>7, <2>8, SumChange
  <2> QED
    BY <2>1, <2>3, <2>4, <2>5, <2>9
<1>7. SumFunctionOnSet(recent', 0 .. n) \in Nat
  <2>1. PICK v : v = recent'
    OBVIOUS
  <2>2. \A i \in 0 .. n : v[i] \in Nat
    BY <1>4, <2>1
  <2> QED
    BY <1>1, <2>1, <2>2, SumType
<1> QED
  BY <1>2, <1>3, <1>6, <1>7

(* A tick drops the oldest place of every such sum. *)
LEMMA SlideDropsOne ==
  ASSUME recent \in [0 .. Window - 1 -> Nat], Slide, NEW n \in 0 .. Window - 1
  PROVE  SumFunctionOnSet(recent', 0 .. n) = SumFunctionOnSet(recent, 0 .. (n - 1))
<1>1. PICK v : v = recent'
  OBVIOUS
<1>2. v[0] = 0
  BY <1>1, LimitAssumption DEF Slide
<1>3. \A i \in 0 .. n : recent[i] \in Nat
  BY LimitAssumption
<1>4. \A i \in 1 .. n : v[i] = recent[i - 1]
  BY <1>1, LimitAssumption DEF Slide
<1>5. n \in Nat
  BY LimitAssumption
<1> QED
  BY <1>1, <1>2, <1>3, <1>4, <1>5, SumShift

(* Fewer ticks, fewer admissions. *)
LEMMA ShorterSpan ==
  ASSUME recent \in [0 .. Window - 1 -> Nat], NEW n \in 0 .. Window - 1, NEW m \in -1 .. n
  PROVE  /\ SumFunctionOnSet(recent, 0 .. m) \in Nat
         /\ SumFunctionOnSet(recent, 0 .. n) \in Nat
         /\ SumFunctionOnSet(recent, 0 .. m) <= SumFunctionOnSet(recent, 0 .. n)
<1>1. PICK S : S = 0 .. n
  OBVIOUS
<1>2. PICK T : T = 0 .. m
  OBVIOUS
<1>3. IsFiniteSet(S) /\ IsFiniteSet(T)
  BY <1>1, <1>2, LimitAssumption, FS_Interval
<1>4. T \subseteq S /\ \A x \in S : recent[x] \in Nat
  BY <1>1, <1>2, LimitAssumption
<1>5. SumFunctionOnSet(recent, S) \in Nat /\ SumFunctionOnSet(recent, T) \in Nat
  BY <1>3, <1>4, SumType
<1>6. SumFunctionOnSet(recent, T) <= SumFunctionOnSet(recent, S)
  BY <1>3, <1>4, SumMonotone
<1> QED
  BY <1>1, <1>2, <1>5, <1>6

(* The key's ticks are those of the window, the oldest left out. *)
LEMMA KeyTicksType ==
  ASSUME TypeOK
  PROVE  \E n \in 0 .. Window - 1 :
           KeyTicks = 0 .. n /\ n <= age /\ (n = age \/ (n = Window - 1 /\ age >= Window))
<1>1. age \in 0 .. Window /\ Window \in Nat \ {0}
  BY LimitAssumption DEF TypeOK
<1>2. CASE age < Window
  <2>1. KeyTicks = 0 .. age /\ age \in 0 .. Window - 1 /\ age <= age
    BY <1>1, <1>2 DEF KeyTicks
  <2> QED
    BY <2>1
<1>3. CASE ~(age < Window)
  <2>1. KeyTicks = 0 .. (Window - 1) /\ Window - 1 \in 0 .. Window - 1
        /\ Window - 1 <= age /\ age >= Window
    BY <1>1, <1>3 DEF KeyTicks
  <2> QED
    BY <2>1
<1> QED
  BY <1>2, <1>3

(* Admissions and the clock keep what is admitted within two keys' limits. *)
LEMMA NextTwoKeys == IInv /\ [Next]_vars => WindowMeetsTwoKeys'
<1> SUFFICES ASSUME IInv, [Next]_vars, faults' = 0
             PROVE  WindowMeetsTwoKeys'
  BY DEF WindowMeetsTwoKeys
<1>1. TypeOK /\ TypeOK' /\ KeyIsTimed' /\ CountIsAdmissions'
  BY NextKeyInv DEF IInv
<1>2. faults = 0 /\ faults' = 0
  BY LimitAssumption, <1>1
     DEF Next, Hit, Failure, Clock, HitFirst, HitAdmitted, HitRejected, Expire, IncrFails,
         IncrReplyLost, ExpireFails, Crash, Restart, Tick, TickDeletes, Fault, vars, TypeOK
<1>3. /\ count = 0 => age = 0
      /\ usedPrev <= Limit
      /\ SumFunctionOnSet(recent, KeyTicks) <= used
      /\ SumFunctionOnSet(recent, 0 .. Window - 1) <= used + usedPrev
  BY <1>2 DEF IInv, WindowMeetsTwoKeys
<1>4. used <= Limit
  BY <1>1, <1>2, LimitAssumption DEF IInv, CountIsAdmissions, TypeOK, Over
<1>5. PICK n \in 0 .. Window - 1 :
        KeyTicks = 0 .. n /\ n <= age /\ (n = age \/ (n = Window - 1 /\ age >= Window))
  BY <1>1, KeyTicksType
<1>t. recent \in [0 .. Window - 1 -> Nat] /\ used \in Nat /\ usedPrev \in Nat /\ age \in 0 .. Window
  BY <1>1 DEF TypeOK
<1>6. /\ SumFunctionOnSet(recent, 0 .. n) \in Nat
      /\ SumFunctionOnSet(recent, 0 .. Window - 1) \in Nat
  BY <1>5, <1>t, ShorterSpan, LimitAssumption
<1>7. CASE HitAdmitted \/ Expire
  <2>1. Admit /\ age' = age /\ usedPrev' = usedPrev /\ used' = used + 1
    BY <1>7 DEF HitAdmitted, Expire, Admit
  <2>2. count' # 0
    BY <1>7, <1>1, <1>2, LimitAssumption
       DEF HitAdmitted, Expire, Incremented, Over, IInv, KeyIsTimed, TypeOK
  <2>3. KeyTicks' = 0 .. n
    BY <1>5, <2>1 DEF KeyTicks
  <2>4. SumFunctionOnSet(recent', 0 .. n) = SumFunctionOnSet(recent, 0 .. n) + 1
    BY <1>t, <2>1, AdmitAddsOne
  <2>5. SumFunctionOnSet(recent', 0 .. Window - 1) = SumFunctionOnSet(recent, 0 .. Window - 1) + 1
    BY <1>t, <2>1, AdmitAddsOne, LimitAssumption
  <2>6. SumFunctionOnSet(recent', 0 .. n) <= used'
    BY <1>3, <1>5, <1>6, <1>t, <2>1, <2>4
  <2>7. SumFunctionOnSet(recent', 0 .. Window - 1) <= used' + usedPrev'
    BY <1>3, <1>6, <1>t, <2>1, <2>5
  <2> QED
    BY <1>3, <2>1, <2>2, <2>3, <2>6, <2>7 DEF WindowMeetsTwoKeys
<1>8. CASE HitFirst \/ HitRejected \/ UNCHANGED vars
  <2>1. /\ recent' = recent /\ age' = age /\ used' = used /\ usedPrev' = usedPrev
        /\ count' = 0 => count = 0
    BY <1>8, <1>1, LimitAssumption
       DEF HitFirst, HitRejected, vars, history, Incremented, Over, TypeOK
  <2> QED
    BY <1>3, <2>1 DEF WindowMeetsTwoKeys, KeyTicks
<1>9. CASE Tick
  <2>1. /\ Slide /\ used' = used /\ usedPrev' = usedPrev /\ count' = count
        /\ age' = IF count = 0 \/ age = Window THEN age ELSE age + 1
    BY <1>9 DEF Tick
  <2>2. PICK k \in 0 .. Window - 1 : KeyTicks' = 0 .. k /\ k - 1 \in -1 .. n
    <3>1. CASE age' < Window
      <4>1. KeyTicks' = 0 .. age' /\ age' \in 0 .. Window - 1 /\ age' - 1 \in -1 .. n
        BY <1>5, <1>t, <2>1, <3>1, LimitAssumption DEF KeyTicks
      <4> QED
        BY <4>1
    <3>2. CASE ~(age' < Window)
      <4>1. KeyTicks' = 0 .. (Window - 1) /\ Window - 1 \in 0 .. Window - 1
            /\ (Window - 1) - 1 \in -1 .. n
        BY <1>5, <1>t, <2>1, <3>2, LimitAssumption DEF KeyTicks
      <4> QED
        BY <4>1
    <3> QED
      BY <3>1, <3>2
  <2>3. SumFunctionOnSet(recent', 0 .. k) <= SumFunctionOnSet(recent, 0 .. n)
    BY <1>t, <2>1, <2>2, SlideDropsOne, ShorterSpan
  <2>4. SumFunctionOnSet(recent', 0 .. k) \in Nat
    BY <1>t, <2>1, <2>2, SlideDropsOne, ShorterSpan
  <2>5. /\ SumFunctionOnSet(recent', 0 .. Window - 1) <= SumFunctionOnSet(recent, 0 .. Window - 1)
        /\ SumFunctionOnSet(recent', 0 .. Window - 1) \in Nat
    <3>1. PICK m \in 0 .. Window - 1 : m = Window - 1 /\ m - 1 \in -1 .. m
      BY LimitAssumption
    <3>2. SumFunctionOnSet(recent', 0 .. m) = SumFunctionOnSet(recent, 0 .. (m - 1))
      BY <1>t, <2>1, SlideDropsOne
    <3>3. /\ SumFunctionOnSet(recent, 0 .. (m - 1)) \in Nat
          /\ SumFunctionOnSet(recent, 0 .. (m - 1)) <= SumFunctionOnSet(recent, 0 .. m)
      BY <1>t, <3>1, ShorterSpan
    <3> QED
      BY <3>1, <3>2, <3>3
  <2>6. SumFunctionOnSet(recent', KeyTicks') <= used'
    BY <1>3, <1>5, <1>6, <1>t, <2>1, <2>2, <2>3, <2>4
  <2>7. SumFunctionOnSet(recent', 0 .. Window - 1) <= used' + usedPrev'
    BY <1>3, <1>6, <1>t, <2>1, <2>5
  <2>8. count' = 0 => age' = 0
    BY <1>3, <2>1
  <2> QED
    BY <1>3, <2>1, <2>6, <2>7, <2>8 DEF WindowMeetsTwoKeys
<1>10. CASE TickDeletes
  <2>1. Slide /\ used' = 0 /\ usedPrev' = used /\ count' = 0 /\ age' = 0
    BY <1>10 DEF TickDeletes, NextKey
  <2>2. age >= Window - 1 /\ n = Window - 1
    BY <1>10, <1>1, <1>2, <1>5, LimitAssumption
       DEF TickDeletes, IInv, TypeOK, KeyIsTimed, NoTTL
  <2>3. KeyTicks' = 0 .. 0
    BY <2>1, LimitAssumption DEF KeyTicks
  <2>4. SumFunctionOnSet(recent', 0 .. 0) = 0
    <3>1. PICK m \in 0 .. Window - 1 : m = 0 /\ 0 .. (m - 1) = {}
      BY LimitAssumption
    <3>2. SumFunctionOnSet(recent', 0 .. m) = SumFunctionOnSet(recent, 0 .. (m - 1))
      BY <1>t, <2>1, SlideDropsOne
    <3> QED
      BY <3>1, <3>2, SumEmpty
  <2>5. SumFunctionOnSet(recent', 0 .. n) = SumFunctionOnSet(recent, 0 .. (n - 1))
    BY <1>t, <2>1, SlideDropsOne
  <2>6. SumFunctionOnSet(recent, 0 .. (n - 1)) <= SumFunctionOnSet(recent, 0 .. n)
    <3>1. n - 1 \in -1 .. n
      BY LimitAssumption
    <3> QED
      BY <1>t, <3>1, ShorterSpan
  <2>7. SumFunctionOnSet(recent, 0 .. (n - 1)) \in Nat
    <3>1. n - 1 \in -1 .. n
      BY LimitAssumption
    <3> QED
      BY <1>t, <3>1, ShorterSpan
  <2>8. SumFunctionOnSet(recent', 0 .. Window - 1) <= used' + usedPrev'
    <3>1. SumFunctionOnSet(recent', 0 .. n) <= used
      BY <1>3, <1>5, <1>6, <1>t, <2>5, <2>6, <2>7
    <3> QED
      BY <1>t, <2>1, <2>2, <3>1
  <2>9. SumFunctionOnSet(recent', KeyTicks') <= used'
    BY <2>1, <2>3, <2>4
  <2> QED
    BY <1>4, <2>1, <2>8, <2>9 DEF WindowMeetsTwoKeys
<1>11. CASE Failure
  <2>1. Fault
    BY <1>11 DEF Failure, IncrFails, IncrReplyLost, ExpireFails, Crash, Restart
  <2> QED
    BY <1>2, <2>1 DEF Fault
<1> QED
  BY <1>7, <1>8, <1>9, <1>10, <1>11 DEF Next, Hit, Clock

LEMMA NextIInv == IInv /\ [Next]_vars => IInv'
BY NextKeyInv, NextTwoKeys DEF IInv

(* The inductive invariant holds in every reachable state. *)
THEOREM Invariance == Spec => []IInv
BY InitIInv, NextIInv, PTL DEF Spec

(* The limiter's Redis key and its requests stay in range.                  *)
THEOREM TypeCorrect == Spec => []TypeOK
<1>1. IInv => TypeOK
  BY DEF IInv
<1> QED
  BY <1>1, Invariance, PTL

(* Without failures 429 means that the window's limit is spent, and no more  *)
(* than the limit is ever admitted against one key.                          *)
THEOREM CountExact == Spec => []CountIsAdmissions
<1>1. IInv => CountIsAdmissions
  BY DEF IInv
<1> QED
  BY <1>1, Invariance, PTL

(* The docstring's bound: as long as nothing fails, no span of Window ticks  *)
(* sees more than twice the limit, wherever it lies between two keys and      *)
(* whatever INCRs, EXPIREs and ticks of the clock interleave.                *)
THEOREM AtMostTwice == Spec => []AtMostTwiceLimit
<1>1. IInv => AtMostTwiceLimit
  <2> SUFFICES ASSUME IInv, faults = 0
               PROVE  SumFunctionOnSet(recent, 0 .. Window - 1) <= 2 * Limit
    BY DEF AtMostTwiceLimit
  <2>1. used <= Limit /\ used \in Nat
    BY LimitAssumption DEF IInv, CountIsAdmissions, TypeOK, Over
  <2>2. SumFunctionOnSet(recent, 0 .. Window - 1) \in Nat
    BY ShorterSpan, LimitAssumption DEF IInv, TypeOK
  <2>3. /\ SumFunctionOnSet(recent, 0 .. Window - 1) <= used + usedPrev
        /\ usedPrev <= Limit /\ usedPrev \in Nat
    BY DEF IInv, WindowMeetsTwoKeys, TypeOK
  <2> QED
    BY <2>1, <2>2, <2>3, LimitAssumption
<1> QED
  BY <1>1, Invariance, PTL

(* Without failures a key lasts a window, so that such a span meets two keys *)
(* at most.                                                                  *)
THEOREM KeyLasts == Spec => KeyLastsAWindow
<1>1. ASSUME IInv, Next, count # 0, count' = 0, faults' = 0
      PROVE  age >= Window - 1
  <2>1. CASE Restart
    BY <1>1, <2>1 DEF Restart, Fault, IInv, TypeOK
  <2>2. CASE TickDeletes
    BY <1>1, <2>2, LimitAssumption
       DEF TickDeletes, IInv, TypeOK, KeyIsTimed, NoTTL
  <2>3. CASE Hit \/ IncrReplyLost
    BY <1>1, <2>3, LimitAssumption
       DEF Hit, HitFirst, HitAdmitted, HitRejected, IncrReplyLost,
           Incremented, IInv, TypeOK, Over
  <2>4. CASE Expire \/ IncrFails \/ ExpireFails \/ Crash \/ Tick
    BY <1>1, <2>4 DEF Expire, IncrFails, ExpireFails, Crash, Tick
  <2> QED
    BY <1>1, <2>1, <2>2, <2>3, <2>4 DEF Next, Failure, Clock
<1>2. IInv /\ [Next]_vars
        => [count # 0 /\ count' = 0 /\ faults' = 0 => age >= Window - 1]_vars
  BY <1>1
<1> QED
  BY <1>2, Invariance, PTL DEF Spec, KeyLastsAWindow
=============================================================================
