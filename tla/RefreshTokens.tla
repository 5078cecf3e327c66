--------------------------- MODULE RefreshTokens ---------------------------
(***************************************************************************)
(* The refresh-token sessions of the API (backend/auth/service.py): the    *)
(* rows of table refresh_tokens of one user, and the HTTP requests that    *)
(* log in, rotate and log out.  Two uvicorn workers serve requests          *)
(* concurrently over PostgreSQL at READ COMMITTED, and every await is a     *)
(* point where another request may run, so a handler is a read step         *)
(* followed by a commit step.                                              *)
(*                                                                         *)
(* Row locks need no variable.  An UPDATE that meets a locked row waits     *)
(* for the other transaction to end and then applies: it is a request that  *)
(* has not taken its commit step yet.  What an UPDATE ... WHERE family_id   *)
(* fixes when it starts is the set of rows it sees, and that snapshot is    *)
(* kept in victims between RevokeExec and RevokeCommit.                     *)
(***************************************************************************)
EXTENDS FiniteSets

CONSTANTS
  Tokens,     \* the refresh-token values that can be generated
  Requests,   \* the HTTP requests of a run; each is served once
  NoToken     \* no token: a value that has no row, or the parent of a login

ASSUME NoTokenAssumption == NoToken \notin Tokens

VARIABLES
  issued,     \* tokens with a committed row in refresh_tokens
  family,     \* family_id, named by the login token of the family
  consumed,   \* column consumed
  revoked,    \* column revoked
  expired,    \* tokens whose expires_at has passed
  req,        \* where each request is in its handler, or how it was answered
  arg,        \* the token value each request presented
  child,      \* the refresh token each request was answered with
  victims,    \* the rows a revoking UPDATE saw
  (* History, read by the properties only. *)
  parent,     \* the token each token was rotated from
  racers,     \* requests holding a token's row, read live, when it was consumed
  killed,     \* families a revocation has been committed for
  overlapped  \* rotations that were in flight together with a revocation

columns == <<issued, family, consumed, revoked, expired>>
history == <<parent, racers, killed, overlapped>>
vars == <<columns, req, arg, child, victims, history>>

Running  == {"rotating", "reusing", "revoking", "leaving"}
Answered == {"tokens", "invalid", "reuse", "loggedOut", "failed"}

TypeOK ==
  /\ issued \subseteq Tokens
  /\ family \in [Tokens -> Tokens]
  /\ consumed \subseteq issued
  /\ revoked \subseteq issued
  /\ expired \subseteq issued
  /\ req \in [Requests -> {"idle"} \cup Running \cup Answered]
  /\ arg \in [Requests -> Tokens \cup {NoToken}]
  /\ child \in [Requests -> issued \cup {NoToken}]
  /\ victims \in [Requests -> SUBSET issued]
  /\ parent \in [Tokens -> issued \cup {NoToken}]
  /\ racers \in [Tokens -> SUBSET Requests]
  /\ killed \subseteq issued
  /\ overlapped \subseteq Requests

Init ==
  /\ issued = {} /\ consumed = {} /\ revoked = {} /\ expired = {}
  /\ family = [t \in Tokens |-> t]
  /\ req = [r \in Requests |-> "idle"]
  /\ arg = [r \in Requests |-> NoToken]
  /\ child = [r \in Requests |-> NoToken]
  /\ victims = [r \in Requests |-> {}]
  /\ parent = [t \in Tokens |-> NoToken]
  /\ racers = [t \in Tokens |-> {}]
  /\ killed = {} /\ overlapped = {}

-----------------------------------------------------------------------------
(* The rows of a family, and the requests at work on one. *)
FamilyRows(f) == {t \in issued : family[t] = f}
At(r, stage, f) == req[r] = stage /\ family[arg[r]] = f
Rotating(f) == {r \in Requests : At(r, "rotating", f)}
Revoking(f) == {r \in Requests : At(r, "revoking", f)}

(* Requests that have read the row of t as live and mean to consume it. *)
Holding(t) == {r \in Requests : req[r] \in {"rotating", "leaving"} /\ arg[r] = t}

Goto(r, stage) == req' = [req EXCEPT ![r] = stage]

(* A request arrives with a token value and reaches a stage of its handler. *)
Present(r, t, stage) ==
  /\ req[r] = "idle"
  /\ Goto(r, stage)
  /\ arg' = [arg EXCEPT ![r] = t]

(* rt is None or rt.revoked, then rt.expires_at: the checks before consumed. *)
UsableIfRevoked(t) == t \in issued \ expired
Usable(t) == t \in issued \ (revoked \cup expired)

FreshIfUsable(t) == Usable(t)
Fresh(t) == Usable(t) /\ t \notin consumed

(* _issue_tokens: a password (or second-factor) login starts a new family. *)
Login(r, t) ==
  /\ req[r] = "idle"
  /\ t \notin issued
  /\ issued' = issued \cup {t}
  /\ family' = [family EXCEPT ![t] = t]
  /\ child' = [child EXCEPT ![r] = t]
  /\ Goto(r, "tokens")
  /\ UNCHANGED <<consumed, revoked, expired, arg, victims, history>>

-----------------------------------------------------------------------------
(* rotate_refresh, the SELECT and the branches on the row it returned. *)
RefreshReject(r, t) ==
  /\ ~Usable(t)
  /\ Present(r, t, "invalid")
  /\ UNCHANGED <<columns, child, victims, history>>

RefreshReuse(r, t) ==
  /\ Usable(t)
  /\ t \in consumed
  /\ Present(r, t, "reusing")
  /\ UNCHANGED <<columns, child, victims, history>>

RefreshAccept(r, t) ==
  /\ Fresh(t)
  /\ Present(r, t, "rotating")
  /\ overlapped' = overlapped \cup {x \in {r} : Revoking(family[t]) # {}}
  /\ UNCHANGED <<columns, child, victims, parent, racers, killed>>

(* The first commit that consumes a token records who else was holding it. *)
ConsumeForgotten(t) ==
  /\ UNCHANGED consumed
  /\ racers' = [racers EXCEPT ![t] = Holding(t)]

Consume(t) ==
  /\ consumed' = consumed \cup {t}
  /\ racers' = [racers EXCEPT ![t] = IF t \in consumed THEN @ ELSE Holding(t)]

(* rt.consumed = True and the INSERT of the child commit together.  The      *)
(* UPDATE is by primary key: it does not look at consumed or revoked again.  *)
RotateCommit(r, c) ==
  /\ req[r] = "rotating"
  /\ c \notin issued
  /\ Consume(arg[r])
  /\ issued' = issued \cup {c}
  /\ family' = [family EXCEPT ![c] = family[arg[r]]]
  /\ parent' = [parent EXCEPT ![c] = arg[r]]
  /\ child' = [child EXCEPT ![r] = c]
  /\ Goto(r, "tokens")
  /\ UNCHANGED <<revoked, expired, arg, victims, killed, overlapped>>

(* UPDATE refresh_tokens SET revoked WHERE family_id = rt.family_id: the     *)
(* statement runs over the rows committed when it starts.                    *)
DoomedRowOnly(t) == {t}
Doomed(t) == FamilyRows(family[t])

RevokeExec(r) ==
  /\ req[r] = "reusing"
  /\ victims' = [victims EXCEPT ![r] = Doomed(arg[r])]
  /\ overlapped' = overlapped \cup Rotating(family[arg[r]])
  /\ Goto(r, "revoking")
  /\ UNCHANGED <<columns, arg, child, parent, racers, killed>>

(* db.commit(), then the SECURITY_EVENT answer. *)
RevokeCommit(r) ==
  /\ req[r] = "revoking"
  /\ revoked' = revoked \cup victims[r]
  /\ killed' = killed \cup {family[arg[r]]}
  /\ Goto(r, "reuse")
  /\ UNCHANGED <<issued, family, consumed, expired, arg, child, victims,
                 parent, racers, overlapped>>

-----------------------------------------------------------------------------
(* logout_user: a token that is unknown, consumed or revoked is ignored and  *)
(* still answered 204; an expired one is consumed like a live one.           *)
Live(t) == t \in issued \ (consumed \cup revoked)

LogoutIgnore(r, t) ==
  /\ ~Live(t)
  /\ Present(r, t, "loggedOut")
  /\ UNCHANGED <<columns, child, victims, history>>

LogoutRead(r, t) ==
  /\ Live(t)
  /\ Present(r, t, "leaving")
  /\ UNCHANGED <<columns, child, victims, history>>

LogoutCommit(r) ==
  /\ req[r] = "leaving"
  /\ Consume(arg[r])
  /\ Goto(r, "loggedOut")
  /\ UNCHANGED <<issued, family, revoked, expired, arg, child, victims,
                 parent, killed, overlapped>>

-----------------------------------------------------------------------------
(* A worker dies, or the database refuses the transaction: what the request  *)
(* had not committed is rolled back.                                         *)
Fail(r) ==
  /\ req[r] \in Running
  /\ Goto(r, "failed")
  /\ UNCHANGED <<columns, arg, child, victims, history>>

(* The lifetime is the same for every token, so a token outlives the one it  *)
(* was rotated from.                                                         *)
Expire(t) ==
  /\ t \in issued \ expired
  /\ parent[t] \in expired \cup {NoToken}
  /\ expired' = expired \cup {t}
  /\ UNCHANGED <<issued, family, consumed, revoked, req, arg, child, victims,
                 history>>

(* What a running request does next. *)
Continue(r) ==
  \/ \E c \in Tokens : RotateCommit(r, c)
  \/ RevokeExec(r)
  \/ RevokeCommit(r)
  \/ LogoutCommit(r)

Arrive(r) ==
  \/ \E t \in Tokens : Login(r, t)
  \/ \E t \in issued \cup {NoToken} :
       \/ RefreshReject(r, t) \/ RefreshReuse(r, t) \/ RefreshAccept(r, t)
       \/ LogoutIgnore(r, t) \/ LogoutRead(r, t)

Next ==
  \/ \E r \in Requests : Arrive(r) \/ Continue(r) \/ Fail(r)
  \/ \E t \in Tokens : Expire(t)

Spec == Init /\ [][Next]_vars

(* A request a worker has started is driven to its end by the event loop;    *)
(* nobody is bound to send one.                                              *)
FairSpec == Spec /\ \A r \in Requests : WF_vars(Continue(r))

-----------------------------------------------------------------------------
(* A token is exchanged again after it was consumed only by a request that   *)
(* had already read its row as live at that moment: the window between the   *)
(* SELECT and the commit of rotate_refresh is the only way to fork a family. *)
ForkOnlyByOverlap ==
  \A r \in Requests :
    child[r] # NoToken /\ parent[child[r]] # NoToken =>
      r \in racers[parent[child[r]]]

(* A family in which no two requests ever raced for the same row is a chain: *)
(* at most one of its tokens can still be exchanged.                         *)
Raced(t) == \E r, s \in racers[t] : r # s

LinearUnlessRaced ==
  \A t, u \in issued \ consumed :
    family[t] = family[u] /\ t # u => \E p \in FamilyRows(family[t]) : Raced(p)

(* Reuse detection revokes every token the family has or will ever have,     *)
(* unless a rotation of that family was in flight during the revocation.     *)
RevocationTotalUnlessOverlapped ==
  \A f \in killed :
    (\A r \in overlapped : family[arg[r]] # f) => FamilyRows(f) \subseteq revoked

(* A family whose every token is revoked and that no request is rotating     *)
(* never yields a usable token again.                                        *)
Dead(f) ==
  /\ f \in issued
  /\ FamilyRows(f) \subseteq revoked
  /\ Rotating(f) = {}

DeadFamilyStaysDead == [][\A f \in Tokens : Dead(f) => Dead(f)']_vars

(* Once a consumed token has been presented again, every token its family    *)
(* has at that moment ends up revoked, unless a request of the family dies.  *)
ReuseLeadsToRevocation ==
  \A t \in Tokens :
    (\E r \in Requests : At(r, "reusing", family[t]) /\ t \in issued)
      ~> (t \in revoked \/ \E r \in Requests : At(r, "failed", family[t]))

(* The answer of the reuse branch, service.py 108: "All sessions revoked."   *)
AllSessionsRevoked ==
  [][\A r \in Requests :
       req[r] # "reuse" /\ req'[r] = "reuse" => issued \subseteq revoked']_vars

-----------------------------------------------------------------------------
(* The inductive strengthening: what every step preserves and the invariants *)
(* above follow from.                                                        *)

(* A running request presented a row; an answered rotation, a row it spent.  *)
RequestsHaveRows ==
  \A r \in Requests :
    /\ req[r] \in Running => arg[r] \in issued
    /\ r \in overlapped => arg[r] \in issued /\ req[r] # "idle"
    /\ child[r] # NoToken => req[r] = "tokens"
    /\ child[r] # NoToken /\ parent[child[r]] # NoToken =>
         r \in racers[parent[child[r]]]

(* Families are closed under rotation and rooted in a login; only a consumed *)
(* row has racers.                                                           *)
Lineage ==
  /\ \A t \in issued : family[t] \in issued
  /\ \A t \in Tokens \ issued : parent[t] = NoToken
  /\ \A t \in Tokens \ consumed : racers[t] = {}

(* Whoever still holds a consumed row is one of its racers, and the request  *)
(* that consumed it is one that no longer runs.                              *)
RacersOfConsumed ==
  \A t \in consumed :
    /\ Holding(t) \subseteq racers[t]
    /\ racers[t] \ Holding(t) # {}

(* While a revocation is open its snapshot misses rows only if a rotation    *)
(* overlaps it, and every rotation of a revoked or doomed row does.          *)
FamilyOverlapped(f) == \E r \in overlapped : family[arg[r]] = f

OpenRevocations ==
  /\ \A v \in Requests : req[v] = "revoking" =>
       LET f == family[arg[v]] IN
         /\ victims[v] \subseteq FamilyRows(f)
         /\ FamilyOverlapped(f) \/ FamilyRows(f) \subseteq victims[v]
         /\ Rotating(f) \subseteq overlapped
  /\ \A r \in Requests :
       req[r] = "rotating" /\ arg[r] \in revoked => r \in overlapped

IInv ==
  /\ TypeOK
  /\ RequestsHaveRows
  /\ Lineage
  /\ RacersOfConsumed
  /\ LinearUnlessRaced
  /\ OpenRevocations
  /\ RevocationTotalUnlessOverlapped

-----------------------------------------------------------------------------
(* The sessions these rows implement.  A session is crossed when two         *)
(* requests raced for one of its rows or a rotation overlapped a revocation. *)
FamilyCrossed(f) ==
  \/ \E p \in FamilyRows(f) : Raced(p)
  \/ FamilyOverlapped(f)

LiveRows(f) == FamilyRows(f) \ (consumed \cup revoked)

Session == INSTANCE Sessions WITH
  seen <- issued,
  live <- [f \in Tokens |-> LiveRows(f)],
  crossed <- {f \in Tokens : FamilyCrossed(f)}

(* The endpoints keep the promise of Sessions: as long as no two requests    *)
(* cross in it, a session has one refresh token at a time, each refresh       *)
(* replaces it by a new one, and a closed session is not opened again.       *)
ImplementsSessions == Session!Spec
=============================================================================
