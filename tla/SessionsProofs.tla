-------------------------- MODULE SessionsProofs ---------------------------
(***************************************************************************)
(* Theorems about the sessions: the server's rows (RefreshTokens), the       *)
(* sessions they implement (Sessions) and the browser that holds one         *)
(* (BrowserSession), for any sets of tokens, requests and tabs and any       *)
(* number of calls that break.                                              *)
(***************************************************************************)
EXTENDS BrowserSession, TLAPS

(* Every step leaves the rows, the requests and the history well formed.    *)
LEMMA TypeStep == IInv /\ [Next]_vars => TypeOK'
<1> SUFFICES ASSUME TypeOK, RequestsHaveRows, Lineage, [Next]_vars
             PROVE  TypeOK'
  BY DEF IInv
<1> USE DEF TypeOK, columns, history, Goto, Present, Usable, Live,
            Running, Answered
<1>1. ASSUME NEW r \in Requests, NEW t \in Tokens, Login(r, t)
      PROVE  TypeOK'
  BY <1>1 DEF Login
<1>2. ASSUME NEW r \in Requests, NEW t \in issued \cup {NoToken},
             \/ RefreshReject(r, t) \/ RefreshReuse(r, t)
             \/ LogoutIgnore(r, t) \/ LogoutRead(r, t)
      PROVE  TypeOK'
  BY <1>2 DEF RefreshReject, RefreshReuse, LogoutIgnore, LogoutRead
<1>3. ASSUME NEW r \in Requests, NEW t \in issued \cup {NoToken},
             RefreshAccept(r, t)
      PROVE  TypeOK'
  BY <1>3 DEF RefreshAccept, Fresh
<1>4. ASSUME NEW r \in Requests, NEW c \in Tokens, RotateCommit(r, c)
      PROVE  TypeOK'
  <2>1. arg[r] \in issued
    BY <1>4 DEF RotateCommit, RequestsHaveRows
  <2>2. Holding(arg[r]) \subseteq Requests
    BY DEF Holding
  <2>3. racers' \in [Tokens -> SUBSET Requests]
    BY <1>4, <2>1, <2>2 DEF RotateCommit, Consume
  <2>4. consumed' \subseteq issued'
    BY <1>4, <2>1 DEF RotateCommit, Consume
  <2>5. parent' \in [Tokens -> issued' \cup {NoToken}]
    BY <1>4, <2>1 DEF RotateCommit
  <2>6. child' \in [Requests -> issued' \cup {NoToken}]
    BY <1>4 DEF RotateCommit
  <2>7. family' \in [Tokens -> Tokens]
    BY <1>4, <2>1 DEF RotateCommit
  <2> QED
    BY <1>4, <2>3, <2>4, <2>5, <2>6, <2>7 DEF RotateCommit
<1>5. ASSUME NEW r \in Requests, RevokeExec(r)
      PROVE  TypeOK'
  BY <1>5 DEF RevokeExec, Doomed, FamilyRows, Rotating
<1>6. ASSUME NEW r \in Requests, RevokeCommit(r)
      PROVE  TypeOK'
  <2>1. family[arg[r]] \in issued
    BY <1>6 DEF RevokeCommit, RequestsHaveRows, Lineage
  <2> QED
    BY <1>6, <2>1 DEF RevokeCommit
<1>7. ASSUME NEW r \in Requests, LogoutCommit(r)
      PROVE  TypeOK'
  <2>1. arg[r] \in issued
    BY <1>7 DEF LogoutCommit, RequestsHaveRows
  <2>2. Holding(arg[r]) \subseteq Requests
    BY DEF Holding
  <2>3. racers' \in [Tokens -> SUBSET Requests]
    BY <1>7, <2>1, <2>2 DEF LogoutCommit, Consume
  <2> QED
    BY <1>7, <2>1, <2>3 DEF LogoutCommit, Consume
<1>8. ASSUME NEW r \in Requests, Fail(r)
      PROVE  TypeOK'
  BY <1>8 DEF Fail
<1>9. ASSUME NEW t \in Tokens, Expire(t)
      PROVE  TypeOK'
  BY <1>9 DEF Expire
<1>10. CASE UNCHANGED vars
  BY <1>10 DEF vars
<1> QED
  BY <1>1, <1>2, <1>3, <1>4, <1>5, <1>6, <1>7, <1>8, <1>9, <1>10
     DEF Next, Arrive, Continue

(* A login roots a new family and touches no other.                         *)
LEMMA LoginStep ==
  ASSUME IInv, NEW r \in Requests, NEW t \in Tokens, Login(r, t)
  PROVE  IInv'
<1> USE DEF IInv, Login, Goto, history
<1>0. TypeOK /\ TypeOK'
  BY TypeStep DEF Next, Arrive
<1>1. RequestsHaveRows'
  BY <1>0 DEF TypeOK, RequestsHaveRows, Running, Lineage
<1>2. Lineage'
  BY <1>0 DEF TypeOK, Lineage
<1>3. RacersOfConsumed'
  BY <1>0 DEF TypeOK, RacersOfConsumed, Holding
<1>4. LinearUnlessRaced'
  BY <1>0 DEF TypeOK, LinearUnlessRaced, Raced, FamilyRows, Lineage
<1>5. OpenRevocations'
  BY <1>0 DEF TypeOK, OpenRevocations, FamilyOverlapped, FamilyRows,
              Rotating, At, Lineage, RequestsHaveRows, Running
<1>6. RevocationTotalUnlessOverlapped'
  BY <1>0 DEF TypeOK, RevocationTotalUnlessOverlapped, FamilyRows, Lineage,
              RequestsHaveRows
<1> QED
  BY <1>0, <1>1, <1>2, <1>3, <1>4, <1>5, <1>6

(* A step that only moves one request, and not into "rotating" or           *)
(* "revoking", leaves every part of the invariant alone.                    *)
LEMMA QuietStep ==
  ASSUME IInv, [Next]_vars, NEW r \in Requests,
         UNCHANGED <<issued, family, consumed, revoked, child, victims, history>>,
         req' = [req EXCEPT ![r] = req'[r]], arg' = [arg EXCEPT ![r] = arg'[r]],
         req[r] # "tokens",
         req'[r] \notin {"idle", "rotating", "revoking"},
         req'[r] \in Running => arg'[r] \in issued,
         req'[r] = "leaving" => arg'[r] \notin consumed,
         req[r] = "idle" \/ arg'[r] = arg[r]
  PROVE  IInv'
<1> USE DEF IInv, history
<1>0. TypeOK /\ TypeOK'
  BY TypeStep
<1>1. RequestsHaveRows'
  BY <1>0 DEF TypeOK, RequestsHaveRows, Running
<1>2. Lineage'
  BY <1>0 DEF TypeOK, Lineage
<1>3. RacersOfConsumed'
  BY <1>0 DEF TypeOK, RacersOfConsumed, Holding
<1>4. LinearUnlessRaced'
  BY DEF LinearUnlessRaced, Raced, FamilyRows
<1>5. OpenRevocations'
  BY <1>0 DEF TypeOK, OpenRevocations, FamilyOverlapped, FamilyRows,
              Rotating, At, RequestsHaveRows, Running
<1>6. RevocationTotalUnlessOverlapped'
  BY <1>0 DEF TypeOK, RevocationTotalUnlessOverlapped, FamilyRows,
              RequestsHaveRows
<1> QED
  BY <1>0, <1>1, <1>2, <1>3, <1>4, <1>5, <1>6

(* A refresh accepted while its family is being revoked counts as overlapped. *)
LEMMA AcceptStep ==
  ASSUME IInv, NEW r \in Requests, NEW t \in issued, RefreshAccept(r, t)
  PROVE  IInv'
<1> USE DEF IInv, RefreshAccept, Fresh, Present, Goto, Usable, columns
<1>0. TypeOK /\ TypeOK'
  BY TypeStep DEF Next, Arrive
<1>1. RequestsHaveRows'
  BY <1>0 DEF TypeOK, RequestsHaveRows, Running
<1>2. Lineage'
  BY <1>0 DEF TypeOK, Lineage
<1>3. RacersOfConsumed'
  BY <1>0 DEF TypeOK, RacersOfConsumed, Holding
<1>4. LinearUnlessRaced'
  BY DEF LinearUnlessRaced, Raced, FamilyRows
<1>5. OpenRevocations'
  BY <1>0 DEF TypeOK, OpenRevocations, FamilyOverlapped, FamilyRows,
              Rotating, Revoking, At, RequestsHaveRows, Running
<1>6. RevocationTotalUnlessOverlapped'
  BY <1>0 DEF TypeOK, RevocationTotalUnlessOverlapped, FamilyRows,
              RequestsHaveRows
<1> QED
  BY <1>0, <1>1, <1>2, <1>3, <1>4, <1>5, <1>6

(* A rotation spends the row it read and adds its child.  If the row was     *)
(* spent already, the rotation and the request that spent it are two racers; *)
(* if the row is revoked already, the rotation is an overlapped one.         *)
LEMMA RotateStep ==
  ASSUME IInv, NEW r \in Requests, NEW c \in Tokens, RotateCommit(r, c)
  PROVE  IInv'
<1> DEFINE p == arg[r]
<1> USE DEF IInv
<1>0. TypeOK /\ TypeOK'
  BY TypeStep DEF Next, Continue
<1>a. p \in issued /\ c # p /\ req[r] = "rotating" /\ c \notin issued
  BY DEF RotateCommit, RequestsHaveRows, Running
<1>b. p \in consumed => r \in racers[p] /\ Raced(p)
  BY <1>0, <1>a DEF TypeOK, RacersOfConsumed, Holding, Raced
<1>c. r \in racers'[p] /\ racers[p] \subseteq racers'[p]
  BY <1>0, <1>a, <1>b DEF TypeOK, RotateCommit, Consume, Holding, Lineage
<1>d. \A t \in Tokens : t # p => racers'[t] = racers[t]
  BY <1>0, <1>a DEF TypeOK, RotateCommit, Consume
<1>e. p \notin consumed => racers'[p] = Holding(p)
  BY <1>0, <1>a DEF TypeOK, RotateCommit, Consume
<1> USE DEF RotateCommit, Goto
<1>1. RequestsHaveRows'
  BY <1>0, <1>a, <1>c, <1>d DEF TypeOK, RequestsHaveRows, Running
<1>2. Lineage'
  BY <1>0, <1>a, <1>d DEF TypeOK, Lineage, Consume
<1>3. RacersOfConsumed'
  BY <1>0, <1>a, <1>b, <1>c, <1>d, <1>e
     DEF TypeOK, RacersOfConsumed, Holding, Consume
<1>4. LinearUnlessRaced'
  <2> SUFFICES ASSUME NEW t \in issued' \ consumed', NEW u \in issued' \ consumed',
                      family'[t] = family'[u], t # u
               PROVE  \E q \in FamilyRows(family[t])' : Raced(q)'
    BY DEF LinearUnlessRaced
  <2>1. \A x \in issued : family'[x] = family[x] /\ (Raced(x) => Raced(x)')
    BY <1>0, <1>a, <1>c, <1>d DEF TypeOK, Raced
  <2>2. family'[c] = family[p]
    BY <1>0, <1>a DEF TypeOK
  <2>3. CASE t # c /\ u # c
    BY <1>0, <2>1, <2>3 DEF TypeOK, LinearUnlessRaced, FamilyRows, Consume
  <2>4. CASE t = c \/ u = c
    <3>1. PICK x \in issued \ consumed : x # p /\ family[x] = family[p]
                                        /\ family'[t] = family[p]
      BY <1>0, <1>a, <2>1, <2>2, <2>4 DEF TypeOK, Consume
    <3>2. \E q \in FamilyRows(family[p]) : Raced(q)
      BY <1>0, <1>a, <1>b, <3>1 DEF TypeOK, LinearUnlessRaced, FamilyRows
    <3> QED
      BY <1>0, <2>1, <3>1, <3>2 DEF TypeOK, FamilyRows
  <2> QED
    BY <2>3, <2>4
<1>5. OpenRevocations'
  <2>1. \A x \in issued : family'[x] = family[x]
    BY <1>0, <1>a DEF TypeOK
  <2>2. ASSUME NEW v \in Requests, req'[v] = "revoking",
               NEW f \in Tokens, f = family'[arg[v]]
        PROVE  /\ victims[v] \subseteq FamilyRows(f)'
               /\ FamilyOverlapped(f)' \/ FamilyRows(f)' \subseteq victims[v]
               /\ Rotating(f)' \subseteq overlapped
    <3>1. v # r /\ req[v] = "revoking" /\ arg[v] \in issued /\ f = family[arg[v]]
      BY <1>0, <2>1, <2>2 DEF TypeOK, RequestsHaveRows, Running
    <3>2. /\ victims[v] \subseteq FamilyRows(f)
          /\ FamilyOverlapped(f) \/ FamilyRows(f) \subseteq victims[v]
          /\ Rotating(f) \subseteq overlapped
      BY <3>1 DEF OpenRevocations
    <3>3. Rotating(f)' \subseteq Rotating(f)
      BY <1>0, <2>1 DEF TypeOK, Rotating, At, RequestsHaveRows, Running
    <3>4. FamilyRows(f) \subseteq FamilyRows(f)'
      BY <2>1 DEF FamilyRows
    <3>5. FamilyOverlapped(f) => FamilyOverlapped(f)'
      BY <1>0, <2>1 DEF TypeOK, FamilyOverlapped, RequestsHaveRows
    <3>6. CASE family[p] = f
      <4>1. r \in Rotating(f)
        BY <1>a, <3>6 DEF Rotating, At
      <4> QED
        BY <1>0, <1>a, <3>1, <3>2, <3>3, <3>4, <3>6, <4>1, <2>1
           DEF FamilyOverlapped
    <3>7. CASE family[p] # f
      <4>1. FamilyRows(f)' \subseteq FamilyRows(f)
        BY <1>0, <1>a, <2>1, <3>7 DEF TypeOK, FamilyRows
      <4> QED
        BY <3>1, <3>2, <3>3, <3>4, <3>5, <4>1
    <3> QED
      BY <3>6, <3>7
  <2>3. \A x \in Requests :
          req'[x] = "rotating" /\ arg[x] \in revoked => x \in overlapped
    BY <1>0 DEF TypeOK, OpenRevocations
  <2>4. \A v \in Requests : req'[v] = "revoking" => family'[arg[v]] \in Tokens
    BY <1>0, <2>1 DEF TypeOK, RequestsHaveRows, Running
  <2> QED
    BY <2>2, <2>3, <2>4 DEF OpenRevocations
<1>6. RevocationTotalUnlessOverlapped'
  <2> SUFFICES ASSUME NEW f \in killed,
                      \A x \in overlapped : family'[arg[x]] # f
               PROVE  FamilyRows(f)' \subseteq revoked
    BY DEF RevocationTotalUnlessOverlapped
  <2>1. \A x \in issued : family'[x] = family[x]
    BY <1>0, <1>a DEF TypeOK
  <2>2. FamilyRows(f) \subseteq revoked
    BY <1>0, <2>1 DEF TypeOK, RevocationTotalUnlessOverlapped, RequestsHaveRows
  <2>3. family[p] # f
    BY <1>a, <2>1, <2>2 DEF FamilyRows, OpenRevocations
  <2> QED
    BY <1>0, <1>a, <2>1, <2>2, <2>3 DEF TypeOK, FamilyRows
<1> QED
  BY <1>0, <1>1, <1>2, <1>3, <1>4, <1>5, <1>6

(* The revoking UPDATE takes its snapshot: every row of the family, and the  *)
(* rotations then in flight become overlapped.                               *)
LEMMA RevokeExecStep ==
  ASSUME IInv, NEW r \in Requests, RevokeExec(r)
  PROVE  IInv'
<1> USE DEF IInv, RevokeExec, Doomed, Goto, columns
<1>0. TypeOK /\ TypeOK'
  BY TypeStep DEF Next, Continue
<1>1. RequestsHaveRows'
  BY <1>0 DEF TypeOK, RequestsHaveRows, Running, Rotating, At
<1>2. Lineage'
  BY <1>0 DEF TypeOK, Lineage
<1>3. RacersOfConsumed'
  BY <1>0 DEF TypeOK, RacersOfConsumed, Holding
<1>4. LinearUnlessRaced'
  BY DEF LinearUnlessRaced, Raced, FamilyRows
<1>5. OpenRevocations'
  BY <1>0 DEF TypeOK, OpenRevocations, FamilyOverlapped, FamilyRows,
              Rotating, At, RequestsHaveRows, Running
<1>6. RevocationTotalUnlessOverlapped'
  BY <1>0 DEF TypeOK, RevocationTotalUnlessOverlapped, FamilyRows,
              RequestsHaveRows
<1> QED
  BY <1>0, <1>1, <1>2, <1>3, <1>4, <1>5, <1>6

(* The revocation commits: its snapshot covers the family, or a rotation     *)
(* overlapped it.                                                            *)
LEMMA RevokeCommitStep ==
  ASSUME IInv, NEW r \in Requests, RevokeCommit(r)
  PROVE  IInv'
<1> USE DEF IInv, RevokeCommit, Goto
<1>0. TypeOK /\ TypeOK'
  BY TypeStep DEF Next, Continue
<1>1. RequestsHaveRows'
  BY <1>0 DEF TypeOK, RequestsHaveRows, Running
<1>2. Lineage'
  BY <1>0 DEF TypeOK, Lineage
<1>3. RacersOfConsumed'
  BY <1>0 DEF TypeOK, RacersOfConsumed, Holding
<1>4. LinearUnlessRaced'
  BY DEF LinearUnlessRaced, Raced, FamilyRows
<1>5. OpenRevocations'
  BY <1>0 DEF TypeOK, OpenRevocations, FamilyOverlapped, FamilyRows,
              Rotating, At, RequestsHaveRows, Running
<1>6. RevocationTotalUnlessOverlapped'
  BY <1>0 DEF TypeOK, RevocationTotalUnlessOverlapped, FamilyRows,
              RequestsHaveRows, OpenRevocations, FamilyOverlapped
<1> QED
  BY <1>0, <1>1, <1>2, <1>3, <1>4, <1>5, <1>6

(* A logout spends the row it read and adds nothing.                         *)
LEMMA LogoutStep ==
  ASSUME IInv, NEW r \in Requests, LogoutCommit(r)
  PROVE  IInv'
<1> DEFINE p == arg[r]
<1> USE DEF IInv
<1>0. TypeOK /\ TypeOK'
  BY TypeStep DEF Next, Continue
<1>a. p \in issued /\ req[r] = "leaving"
  BY DEF LogoutCommit, RequestsHaveRows, Running
<1>b. r \in racers'[p] /\ racers[p] \subseteq racers'[p]
  BY <1>0, <1>a
     DEF TypeOK, LogoutCommit, Consume, Holding, Lineage, RacersOfConsumed
<1>c. \A t \in Tokens : t # p => racers'[t] = racers[t]
  BY <1>0, <1>a DEF TypeOK, LogoutCommit, Consume
<1>d. p \notin consumed => racers'[p] = Holding(p)
  BY <1>0, <1>a DEF TypeOK, LogoutCommit, Consume
<1> USE DEF LogoutCommit, Goto
<1>1. RequestsHaveRows'
  BY <1>0, <1>a, <1>b, <1>c DEF TypeOK, RequestsHaveRows, Running
<1>2. Lineage'
  BY <1>0, <1>a, <1>c DEF TypeOK, Lineage, Consume
<1>3. RacersOfConsumed'
  BY <1>0, <1>a, <1>b, <1>c, <1>d
     DEF TypeOK, RacersOfConsumed, Holding, Consume
<1>4. LinearUnlessRaced'
  BY <1>0, <1>a, <1>b, <1>c
     DEF TypeOK, LinearUnlessRaced, Raced, FamilyRows, Consume
<1>5. OpenRevocations'
  BY <1>0, <1>a DEF TypeOK, OpenRevocations, FamilyOverlapped, FamilyRows,
                    Rotating, At, RequestsHaveRows, Running
<1>6. RevocationTotalUnlessOverlapped'
  BY <1>0 DEF TypeOK, RevocationTotalUnlessOverlapped, FamilyRows
<1> QED
  BY <1>0, <1>1, <1>2, <1>3, <1>4, <1>5, <1>6

-----------------------------------------------------------------------------
LEMMA InitIInv == Init => IInv
BY NoTokenAssumption
   DEF Init, IInv, TypeOK, RequestsHaveRows, Lineage, RacersOfConsumed,
       LinearUnlessRaced, OpenRevocations, RevocationTotalUnlessOverlapped,
       Running, Answered

LEMMA NextIInv == IInv /\ [Next]_vars => IInv'
<1> SUFFICES ASSUME IInv, [Next]_vars
             PROVE  IInv'
  OBVIOUS
<1>0. TypeOK
  BY DEF IInv
<1>1. ASSUME NEW r \in Requests, NEW t \in Tokens, Login(r, t)
      PROVE  IInv'
  BY <1>1, LoginStep
<1>2. ASSUME NEW r \in Requests, NEW t \in issued \cup {NoToken},
             \/ RefreshReject(r, t) \/ RefreshReuse(r, t)
             \/ LogoutIgnore(r, t) \/ LogoutRead(r, t)
      PROVE  IInv'
  <2> USE DEF RefreshReject, RefreshReuse, LogoutIgnore, LogoutRead, Present,
              Goto, columns, Usable, Live, Running
  <2>1. UNCHANGED <<issued, family, consumed, revoked, child, victims, history>>
    BY <1>2
  <2>2. /\ req[r] = "idle" /\ arg'[r] = t
        /\ req'[r] \in {"invalid", "reusing", "loggedOut", "leaving"}
    BY <1>0, <1>2 DEF TypeOK
  <2>3. /\ req' = [req EXCEPT ![r] = req'[r]]
        /\ arg' = [arg EXCEPT ![r] = arg'[r]]
    BY <1>0, <1>2 DEF TypeOK
  <2>4. /\ req'[r] \in Running => t \in issued
        /\ req'[r] = "leaving" => t \notin consumed
    BY <1>0, <1>2 DEF TypeOK
  <2> QED
    BY <2>1, <2>2, <2>3, <2>4, QuietStep
<1>3. ASSUME NEW r \in Requests, NEW t \in issued \cup {NoToken},
             RefreshAccept(r, t)
      PROVE  IInv'
  BY <1>3, AcceptStep DEF RefreshAccept, Fresh, Usable
<1>4. ASSUME NEW r \in Requests, NEW c \in Tokens, RotateCommit(r, c)
      PROVE  IInv'
  BY <1>4, RotateStep
<1>5. ASSUME NEW r \in Requests, RevokeExec(r)
      PROVE  IInv'
  BY <1>5, RevokeExecStep
<1>6. ASSUME NEW r \in Requests, RevokeCommit(r)
      PROVE  IInv'
  BY <1>6, RevokeCommitStep
<1>7. ASSUME NEW r \in Requests, LogoutCommit(r)
      PROVE  IInv'
  BY <1>7, LogoutStep
<1>8. ASSUME NEW r \in Requests, Fail(r)
      PROVE  IInv'
  <2>1. req'[r] = "failed" /\ arg' = [arg EXCEPT ![r] = arg'[r]]
    BY <1>0, <1>8 DEF Fail, Goto, TypeOK
  <2> QED
    BY <1>8, <2>1, QuietStep DEF Fail, Goto, columns, Running
<1>9. ASSUME NEW t \in Tokens, Expire(t)
      PROVE  IInv'
  BY <1>9, TypeStep
     DEF Expire, history, IInv, RequestsHaveRows, Lineage, RacersOfConsumed,
         Holding, LinearUnlessRaced, Raced, FamilyRows, OpenRevocations,
         FamilyOverlapped, Rotating, At, RevocationTotalUnlessOverlapped
<1>10. CASE UNCHANGED vars
  BY <1>10, TypeStep
     DEF vars, columns, history, IInv, RequestsHaveRows, Lineage,
         RacersOfConsumed, Holding, LinearUnlessRaced, Raced, FamilyRows,
         OpenRevocations, FamilyOverlapped, Rotating, At,
         RevocationTotalUnlessOverlapped
<1> QED
  BY <1>1, <1>2, <1>3, <1>4, <1>5, <1>6, <1>7, <1>8, <1>9, <1>10
     DEF Next, Arrive, Continue

(* The inductive invariant holds in every reachable state.                   *)
THEOREM Invariance == Spec => []IInv
BY InitIInv, NextIInv, PTL DEF Spec

(* Rows, requests and history are well formed: the consumed and revoked      *)
(* flags are on issued rows, and no request is answered with a token that    *)
(* was not committed.                                                        *)
THEOREM TypeCorrect == Spec => []TypeOK
<1>1. IInv => TypeOK
  BY DEF IInv
<1> QED
  BY <1>1, Invariance, PTL

(* The window between the SELECT and the commit of rotate_refresh is the     *)
(* only way to exchange a token twice.                                       *)
THEOREM ForksOverlap == Spec => []ForkOnlyByOverlap
<1>1. IInv => ForkOnlyByOverlap
  BY DEF IInv, RequestsHaveRows, ForkOnlyByOverlap
<1> QED
  BY <1>1, Invariance, PTL

(* Without a race on one of its rows a family has one exchangeable token.    *)
THEOREM Linearity == Spec => []LinearUnlessRaced
<1>1. IInv => LinearUnlessRaced
  BY DEF IInv
<1> QED
  BY <1>1, Invariance, PTL

(* Without an overlapping rotation, reuse detection leaves no token of the   *)
(* family unrevoked, now or later.                                           *)
THEOREM RevocationTotal == Spec => []RevocationTotalUnlessOverlapped
<1>1. IInv => RevocationTotalUnlessOverlapped
  BY DEF IInv
<1> QED
  BY <1>1, Invariance, PTL

(* A wholly revoked family with no rotation in flight stays that way: none   *)
(* of rotate_refresh, login and logout can bring it back.                    *)
THEOREM DeadStaysDead == Spec => DeadFamilyStaysDead
<1>1. ASSUME IInv, [Next]_vars, NEW f \in Tokens, Dead(f)
      PROVE  Dead(f)'
  <2> USE DEF Dead
  <2>0. TypeOK /\ TypeOK'
    BY <1>1, TypeStep DEF IInv
  <2>1. ASSUME NEW r \in Requests, NEW t \in Tokens, Login(r, t)
        PROVE  Dead(f)'
    BY <1>1, <2>0, <2>1
       DEF Login, TypeOK, FamilyRows, Rotating, At, IInv, RequestsHaveRows,
           Running, Goto
  <2>2. ASSUME NEW r \in Requests, NEW t \in issued \cup {NoToken},
               RefreshAccept(r, t)
        PROVE  Dead(f)'
    BY <1>1, <2>0, <2>2
       DEF RefreshAccept, Fresh, Present, Usable, columns, Goto, TypeOK, FamilyRows,
           Rotating, At
  <2>3. ASSUME NEW r \in Requests, NEW c \in Tokens, RotateCommit(r, c)
        PROVE  Dead(f)'
    <3>1. arg[r] \in issued /\ family[arg[r]] # f
      BY <1>1, <2>3
         DEF RotateCommit, Rotating, At, IInv, RequestsHaveRows, Running
    <3> QED
      BY <1>1, <2>0, <2>3, <3>1
         DEF RotateCommit, TypeOK, FamilyRows, Rotating, At, IInv,
             RequestsHaveRows, Running, Goto
  <2>4. ASSUME UNCHANGED <<issued, family>>, revoked \subseteq revoked',
               \A r \in Requests : req'[r] = "rotating" =>
                 req[r] = "rotating" /\ arg'[r] = arg[r]
        PROVE  Dead(f)'
    BY <1>1, <2>4 DEF FamilyRows, Rotating, At
  <2>5. ASSUME NEW r \in Requests, NEW t \in issued \cup {NoToken},
               \/ RefreshReject(r, t) \/ RefreshReuse(r, t)
               \/ LogoutIgnore(r, t) \/ LogoutRead(r, t)
        PROVE  Dead(f)'
    BY <2>0, <2>4, <2>5
       DEF RefreshReject, RefreshReuse, LogoutIgnore, LogoutRead, Present,
           Goto, columns, TypeOK
  <2>6. ASSUME NEW r \in Requests,
               \/ RevokeExec(r) \/ RevokeCommit(r) \/ LogoutCommit(r) \/ Fail(r)
        PROVE  Dead(f)'
    BY <2>0, <2>4, <2>6
       DEF RevokeExec, RevokeCommit, LogoutCommit, Fail, Consume, Goto,
           columns, TypeOK
  <2>7. ASSUME NEW t \in Tokens, Expire(t)
        PROVE  Dead(f)'
    BY <2>4, <2>7 DEF Expire
  <2>8. CASE UNCHANGED vars
    BY <2>4, <2>8 DEF vars, columns
  <2> QED
    BY <1>1, <2>1, <2>2, <2>3, <2>5, <2>6, <2>7, <2>8
       DEF Next, Arrive, Continue
<1>2. IInv /\ [Next]_vars => [\A f \in Tokens : Dead(f) => Dead(f)']_vars
  BY <1>1
<1> QED
  BY <1>2, Invariance, PTL DEF Spec, DeadFamilyStaysDead

-----------------------------------------------------------------------------
(* The refinement: every step of the rows is a step of one session, or none. *)

(* What a step that touches one family does to the sessions.                 *)
LEMMA OneSession ==
  ASSUME IInv, TypeOK', NEW f \in Tokens,
         \A g \in Tokens \ {f} : LiveRows(g)' = LiveRows(g),
         \A g \in Tokens \ {f} : FamilyCrossed(g)' <=> FamilyCrossed(g),
         FamilyCrossed(f) => FamilyCrossed(f)',
         issued \subseteq issued'
  PROVE  /\ FamilyCrossed(f) => Session!Crossed(f)
         /\ FamilyCrossed(f)' /\ (LiveRows(f) = {} => LiveRows(f)' = {})
              => Session!Cross(f)
<1> DEFINE live == [g \in Tokens |-> LiveRows(g)]
           apart == {g \in Tokens : FamilyCrossed(g)}
<1>1. live' = [live EXCEPT ![f] = LiveRows(f)']
  OBVIOUS
<1>2. LiveRows(f)' \in SUBSET Tokens
  BY DEF LiveRows, FamilyRows, TypeOK
<1>3. issued' \in SUBSET Tokens /\ issued' = issued \cup issued'
  BY DEF TypeOK
<1>4. ASSUME FamilyCrossed(f)
      PROVE  Session!Crossed(f)
  <2>1. f \in apart /\ apart' = apart
    BY <1>4
  <2> QED
    BY <1>1, <1>2, <1>3, <2>1 DEF Session!Crossed
<1>5. ASSUME FamilyCrossed(f)', LiveRows(f) = {} => LiveRows(f)' = {}
      PROVE  Session!Cross(f)
  <2>1. apart' = apart \cup {f}
    BY <1>5
  <2>2. live[f] = {} => live' = live
    BY <1>1, <1>5
  <2> QED
    BY <1>1, <1>2, <1>3, <2>1, <2>2 DEF Session!Cross
<1> QED
  BY <1>4, <1>5

(* A step that leaves the sessions as they are.                              *)
LEMMA NoSession ==
  ASSUME UNCHANGED issued,
         \A g \in Tokens : LiveRows(g)' = LiveRows(g),
         \A g \in Tokens : FamilyCrossed(g)' <=> FamilyCrossed(g)
  PROVE  UNCHANGED Session!sessionVars
BY DEF Session!sessionVars

LEMMA LoginOpens ==
  ASSUME IInv, TypeOK', NEW r \in Requests, NEW t \in Tokens, Login(r, t)
  PROVE  Session!Open(t)
<1> USE DEF Login
<1>1. t \notin issued /\ t \notin consumed \cup revoked /\ racers[t] = {}
  BY DEF IInv, TypeOK, Lineage
<1>2. \A x \in issued : family[x] # t /\ family'[x] = family[x]
  BY <1>1 DEF IInv, TypeOK, Lineage
<1>3. family'[t] = t
  BY DEF IInv, TypeOK
<1>4. LiveRows(t)' = {t}
  BY <1>1, <1>2, <1>3 DEF LiveRows, FamilyRows
<1>5. \A g \in Tokens \ {t} : FamilyRows(g)' = FamilyRows(g)
  BY <1>2, <1>3 DEF FamilyRows
<1>6. \A g \in Tokens \ {t} : LiveRows(g)' = LiveRows(g)
  BY <1>5 DEF LiveRows
<1>7. racers' = racers /\ overlapped' = overlapped /\ arg' = arg
  BY DEF history
<1>8. FamilyRows(t)' = {t} /\ FamilyRows(t) = {}
  BY <1>1, <1>2, <1>3 DEF FamilyRows
<1>9. \A q \in overlapped : family'[arg[q]] = family[arg[q]] /\ arg[q] \in issued
  BY <1>2 DEF IInv, TypeOK, RequestsHaveRows
<1>10. \A g \in Tokens : FamilyOverlapped(g)' <=> FamilyOverlapped(g)
  BY <1>7, <1>9 DEF FamilyOverlapped
<1>11. \A g \in Tokens : FamilyCrossed(g)' <=> FamilyCrossed(g)
  BY <1>1, <1>5, <1>7, <1>8, <1>10 DEF FamilyCrossed, Raced
<1> DEFINE live == [g \in Tokens |-> LiveRows(g)]
<1>12. live' = [live EXCEPT ![t] = {t}]
  BY <1>4, <1>6
<1> QED
  BY <1>1, <1>11, <1>12 DEF Session!Open

LEMMA RotateRefreshes ==
  ASSUME IInv, TypeOK', NEW r \in Requests, NEW c \in Tokens, RotateCommit(r, c)
  PROVE  Session!Next
<1> USE DEF RotateCommit
<1>a. PICK p : p = arg[r]
  OBVIOUS
<1>b. PICK f : f = family[p]
  OBVIOUS
<1>0. p \in issued /\ f \in Tokens /\ c \notin issued /\ f # c
  BY <1>a, <1>b DEF IInv, TypeOK, RequestsHaveRows, Running, Lineage
<1>1. /\ \A x \in issued : family'[x] = family[x] /\ x # c
      /\ family'[c] = f
  BY <1>0, <1>a, <1>b DEF IInv, TypeOK
<1>2. /\ \A g \in Tokens \ {f} : FamilyRows(g)' = FamilyRows(g)
      /\ FamilyRows(f)' = FamilyRows(f) \cup {c}
      /\ p \in FamilyRows(f)
  BY <1>0, <1>1, <1>b DEF FamilyRows
<1>3. consumed' = consumed \cup {p} /\ revoked' = revoked
  BY <1>a DEF Consume
<1>4. c \notin consumed \cup revoked /\ racers'[c] = {} /\ racers[c] = {}
  BY <1>0, <1>a DEF IInv, TypeOK, Lineage, Consume
<1>5. /\ LiveRows(f)' = (LiveRows(f) \ {p}) \cup {c}
      /\ \A g \in Tokens \ {f} : LiveRows(g)' = LiveRows(g)
  BY <1>0, <1>2, <1>3, <1>4 DEF LiveRows, FamilyRows
<1>6. \A t \in Tokens \ {p} : racers'[t] = racers[t]
  BY <1>a DEF Consume, IInv, TypeOK
<1>7. p \in consumed => racers'[p] = racers[p]
  BY <1>a DEF Consume, IInv, TypeOK
<1>8. p \notin consumed => racers[p] = {}
  BY <1>0 DEF IInv, TypeOK, Lineage
<1>9. \A t \in Tokens : Raced(t) => Raced(t)'
  BY <1>6, <1>7, <1>8 DEF Raced
<1>10. \A t \in Tokens \ {p} : Raced(t)' <=> Raced(t)
  BY <1>6 DEF Raced
<1>11. overlapped' = overlapped /\ arg' = arg
  BY DEF Consume
<1>12. \A q \in overlapped : family'[arg[q]] = family[arg[q]]
  BY <1>1 DEF IInv, TypeOK, RequestsHaveRows
<1>13. \A g \in Tokens : FamilyOverlapped(g)' <=> FamilyOverlapped(g)
  BY <1>11, <1>12 DEF FamilyOverlapped
<1>14. \A g \in Tokens \ {f} : FamilyCrossed(g)' <=> FamilyCrossed(g)
  <2> SUFFICES ASSUME NEW g \in Tokens \ {f}
               PROVE  FamilyCrossed(g)' <=> FamilyCrossed(g)
    OBVIOUS
  <2>1. \A t \in FamilyRows(g) : t \in Tokens \ {p}
    BY <1>0, <1>b DEF FamilyRows, IInv, TypeOK
  <2>2. (\E t \in FamilyRows(g) : Raced(t))' <=> \E t \in FamilyRows(g) : Raced(t)
    BY <1>2, <1>10, <2>1
  <2> QED
    BY <1>13, <2>2 DEF FamilyCrossed
<1>15. FamilyCrossed(f) => FamilyCrossed(f)'
  <2>1. \A t \in FamilyRows(f) : t \in Tokens
    BY DEF FamilyRows, IInv, TypeOK
  <2>2. (\E t \in FamilyRows(f) : Raced(t)) => (\E t \in FamilyRows(f) : Raced(t))'
    BY <1>2, <1>9, <2>1
  <2> QED
    BY <1>0, <1>13, <2>2 DEF FamilyCrossed
<1>16. CASE FamilyCrossed(f)
  BY <1>0, <1>5, <1>14, <1>15, <1>16, OneSession DEF Session!Next
<1>17. CASE ~FamilyCrossed(f)
  <2>1. p \notin consumed
    <3> SUFFICES ASSUME p \in consumed
                 PROVE  FALSE
      OBVIOUS
    <3>1. r \in Holding(p)
      BY <1>a DEF Holding
    <3>2. r \in racers[p] /\ racers[p] \ Holding(p) # {}
      BY <3>1 DEF IInv, RacersOfConsumed
    <3>3. Raced(p)
      BY <3>1, <3>2 DEF Raced
    <3> QED
      BY <1>2, <1>17, <3>3 DEF FamilyCrossed
  <2>2. p \notin revoked
    BY <1>17, <1>a, <1>b DEF IInv, OpenRevocations, FamilyCrossed, FamilyOverlapped
  <2>3. p \in LiveRows(f)
    BY <1>2, <2>1, <2>2 DEF LiveRows
  <2>4. CASE FamilyCrossed(f)'
    BY <1>0, <1>5, <1>14, <1>15, <2>3, <2>4, OneSession DEF Session!Next
  <2>5. CASE ~FamilyCrossed(f)'
    <3>1. LiveRows(f) = {p}
      <4>1. \A t \in LiveRows(f) : t = p
        BY <1>2, <1>17, <2>1 DEF LiveRows, FamilyRows, IInv, LinearUnlessRaced,
           FamilyCrossed
      <4> QED
        BY <2>3, <4>1
    <3>2. LiveRows(f)' = {c}
      BY <1>5, <3>1
    <3> DEFINE live == [g \in Tokens |-> LiveRows(g)]
               apart == {g \in Tokens : FamilyCrossed(g)}
    <3>3. live[f] = {p} /\ live' = [live EXCEPT ![f] = {c}]
      BY <1>0, <1>5, <3>1, <3>2
    <3>4. apart' = apart
      BY <1>14, <1>17, <2>5
    <3>5. Session!Refresh(f, p, c)
      BY <1>0, <3>3, <3>4 DEF Session!Refresh
    <3>6. p \in Tokens
      BY <1>0 DEF IInv, TypeOK
    <3> QED
      BY <1>0, <3>5, <3>6 DEF Session!Next
  <2> QED
    BY <2>4, <2>5
<1> QED
  BY <1>16, <1>17

(* Steps after which some rotations count as overlapping a revocation.       *)
LEMMA OverlapCrosses ==
  ASSUME IInv, TypeOK', NEW f \in Tokens,
         UNCHANGED <<issued, family, consumed, revoked, racers>>,
         overlapped \subseteq overlapped',
         \A q \in overlapped : arg'[q] = arg[q],
         \A q \in overlapped' \ overlapped : family[arg'[q]] = f
  PROVE  Session!Next \/ UNCHANGED Session!sessionVars
<1>1. \A g \in Tokens : FamilyRows(g)' = FamilyRows(g)
  BY DEF FamilyRows
<1>2. \A g \in Tokens : LiveRows(g)' = LiveRows(g)
  BY <1>1 DEF LiveRows
<1>3. \A t : Raced(t)' <=> Raced(t)
  BY DEF Raced
<1>4. \A g \in Tokens \ {f} : FamilyOverlapped(g)' <=> FamilyOverlapped(g)
  BY DEF FamilyOverlapped
<1>5. FamilyOverlapped(f) => FamilyOverlapped(f)'
  BY DEF FamilyOverlapped
<1>6. \A g \in Tokens \ {f} : FamilyCrossed(g)' <=> FamilyCrossed(g)
  BY <1>1, <1>3, <1>4 DEF FamilyCrossed
<1>7. FamilyCrossed(f) => FamilyCrossed(f)'
  BY <1>1, <1>3, <1>5 DEF FamilyCrossed
<1>8. CASE FamilyCrossed(f)'
  BY <1>2, <1>6, <1>7, <1>8, OneSession DEF Session!Next
<1>9. CASE ~FamilyCrossed(f)'
  BY <1>2, <1>6, <1>7, <1>9, NoSession
<1> QED
  BY <1>8, <1>9

LEMMA RevocationCloses ==
  ASSUME IInv, TypeOK', NEW r \in Requests, RevokeCommit(r)
  PROVE  Session!Next \/ UNCHANGED Session!sessionVars
<1> USE DEF RevokeCommit
<1> DEFINE f == family[arg[r]]
<1>0. f \in Tokens
  BY DEF IInv, TypeOK, RequestsHaveRows, Running
<1>1. victims[r] \subseteq FamilyRows(f)
  BY DEF IInv, OpenRevocations
<1>2. \A g \in Tokens : FamilyRows(g)' = FamilyRows(g)
  BY DEF FamilyRows
<1>3. /\ LiveRows(f)' = LiveRows(f) \ victims[r]
      /\ \A g \in Tokens \ {f} : LiveRows(g)' = LiveRows(g)
  BY <1>0, <1>1, <1>2 DEF LiveRows, FamilyRows
<1>4. \A g \in Tokens : FamilyCrossed(g)' <=> FamilyCrossed(g)
  BY <1>2 DEF FamilyCrossed, Raced, FamilyOverlapped
<1>5. CASE FamilyCrossed(f)
  BY <1>0, <1>3, <1>4, <1>5, OneSession DEF Session!Next
<1>6. CASE ~FamilyCrossed(f)
  <2>1. FamilyRows(f) \subseteq victims[r]
    BY <1>6 DEF FamilyCrossed, IInv, OpenRevocations
  <2>2. LiveRows(f)' = {}
    BY <1>3, <2>1 DEF LiveRows
  <2>3. CASE LiveRows(f) = {}
    BY <1>3, <1>4, <2>2, <2>3, NoSession
  <2>4. CASE LiveRows(f) # {}
    <3> DEFINE live == [g \in Tokens |-> LiveRows(g)]
    <3>1. live[f] # {} /\ live' = [live EXCEPT ![f] = {}]
      BY <1>0, <1>3, <2>2, <2>4
    <3> QED
      BY <1>0, <1>4, <3>1 DEF Session!Close, Session!Next
  <2> QED
    BY <2>3, <2>4
<1> QED
  BY <1>5, <1>6

LEMMA LogoutCloses ==
  ASSUME IInv, TypeOK', NEW r \in Requests, LogoutCommit(r)
  PROVE  Session!Next \/ UNCHANGED Session!sessionVars
<1> USE DEF LogoutCommit
<1>a. PICK p : p = arg[r]
  OBVIOUS
<1>b. PICK f : f = family[p]
  OBVIOUS
<1>0. p \in issued /\ f \in Tokens /\ p \in FamilyRows(f)
  BY <1>a, <1>b DEF IInv, TypeOK, RequestsHaveRows, Running, FamilyRows
<1>1. \A g \in Tokens : FamilyRows(g)' = FamilyRows(g)
  BY DEF FamilyRows
<1>2. consumed' = consumed \cup {p} /\ revoked' = revoked
  BY <1>a DEF Consume
<1>3. /\ LiveRows(f)' = LiveRows(f) \ {p}
      /\ \A g \in Tokens \ {f} : LiveRows(g)' = LiveRows(g)
  BY <1>0, <1>1, <1>2 DEF LiveRows, FamilyRows
<1>4. \A t \in Tokens \ {p} : racers'[t] = racers[t]
  BY <1>a DEF Consume, IInv, TypeOK
<1>5. p \in consumed => racers'[p] = racers[p]
  BY <1>a DEF Consume, IInv, TypeOK
<1>6. p \notin consumed => racers[p] = {}
  BY <1>0 DEF IInv, TypeOK, Lineage
<1>7. \A t \in Tokens : Raced(t) => Raced(t)'
  BY <1>4, <1>5, <1>6 DEF Raced
<1>8. \A t \in Tokens \ {p} : Raced(t)' <=> Raced(t)
  BY <1>4 DEF Raced
<1>9. \A g \in Tokens : FamilyOverlapped(g)' <=> FamilyOverlapped(g)
  BY DEF FamilyOverlapped
<1>10. \A g \in Tokens \ {f} : FamilyCrossed(g)' <=> FamilyCrossed(g)
  <2> SUFFICES ASSUME NEW g \in Tokens \ {f}
               PROVE  FamilyCrossed(g)' <=> FamilyCrossed(g)
    OBVIOUS
  <2>1. \A t \in FamilyRows(g) : t \in Tokens \ {p}
    BY <1>0 DEF FamilyRows, IInv, TypeOK
  <2> QED
    BY <1>1, <1>8, <1>9, <2>1 DEF FamilyCrossed
<1>11. FamilyCrossed(f) => FamilyCrossed(f)'
  <2>1. \A t \in FamilyRows(f) : t \in Tokens
    BY DEF FamilyRows, IInv, TypeOK
  <2>2. (\E t \in FamilyRows(f) : Raced(t)) => (\E t \in FamilyRows(f) : Raced(t))'
    BY <1>0, <1>1, <1>7, <2>1
  <2> QED
    BY <1>0, <1>9, <2>2 DEF FamilyCrossed
<1>12. CASE FamilyCrossed(f)'
  BY <1>0, <1>3, <1>10, <1>11, <1>12, OneSession DEF Session!Next
<1>13. CASE ~FamilyCrossed(f)'
  <2>1. \A g \in Tokens : FamilyCrossed(g)' <=> FamilyCrossed(g)
    BY <1>10, <1>11, <1>13
  <2>2. CASE p \notin LiveRows(f)
    <3>1. \A g \in Tokens : LiveRows(g)' = LiveRows(g)
      BY <1>3, <2>2
    <3> QED
      BY <2>1, <3>1, NoSession
  <2>3. CASE p \in LiveRows(f)
    <3>1. \A t \in LiveRows(f) : t = p
      BY <1>0, <1>11, <1>13, <2>3 DEF LiveRows, FamilyRows, IInv, LinearUnlessRaced,
         FamilyCrossed
    <3>2. LiveRows(f)' = {}
      BY <1>3, <3>1
    <3> DEFINE live == [g \in Tokens |-> LiveRows(g)]
    <3>3. live[f] # {} /\ live' = [live EXCEPT ![f] = {}]
      BY <1>0, <1>3, <2>3, <3>2
    <3> QED
      BY <1>0, <2>1, <3>3 DEF Session!Close, Session!Next
  <2> QED
    BY <2>2, <2>3
<1> QED
  BY <1>12, <1>13

(* The steps that touch neither a row nor a race.                            *)
LEMMA QuietSessions ==
  ASSUME UNCHANGED <<issued, family, consumed, revoked, racers, overlapped>>,
         \A q \in overlapped : arg'[q] = arg[q]
  PROVE  UNCHANGED Session!sessionVars
<1>1. \A g \in Tokens : LiveRows(g)' = LiveRows(g)
  BY DEF LiveRows, FamilyRows
<1>2. \A g \in Tokens : FamilyCrossed(g)' <=> FamilyCrossed(g)
  <2>1. \A g \in Tokens : FamilyRows(g)' = FamilyRows(g)
    BY DEF FamilyRows
  <2>2. \A t : Raced(t)' <=> Raced(t)
    BY DEF Raced
  <2>3. \A g \in Tokens : FamilyOverlapped(g)' <=> FamilyOverlapped(g)
    BY DEF FamilyOverlapped
  <2> QED
    BY <2>1, <2>2, <2>3 DEF FamilyCrossed
<1> QED
  BY <1>1, <1>2, NoSession

LEMMA InitSessions == Init => Session!Init
<1> SUFFICES ASSUME Init PROVE Session!Init
  OBVIOUS
<1> USE DEF Init
<1>1. \A g \in Tokens : LiveRows(g) = {}
  BY DEF LiveRows, FamilyRows
<1>2. \A g \in Tokens : ~FamilyCrossed(g)
  BY DEF FamilyCrossed, FamilyRows, FamilyOverlapped
<1> QED
  BY <1>1, <1>2 DEF Session!Init

(* Every step of the endpoints is a step of one session or of none.          *)
LEMMA NextSessions ==
  IInv /\ [Next]_vars => [Session!Next]_Session!sessionVars
<1> SUFFICES ASSUME IInv, [Next]_vars
             PROVE  Session!Next \/ UNCHANGED Session!sessionVars
  OBVIOUS
<1>0. TypeOK'
  BY TypeStep
<1>1. \A q \in overlapped : req[q] # "idle"
  BY DEF IInv, TypeOK, RequestsHaveRows
<1>2. ASSUME NEW r \in Requests, NEW t \in Tokens, Login(r, t)
      PROVE  Session!Next
  BY <1>0, <1>2, LoginOpens DEF Session!Next
<1>3. ASSUME NEW r \in Requests, NEW t \in issued \cup {NoToken},
             \/ RefreshReject(r, t) \/ RefreshReuse(r, t)
             \/ LogoutIgnore(r, t) \/ LogoutRead(r, t)
      PROVE  UNCHANGED Session!sessionVars
  <2>1. UNCHANGED <<issued, family, consumed, revoked, racers, overlapped>>
    BY <1>3
       DEF RefreshReject, RefreshReuse, LogoutIgnore, LogoutRead, columns, history
  <2>2. \A q \in overlapped : arg'[q] = arg[q]
    BY <1>1, <1>3
       DEF RefreshReject, RefreshReuse, LogoutIgnore, LogoutRead, Present, IInv,
           TypeOK
  <2> QED
    BY <2>1, <2>2, QuietSessions
<1>4. ASSUME NEW r \in Requests, NEW t \in issued \cup {NoToken},
             RefreshAccept(r, t)
      PROVE  Session!Next \/ UNCHANGED Session!sessionVars
  <2>1. t \in issued /\ family[t] \in Tokens
    BY <1>4 DEF RefreshAccept, Fresh, Usable, IInv, TypeOK
  <2>2. UNCHANGED <<issued, family, consumed, revoked, racers>>
    BY <1>4 DEF RefreshAccept, columns
  <2>3. \A q \in overlapped : arg'[q] = arg[q]
    BY <1>1, <1>4 DEF RefreshAccept, Present, IInv, TypeOK
  <2>4. overlapped \subseteq overlapped' /\ overlapped' \ overlapped \subseteq {r}
    BY <1>4 DEF RefreshAccept
  <2>5. arg'[r] = t
    BY <1>4 DEF RefreshAccept, Present, IInv, TypeOK
  <2>6. \A q \in overlapped' \ overlapped : family[arg'[q]] = family[t]
    BY <2>4, <2>5
  <2> QED
    BY <1>0, <2>1, <2>2, <2>3, <2>4, <2>6, OverlapCrosses
<1>5. ASSUME NEW r \in Requests, NEW c \in Tokens, RotateCommit(r, c)
      PROVE  Session!Next
  BY <1>0, <1>5, RotateRefreshes
<1>6. ASSUME NEW r \in Requests, RevokeExec(r)
      PROVE  Session!Next \/ UNCHANGED Session!sessionVars
  <2>1. family[arg[r]] \in Tokens
    BY <1>6 DEF RevokeExec, IInv, TypeOK, RequestsHaveRows, Running
  <2>2. UNCHANGED <<issued, family, consumed, revoked, racers, arg>>
    BY <1>6 DEF RevokeExec, columns
  <2>3. \A q \in overlapped' \ overlapped : family[arg'[q]] = family[arg[r]]
    BY <1>6, <2>2 DEF RevokeExec, Rotating, At
  <2>4. overlapped \subseteq overlapped'
    BY <1>6 DEF RevokeExec
  <2> QED
    BY <1>0, <2>1, <2>2, <2>3, <2>4, OverlapCrosses
<1>7. ASSUME NEW r \in Requests, RevokeCommit(r)
      PROVE  Session!Next \/ UNCHANGED Session!sessionVars
  BY <1>0, <1>7, RevocationCloses
<1>8. ASSUME NEW r \in Requests, LogoutCommit(r)
      PROVE  Session!Next \/ UNCHANGED Session!sessionVars
  BY <1>0, <1>8, LogoutCloses
<1>9. ASSUME NEW r \in Requests, Fail(r)
      PROVE  UNCHANGED Session!sessionVars
  BY <1>9, QuietSessions DEF Fail, columns, history
<1>10. ASSUME NEW t \in Tokens, Expire(t)
       PROVE  UNCHANGED Session!sessionVars
  BY <1>10, QuietSessions DEF Expire, history
<1>11. CASE UNCHANGED vars
  BY <1>11, QuietSessions DEF vars, columns, history
<1> QED
  BY <1>2, <1>3, <1>4, <1>5, <1>6, <1>7, <1>8, <1>9, <1>10, <1>11
     DEF Next, Arrive, Continue

(* The token endpoints keep the promise of Sessions: one refresh token per   *)
(* session, replaced by every refresh, and a closed session stays closed,    *)
(* unless requests crossed in it (rotate_refresh, logout_user).              *)
THEOREM SessionsImplemented == Spec => ImplementsSessions
BY InitSessions, NextSessions, Invariance, PTL
   DEF Spec, ImplementsSessions, Session!Spec

-----------------------------------------------------------------------------
(* The client against this server.  What it does to the server is what any    *)
(* client may do, so the theorems above hold of the two together.            *)
LEMMA ServerStep == ClientTypeOK /\ [ClientNext]_allVars => [Next]_vars
<1> SUFFICES ASSUME ClientTypeOK, [ClientNext]_allVars PROVE [Next]_vars
  OBVIOUS
<1>1. CASE UNCHANGED allVars
  BY <1>1 DEF allVars, server
<1>2. ASSUME NEW r \in Requests, NEW b \in Tabs, User(r, b)
      PROVE  UNCHANGED vars
  BY <1>2 DEF User, BeginLogin, BeginRefresh, BeginLogout, Send, server
<1>3. ASSUME NEW r \in Requests, Deliver(r)
      PROVE  Next
  <2>1. call[r].kind \in {"refresh", "logout"} => call[r].token \in issued \cup {NoToken}
    BY <1>3 DEF ClientTypeOK, Deliver, NoCall
  <2> QED
    BY <1>3, <2>1 DEF Deliver, Next, Arrive
<1>4. ASSUME NEW r \in Requests, Serve(r) \/ ServerFails(r)
      PROVE  Next
  BY <1>4 DEF Serve, ServerFails, Next
<1>5. ASSUME NEW r \in Requests, Answer(r) \/ NetworkError(r)
      PROVE  UNCHANGED vars
  BY <1>5 DEF Answer, TokensArrive, RefreshRefused, LogoutDone, NetworkError, Quietly, server
<1>6. ASSUME NEW b \in Tabs, Unload(b)
      PROVE  UNCHANGED vars
  BY <1>6 DEF Unload, Quietly, server
<1>7. ASSUME NEW t \in Tokens, TokenExpires(t)
      PROVE  Next
  BY <1>7 DEF TokenExpires, Next
<1> QED
  BY <1>1, <1>2, <1>3, <1>4, <1>5, <1>6, <1>7 DEF ClientNext, Progress

LEMMA ServerTypes ==
  ASSUME IInv
  PROVE  /\ TypeOK
         /\ Exchangeable \subseteq issued
         /\ \A t : t \in Exchangeable <=> Fresh(t)
         /\ NoToken \notin issued
<1>1. TypeOK
  BY DEF IInv
<1> QED
  BY <1>1, NoTokenAssumption DEF TypeOK, Exchangeable, Fresh, Usable

(* The user sends a call: it is the only one, or it crosses another.         *)
LEMMA UserSends ==
  ASSUME IInv, ClientInv, NEW r \in Requests, NEW b \in Tabs, User(r, b)
  PROVE  ClientInv'
<1>1. PICK k \in {"login", "refresh", "logout"}, t \in issued \cup {NoToken} :
        Send(r, k, b, t) /\ UNCHANGED loggedOut
        /\ (k # "login" => t = stored /\ stored # NoToken)
  BY DEF User, BeginLogin, BeginRefresh, BeginLogout, ClientInv, ClientTypeOK
<1> DEFINE c == [kind |-> k, tab |-> b, token |-> t]
<1>2. /\ call[r] = NoCall /\ waiting' = waiting \cup {r}
      /\ call' = [call EXCEPT ![r] = c]
      /\ crossed' = (crossed \/ waiting # {})
      /\ UNCHANGED <<columns, req, arg, child, victims, history, stored, broken, replaced,
                     loggedOut>>
  BY <1>1 DEF Send, server, vars
<1>3. c # NoCall /\ c.kind = k /\ c.token = t
  BY DEF NoCall
<1>4. c \in [kind : {"login", "refresh", "logout"}, tab : Tabs, token : issued \cup {NoToken}]
  OBVIOUS
<1> HIDE DEF c
<1>5. ClientTypeOK /\ call'[r] = c /\ \A s \in Requests \ {r} : call'[s] = call[s]
  BY <1>2 DEF ClientInv, ClientTypeOK
<1>6. issued' = issued /\ expired' = expired /\ consumed' = consumed /\ revoked' = revoked
  BY <1>2 DEF columns
<1>7. ClientTypeOK'
  BY <1>2, <1>4, <1>5, <1>6 DEF ClientTypeOK
<1>8. req[r] = "idle"
  BY <1>2 DEF ClientInv, CallsBecomeRequests
<1>9. CallsBecomeRequests'
  BY <1>2, <1>3, <1>5, <1>6 DEF ClientInv, CallsBecomeRequests
<1>10. NoSpuriousLogout'
  BY <1>2, <1>5, <1>6, <1>8 DEF ClientInv, NoSpuriousLogout
<1>11. ASSUME Calm' PROVE CalmInv'
  <2>1. ~crossed /\ broken = 0 /\ waiting = {}
    BY <1>2, <1>11, Zenon DEF Calm
  <2>2. CalmInv /\ Agree
    BY <2>1 DEF Calm, ClientInv, CalmInv
  <2>3. Agree'
    BY <1>2, <1>6, <2>2 DEF Agree, Exchangeable
  <2>4. InFlight(r)'
    BY <1>1, <1>2, <1>3, <1>5, <1>8, <2>2, <2>3 DEF InFlight, Underway, Agree
  <2> QED
    BY <1>2, <1>5, <1>6, <2>1, <2>2, <2>4 DEF CalmInv
<1> QED
  BY <1>7, <1>9, <1>10, <1>11 DEF ClientInv

(* The server takes a request one stage further.                             *)
LEMMA Served ==
  ASSUME IInv, ClientInv, NEW r \in Requests, NEW stage, call[r] # NoCall,
         req[r] \notin Answered, stage # "idle",
         req' = [req EXCEPT ![r] = stage], UNCHANGED client, UNCHANGED expired,
         issued \subseteq issued',
         \A s \in Requests \ {r} : child'[s] = child[s] /\ arg'[s] = arg[s],
         stage = "tokens" => child'[r] \in issued',
         stage \in {"invalid", "reuse"} /\ call[r].kind = "refresh" /\ Calm =>
           arg'[r] \in expired,
         Calm /\ waiting = {r} /\ InFlight(r) /\ revoked = {} =>
           /\ revoked' = {} /\ InFlight(r)'
           /\ stage \notin {"reusing", "revoking", "reuse", "failed"}
  PROVE  ClientInv'
<1>1. /\ UNCHANGED <<stored, call, waiting, broken, crossed, loggedOut, replaced>>
      /\ TypeOK
  BY ServerTypes DEF client
<1>2. req'[r] = stage /\ \A s \in Requests \ {r} : req'[s] = req[s]
  BY <1>1 DEF TypeOK
<1>3. ClientTypeOK'
  <2>1. stored \in issued' \cup {NoToken} /\ replaced \subseteq issued'
    BY DEF ClientInv, ClientTypeOK
  <2>2. \A s \in Requests :
          call[s] \in {NoCall} \cup [kind : {"login", "refresh", "logout"}, tab : Tabs,
                                     token : issued' \cup {NoToken}]
    BY DEF ClientInv, ClientTypeOK
  <2>3. call \in [Requests ->
          {NoCall} \cup [kind : {"login", "refresh", "logout"}, tab : Tabs,
                         token : issued' \cup {NoToken}]]
    BY <2>2 DEF ClientInv, ClientTypeOK
  <2> QED
    BY <1>1, <2>1, <2>3 DEF ClientInv, ClientTypeOK
<1>4. CallsBecomeRequests'
  BY <1>1, <1>2 DEF ClientInv, CallsBecomeRequests
<1>5. NoSpuriousLogout'
  <2>1. Calm \/ crossed \/ broken > 0
    BY MaxBrokenAssumption DEF ClientInv, ClientTypeOK, Calm
  <2>2. ASSUME NEW s \in Requests, call[s].kind = "refresh", req'[s] \in {"invalid", "reuse"}
        PROVE  arg'[s] \in expired \/ crossed \/ broken > 0
    <3>1. CASE s = r
      BY <1>2, <2>1, <2>2, <3>1
    <3>2. CASE s # r
      BY <1>2, <2>2, <3>2 DEF ClientInv, NoSpuriousLogout
    <3> QED
      BY <3>1, <3>2
  <2> QED
    BY <1>1, <2>2 DEF NoSpuriousLogout
<1>6. ASSUME Calm' PROVE CalmInv'
  <2>1. Calm
    BY <1>1, <1>6 DEF Calm
  <2>2. CalmInv
    BY <2>1 DEF ClientInv
  <2>3. waiting = {r} /\ InFlight(r) /\ revoked = {}
    BY <2>2 DEF CalmInv
  <2> QED
    BY <1>1, <1>2, <2>1, <2>2, <2>3 DEF CalmInv
<1> QED
  BY <1>3, <1>4, <1>5, <1>6 DEF ClientInv

(* A call in flight that the server has not answered is where it belongs.    *)
LEMMA Unanswered ==
  ASSUME IInv, ClientInv, NEW r \in Requests, InFlight(r), req[r] \notin Answered
  PROVE  /\ Underway(r) /\ (call[r].kind # "login" => stored \in expired \cup Exchangeable)
BY DEF InFlight, TokensOnTheWay, Refusing, Answered, Underway, Agree

LEMMA LoginServed ==
  ASSUME IInv, ClientInv, NEW r \in Requests, call[r].kind = "login", call[r] # NoCall,
         NEW t \in Tokens, Login(r, t), UNCHANGED client
  PROVE  ClientInv'
<1>1. TypeOK /\ req[r] = "idle"
  BY ServerTypes DEF Login
<1>2. /\ req' = [req EXCEPT ![r] = "tokens"] /\ issued' = issued \cup {t} /\ t \notin issued
      /\ child' = [child EXCEPT ![r] = t] /\ UNCHANGED <<consumed, revoked, expired, arg>>
      /\ UNCHANGED <<stored, call, waiting, broken, crossed, loggedOut, replaced>>
  BY DEF Login, Goto, client
<1>3. req'[r] = "tokens" /\ child'[r] = t
      /\ \A s \in Requests \ {r} : child'[s] = child[s] /\ arg'[s] = arg[s]
  BY <1>1, <1>2 DEF TypeOK
<1>4. Exchangeable' = Exchangeable \cup {t}
  BY <1>1, <1>2 DEF TypeOK, Exchangeable
<1>5. ASSUME InFlight(r), revoked = {}
      PROVE  revoked' = {} /\ InFlight(r)'
  <2>1. Agree
    BY <1>1, <1>5, Unanswered DEF Answered, Underway
  <2>2. TokensOnTheWay(r)'
    BY <1>2, <1>3, <1>4, <2>1 DEF Agree, TokensOnTheWay
  <2> QED
    BY <1>2, <1>5, <2>1, <2>2 DEF InFlight, Agree
<1>6. PICK stage : stage = "tokens"
  OBVIOUS
<1>7. /\ stage # "idle" /\ stage \notin {"invalid", "reuse", "reusing", "revoking", "failed"}
      /\ req' = [req EXCEPT ![r] = stage] /\ req[r] \notin Answered
      /\ issued \subseteq issued' /\ child'[r] \in issued'
  BY <1>1, <1>2, <1>3, <1>6 DEF Answered
<1> QED
  BY <1>2, <1>3, <1>5, <1>7, Served

(* Reuse is never reported while nothing crossed: the token presented is the *)
(* stored one, and that one is exchangeable unless it has expired.           *)
LEMMA RefreshServed ==
  ASSUME IInv, ClientInv, NEW r \in Requests, call[r].kind = "refresh", call[r] # NoCall,
         NEW t, t = call[r].token,
         RefreshReject(r, t) \/ RefreshReuse(r, t) \/ RefreshAccept(r, t),
         UNCHANGED client
  PROVE  ClientInv'
<1>1. TypeOK /\ req[r] = "idle"
  BY ServerTypes DEF RefreshReject, RefreshReuse, RefreshAccept, Present
<1>2. PICK stage \in {"invalid", "reusing", "rotating"} :
        /\ req' = [req EXCEPT ![r] = stage] /\ arg' = [arg EXCEPT ![r] = t]
        /\ stage = "invalid" => ~Usable(t)
        /\ stage = "reusing" => Usable(t) /\ t \in consumed
  BY DEF RefreshReject, RefreshReuse, RefreshAccept, Present, Goto
<1>3. /\ UNCHANGED <<issued, consumed, revoked, expired, child>>
      /\ UNCHANGED <<stored, call, waiting, broken, crossed, loggedOut, replaced>>
  BY DEF RefreshReject, RefreshReuse, RefreshAccept, columns, client
<1>4. req'[r] = stage /\ arg'[r] = t
      /\ \A s \in Requests \ {r} : child'[s] = child[s] /\ arg'[s] = arg[s]
  BY <1>1, <1>2, <1>3 DEF TypeOK
<1>5. Agree' = Agree /\ Exchangeable' = Exchangeable
  BY <1>3 DEF Agree, Exchangeable
<1>6. ASSUME InFlight(r), revoked = {}
      PROVE  /\ t = stored /\ stored # NoToken
             /\ stage # "reusing" /\ (stage = "invalid" => t \in expired)
             /\ InFlight(r)'
  <2>1. Agree /\ t = stored /\ stored # NoToken /\ stored \in expired \cup Exchangeable
    BY <1>1, <1>6, Unanswered DEF Answered, Underway, InFlight
  <2>2. stage # "reusing" /\ (stage = "invalid" => t \in expired)
    BY <1>2, <2>1 DEF Usable, Exchangeable
  <2>3. stage = "rotating" => Underway(r)'
    BY <1>3, <1>4, <1>5, <2>1 DEF Underway
  <2>4. stage = "invalid" => Refusing(r)'
    <3>1. stored \in expired => Exchangeable \subseteq replaced
      BY <2>1 DEF Agree, Exchangeable
    <3> QED
      BY <1>3, <1>4, <1>5, <2>1, <2>2, <3>1 DEF Refusing
  <2> QED
    BY <1>2, <1>3, <1>4, <2>1, <2>2, <2>3, <2>4 DEF InFlight, Agree
<1>7. ASSUME Calm, stage = "invalid"
      PROVE  arg'[r] \in expired
  <2>1. CalmInv /\ r \in waiting
    BY <1>1, <1>7 DEF ClientInv, CalmInv, Answered
  <2>2. InFlight(r) /\ revoked = {}
    BY <2>1 DEF CalmInv
  <2> QED
    BY <1>4, <1>6, <1>7, <2>2
<1> QED
  BY <1>1, <1>2, <1>3, <1>4, <1>6, <1>7, Served DEF Answered

LEMMA LogoutServed ==
  ASSUME IInv, ClientInv, NEW r \in Requests, call[r].kind = "logout", call[r] # NoCall,
         NEW t, t = call[r].token, LogoutIgnore(r, t) \/ LogoutRead(r, t), UNCHANGED client
  PROVE  ClientInv'
<1>1. TypeOK /\ req[r] = "idle"
  BY ServerTypes DEF LogoutIgnore, LogoutRead, Present
<1>2. PICK stage \in {"loggedOut", "leaving"} :
        /\ req' = [req EXCEPT ![r] = stage] /\ arg' = [arg EXCEPT ![r] = t]
        /\ stage = "loggedOut" => ~Live(t)
  BY DEF LogoutIgnore, LogoutRead, Present, Goto
<1>3. /\ UNCHANGED <<issued, consumed, revoked, expired, child>>
      /\ UNCHANGED <<stored, call, waiting, broken, crossed, loggedOut, replaced>>
  BY DEF LogoutIgnore, LogoutRead, columns, client
<1>4. req'[r] = stage /\ arg'[r] = t
      /\ \A s \in Requests \ {r} : child'[s] = child[s] /\ arg'[s] = arg[s]
  BY <1>1, <1>2, <1>3 DEF TypeOK
<1>5. Agree' = Agree /\ Exchangeable' = Exchangeable
  BY <1>3 DEF Agree, Exchangeable
<1>6. ASSUME InFlight(r), revoked = {}
      PROVE  InFlight(r)'
  <2>1. Agree /\ t = stored /\ stored # NoToken
    BY <1>1, <1>6, Unanswered DEF Answered, Underway, InFlight
  <2>2. stage = "leaving" => Underway(r)'
    BY <1>3, <1>4, <1>5, <2>1 DEF Underway
  <2>3. stage = "loggedOut" => Refusing(r)'
    <3>1. ~Live(t) => t \notin Exchangeable
      BY DEF Live, Exchangeable
    <3>2. t \notin Exchangeable => Exchangeable \subseteq replaced
      BY <2>1 DEF Agree
    <3> QED
      BY <1>2, <1>3, <1>4, <1>5, <3>1, <3>2 DEF Refusing
  <2> QED
    BY <1>2, <1>3, <1>4, <2>1, <2>2, <2>3 DEF InFlight, Agree
<1> QED
  BY <1>1, <1>2, <1>3, <1>4, <1>6, Served DEF Answered

(* The commits: a rotation spends the stored token and a new one is on its    *)
(* way, a logout spends it.                                                  *)
LEMMA RotationServed ==
  ASSUME IInv, ClientInv, NEW r \in Requests, NEW c \in Tokens, RotateCommit(r, c),
         UNCHANGED client
  PROVE  ClientInv'
<1>1. TypeOK /\ req[r] = "rotating" /\ arg[r] \in issued
  BY ServerTypes DEF RotateCommit, IInv, RequestsHaveRows, Running
<1>2. /\ req' = [req EXCEPT ![r] = "tokens"] /\ issued' = issued \cup {c} /\ c \notin issued
      /\ consumed' = consumed \cup {arg[r]}
      /\ child' = [child EXCEPT ![r] = c] /\ UNCHANGED <<revoked, expired, arg>>
      /\ UNCHANGED <<stored, call, waiting, broken, crossed, loggedOut, replaced>>
  BY DEF RotateCommit, Consume, Goto, client
<1>3. req'[r] = "tokens" /\ child'[r] = c
      /\ \A s \in Requests \ {r} : child'[s] = child[s] /\ arg'[s] = arg[s]
  BY <1>1, <1>2 DEF TypeOK
<1>4. Exchangeable' = (Exchangeable \ {arg[r]}) \cup {c}
  BY <1>1, <1>2 DEF TypeOK, Exchangeable
<1>5. call[r] # NoCall
  BY <1>1 DEF ClientInv, CallsBecomeRequests
<1>6. ASSUME InFlight(r), revoked = {}
      PROVE  revoked' = {} /\ InFlight(r)'
  <2>1. Agree /\ call[r].kind = "refresh" /\ arg[r] = stored
    BY <1>1, <1>6, Unanswered DEF Answered, Underway, InFlight
  <2>2. TokensOnTheWay(r)'
    BY <1>2, <1>3, <1>4, <2>1 DEF Agree, TokensOnTheWay
  <2> QED
    BY <1>2, <1>3, <1>6, <2>1, <2>2 DEF InFlight
<1>7. PICK stage : stage = "tokens"
  OBVIOUS
<1>8. /\ stage # "idle" /\ stage \notin {"invalid", "reuse", "reusing", "revoking", "failed"}
      /\ req' = [req EXCEPT ![r] = stage] /\ req[r] \notin Answered
      /\ issued \subseteq issued' /\ child'[r] \in issued'
  BY <1>1, <1>2, <1>3, <1>7 DEF Answered
<1> QED
  BY <1>2, <1>3, <1>5, <1>6, <1>8, Served

LEMMA LogoutCommitServed ==
  ASSUME IInv, ClientInv, NEW r \in Requests, LogoutCommit(r), UNCHANGED client
  PROVE  ClientInv'
<1>1. TypeOK /\ req[r] = "leaving" /\ arg[r] \in issued
  BY ServerTypes DEF LogoutCommit, IInv, RequestsHaveRows, Running
<1>2. /\ req' = [req EXCEPT ![r] = "loggedOut"] /\ consumed' = consumed \cup {arg[r]}
      /\ UNCHANGED <<issued, revoked, expired, arg, child>>
      /\ UNCHANGED <<stored, call, waiting, broken, crossed, loggedOut, replaced>>
  BY DEF LogoutCommit, Consume, Goto, client
<1>3. req'[r] = "loggedOut"
      /\ \A s \in Requests \ {r} : child'[s] = child[s] /\ arg'[s] = arg[s]
  BY <1>1, <1>2 DEF TypeOK
<1>4. Exchangeable' = Exchangeable \ {arg[r]}
  BY <1>1, <1>2 DEF TypeOK, Exchangeable
<1>5. call[r] # NoCall
  BY <1>1 DEF ClientInv, CallsBecomeRequests
<1>6. ASSUME InFlight(r), revoked = {}
      PROVE  revoked' = {} /\ InFlight(r)'
  <2>1. Agree /\ call[r].kind = "logout" /\ arg[r] = stored
    BY <1>1, <1>6, Unanswered DEF Answered, Underway, InFlight
  <2>2. Refusing(r)'
    BY <1>2, <1>3, <1>4, <2>1 DEF Agree, Refusing
  <2> QED
    BY <1>2, <1>3, <1>6, <2>1, <2>2 DEF InFlight
<1> QED
  BY <1>1, <1>2, <1>3, <1>5, <1>6, Served DEF Answered

(* A family is revoked only when calls have crossed.                         *)
LEMMA RevocationServed ==
  ASSUME IInv, ClientInv, NEW r \in Requests, RevokeExec(r) \/ RevokeCommit(r),
         UNCHANGED client
  PROVE  ClientInv'
<1>1. TypeOK /\ req[r] \in {"reusing", "revoking"}
  BY ServerTypes DEF RevokeExec, RevokeCommit
<1>2. ~Calm
  BY <1>1 DEF ClientInv, CalmInv
<1>3. PICK stage \in {"revoking", "reuse"} : req' = [req EXCEPT ![r] = stage]
  BY DEF RevokeExec, RevokeCommit, Goto
<1>4. UNCHANGED <<issued, expired, child, arg>>
  BY DEF RevokeExec, RevokeCommit, columns
<1>5. call[r] # NoCall
  BY <1>1 DEF ClientInv, CallsBecomeRequests
<1>6. /\ UNCHANGED <<stored, call, waiting, broken, crossed, loggedOut, replaced>>
      /\ req'[r] = stage /\ \A s \in Requests \ {r} : req'[s] = req[s]
  BY <1>1, <1>3 DEF client, TypeOK
<1>7. ClientTypeOK' /\ ~Calm'
  BY <1>2, <1>4, <1>6 DEF ClientInv, ClientTypeOK, Calm
<1>8. CallsBecomeRequests'
  BY <1>4, <1>5, <1>6 DEF ClientInv, CallsBecomeRequests
<1>9. crossed \/ broken > 0
  BY <1>2, MaxBrokenAssumption DEF ClientInv, ClientTypeOK, Calm
<1>10. NoSpuriousLogout'
  BY <1>6, <1>9 DEF NoSpuriousLogout
<1> QED
  BY <1>7, <1>8, <1>10 DEF ClientInv

LEMMA ExpiryServed ==
  ASSUME IInv, ClientInv, NEW t \in Tokens, TokenExpires(t)
  PROVE  ClientInv'
<1>1. /\ expired' = expired \cup {t} /\ t \in issued
      /\ UNCHANGED <<issued, consumed, revoked, req, child, arg>>
      /\ UNCHANGED <<stored, call, waiting, broken, crossed, loggedOut, replaced>>
  BY DEF TokenExpires, Expire, client
<1>2. ClientTypeOK' /\ CallsBecomeRequests' /\ NoSpuriousLogout'
  BY <1>1 DEF ClientInv, ClientTypeOK, CallsBecomeRequests, NoSpuriousLogout
<1>3. Exchangeable' = Exchangeable \ {t}
  BY <1>1 DEF Exchangeable
<1>4. Agree => Agree'
  BY <1>1, <1>3 DEF Agree
<1>5. ASSUME NEW r \in Requests, InFlight(r)
      PROVE  InFlight(r)'
  <2>1. Underway(r) => Underway(r)'
    BY <1>1, <1>4 DEF Underway
  <2>2. TokensOnTheWay(r) => TokensOnTheWay(r)'
    BY <1>1, <1>3 DEF TokensOnTheWay
  <2>3. Refusing(r) => Refusing(r)'
    BY <1>1, <1>3 DEF Refusing
  <2> QED
    BY <1>1, <1>5, <2>1, <2>2, <2>3 DEF InFlight
<1>6. ASSUME Calm' PROVE CalmInv'
  <2>1. CalmInv
    BY <1>1, <1>6 DEF ClientInv, Calm
  <2>2. \A r \in waiting : r \in Requests
    BY DEF ClientInv, ClientTypeOK
  <2>3. \A r \in waiting' : waiting' = {r} /\ InFlight(r)'
    BY <1>1, <1>5, <2>1, <2>2 DEF CalmInv
  <2>4. \A r \in Requests :
          /\ req'[r] \notin {"reusing", "revoking", "reuse", "failed"}
          /\ r \notin waiting' /\ call'[r] # NoCall => req'[r] \in Answered
    BY <1>1, <2>1 DEF CalmInv
  <2> QED
    BY <1>1, <1>4, <2>1, <2>3, <2>4 DEF CalmInv
<1> QED
  BY <1>2, <1>6 DEF ClientInv

(* A call that ends without a proper answer: from then on nothing is calm.    *)
LEMMA Disrupted ==
  ASSUME ClientTypeOK, Breaks
  PROVE  broken' \in 0..MaxBroken /\ ~Calm' /\ NoSpuriousLogout'
<1>1. broken' \in 0..MaxBroken /\ broken' > 0
  BY MaxBrokenAssumption DEF ClientTypeOK, Breaks
<1> QED
  BY <1>1 DEF Calm, NoSpuriousLogout

LEMMA FailureServed ==
  ASSUME IInv, ClientInv, NEW r \in Requests, ServerFails(r)
  PROVE  ClientInv'
<1>1. /\ TypeOK /\ req[r] \in Running /\ req' = [req EXCEPT ![r] = "failed"]
      /\ UNCHANGED <<issued, child>> /\ Breaks
      /\ UNCHANGED <<stored, call, waiting, crossed, loggedOut, replaced>>
  BY ServerTypes DEF ServerFails, Fail, Goto, columns
<1>2. req'[r] = "failed" /\ req[r] # "idle" /\ \A s \in Requests \ {r} : req'[s] = req[s]
  BY <1>1 DEF TypeOK, Running
<1>3. broken' \in 0..MaxBroken /\ ~Calm' /\ NoSpuriousLogout'
  BY <1>1, Disrupted DEF ClientInv
<1>4. ClientTypeOK'
  BY <1>1, <1>3 DEF ClientInv, ClientTypeOK
<1>5. CallsBecomeRequests'
  BY <1>1, <1>2 DEF ClientInv, CallsBecomeRequests
<1> QED
  BY <1>3, <1>4, <1>5 DEF ClientInv

(* The browser loses its answer, or the page that waited for it.             *)
LEMMA AnswerLost ==
  ASSUME IInv, ClientInv,
         (\E r \in Requests : NetworkError(r)) \/ (\E b \in Tabs : Unload(b))
  PROVE  ClientInv'
<1>1. /\ Breaks /\ waiting' \subseteq waiting /\ stored' \in {stored, NoToken}
      /\ loggedOut' \in {loggedOut, TRUE}
      /\ UNCHANGED <<server, call, crossed, replaced>>
  BY DEF NetworkError, Unload, Settled, Quietly
<1>2. UNCHANGED <<issued, req, child>>
  BY <1>1 DEF server, vars, columns
<1>3. broken' \in 0..MaxBroken /\ ~Calm' /\ NoSpuriousLogout'
  BY <1>1, Disrupted DEF ClientInv
<1>4. ClientTypeOK'
  BY <1>1, <1>2, <1>3 DEF ClientInv, ClientTypeOK
<1>5. CallsBecomeRequests'
  BY <1>1, <1>2 DEF ClientInv, CallsBecomeRequests
<1> QED
  BY <1>3, <1>4, <1>5 DEF ClientInv

(* The answer of the one call in flight makes browser and server agree again. *)
LEMMA AnswerArrives ==
  ASSUME IInv, ClientInv, NEW r \in Requests, Answer(r)
  PROVE  ClientInv'
<1>1. /\ TypeOK /\ r \in waiting /\ waiting' = waiting \ {r} /\ req[r] \in Answered
      /\ UNCHANGED <<columns, req, arg, child, call, crossed, broken>>
      /\ stored' \in {NoToken, child[r]} /\ (stored' # NoToken => req[r] = "tokens")
      /\ replaced \subseteq replaced' /\ replaced' \subseteq replaced \cup issued
      /\ loggedOut' \in BOOLEAN
  BY ServerTypes DEF Answer, TokensArrive, RefreshRefused, LogoutDone, NewTokens, Settled,
     Quietly, server, vars, Answered, ClientInv, ClientTypeOK
<1>2. UNCHANGED <<issued, consumed, revoked, expired>>
  BY <1>1 DEF columns
<1>3. call[r] # NoCall /\ stored' \in issued \cup {NoToken}
  BY <1>1 DEF ClientInv, CallsBecomeRequests, Answered
<1>4. ClientTypeOK'
  BY <1>1, <1>2, <1>3 DEF ClientInv, ClientTypeOK
<1>5. CallsBecomeRequests' /\ NoSpuriousLogout'
  BY <1>1, <1>2 DEF ClientInv, CallsBecomeRequests, NoSpuriousLogout
<1>6. ASSUME Calm' PROVE CalmInv'
  <2>1. Calm /\ CalmInv
    BY <1>1, <1>6 DEF Calm, ClientInv
  <2>2. waiting = {r} /\ InFlight(r) /\ waiting' = {}
    BY <1>1, <2>1 DEF CalmInv
  <2>3. Exchangeable' = Exchangeable
    BY <1>2 DEF Exchangeable
  <2>4. ASSUME req[r] = "tokens" PROVE Agree'
    <3>1. TokensArrive(r) /\ TokensOnTheWay(r)
      BY <2>2, <2>4 DEF Answer, RefreshRefused, LogoutDone, InFlight, Underway, Refusing
    <3>2. stored' = child[r] /\ child[r] \in expired \cup Exchangeable
      BY <3>1 DEF TokensArrive, NewTokens, TokensOnTheWay
    <3>3. Exchangeable \subseteq {stored'} \cup replaced'
      BY <3>1, <3>2, ServerTypes DEF TokensArrive, TokensOnTheWay
    <3>4. ~loggedOut'
      BY <2>2, <3>1, ServerTypes DEF TokensArrive, TokensOnTheWay, InFlight
    <3> QED
      BY <1>2, <2>3, <3>2, <3>3, <3>4 DEF Agree
  <2>5. ASSUME req[r] # "tokens" PROVE Agree'
    <3>1. Refusing(r) /\ stored' = NoToken
      BY <1>1, <2>2, <2>5 DEF InFlight, Underway, TokensOnTheWay, Answered
    <3> QED
      BY <1>1, <1>2, <2>2, <2>3, <3>1 DEF Agree, Refusing
  <2> QED
    BY <1>1, <1>2, <1>3, <2>1, <2>2, <2>4, <2>5 DEF CalmInv
<1> QED
  BY <1>4, <1>5, <1>6 DEF ClientInv

LEMMA ClientInitInv == ClientInit => BrowserInv
<1> SUFFICES ASSUME ClientInit PROVE BrowserInv
  OBVIOUS
<1>1. IInv
  BY InitIInv DEF ClientInit
<1>2. ClientTypeOK /\ CallsBecomeRequests
  <2>1. ClientTypeOK
    <3>1. broken \in 0..MaxBroken
      BY MaxBrokenAssumption DEF ClientInit
    <3>2. crossed \in BOOLEAN /\ loggedOut \in BOOLEAN
      BY DEF ClientInit
    <3>3. stored \in issued \cup {NoToken} /\ replaced \subseteq issued
          /\ waiting \subseteq Requests
      BY DEF ClientInit
    <3>4. call \in [Requests -> {NoCall} \cup [kind : {"login", "refresh", "logout"},
                                              tab : Tabs, token : issued \cup {NoToken}]]
      BY DEF ClientInit
    <3> QED
      BY <3>1, <3>2, <3>3, <3>4 DEF ClientTypeOK
  <2>2. \A r \in Requests : req[r] = "idle" /\ r \notin waiting
    BY DEF ClientInit, Init
  <2> QED
    BY <2>1, <2>2 DEF CallsBecomeRequests
<1>3. NoSpuriousLogout
  BY DEF ClientInit, Init, NoSpuriousLogout
<1>4. Agree
  BY DEF ClientInit, Init, Agree, Exchangeable
<1>5. CalmInv
  BY <1>4 DEF ClientInit, Init, CalmInv, NoCall
<1> QED
  BY <1>1, <1>2, <1>3, <1>5 DEF BrowserInv, ClientInv

LEMMA ClientNextInv == BrowserInv /\ [ClientNext]_allVars => BrowserInv'
<1> SUFFICES ASSUME IInv, ClientInv, [ClientNext]_allVars PROVE IInv' /\ ClientInv'
  BY DEF BrowserInv
<1>1. IInv'
  BY ServerStep, NextIInv DEF ClientInv
<1>2. CASE UNCHANGED allVars
  <2>1. UNCHANGED <<issued, consumed, revoked, expired, req, arg, child>>
        /\ UNCHANGED <<stored, call, waiting, broken, crossed, loggedOut, replaced>>
    BY <1>2 DEF allVars, server, vars, columns, client
  <2>2. ClientTypeOK' /\ CallsBecomeRequests' /\ NoSpuriousLogout'
    BY <2>1 DEF ClientInv, ClientTypeOK, CallsBecomeRequests, NoSpuriousLogout
  <2>3. Agree' = Agree
    BY <2>1 DEF Agree, Exchangeable
  <2>4. \A r : InFlight(r) => InFlight(r)'
    BY <2>1 DEF InFlight, Underway, TokensOnTheWay, Refusing, Agree, Exchangeable
  <2>5. CalmInv => CalmInv'
    BY <2>1, <2>3, <2>4 DEF CalmInv
  <2>6. Calm' => Calm
    BY <2>1 DEF Calm
  <2> QED
    BY <1>1, <2>2, <2>5, <2>6 DEF ClientInv
<1>3. ASSUME NEW r \in Requests, NEW b \in Tabs, User(r, b)
      PROVE  ClientInv'
  BY <1>3, UserSends
<1>4. ASSUME NEW r \in Requests, Deliver(r)
      PROVE  ClientInv'
  <2>1. call[r] # NoCall /\ UNCHANGED client
    BY <1>4 DEF Deliver
  <2>2. PICK t : t = call[r].token
    OBVIOUS
  <2>3. \/ call[r].kind = "login" /\ \E u \in Tokens : Login(r, u)
        \/ /\ call[r].kind = "refresh"
           /\ RefreshReject(r, t) \/ RefreshReuse(r, t) \/ RefreshAccept(r, t)
        \/ /\ call[r].kind = "logout"
           /\ LogoutIgnore(r, t) \/ LogoutRead(r, t)
    BY <1>4, <2>2 DEF Deliver
  <2> QED
    BY <2>1, <2>2, <2>3, LoginServed, RefreshServed, LogoutServed
<1>5. ASSUME NEW r \in Requests, Serve(r)
      PROVE  ClientInv'
  BY <1>5, RotationServed, LogoutCommitServed, RevocationServed DEF Serve, Continue
<1> QED
  BY <1>1, <1>2, <1>3, <1>4, <1>5, AnswerArrives, FailureServed, AnswerLost, ExpiryServed
  DEF ClientNext, Progress

(* Whatever the tabs of the browser do, the invariant of the two holds:      *)
(* while no two calls crossed and none broke, one call is in flight at most,  *)
(* and storage and table agree up to what that call has done (api.ts and      *)
(* auth/service.py together).                                                *)
THEOREM BrowserInvariance == ClientSpec => []BrowserInv
<1>1. BrowserInv /\ [ClientNext]_allVars => BrowserInv'
  BY ClientNextInv
<1> QED
  BY ClientInitInv, <1>1, PTL DEF ClientSpec

(* The browser is a client the server expects: everything proved of the      *)
(* server alone (ForkOnlyByOverlap, LinearUnlessRaced and the rest) holds     *)
(* under it too.                                                             *)
THEOREM ServerImplemented == ClientSpec => Spec
<1>1. BrowserInv /\ [ClientNext]_allVars => [Next]_vars
  BY ServerStep DEF BrowserInv, ClientInv
<1>2. ClientInit => Init
  BY DEF ClientInit
<1> QED
  BY BrowserInvariance, <1>1, <1>2, PTL DEF ClientSpec, Spec

(* api.ts doRefresh logs the user out on a refused refresh: that costs a     *)
(* session only when the token had expired, when two calls crossed, or after  *)
(* a call whose answer was lost.                                             *)
THEOREM SpuriousLogout == ClientSpec => []NoSpuriousLogout
<1>1. BrowserInv => NoSpuriousLogout
  BY DEF BrowserInv, ClientInv
<1> QED
  BY BrowserInvariance, <1>1, PTL

(* Once everything is answered, and nothing crossed or broke, the stored      *)
(* token is the only one that can still be exchanged, but for the sessions a  *)
(* second login overwrote; after a logout none is stored.                    *)
THEOREM Agreement == ClientSpec => []BrowserAndServerAgree
<1>1. BrowserInv => BrowserAndServerAgree
  <2> SUFFICES ASSUME IInv, ClientInv, waiting = {}, ~crossed, broken = 0
               PROVE  /\ issued \ (consumed \cup revoked \cup expired) \subseteq {stored} \cup replaced
                      /\ stored \in {NoToken} \cup expired \cup {t \in issued : Fresh(t)}
                      /\ loggedOut => stored = NoToken
    BY DEF BrowserInv, BrowserAndServerAgree
  <2>1. Agree
    BY DEF ClientInv, Calm, CalmInv
  <2>2. \A t \in Exchangeable : t \in issued /\ Fresh(t)
    BY ServerTypes
  <2> QED
    BY <2>1, <2>2 DEF Agree, Exchangeable
<1> QED
  BY BrowserInvariance, <1>1, PTL
=============================================================================
