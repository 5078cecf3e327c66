---------------------------- MODULE LedgerProofs ----------------------------
(***************************************************************************)
(* Theorems about Ledger for any rows, requests, fields and values.         *)
(***************************************************************************)
EXTENDS Ledger, TLAPS

(* The row a flush makes of a row is a row.                                  *)
LEMMA WrittenType ==
  ASSUME NEW r \in Requests, asked[r] \in Contents, NEW c \in Contents
  PROVE  Written(r, c) \in Contents
BY DEF Written, Contents

(* A request writes what it was asked for over the row it read.              *)
LEMMA WrittenOverOld ==
  ASSUME NEW r \in Requests, asked[r] \in Contents, old[r] \in Contents
  PROVE  /\ Written(r, old[r]) = asked[r]
         /\ Changed(r) = {} => asked[r] = old[r]
<1>1. \A f \in Fields : Written(r, old[r])[f] = asked[r][f]
  BY DEF Written, Changed
<1>2. Written(r, old[r]) = [f \in Fields |-> Written(r, old[r])[f]]
  BY DEF Written
<1>3. asked[r] = [f \in Fields |-> asked[r][f]] /\ old[r] = [f \in Fields |-> old[r][f]]
  BY DEF Contents
<1>4. Written(r, old[r]) = asked[r]
  BY <1>1, <1>2, <1>3
<1>5. ASSUME Changed(r) = {} PROVE asked[r] = old[r]
  <2>1. \A f \in Fields : asked[r][f] = old[r][f]
    BY <1>5 DEF Changed
  <2> QED
    BY <2>1, <1>3
<1> QED
  BY <1>4, <1>5

(* An audit row lands at the end of the trail of its entity and nowhere      *)
(* else.                                                                     *)
LEMMA AuditAppends ==
  ASSUME TypeOK, NEW e \in Entities, NEW action \in {"CREATE", "UPDATE", "DELETE"},
         NEW o \in Contents \cup {NoRow}, NEW n \in Contents \cup {NoRow},
         Audit(e, action, o, n)
  PROVE  /\ trail' \in [Entities -> Seq(AuditRows)]
         /\ \A d \in Entities \ {e} : trail'[d] = trail[d]
         /\ Len(trail'[e]) = Len(trail[e]) + 1
         /\ Len(trail[e]) \in Nat
         /\ \A i \in 1 .. Len(trail[e]) : trail'[e][i] = trail[e][i]
         /\ trail'[e][Len(trail[e]) + 1].old = o
         /\ trail'[e][Len(trail[e]) + 1].new = n
<1> DEFINE a == [action |-> action, old |-> o, new |-> n]
<1>1. a \in AuditRows /\ a.old = o /\ a.new = n
  BY DEF AuditRows
<1>2. trail \in [Entities -> Seq(AuditRows)]
  BY DEF TypeOK
<1>3. trail' = [trail EXCEPT ![e] = Append(trail[e], a)]
  BY DEF Audit
<1> HIDE DEF a
<1>4. trail[e] \in Seq(AuditRows)
  BY <1>2
<1>5. Append(trail[e], a) \in Seq(AuditRows)
  BY <1>1, <1>4
<1>6. trail'[e] = Append(trail[e], a)
  BY <1>2, <1>3
<1>7. Len(trail[e]) \in Nat /\ Len(Append(trail[e], a)) = Len(trail[e]) + 1
  BY <1>4, <1>1
<1>8. \A i \in 1 .. Len(trail[e]) : Append(trail[e], a)[i] = trail[e][i]
  BY <1>4, <1>1
<1>9. Append(trail[e], a)[Len(trail[e]) + 1] = a
  BY <1>4, <1>1
<1> QED
  BY <1>1, <1>2, <1>3, <1>5, <1>6, <1>7, <1>8, <1>9

(* An audit row that starts from the row as it is and ends with the row as   *)
(* it becomes continues the chain.                                           *)
LEMMA ChainGrows ==
  ASSUME TypeOK, NEW e \in Entities, NEW action \in {"CREATE", "UPDATE", "DELETE"},
         NEW o \in Contents \cup {NoRow}, NEW n \in Contents \cup {NoRow},
         Audit(e, action, o, n), row[e] = o, row'[e] = n,
         imported'[e] = imported[e], Replays(e)
  PROVE  Replays(e)'
<1>1. PICK k \in Nat : k = Len(trail[e])
  BY AuditAppends
<1>2. /\ Len(trail'[e]) = k + 1
      /\ \A i \in 1 .. k : trail'[e][i] = trail[e][i]
      /\ trail'[e][k + 1].old = row[e]
      /\ trail'[e][k + 1].new = n
  <2>1. Len(trail'[e]) = Len(trail[e]) + 1
    BY AuditAppends
  <2>2. \A i \in 1 .. Len(trail[e]) : trail'[e][i] = trail[e][i]
    BY AuditAppends
  <2>3. trail'[e][Len(trail[e]) + 1].old = o
    BY AuditAppends
  <2>4. trail'[e][Len(trail[e]) + 1].new = n
    BY AuditAppends
  <2> QED
    BY <1>1, <2>1, <2>2, <2>3, <2>4
<1>3. ASSUME NEW i \in 1 .. k + 1 PROVE Before(e, i)' = Before(e, i)
  <2>1. CASE i = 1
    BY <2>1 DEF Before
  <2>2. CASE i # 1
    <3>1. i - 1 \in 1 .. k
      BY <2>2, <1>1, <1>2
    <3> QED
      BY <2>2, <3>1, <1>1, <1>2 DEF Before
  <2> QED
    BY <2>1, <2>2
<1>4. Before(e, k + 2)' = n
  <2>1. k + 2 # 1 /\ (k + 2) - 1 = k + 1
    BY <1>1, <1>2
  <2> QED
    BY <2>1, <1>1, <1>2 DEF Before
<1>5. ASSUME NEW i \in 1 .. k + 1 PROVE trail'[e][i].old = Before(e, i)'
  <2>1. CASE i \in 1 .. k
    BY <2>1, <1>1, <1>2, <1>3 DEF Replays
  <2>2. CASE i = k + 1
    <3>1. row[e] = Before(e, k + 1)
      BY <1>1, <1>2 DEF Replays
    <3> QED
      BY <2>2, <3>1, <1>1, <1>2, <1>3
  <2> QED
    BY <1>1, <1>2, <2>1, <2>2
<1>6. Len(trail'[e]) + 1 = k + 2
  BY <1>1, <1>2
<1> QED
  BY <1>1, <1>2, <1>4, <1>5, <1>6 DEF Replays

(* Every step leaves the rows, the requests and the history well formed.     *)
LEMMA TypeStep == TypeOK /\ LocksHold /\ [Next]_vars => TypeOK'
<1> SUFFICES ASSUME TypeOK, LocksHold, [Next]_vars PROVE TypeOK'
  OBVIOUS
<1> USE DEF history, Goto, Arrives, Running, Answered
<1>1. ASSUME NEW r \in Requests, NEW e \in Entities, NotFound(r, e) PROVE TypeOK'
  BY <1>1 DEF NotFound, TypeOK
<1>2. ASSUME NEW r \in Requests, NEW e \in Entities, ReadDelete(r, e) PROVE TypeOK'
  BY <1>2 DEF ReadDelete, Read, TypeOK
<1>3. ASSUME NEW r \in Requests, NEW e \in Entities, NEW c \in Contents,
             ReadUpdate(r, e, c)
      PROVE  TypeOK'
  BY <1>3 DEF ReadUpdate, Read, TypeOK
<1>4. ASSUME NEW r \in Requests, NEW e \in Entities, NEW c \in Contents,
             Create(r, e, c)
      PROVE  TypeOK'
  <2>1. trail' \in [Entities -> Seq(AuditRows)]
    <3>1. Audit(e, "CREATE", NoRow, c)
      BY <1>4 DEF Create
    <3> QED
      BY <3>1, AuditAppends
  <2> QED
    BY <1>4, <2>1 DEF Create, Write, Credit, TypeOK
<1>5. ASSUME NEW r \in Requests, NEW e \in Entities, NEW c \in Contents,
             Import(r, e, c)
      PROVE  TypeOK'
  BY <1>5 DEF Import, Write, Credit, TypeOK
<1>6. ASSUME NEW r \in Requests, UpdateStale(r) \/ RefreshGone(r) \/ Fail(r)
      PROVE  TypeOK'
  BY <1>6 DEF UpdateStale, RefreshGone, Fail, TypeOK
<1>7. ASSUME NEW r \in Requests, UpdateEntry(r) PROVE TypeOK'
  <2>1. target[r] \in Entities /\ old[r] \in Contents /\ asked[r] \in Contents
    BY <1>7 DEF UpdateEntry, TypeOK
  <2>2. Changed(r) # {} => row[target[r]] \in Contents
    BY <1>7, <2>1 DEF UpdateEntry, Flushes, TypeOK
  <2>3. Changed(r) # {} => Written(r, row[target[r]]) \in Contents
    BY <2>1, <2>2, WrittenType
  <2>4. trail' \in [Entities -> Seq(AuditRows)]
    <3>1. Audit(target[r], "UPDATE", old[r], asked[r])
      BY <1>7 DEF UpdateEntry, Snapshot
    <3> QED
      BY <2>1, <3>1, AuditAppends
  <2> QED
    BY <1>7, <2>1, <2>3, <2>4 DEF UpdateEntry, Write, Credit, TypeOK
<1>8. ASSUME NEW r \in Requests, FlushAccount(r) PROVE TypeOK'
  BY <1>8 DEF FlushAccount, TypeOK
<1>9. ASSUME NEW r \in Requests, RefreshAccount(r) PROVE TypeOK'
  <2>1. Written(r, row[target[r]]) \in Contents
    BY <1>9, WrittenType DEF RefreshAccount, TypeOK
  <2> QED
    BY <1>9, <2>1 DEF RefreshAccount, ReadBack, TypeOK
<1>10. ASSUME NEW r \in Requests, CommitAccount(r) PROVE TypeOK'
  <2>1. /\ target[r] \in Entities
        /\ old[r] \in Contents /\ asked[r] \in Contents /\ new[r] \in Contents
    BY <1>10 DEF CommitAccount, TypeOK
  <2>2. Changed(r) # {} => row[target[r]] \in Contents
    BY <1>10, <2>1 DEF CommitAccount, Holders, LocksHold, TypeOK
  <2>3. Changed(r) # {} => Written(r, row[target[r]]) \in Contents
    BY <2>1, <2>2, WrittenType
  <2>4. trail' \in [Entities -> Seq(AuditRows)]
    <3>1. Audit(target[r], "UPDATE", old[r], new[r])
      BY <1>10 DEF CommitAccount, Snapshot
    <3> QED
      BY <2>1, <3>1, AuditAppends
  <2> QED
    BY <1>10, <2>1, <2>3, <2>4 DEF CommitAccount, Write, Credit, TypeOK
<1>11. ASSUME NEW r \in Requests, CommitDelete(r) PROVE TypeOK'
  <2>1. target[r] \in Entities /\ old[r] \in Contents
    BY <1>11 DEF CommitDelete, TypeOK
  <2>2. trail' \in [Entities -> Seq(AuditRows)]
    <3>1. Audit(target[r], "DELETE", old[r], NoRow)
      BY <1>11 DEF CommitDelete, Snapshot
    <3> QED
      BY <2>1, <3>1, AuditAppends
  <2> QED
    BY <1>11, <2>1, <2>2 DEF CommitDelete, Write, Credit, TypeOK
<1>12. CASE UNCHANGED vars
  BY <1>12 DEF vars, TypeOK
<1> QED
  BY <1>1, <1>2, <1>3, <1>4, <1>5, <1>6, <1>7, <1>8, <1>9, <1>10, <1>11, <1>12
     DEF Next, Arrive, Continue

(* A request that ends without a commit, answered 404 or not at all, leaves  *)
(* every part of the invariant alone.                                        *)
LEMMA QuietStep ==
  ASSUME IInv, TypeOK', NEW r \in Requests,
         UNCHANGED <<row, trail, old, asked, new, history>>,
         req' = [req EXCEPT ![r] = req'[r]],
         target' = [target EXCEPT ![r] = target'[r]],
         req'[r] \in Answered
  PROVE  IInv'
<1> USE DEF history
<1>1. \A q \in Requests \ {r} : req'[q] = req[q] /\ target'[q] = target[q]
  BY DEF IInv, TypeOK
<1>2. req'[r] \notin Running
  BY DEF Answered, Running
<1>3. \A q \in Requests : Changed(q)' = Changed(q)
  BY DEF Changed
<1>4. LocksHold'
  <2> SUFFICES ASSUME NEW q \in Requests, (q \in Holders(target[q]))'
               PROVE  /\ Holders(target[q])' = {q}
                      /\ row'[target'[q]] # NoRow
                      /\ req'[q] = "refreshed" => new'[q] = Written(q, row[target[q]])'
    BY DEF LocksHold
  <2>1. q # r /\ q \in Holders(target[q])
    BY <1>1, <1>2, <1>3 DEF Holders, Running
  <2>2. \A p \in Holders(target[q])' : p \in Holders(target[q])
    BY <1>1, <1>2, <1>3, <2>1 DEF Holders, Running
  <2>3. Holders(target[q]) = {q} /\ row[target[q]] # NoRow
        /\ (req[q] = "refreshed" => new[q] = Written(q, row[target[q]]))
    BY <2>1 DEF IInv, LocksHold
  <2>4. Written(q, row[target[q]])' = Written(q, row[target[q]])
    BY <1>1, <1>3, <2>1 DEF Written
  <2>5. Holders(target[q])' = {q}
    BY <2>2, <2>3
  <2> QED
    BY <1>1, <2>1, <2>3, <2>4, <2>5
<1>5. AloneIsCurrent'
  <2> SUFFICES ASSUME NEW q \in Requests, req'[q] \in Running, target'[q] \notin overlapped
               PROVE  /\ InFlight(target[q])' = {q}
                      /\ old[q] = row[target'[q]]
                      /\ req'[q] = "refreshed" => new[q] = asked[q]
    BY DEF AloneIsCurrent
  <2>1. q # r /\ req[q] = req'[q] /\ target[q] = target'[q]
    BY <1>1, <1>2
  <2>2. /\ InFlight(target[q]) = {q}
        /\ old[q] = row[target[q]]
        /\ req[q] = "refreshed" => new[q] = asked[q]
    BY <2>1 DEF IInv, AloneIsCurrent
  <2>3. InFlight(target[q])' = {q}
    BY <1>1, <1>2, <2>1, <2>2 DEF InFlight
  <2> QED
    BY <2>1, <2>2, <2>3
<1>6. FlushedAreAccounts'
  BY <1>1, <1>2 DEF IInv, FlushedAreAccounts, Running
<1>7. AccountTrailCurrent' /\ TrailIsAChain'
  BY DEF IInv, AccountTrailCurrent, TrailIsAChain, Replays, Before
<1> QED
  BY <1>4, <1>5, <1>6, <1>7 DEF IInv

(* A request that reads an entity holds no lock, and is alone at work on it  *)
(* or overlaps.                                                              *)
LEMMA ReadStep ==
  ASSUME IInv, TypeOK', NEW r \in Requests, NEW e \in Entities,
         NEW stage \in {"updating", "deleting"}, Read(r, e, stage),
         \A q \in Requests \ {r} : asked'[q] = asked[q]
  PROVE  IInv'
<1> USE DEF Read, Arrives, Goto
<1>0. TypeOK
  BY DEF IInv
<1>1. /\ req[r] = "idle" /\ req'[r] = stage /\ target'[r] = e /\ old'[r] = row[e]
      /\ \A q \in Requests \ {r} : /\ req'[q] = req[q] /\ target'[q] = target[q]
                                    /\ old'[q] = old[q] /\ new'[q] = new[q]
      /\ row' = row /\ trail' = trail /\ lastWrite' = lastWrite /\ imported' = imported
  BY <1>0 DEF TypeOK
<1>2. overlapped \subseteq overlapped' /\ (InFlight(e) # {} => e \in overlapped')
  OBVIOUS
<1>3. \A q \in Requests \ {r} : Changed(q)' = Changed(q)
  BY <1>1 DEF Changed
<1>4. LocksHold'
  <2> SUFFICES ASSUME NEW q \in Requests, (q \in Holders(target[q]))'
               PROVE  /\ Holders(target[q])' = {q}
                      /\ row'[target'[q]] # NoRow
                      /\ req'[q] = "refreshed" => new'[q] = Written(q, row[target[q]])'
    BY DEF LocksHold
  <2>1. q # r
    BY <1>1 DEF Holders
  <2>2. q \in Holders(target[q])
    BY <1>1, <1>3, <2>1 DEF Holders
  <2>3. \A p \in Holders(target[q])' : p \in Holders(target[q])
    BY <1>1, <1>3, <2>1 DEF Holders
  <2>4. /\ Holders(target[q]) = {q} /\ row[target[q]] # NoRow
        /\ req[q] = "refreshed" => new[q] = Written(q, row[target[q]])
    BY <2>2 DEF IInv, LocksHold
  <2>5. Written(q, row[target[q]])' = Written(q, row[target[q]])
    BY <1>1, <1>3, <2>1 DEF Written
  <2>6. Holders(target[q])' = {q}
    BY <2>3, <2>4
  <2> QED
    BY <1>1, <2>1, <2>4, <2>5, <2>6
<1>5. AloneIsCurrent'
  <2> SUFFICES ASSUME NEW q \in Requests, req'[q] \in Running, target'[q] \notin overlapped'
               PROVE  /\ InFlight(target[q])' = {q}
                      /\ old'[q] = row'[target'[q]]
                      /\ req'[q] = "refreshed" => new'[q] = asked'[q]
    BY DEF AloneIsCurrent
  <2>1. CASE q = r
    <3>1. InFlight(e) = {}
      BY <2>1, <1>1, <1>2
    <3>2. \A p \in Requests \ {r} : ~(req[p] \in Running /\ target[p] = e)
      BY <3>1 DEF InFlight
    <3>3. InFlight(target[q])' = {q}
      BY <2>1, <3>2, <1>1 DEF InFlight, Running
    <3> QED
      BY <2>1, <1>1, <3>3
  <2>2. CASE q # r
    <3>1. req[q] \in Running /\ target[q] = target'[q] /\ target[q] \notin overlapped
      BY <2>2, <1>1, <1>2
    <3>2. /\ InFlight(target[q]) = {q}
          /\ old[q] = row[target[q]]
          /\ req[q] = "refreshed" => new[q] = asked[q]
      BY <3>1 DEF IInv, AloneIsCurrent
    <3>3. target[q] # e
      BY <3>1, <3>2, <1>2
    <3>4. InFlight(target[q])' = {q}
      BY <1>1, <2>2, <3>1, <3>2, <3>3 DEF InFlight
    <3> QED
      BY <1>1, <2>2, <3>2, <3>4
  <2> QED
    BY <2>1, <2>2
<1>6. FlushedAreAccounts'
  BY <1>1 DEF IInv, FlushedAreAccounts
<1>7. AccountTrailCurrent' /\ TrailIsAChain'
  BY <1>1, <1>2 DEF IInv, AccountTrailCurrent, TrailIsAChain, Replays, Before
<1> QED
  BY <1>4, <1>5, <1>6, <1>7 DEF IInv

(* Nobody is at work on a row that is not there, unless two were at once.    *)
LEMMA AbsentIsUnwatched ==
  ASSUME IInv, NEW q \in Requests, row[target[q]] = NoRow
  PROVE  /\ q \notin Holders(target[q])
         /\ req[q] \in Running => target[q] \in overlapped
<1>1. q \notin Holders(target[q])
  BY DEF IInv, LocksHold
<1>2. ASSUME req[q] \in Running, target[q] \notin overlapped PROVE FALSE
  <2>1. old[q] = NoRow
    BY <1>2 DEF IInv, AloneIsCurrent
  <2>2. old[q] \in Contents
    BY <1>2 DEF IInv, TypeOK
  <2> QED
    BY <2>1, <2>2, LedgerAssumption
<1> QED
  BY <1>1, <1>2

(* A row that is inserted is nobody's but its request's.                     *)
LEMMA InsertStep ==
  ASSUME IInv, TypeOK', NEW r \in Requests, NEW e \in Entities, NEW c \in Contents,
         row[e] = NoRow, Arrives(r, "created"), Write(e, c), Credit(e, c),
         target' = [target EXCEPT ![r] = e],
         UNCHANGED <<old, asked, new, overlapped>>,
         Replays(e)',
         \A d \in Entities \ {e} : imported'[d] = imported[d] /\ trail'[d] = trail[d]
  PROVE  IInv'
<1> USE DEF Arrives, Goto, Write, Credit
<1>0. TypeOK
  BY DEF IInv
<1>1. /\ req'[r] = "created" /\ row'[e] = c /\ lastWrite'[e] = c
      /\ \A q \in Requests \ {r} : req'[q] = req[q] /\ target'[q] = target[q]
      /\ \A d \in Entities \ {e} : row'[d] = row[d] /\ lastWrite'[d] = lastWrite[d]
  BY <1>0 DEF TypeOK
<1>3. \A q \in Requests : Changed(q)' = Changed(q)
  BY DEF Changed
<1>4. LocksHold'
  <2> SUFFICES ASSUME NEW q \in Requests, (q \in Holders(target[q]))'
               PROVE  /\ Holders(target[q])' = {q}
                      /\ row'[target'[q]] # NoRow
                      /\ req'[q] = "refreshed" => new'[q] = Written(q, row[target[q]])'
    BY DEF LocksHold
  <2>1. q # r
    BY <1>1 DEF Holders
  <2>2. q \in Holders(target[q])
    BY <1>1, <1>3, <2>1 DEF Holders
  <2>3. \A p \in Holders(target[q])' : p \in Holders(target[q])
    BY <1>1, <1>3, <2>1 DEF Holders
  <2>4. /\ Holders(target[q]) = {q} /\ row[target[q]] # NoRow
        /\ req[q] = "refreshed" => new[q] = Written(q, row[target[q]])
    BY <2>2 DEF IInv, LocksHold
  <2>5. target[q] # e /\ target[q] \in Entities
    BY <2>2, <2>4, <1>0 DEF Holders, TypeOK, Running
  <2>6. Written(q, row[target[q]])' = Written(q, row[target[q]])
    BY <1>1, <1>3, <2>1, <2>5 DEF Written
  <2>7. Holders(target[q])' = {q}
    BY <2>3, <2>4
  <2> QED
    BY <1>1, <2>1, <2>4, <2>5, <2>6, <2>7
<1>5. AloneIsCurrent'
  <2> SUFFICES ASSUME NEW q \in Requests, req'[q] \in Running, target'[q] \notin overlapped
               PROVE  /\ InFlight(target[q])' = {q}
                      /\ old[q] = row'[target'[q]]
                      /\ req'[q] = "refreshed" => new[q] = asked[q]
    BY DEF AloneIsCurrent
  <2>1. q # r
    BY <1>1 DEF Running
  <2>2. req[q] \in Running /\ target[q] = target'[q] /\ target[q] \notin overlapped
    BY <2>1, <1>1
  <2>3. /\ InFlight(target[q]) = {q}
        /\ old[q] = row[target[q]]
        /\ req[q] = "refreshed" => new[q] = asked[q]
    BY <2>2 DEF IInv, AloneIsCurrent
  <2>4. target[q] # e /\ target[q] \in Entities
    BY <2>2, <1>0, AbsentIsUnwatched DEF TypeOK
  <2>5. InFlight(target[q])' = {q}
    BY <1>1, <2>1, <2>2, <2>3 DEF InFlight, Running
  <2> QED
    BY <1>1, <2>1, <2>3, <2>4, <2>5
<1>6. FlushedAreAccounts'
  BY <1>1 DEF IInv, FlushedAreAccounts
<1>7. AccountTrailCurrent'
  BY <1>1 DEF IInv, AccountTrailCurrent, Entities
<1>8. TrailIsAChain'
  <2> SUFFICES ASSUME NEW d \in Entities \ overlapped PROVE Replays(d)'
    BY DEF TrailIsAChain
  <2>1. CASE d # e
    BY <2>1, <1>1 DEF IInv, TrailIsAChain, Replays, Before
  <2> QED
    BY <2>1
<1> QED
  BY <1>4, <1>5, <1>6, <1>7, <1>8 DEF IInv

(* The UPDATE of an account takes the lock; its SELECT reads the row that    *)
(* the lock keeps.                                                           *)
LEMMA FlushStep ==
  ASSUME IInv, TypeOK', NEW r \in Requests, FlushAccount(r) \/ RefreshAccount(r)
  PROVE  IInv'
<1> USE DEF FlushAccount, RefreshAccount, Goto, history
<1>0. TypeOK
  BY DEF IInv
<1>1. /\ req[r] \in Running /\ req'[r] \in {"flushed", "refreshed"}
      /\ req[r] = "updating" => req'[r] = "flushed" /\ FlushAccount(r)
      /\ req[r] # "updating" => req[r] = "flushed" /\ RefreshAccount(r)
      /\ \A q \in Requests \ {r} : req'[q] = req[q] /\ new'[q] = new[q]
      /\ row' = row /\ trail' = trail /\ target' = target /\ old' = old /\ asked' = asked
      /\ imported' = imported /\ lastWrite' = lastWrite /\ overlapped' = overlapped
  BY <1>0 DEF TypeOK, Running
<1>2. /\ target[r] \in Entities /\ old[r] \in Contents /\ asked[r] \in Contents
      /\ target[r] \in Accounts
  BY <1>0, <1>1 DEF TypeOK, Running, IInv, FlushedAreAccounts
<1>3. \A q \in Requests : Changed(q)' = Changed(q)
  BY <1>1 DEF Changed
<1>4. \A q \in Requests : Written(q, row[target[q]])' = Written(q, row[target[q]])
  BY <1>1, <1>3 DEF Written
<1>5. req'[r] = "refreshed" => new'[r] = Written(r, row[target[r]])
  BY <1>0, <1>1 DEF ReadBack, TypeOK
<1>6. LocksHold'
  <2> SUFFICES ASSUME NEW q \in Requests, (q \in Holders(target[q]))'
               PROVE  /\ Holders(target[q])' = {q}
                      /\ row'[target'[q]] # NoRow
                      /\ req'[q] = "refreshed" => new'[q] = Written(q, row[target[q]])'
    BY DEF LocksHold
  <2>1. CASE req[r] = "updating" /\ Changed(r) # {}
    <3>1. Holders(target[r]) = {} /\ row[target[r]] # NoRow
      BY <2>1, <1>1 DEF Flushes, Unlocked
    <3>2. CASE q = r
      <4>1. \A p \in Requests \ {r} : (p \in Holders(target[r]))' => p \in Holders(target[r])
        BY <1>1, <1>3 DEF Holders
      <4>2. Holders(target[q])' = {q}
        BY <3>1, <3>2, <4>1 DEF Holders
      <4> QED
        BY <2>1, <1>1, <1>4, <1>5, <3>1, <3>2, <4>2
    <3>3. CASE q # r
      <4>1. q \in Holders(target[q])
        BY <3>3, <1>1, <1>3 DEF Holders
      <4>2. target[q] # target[r]
        BY <3>1, <4>1
      <4>3. \A p \in Holders(target[q])' : p \in Holders(target[q])
        BY <1>1, <1>3, <4>2 DEF Holders
      <4>4. /\ Holders(target[q]) = {q} /\ row[target[q]] # NoRow
            /\ req[q] = "refreshed" => new[q] = Written(q, row[target[q]])
        BY <4>1 DEF IInv, LocksHold
      <4>5. Holders(target[q])' = {q}
        BY <4>3, <4>4
      <4> QED
        BY <3>3, <1>1, <1>4, <4>4, <4>5
    <3> QED
      BY <3>2, <3>3
  <2>2. CASE ~(req[r] = "updating" /\ Changed(r) # {})
    <3>1. \A p \in Requests : (p \in Holders(target[q]))' <=> p \in Holders(target[q])
      BY <2>2, <1>1, <1>3 DEF Holders
    <3>2. /\ Holders(target[q]) = {q} /\ row[target[q]] # NoRow
          /\ req[q] = "refreshed" => new[q] = Written(q, row[target[q]])
      BY <3>1 DEF IInv, LocksHold
    <3>3. Holders(target[q])' = {q}
      BY <3>1, <3>2 DEF Holders
    <3> QED
      BY <1>1, <1>4, <1>5, <3>2, <3>3
  <2> QED
    BY <2>1, <2>2
<1>7. AloneIsCurrent'
  <2> SUFFICES ASSUME NEW q \in Requests, req'[q] \in Running, target[q] \notin overlapped
               PROVE  /\ InFlight(target[q])' = {q}
                      /\ old[q] = row[target[q]]
                      /\ req'[q] = "refreshed" => new'[q] = asked[q]
    BY <1>1 DEF AloneIsCurrent
  <2>1. req[q] \in Running
    BY <1>1
  <2>2. /\ InFlight(target[q]) = {q}
        /\ old[q] = row[target[q]]
        /\ req[q] = "refreshed" => new[q] = asked[q]
    BY <2>1 DEF IInv, AloneIsCurrent
  <2>3. InFlight(target[q])' = InFlight(target[q])
    BY <1>1 DEF InFlight, Running
  <2>4. req'[r] = "refreshed" /\ q = r => new'[r] = asked[r]
    BY <1>2, <1>5, <2>2, WrittenOverOld
  <2> QED
    BY <1>1, <2>2, <2>3, <2>4
<1>8. FlushedAreAccounts'
  BY <1>1, <1>2 DEF IInv, FlushedAreAccounts
<1>9. AccountTrailCurrent' /\ TrailIsAChain'
  BY <1>1 DEF IInv, AccountTrailCurrent, TrailIsAChain, Replays, Before
<1> QED
  BY <1>6, <1>7, <1>8, <1>9 DEF IInv

(* A request commits row m and an audit row that starts from what it read    *)
(* and ends with n.  It needs the lock when it changes the row, and what it  *)
(* audits is what it writes when it was alone.                               *)
LEMMA CommitStep ==
  ASSUME IInv, TypeOK', NEW r \in Requests,
         NEW e \in Entities, e = target[r],
         NEW action \in {"CREATE", "UPDATE", "DELETE"},
         NEW o \in Contents \cup {NoRow}, o = old[r],
         NEW n \in Contents \cup {NoRow}, Audit(e, action, o, n),
         NEW m \in Contents \cup {NoRow}, row' = [row EXCEPT ![e] = m],
         NEW w \in Contents \cup {NoRow}, lastWrite' = [lastWrite EXCEPT ![e] = w],
         e \in Accounts => w = m,
         m = row[e] \/ Holders(e) \subseteq {r},
         e \notin overlapped => m = n,
         req[r] \in Running, Goto(r, req'[r]), req'[r] \in Answered,
         UNCHANGED <<target, old, asked, new, imported, overlapped>>
  PROVE  IInv'
<1> USE DEF Goto
<1>0. TypeOK
  BY DEF IInv
<1>1. /\ row'[e] = m /\ lastWrite'[e] = w
      /\ \A q \in Requests \ {r} : req'[q] = req[q]
      /\ \A d \in Entities \ {e} : row'[d] = row[d] /\ lastWrite'[d] = lastWrite[d]
      /\ req'[r] \notin Running
  BY <1>0 DEF TypeOK, Answered, Running
<1>2. \A d \in Entities \ {e} : trail'[d] = trail[d]
  BY <1>0 DEF TypeOK, Audit
<1>3. \A q \in Requests : Changed(q)' = Changed(q)
  BY DEF Changed
<1>4. LocksHold'
  <2> SUFFICES ASSUME NEW q \in Requests, (q \in Holders(target[q]))'
               PROVE  /\ Holders(target[q])' = {q}
                      /\ row'[target[q]] # NoRow
                      /\ req'[q] = "refreshed" => new[q] = Written(q, row[target[q]])'
    BY DEF LocksHold
  <2>1. q # r
    BY <1>1 DEF Holders, Running
  <2>2. q \in Holders(target[q])
    BY <1>1, <1>3, <2>1 DEF Holders
  <2>3. \A p \in Holders(target[q])' : p \in Holders(target[q])
    BY <1>1, <1>3, <2>1 DEF Holders, Running
  <2>4. /\ Holders(target[q]) = {q} /\ row[target[q]] # NoRow
        /\ req[q] = "refreshed" => new[q] = Written(q, row[target[q]])
    BY <2>2 DEF IInv, LocksHold
  <2>5. target[q] \in Entities
    BY <2>2, <1>0 DEF Holders, TypeOK, Running
  <2>6. row'[target[q]] = row[target[q]]
    BY <1>1, <2>1, <2>2, <2>5
  <2>7. Written(q, row[target[q]])' = Written(q, row[target[q]])
    BY <1>3, <2>6 DEF Written
  <2>8. Holders(target[q])' = {q}
    BY <2>3, <2>4
  <2> QED
    BY <1>1, <2>1, <2>4, <2>6, <2>7, <2>8
<1>5. AloneIsCurrent'
  <2> SUFFICES ASSUME NEW q \in Requests, req'[q] \in Running, target[q] \notin overlapped
               PROVE  /\ InFlight(target[q])' = {q}
                      /\ old[q] = row'[target[q]]
                      /\ req'[q] = "refreshed" => new[q] = asked[q]
    BY DEF AloneIsCurrent
  <2>1. q # r /\ req'[q] = req[q]
    BY <1>1
  <2>2. /\ InFlight(target[q]) = {q}
        /\ old[q] = row[target[q]]
        /\ req[q] = "refreshed" => new[q] = asked[q]
    BY <2>1 DEF IInv, AloneIsCurrent
  <2>3. target[q] # e
    BY <2>1, <2>2 DEF InFlight
  <2>4. target[q] \in Entities
    BY <2>1, <1>0 DEF TypeOK
  <2>5. InFlight(target[q])' = {q}
    BY <1>1, <2>1, <2>2 DEF InFlight, Running
  <2> QED
    BY <1>1, <2>1, <2>2, <2>3, <2>4, <2>5
<1>6. FlushedAreAccounts'
  BY <1>1 DEF IInv, FlushedAreAccounts, Running
<1>7. AccountTrailCurrent'
  BY <1>1 DEF IInv, AccountTrailCurrent, Entities
<1>8. TrailIsAChain'
  <2> SUFFICES ASSUME NEW d \in Entities, d \notin overlapped PROVE Replays(d)'
    BY DEF TrailIsAChain
  <2>1. Replays(d)
    BY DEF IInv, TrailIsAChain
  <2>2. CASE d # e
    BY <2>1, <2>2, <1>1, <1>2 DEF Replays, Before
  <2>3. CASE d = e
    <3>1. row[e] = o /\ row'[e] = n
      BY <2>3, <1>1 DEF IInv, AloneIsCurrent
    <3>2. Replays(e)
      BY <2>1, <2>3
    <3>3. Replays(e)'
      BY <1>0, <3>1, <3>2, ChainGrows
    <3> QED
      BY <2>3, <3>3
  <2> QED
    BY <2>2, <2>3
<1> QED
  BY <1>4, <1>5, <1>6, <1>7, <1>8 DEF IInv

(* update_income and update_expense commit.                                  *)
LEMMA UpdateEntryStep ==
  ASSUME IInv, TypeOK', NEW r \in Requests, UpdateEntry(r)
  PROVE  IInv'
<1>0. TypeOK /\ req[r] = "updating" /\ target[r] \in Entries
  BY DEF IInv, UpdateEntry
<1>1. /\ target[r] \in Entities /\ target[r] \notin Accounts
      /\ old[r] \in Contents /\ asked[r] \in Contents
  BY <1>0, LedgerAssumption DEF TypeOK, Running
<1>2. PICK e \in Entities : e = target[r]
  BY <1>1
<1>3. PICK o \in Contents \cup {NoRow} : o = old[r]
  BY <1>1
<1>4. PICK n \in Contents \cup {NoRow} : n = asked[r]
  BY <1>1
<1>5. /\ Audit(e, "UPDATE", o, n)
      /\ Goto(r, req'[r]) /\ req'[r] \in Answered
      /\ UNCHANGED <<target, old, asked, new, imported, overlapped>>
  <2>1. req'[r] = "updated" /\ Goto(r, "updated")
    BY <1>0 DEF UpdateEntry, Goto, TypeOK
  <2> QED
    BY <2>1, <1>2, <1>3, <1>4 DEF UpdateEntry, Snapshot, Answered, Audit
<1>6. e \notin overlapped => row[e] = old[r]
  BY <1>0, <1>2 DEF IInv, AloneIsCurrent, Running
<1>7. CASE Changed(r) = {}
  <2>1. row[e] \in Contents \cup {NoRow} /\ lastWrite[e] \in Contents \cup {NoRow}
    BY <1>0 DEF TypeOK
  <2>2. PICK m \in Contents \cup {NoRow} : m = row[e]
    BY <2>1
  <2>3. PICK w \in Contents \cup {NoRow} : w = lastWrite[e]
    BY <2>1
  <2>4. row' = [row EXCEPT ![e] = m] /\ lastWrite' = [lastWrite EXCEPT ![e] = w]
    BY <1>0, <1>2, <1>7, <2>2, <2>3 DEF UpdateEntry, TypeOK
  <2>5. e \notin overlapped => m = n
    BY <1>1, <1>4, <1>6, <1>7, <2>2, WrittenOverOld
  <2> QED
    BY <1>0, <1>1, <1>2, <1>3, <1>5, <2>2, <2>4, <2>5, CommitStep DEF Running
<1>8. CASE Changed(r) # {}
  <2>1. Holders(e) = {} /\ row[e] \in Contents
    BY <1>0, <1>2, <1>8 DEF UpdateEntry, Flushes, Unlocked, TypeOK
  <2>2. PICK m \in Contents \cup {NoRow} : m = Written(r, row[e])
    BY <1>1, <2>1, WrittenType
  <2>4. row' = [row EXCEPT ![e] = m] /\ lastWrite' = [lastWrite EXCEPT ![e] = n]
    BY <1>2, <1>4, <1>8, <2>2 DEF UpdateEntry, Write, Credit
  <2>5. e \notin overlapped => m = n
    BY <1>1, <1>4, <1>6, <2>2, WrittenOverOld
  <2> QED
    BY <1>0, <1>1, <1>2, <1>3, <1>5, <2>1, <2>4, <2>5, CommitStep DEF Running
<1> QED
  BY <1>7, <1>8

(* update_account commits.                                                   *)
LEMMA CommitAccountStep ==
  ASSUME IInv, TypeOK', NEW r \in Requests, CommitAccount(r)
  PROVE  IInv'
<1>0. TypeOK /\ req[r] = "refreshed" /\ target[r] \in Accounts
  BY DEF IInv, CommitAccount, FlushedAreAccounts
<1>1. /\ target[r] \in Entities
      /\ old[r] \in Contents /\ asked[r] \in Contents /\ new[r] \in Contents
  BY <1>0 DEF TypeOK, Running
<1>2. PICK e \in Entities : e = target[r]
  BY <1>1
<1>3. PICK o \in Contents \cup {NoRow} : o = old[r]
  BY <1>1
<1>4. PICK n \in Contents \cup {NoRow} : n = new[r]
  BY <1>1
<1>5. /\ Audit(e, "UPDATE", o, n)
      /\ Goto(r, req'[r]) /\ req'[r] \in Answered
      /\ UNCHANGED <<target, old, asked, new, imported, overlapped>>
  <2>1. req'[r] = "updated" /\ Goto(r, "updated")
    BY <1>0 DEF CommitAccount, Goto, TypeOK
  <2> QED
    BY <2>1, <1>2, <1>3, <1>4 DEF CommitAccount, Snapshot, Answered, Audit
<1>6. e \notin overlapped => row[e] = old[r] /\ new[r] = asked[r]
  BY <1>0, <1>2 DEF IInv, AloneIsCurrent, Running
<1>7. CASE Changed(r) = {}
  <2>1. row[e] \in Contents \cup {NoRow} /\ lastWrite[e] = row[e]
    BY <1>0, <1>2 DEF TypeOK, IInv, AccountTrailCurrent
  <2>2. PICK m \in Contents \cup {NoRow} : m = row[e]
    BY <2>1
  <2>4. row' = [row EXCEPT ![e] = m] /\ lastWrite' = [lastWrite EXCEPT ![e] = m]
    BY <1>0, <1>2, <1>7, <2>1, <2>2 DEF CommitAccount, TypeOK
  <2>5. e \notin overlapped => m = n
    BY <1>1, <1>4, <1>6, <1>7, <2>2, WrittenOverOld
  <2> QED
    BY <1>0, <1>1, <1>2, <1>3, <1>5, <2>2, <2>4, <2>5, CommitStep DEF Running
<1>8. CASE Changed(r) # {}
  <2>1. r \in Holders(target[r])
    BY <1>0, <1>8 DEF Holders
  <2>2. Holders(e) = {r} /\ n = Written(r, row[e])
    BY <1>0, <1>2, <1>4, <2>1 DEF IInv, LocksHold
  <2>4. row' = [row EXCEPT ![e] = n] /\ lastWrite' = [lastWrite EXCEPT ![e] = n]
    BY <1>2, <1>4, <1>8, <2>2 DEF CommitAccount, Write, Credit
  <2> QED
    BY <1>0, <1>1, <1>2, <1>3, <1>5, <2>2, <2>4, CommitStep DEF Running
<1> QED
  BY <1>7, <1>8

(* delete_account, delete_income and delete_expense commit.                  *)
LEMMA CommitDeleteStep ==
  ASSUME IInv, TypeOK', NEW r \in Requests, CommitDelete(r)
  PROVE  IInv'
<1>0. TypeOK /\ req[r] = "deleting"
  BY DEF IInv, CommitDelete
<1>1. target[r] \in Entities /\ old[r] \in Contents
  BY <1>0 DEF TypeOK, Running
<1>2. PICK e \in Entities : e = target[r]
  BY <1>1
<1>3. PICK o \in Contents \cup {NoRow} : o = old[r]
  BY <1>1
<1>5. /\ Audit(e, "DELETE", o, NoRow)
      /\ Goto(r, req'[r]) /\ req'[r] \in Answered
      /\ UNCHANGED <<target, old, asked, new, imported, overlapped>>
  <2>1. req'[r] = "deleted" /\ Goto(r, "deleted")
    BY <1>0 DEF CommitDelete, Goto, TypeOK
  <2> QED
    BY <2>1, <1>2, <1>3 DEF CommitDelete, Snapshot, Answered, Audit
<1>6. row' = [row EXCEPT ![e] = NoRow] /\ lastWrite' = [lastWrite EXCEPT ![e] = NoRow]
      /\ Holders(e) = {}
  BY <1>2 DEF CommitDelete, Write, Credit, Unlocked
<1> QED
  BY <1>0, <1>2, <1>3, <1>5, <1>6, CommitStep DEF Running

(* create_account, create_income, create_expense and the import insert.      *)
LEMMA CreateStep ==
  ASSUME IInv, TypeOK', NEW r \in Requests, NEW e \in Entities, NEW c \in Contents,
         Create(r, e, c) \/ Import(r, e, c)
  PROVE  IInv'
<1>0. /\ TypeOK /\ trail[e] = <<>> /\ imported[e] = NoRow /\ row[e] = NoRow
      /\ row' = [row EXCEPT ![e] = c]
  BY DEF IInv, Create, Import, Fresh, Write
<1>1. Replays(e)'
  <2>1. CASE Create(r, e, c)
    <3>1. Audit(e, "CREATE", NoRow, c) /\ row'[e] = c /\ imported'[e] = imported[e]
      BY <2>1, <1>0 DEF Create, TypeOK
    <3>2. Replays(e)
      BY <1>0 DEF Replays, Before
    <3>3. PICK o \in Contents \cup {NoRow} : o = NoRow
      OBVIOUS
    <3>4. Audit(e, "CREATE", o, c) /\ row[e] = o
      BY <1>0, <3>1, <3>3 DEF Audit
    <3> QED
      BY <1>0, <3>1, <3>2, <3>4, ChainGrows
  <2>2. CASE Import(r, e, c)
    BY <2>2, <1>0 DEF Import, Write, Replays, Before, TypeOK
  <2> QED
    BY <2>1, <2>2
<1>2. \A d \in Entities \ {e} : imported'[d] = imported[d] /\ trail'[d] = trail[d]
  BY <1>0 DEF Create, Import, Audit, TypeOK
<1>3. /\ Arrives(r, "created") /\ Write(e, c) /\ Credit(e, c)
      /\ target' = [target EXCEPT ![r] = e]
      /\ UNCHANGED <<old, asked, new, overlapped>>
  BY DEF Create, Import
<1> QED
  BY <1>0, <1>1, <1>2, <1>3, InsertStep

(* Nothing is stored and nobody is at work at first.                         *)
LEMMA InitIInv == Init => IInv
<1> SUFFICES ASSUME Init PROVE IInv
  OBVIOUS
<1>1. TypeOK
  BY DEF Init, TypeOK, Running, Answered
<1>2. FlushedAreAccounts /\ LocksHold /\ AccountTrailCurrent /\ AloneIsCurrent
  BY DEF Init, FlushedAreAccounts, LocksHold, AccountTrailCurrent, AloneIsCurrent,
         Holders, Running, Entities
<1>3. TrailIsAChain
  BY DEF Init, TrailIsAChain, Replays, Before
<1> QED
  BY <1>1, <1>2, <1>3 DEF IInv

(* Every step preserves the invariant.                                       *)
LEMMA NextIInv == IInv /\ [Next]_vars => IInv'
<1> SUFFICES ASSUME IInv, [Next]_vars PROVE IInv'
  OBVIOUS
<1>0. TypeOK /\ TypeOK'
  BY TypeStep DEF IInv
<1>1. ASSUME NEW r \in Requests, Arrive(r) PROVE IInv'
  <2>1. PICK e \in Entities :
          \/ NotFound(r, e) \/ ReadDelete(r, e)
          \/ \E c \in Contents : Create(r, e, c) \/ Import(r, e, c) \/ ReadUpdate(r, e, c)
    BY <1>1 DEF Arrive
  <2>2. CASE NotFound(r, e)
    BY <2>2, <1>0, QuietStep DEF NotFound, Arrives, Goto, TypeOK, Answered
  <2>3. CASE ReadDelete(r, e)
    <3>1. Read(r, e, "deleting") /\ asked' = asked
      BY <2>3 DEF ReadDelete
    <3> QED
      BY <3>1, <1>0, ReadStep
  <2>4. ASSUME NEW c \in Contents, ReadUpdate(r, e, c) PROVE IInv'
    <3>1. Read(r, e, "updating") /\ \A q \in Requests \ {r} : asked'[q] = asked[q]
      BY <2>4, <1>0 DEF ReadUpdate, TypeOK
    <3> QED
      BY <3>1, <1>0, ReadStep
  <2> QED
    BY <1>0, <2>1, <2>2, <2>3, <2>4, CreateStep
<1>2. ASSUME NEW r \in Requests, UpdateStale(r) \/ RefreshGone(r) \/ Fail(r)
      PROVE  IInv'
  BY <1>2, <1>0, QuietStep DEF UpdateStale, RefreshGone, Fail, Goto, TypeOK, Answered
<1>3. ASSUME NEW r \in Requests, Continue(r) PROVE IInv'
  BY <1>0, <1>2, <1>3, UpdateEntryStep, FlushStep, CommitAccountStep, CommitDeleteStep
     DEF Continue
<1>4. CASE UNCHANGED vars
  BY <1>4 DEF vars, history, IInv, TypeOK, FlushedAreAccounts, LocksHold,
              AccountTrailCurrent, AloneIsCurrent, TrailIsAChain, Replays, Before,
              Holders, Changed, Written, InFlight
<1> QED
  BY <1>1, <1>2, <1>3, <1>4 DEF Next

(* The inductive invariant holds in every reachable state.                   *)
THEOREM Invariance == Spec => []IInv
BY InitIInv, NextIInv, PTL DEF Spec

(* Rows, audit rows and requests are well formed: in particular the refresh  *)
(* of update_account always finds a row when the flush wrote one.            *)
THEOREM TypeCorrect == Spec => []TypeOK
<1>1. IInv => TypeOK
  BY DEF IInv
<1> QED
  BY <1>1, Invariance, PTL

(* The audit rows of an entity, in commit order, replay to its row, unless   *)
(* two requests were at work on it at once.                                  *)
THEOREM TrailReplays == Spec => []TrailIsAChain
<1>1. IInv => TrailIsAChain
  BY DEF IInv
<1> QED
  BY <1>1, Invariance, PTL

(* The audit row of the last commit that wrote an account says what its row   *)
(* is, however its requests overlap: the lock taken by the flush of          *)
(* update_account covers its read-back and its commit.  The order is that of *)
(* commits, not of created_at.                                               *)
THEOREM AccountsAudited == Spec => []AccountTrailCurrent
<1>1. IInv => AccountTrailCurrent
  BY DEF IInv
<1> QED
  BY <1>1, Invariance, PTL

(* Concurrent PATCHes of different fields are both kept.                     *)
THEOREM PatchesKept == Spec => NoFieldOverwritten
<1> DEFINE Set(e, f) ==
      \E r \in Requests :
        /\ req[r] # "updated" /\ req'[r] = "updated"
        /\ target[r] = e
        /\ row'[e][f] = asked[r][f] /\ asked[r][f] # old[r][f]
<1>1. ASSUME TypeOK, Next, NEW e \in Entities, NEW f \in Fields,
             row[e] # NoRow, row'[e] # NoRow, row'[e][f] # row[e][f]
      PROVE  Set(e, f)
  <2>1. ASSUME NEW r \in Requests, Arrive(r) PROVE Set(e, f)
    BY <1>1, <2>1 DEF Arrive, NotFound, ReadDelete, Create, Import, ReadUpdate,
                      Read, Fresh, Write, TypeOK, history
  <2>2. ASSUME NEW r \in Requests, UpdateEntry(r) \/ CommitAccount(r)
        PROVE  Set(e, f)
    <3>1. /\ req[r] # "updated" /\ req'[r] = "updated" /\ target[r] \in Entities
          /\ Changed(r) # {} /\ Write(target[r], Written(r, row[target[r]]))
      BY <1>1, <2>2 DEF UpdateEntry, CommitAccount, Goto, TypeOK, Running
    <3>2. target[r] = e /\ row'[e] = Written(r, row[e])
      BY <1>1, <3>1 DEF Write, TypeOK
    <3>3. f \in Changed(r) /\ row'[e][f] = asked[r][f]
      BY <1>1, <3>2 DEF Written
    <3> QED
      BY <3>1, <3>2, <3>3 DEF Changed
  <2>3. ASSUME NEW r \in Requests, CommitDelete(r) PROVE Set(e, f)
    BY <1>1, <2>3 DEF CommitDelete, Write, TypeOK
  <2>4. ASSUME NEW r \in Requests,
               \/ UpdateStale(r) \/ FlushAccount(r) \/ RefreshAccount(r)
               \/ RefreshGone(r) \/ Fail(r)
        PROVE  Set(e, f)
    BY <1>1, <2>4 DEF UpdateStale, FlushAccount, RefreshAccount, RefreshGone, Fail, history
  <2> HIDE DEF Set
  <2> QED
    BY <1>1, <2>1, <2>2, <2>3, <2>4 DEF Next, Continue
<1>2. TypeOK /\ [Next]_vars =>
        [\A e \in Entities : row[e] # NoRow /\ row'[e] # NoRow =>
           \A f \in Fields : row'[e][f] # row[e][f] => Set(e, f)]_vars
  BY <1>1
<1> QED
  BY <1>2, TypeCorrect, PTL DEF Spec, NoFieldOverwritten
=============================================================================
