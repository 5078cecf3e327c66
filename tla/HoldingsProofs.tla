--------------------------- MODULE HoldingsProofs ---------------------------
(***************************************************************************)
(* Theorems about Holdings for any accounts, listings and requests.         *)
(***************************************************************************)
EXTENDS Holdings, TLAPS

(* Every step leaves the rows and the requests well formed.                  *)
LEMMA TypeStep == TypeOK /\ CreationsHaveSecurities /\ [Next]_vars => TypeOK'
<1> SUFFICES ASSUME TypeOK, CreationsHaveSecurities, [Next]_vars PROVE TypeOK'
  OBVIOUS
<1> USE DEF TypeOK, rows, Goto, Arrives, Making, Running, Answered
<1>1. ASSUME NEW r \in Requests, Arrive(r) PROVE TypeOK'
  <2>1. CASE NotFound(r)
    BY <2>1 DEF NotFound
  <2>2. ASSUME NEW a \in Accounts, NEW l \in Listings, CreateStart(r, a, l) PROVE TypeOK'
    BY <2>2 DEF CreateStart
  <2>3. ASSUME NEW h \in holdings, DeleteRead(r, h) PROVE TypeOK'
    BY <2>3 DEF DeleteRead
  <2> QED
    BY <1>1, <2>1, <2>2, <2>3 DEF Arrive
<1>2. ASSUME NEW r \in Requests, Continue(r) PROVE TypeOK'
  <2>1. ASSUME NEW s \in securities, FindSecurity(r, s) PROVE TypeOK'
    BY <2>1 DEF FindSecurity
  <2>2. CASE MakeSecurity(r)
    <3>1. listing[r] \in Listings
      BY <2>2 DEF MakeSecurity, CreationsHaveSecurities
    <3> QED
      BY <2>2, <3>1 DEF MakeSecurity
  <2>3. CASE FlushSecurity(r) \/ FlushFails(r) \/ RefuseHolding(r)
    BY <2>3 DEF FlushSecurity, FlushFails, RefuseHolding, Stored
  <2>4. CASE CommitHolding(r)
    <3>1. security[r] \in Requests
      BY <2>4 DEF CommitHolding, CreationsHaveSecurities
    <3> QED
      BY <2>4, <3>1 DEF CommitHolding
  <2>5. CASE DeleteCommit(r)
    <3>1. Remaining(r) \subseteq Requests
      BY DEF Remaining
    <3>2. deletions' \in [Requests -> SUBSET Requests]
      BY <2>5 DEF DeleteCommit
    <3> QED
      BY <2>5, <3>1, <3>2 DEF DeleteCommit
  <2> QED
    BY <1>2, <2>1, <2>2, <2>3, <2>4, <2>5 DEF Continue
<1>3. ASSUME NEW r \in Requests, Fail(r) PROVE TypeOK'
  BY <1>3 DEF Fail
<1>4. ASSUME NEW a \in Accounts, DeleteAccount(a) PROVE TypeOK'
  BY <1>4 DEF DeleteAccount
<1>5. CASE UNCHANGED vars
  BY <1>5 DEF vars
<1> QED
  BY <1>1, <1>2, <1>3, <1>4, <1>5 DEF Next

(* A request that moves without touching the rows, and is no maker of a      *)
(* security it was not before, leaves the invariant alone.                   *)
LEMMA QuietStep ==
  ASSUME IInv, TypeOK', NEW r \in Requests,
         UNCHANGED <<rows, twinned>>,
         \A q \in Requests \ {r} :
           /\ req'[q] = req[q] /\ account'[q] = account[q] /\ listing'[q] = listing[q]
           /\ security'[q] = security[q] /\ victim'[q] = victim[q],
         req[r] # "created", req'[r] # "created",
         req'[r] = "removing" => victim'[r] \in created,
         req'[r] \in {"owned"} \cup Making =>
           account'[r] \in Accounts /\ listing'[r] \in Listings,
         req'[r] \in Making =>
           \/ /\ req[r] \in Making /\ req'[r] = req[r]
              /\ security'[r] = security[r] /\ listing'[r] = listing[r]
           \/ /\ req'[r] = "ready"
              /\ security'[r] \in securities /\ listing'[security'[r]] = listing'[r]
  PROVE  IInv'
<1> USE DEF rows
<1>0. TypeOK
  BY DEF IInv
<1>1. r \notin created /\ r \notin securities /\ r \notin holdings
  BY DEF IInv, RowsAreAnswered
<1>2. RowsAreAnswered'
  BY <1>0, <1>1 DEF IInv, RowsAreAnswered, TypeOK
<1>3. CreationsHaveSecurities'
  BY <1>0, <1>1 DEF IInv, CreationsHaveSecurities, TypeOK, Making
<1>4. \A l \in Listings : Found(l)' = Found(l)
  BY <1>0, <1>1 DEF Found, TypeOK
<1>5. ASSUME NEW l \in Listings
      PROVE  Makers(l)' \subseteq Makers(l) /\ Holds(l)' \subseteq Holds(l)
  <2>1. (r \in Makers(l))' => r \in Makers(l) /\ req'[r] = req[r]
    BY <1>1 DEF Makers, Making
  <2> QED
    BY <2>1 DEF Makers, Holds
<1>6. IndexHolds' /\ MakersAlone'
  BY <1>4, <1>5 DEF IInv, IndexHolds, MakersAlone
<1>7. PairsUnique'
  BY <1>0, <1>1 DEF IInv, PairsUnique, TypeOK
<1>8. HeldOnceUnlessTwinned' /\ AuditAccountsForHoldings'
  BY <1>0, <1>1 DEF IInv, HeldOnceUnlessTwinned, AuditAccountsForHoldings, TypeOK
<1> QED
  BY <1>2, <1>3, <1>6, <1>7, <1>8 DEF IInv

(* Staging a security makes a twin of the listing or is alone.               *)
LEMMA MakeStep ==
  ASSUME IInv, TypeOK', NEW r \in Requests, MakeSecurity(r)
  PROVE  IInv'
<1> USE DEF rows, MakeSecurity, Goto
<1>0. TypeOK
  BY DEF IInv
<1>1. /\ req[r] = "owned" /\ req'[r] = "making" /\ security'[r] = r
      /\ r \notin created /\ r \notin securities /\ r \notin holdings
      /\ \A q \in Requests \ {r} : req'[q] = req[q] /\ security'[q] = security[q]
      /\ account[r] \in Accounts /\ listing[r] \in Listings
  BY <1>0 DEF IInv, RowsAreAnswered, CreationsHaveSecurities, TypeOK
<1>2. RowsAreAnswered'
  BY <1>0, <1>1 DEF IInv, RowsAreAnswered, TypeOK
<1>3. CreationsHaveSecurities'
  BY <1>0, <1>1 DEF IInv, CreationsHaveSecurities, TypeOK, Making
<1>4. \A l \in Listings : Found(l)' = Found(l)
  BY DEF Found
<1>5. \A l \in Listings : Holds(l)' = Holds(l)
  BY <1>1 DEF Holds, Makers, Making
<1>6. \A l \in Listings \ {listing[r]} : Makers(l)' = Makers(l)
  BY <1>1 DEF Makers, Making
<1>7. listing[r] \notin twinned' => Makers(listing[r])' = {r} /\ Found(listing[r]) = {}
  BY <1>1 DEF Makers, Making
<1>8. IndexHolds'
  BY <1>4, <1>5 DEF IInv, IndexHolds
<1>9. MakersAlone'
  <2> SUFFICES ASSUME NEW l \in Listings, l \notin twinned', NEW q \in Makers(l)'
               PROVE  Makers(l)' = {q} /\ Found(l)' = {}
    BY DEF MakersAlone
  <2>1. CASE l = listing[r]
    BY <2>1, <1>4, <1>7
  <2>2. CASE l # listing[r]
    BY <2>2, <1>4, <1>6 DEF IInv, MakersAlone
  <2> QED
    BY <2>1, <2>2
<1>10. PairsUnique'
  BY <1>0, <1>1 DEF IInv, PairsUnique, TypeOK
<1>11. HeldOnceUnlessTwinned' /\ AuditAccountsForHoldings'
  BY <1>0, <1>1 DEF IInv, HeldOnceUnlessTwinned, AuditAccountsForHoldings, TypeOK
<1> QED
  BY <1>2, <1>3, <1>8, <1>9, <1>10, <1>11 DEF IInv

(* Of an exchange's listing, the flush that finds the index free holds it.   *)
LEMMA FlushStep ==
  ASSUME IInv, TypeOK', NEW r \in Requests, FlushSecurity(r)
  PROVE  IInv'
<1> USE DEF FlushSecurity, Stored, Goto
<1>0. TypeOK
  BY DEF IInv
<1>1. /\ req[r] = "making" /\ req'[r] = "ready" /\ security[r] = r
      /\ r \notin created
      /\ \A q \in Requests \ {r} : req'[q] = req[q]
      /\ listing[r] \in Listings
  BY <1>0 DEF IInv, RowsAreAnswered, CreationsHaveSecurities, TypeOK, Making
<1>2. RowsAreAnswered'
  BY <1>0, <1>1 DEF IInv, RowsAreAnswered, TypeOK
<1>3. CreationsHaveSecurities'
  BY <1>0, <1>1 DEF IInv, CreationsHaveSecurities, TypeOK, Making
<1>4. \A l \in Listings : Found(l)' = Found(l) /\ Makers(l)' = Makers(l)
  BY <1>1 DEF Found, Makers, Making
<1>5. \A l \in Listings \ {listing[r]} : Holds(l)' = Holds(l)
  BY <1>1, <1>4 DEF Holds, Makers
<1>6. listing[r] \notin NullListings => Holds(listing[r])' = {r} /\ Found(listing[r]) = {}
  BY <1>1 DEF Holds, Makers, Making, Collides
<1>7. IndexHolds'
  <2> SUFFICES ASSUME NEW l \in Listings \ NullListings, NEW q \in Holds(l)'
               PROVE  Holds(l)' = {q} /\ Found(l)' = {}
    BY DEF IndexHolds
  <2>1. CASE l = listing[r]
    BY <2>1, <1>4, <1>6
  <2>2. CASE l # listing[r]
    BY <2>2, <1>4, <1>5 DEF IInv, IndexHolds
  <2> QED
    BY <2>1, <2>2
<1>8. MakersAlone'
  BY <1>4 DEF IInv, MakersAlone
<1>9. PairsUnique' /\ HeldOnceUnlessTwinned' /\ AuditAccountsForHoldings'
  BY DEF IInv, PairsUnique, HeldOnceUnlessTwinned, AuditAccountsForHoldings
<1> QED
  BY <1>2, <1>3, <1>7, <1>8, <1>9 DEF IInv

(* The commit stores a security that is the only one of its listing, unless  *)
(* the listing has twins, and a pair nobody holds.                           *)
LEMMA CommitStep ==
  ASSUME IInv, TypeOK', NEW r \in Requests, CommitHolding(r)
  PROVE  IInv'
<1> USE DEF CommitHolding, Goto
<1>0. TypeOK
  BY DEF IInv
<1>1. /\ req[r] = "ready" /\ req'[r] = "created"
      /\ r \notin created /\ r \notin securities /\ r \notin holdings
      /\ \A q \in Requests \ {r} : req'[q] = req[q]
      /\ account[r] \in Accounts /\ listing[r] \in Listings
      /\ account[r] \in accounts /\ Held(r) = {}
  BY <1>0 DEF IInv, RowsAreAnswered, CreationsHaveSecurities, TypeOK, Making, Violates
<1>2. \/ security[r] = r
      \/ security[r] \in securities /\ listing[security[r]] = listing[r]
  BY <1>1 DEF IInv, CreationsHaveSecurities, Making
<1>3. RowsAreAnswered'
  <2>1. \A s \in securities : security[s] = s /\ s \in created /\ s # r
    BY <1>1 DEF IInv, RowsAreAnswered
  <2>2. (holdings \cup securities)' \subseteq created'
    BY <1>1, <1>2, <2>1 DEF IInv, RowsAreAnswered
  <2>3. \A h \in created' : /\ req'[h] = "created" /\ listing[h] \in Listings
                            /\ security[h] \in securities'
                            /\ listing[security[h]] = listing[h]
    BY <1>0, <1>1, <1>2 DEF IInv, RowsAreAnswered, TypeOK
  <2>4. \A s \in securities' : security[s] = s
    BY <1>2, <2>1
  <2>5. /\ \A h \in Requests : deletions[h] # {} => h \in created'
        /\ \A q \in Requests : req'[q] = "removing" => victim[q] \in created'
    BY <1>1 DEF IInv, RowsAreAnswered
  <2> QED
    BY <2>2, <2>3, <2>4, <2>5 DEF RowsAreAnswered
<1>4. CreationsHaveSecurities'
  BY <1>1 DEF IInv, CreationsHaveSecurities, Making
<1>5. \A l \in Listings : Makers(l)' = Makers(l) \ {r} /\ Holds(l)' = Holds(l) \ {r}
  BY <1>1 DEF Makers, Holds, Making
<1>6. \A l \in Listings : Found(l) \subseteq Found(l)'
  BY DEF Found
<1>7. ASSUME NEW l \in Listings, Found(l)' # Found(l)
      PROVE  l = listing[r] /\ security[r] = r /\ r \in Makers(l)
             /\ (l \notin NullListings => r \in Holds(l))
             /\ Found(l)' = Found(l) \cup {r}
  <2>1. security[r] = r /\ listing[r] = l
    BY <1>2, <1>7 DEF Found
  <2> QED
    BY <2>1, <1>1 DEF Makers, Making, Holds, Found
<1>8. IndexHolds'
  <2> SUFFICES ASSUME NEW l \in Listings \ NullListings, NEW q \in Holds(l)'
               PROVE  Holds(l)' = {q} /\ Found(l)' = {}
    BY DEF IndexHolds
  <2>1. q \in Holds(l) /\ q # r /\ Holds(l) = {q} /\ Found(l) = {}
    BY <1>5 DEF IInv, IndexHolds
  <2>2. Found(l)' = Found(l)
    BY <1>7, <2>1
  <2> QED
    BY <1>5, <2>1, <2>2
<1>9. MakersAlone'
  <2> SUFFICES ASSUME NEW l \in Listings \ twinned, NEW q \in Makers(l)'
               PROVE  Makers(l)' = {q} /\ Found(l)' = {}
    BY DEF MakersAlone
  <2>1. q \in Makers(l) /\ q # r /\ Makers(l) = {q} /\ Found(l) = {}
    BY <1>5 DEF IInv, MakersAlone
  <2>2. Found(l)' = Found(l)
    BY <1>7, <2>1
  <2> QED
    BY <1>5, <2>1, <2>2
<1>10. PairsUnique'
  BY <1>1 DEF IInv, PairsUnique, Held
<1>11. ASSUME NEW s \in securities', NEW t \in securities', s # t, listing[s] = listing[t]
       PROVE  listing[s] \in NullListings \cap twinned
  <2>1. CASE s \in securities /\ t \in securities
    BY <1>11, <2>1 DEF IInv, HeldOnceUnlessTwinned
  <2>2. CASE ~(s \in securities /\ t \in securities)
    <3>1. security[r] = r /\ listing[s] = listing[r] /\ r \notin securities
      BY <1>1, <1>2, <1>11, <2>2
    <3>2. Found(listing[r]) # {}
      <4>1. s \in securities \/ t \in securities
        BY <1>11, <3>1
      <4> QED
        BY <1>11, <3>1, <4>1 DEF Found
    <3>3. r \in Makers(listing[r]) /\ (listing[r] \notin NullListings => r \in Holds(listing[r]))
      BY <1>1, <3>1 DEF Makers, Making, Holds
    <3> QED
      BY <1>1, <3>1, <3>2, <3>3 DEF IInv, IndexHolds, MakersAlone
  <2> QED
    BY <2>1, <2>2
<1>12. HeldOnceUnlessTwinned'
  <2>1. ASSUME NEW g \in holdings', NEW h \in holdings', g # h,
               account[g] = account[h], listing[g] = listing[h]
        PROVE  listing[g] \in NullListings \cap twinned
    <3>1. /\ security[g] \in securities' /\ listing[security[g]] = listing[g]
          /\ security[h] \in securities' /\ listing[security[h]] = listing[h]
      BY <1>3 DEF RowsAreAnswered
    <3>2. security[g] # security[h]
      BY <1>10, <2>1 DEF PairsUnique
    <3> QED
      BY <1>11, <2>1, <3>1, <3>2
  <2> QED
    BY <1>11, <2>1 DEF HeldOnceUnlessTwinned
<1>13. AuditAccountsForHoldings'
  <2>1. deletions[r] = {}
    BY <1>1 DEF IInv, RowsAreAnswered
  <2> QED
    BY <1>1, <2>1 DEF IInv, AuditAccountsForHoldings
<1> QED
  BY <1>3, <1>4, <1>8, <1>9, <1>10, <1>12, <1>13 DEF IInv

(* Deletions leave holdings that were there, and account for the others.     *)
LEMMA DeletionStep ==
  ASSUME IInv, TypeOK',
         \/ \E r \in Requests : DeleteCommit(r)
         \/ \E a \in Accounts : DeleteAccount(a)
  PROVE  IInv'
<1>0. TypeOK
  BY DEF IInv
<1>1. /\ holdings' \subseteq holdings
      /\ \A q \in Requests : req'[q] = req[q] \/ (req[q] = "removing" /\ req'[q] = "removed")
      /\ UNCHANGED <<securities, created, account, listing, security, victim, twinned>>
  BY <1>0 DEF DeleteCommit, DeleteAccount, Remaining, Goto, TypeOK
<1>2. RowsAreAnswered'
  <2>1. \A h \in Requests : deletions'[h] # {} => h \in created
    <3>1. CASE \E r \in Requests : DeleteCommit(r)
      BY <3>1, <1>0 DEF DeleteCommit, IInv, RowsAreAnswered, TypeOK
    <3>2. CASE \E a \in Accounts : DeleteAccount(a)
      BY <3>2 DEF DeleteAccount, IInv, RowsAreAnswered
    <3> QED
      BY <3>1, <3>2
  <2>2. created \subseteq Requests /\ holdings' \cup securities \subseteq created
    BY <1>0, <1>1 DEF IInv, RowsAreAnswered, TypeOK
  <2>3. \A h \in created : req'[h] = "created"
    BY <1>0, <1>1, <2>2 DEF IInv, RowsAreAnswered
  <2> QED
    BY <1>1, <2>1, <2>2, <2>3 DEF IInv, RowsAreAnswered
<1>3. CreationsHaveSecurities'
  BY <1>1 DEF IInv, CreationsHaveSecurities, Making
<1>4. \A l \in Listings : /\ Found(l)' = Found(l) /\ Makers(l)' = Makers(l)
                           /\ Holds(l)' = Holds(l)
  BY <1>1 DEF Found, Makers, Holds, Making
<1>5. IndexHolds' /\ MakersAlone'
  BY <1>1, <1>4 DEF IInv, IndexHolds, MakersAlone
<1>6. PairsUnique' /\ HeldOnceUnlessTwinned'
  BY <1>1 DEF IInv, PairsUnique, HeldOnceUnlessTwinned
<1>7. AuditAccountsForHoldings'
  <2>0. created \subseteq Requests /\ holdings \subseteq created
    BY <1>0 DEF IInv, RowsAreAnswered, TypeOK
  <2>1. ASSUME NEW r \in Requests, DeleteCommit(r) PROVE AuditAccountsForHoldings'
    <3>1. victim[r] \in created
      BY <2>1 DEF DeleteCommit, IInv, RowsAreAnswered
    <3>2. deletions'[victim[r]] # {}
      BY <2>0, <2>1, <3>1, <1>0 DEF DeleteCommit, TypeOK
    <3>3. \A h \in created \ {victim[r]} : deletions'[h] = deletions[h]
      BY <2>0, <2>1, <1>0 DEF DeleteCommit, TypeOK
    <3>4. holdings' = holdings \ {victim[r]} /\ accounts' = accounts
      BY <2>1 DEF DeleteCommit, Remaining
    <3> QED
      BY <1>1, <3>2, <3>3, <3>4 DEF IInv, AuditAccountsForHoldings
  <2>2. ASSUME NEW a \in Accounts, DeleteAccount(a) PROVE AuditAccountsForHoldings'
    BY <2>2 DEF DeleteAccount, IInv, AuditAccountsForHoldings
  <2> QED
    BY <2>1, <2>2
<1> QED
  BY <1>2, <1>3, <1>5, <1>6, <1>7 DEF IInv

(* Nothing is held at first.                                                 *)
LEMMA InitIInv == Init => IInv
<1> SUFFICES ASSUME Init PROVE IInv
  OBVIOUS
<1> USE DEF Init
<1>1. TypeOK
  BY DEF TypeOK, Running, Making, Answered
<1>2. \A l \in Listings : Makers(l) = {} /\ Holds(l) = {}
  BY DEF Makers, Holds, Making
<1> QED
  BY <1>1, <1>2 DEF IInv, RowsAreAnswered, CreationsHaveSecurities, IndexHolds, MakersAlone,
                    PairsUnique, HeldOnceUnlessTwinned, AuditAccountsForHoldings, Making

(* Every step preserves the invariant.                                       *)
LEMMA NextIInv == IInv /\ [Next]_vars => IInv'
<1> SUFFICES ASSUME IInv, [Next]_vars PROVE IInv'
  OBVIOUS
<1>0. TypeOK /\ TypeOK'
  BY TypeStep DEF IInv
<1>1. ASSUME NEW r \in Requests, Arrive(r) PROVE IInv'
  <2>1. CASE NotFound(r)
    BY <2>1, <1>0, QuietStep DEF NotFound, Arrives, Goto, TypeOK, Making
  <2>2. ASSUME NEW a \in Accounts, NEW l \in Listings, CreateStart(r, a, l) PROVE IInv'
    BY <2>2, <1>0, QuietStep DEF CreateStart, Arrives, Goto, TypeOK, Making
  <2>3. ASSUME NEW h \in holdings, DeleteRead(r, h) PROVE IInv'
    <3>1. h \in created
      BY DEF IInv, RowsAreAnswered
    <3> QED
      BY <2>3, <3>1, <1>0, QuietStep DEF DeleteRead, Arrives, Goto, TypeOK, Making
  <2> QED
    BY <1>1, <2>1, <2>2, <2>3 DEF Arrive
<1>2. ASSUME NEW r \in Requests, Continue(r) PROVE IInv'
  <2>1. ASSUME NEW s \in securities, FindSecurity(r, s) PROVE IInv'
    <3>1. /\ security'[r] = s /\ listing'[s] = listing[r] /\ req'[r] = "ready"
          /\ listing'[r] = listing[r] /\ account'[r] = account[r]
          /\ account[r] \in Accounts /\ listing[r] \in Listings
      BY <2>1, <1>0 DEF FindSecurity, Found, Goto, TypeOK, IInv, CreationsHaveSecurities
    <3> QED
      BY <2>1, <3>1, <1>0, QuietStep DEF FindSecurity, Goto, TypeOK, Making
  <2>2. CASE FlushFails(r) \/ RefuseHolding(r)
    BY <2>2, <1>0, QuietStep DEF FlushFails, RefuseHolding, Goto, TypeOK, Making
  <2> QED
    BY <1>0, <1>2, <2>1, <2>2, MakeStep, FlushStep, CommitStep, DeletionStep DEF Continue
<1>3. ASSUME NEW r \in Requests, Fail(r) PROVE IInv'
  BY <1>3, <1>0, QuietStep DEF Fail, Goto, TypeOK, Running, Making
<1>4. ASSUME NEW a \in Accounts, DeleteAccount(a) PROVE IInv'
  BY <1>0, <1>4, DeletionStep
<1>5. CASE UNCHANGED vars
  BY <1>5 DEF vars, rows, IInv, TypeOK, RowsAreAnswered, CreationsHaveSecurities, IndexHolds,
              MakersAlone, PairsUnique, HeldOnceUnlessTwinned, AuditAccountsForHoldings,
              Found, Holds, Makers
<1> QED
  BY <1>1, <1>2, <1>3, <1>4, <1>5 DEF Next

(* The inductive invariant holds in every reachable state.                   *)
THEOREM Invariance == Spec => []IInv
BY InitIInv, NextIInv, PTL DEF Spec

(* A listing has one security, and an account holds it once, unless it has   *)
(* no exchange and two requests made a security of it at once.               *)
THEOREM HeldOnce == Spec => []HeldOnceUnlessTwinned
<1>1. IInv => HeldOnceUnlessTwinned
  BY DEF IInv
<1> QED
  BY <1>1, Invariance, PTL

(* No refused or failed create_holding leaves a security behind.             *)
THEOREM AllOrNothing == Spec => []SecuritiesComeWithHoldings
<1>1. IInv => SecuritiesComeWithHoldings
  BY DEF IInv, RowsAreAnswered, SecuritiesComeWithHoldings
<1> QED
  BY <1>1, Invariance, PTL

(* A holding that is gone was deleted by a request that audited it, or went  *)
(* with its account.                                                         *)
THEOREM HoldingsAudited == Spec => []AuditAccountsForHoldings
<1>1. IInv => AuditAccountsForHoldings
  BY DEF IInv
<1> QED
  BY <1>1, Invariance, PTL

(* HOLDING_EXISTS says that the account holds the listing, or the account    *)
(* has been deleted meanwhile.                                               *)
THEOREM ExistsTells == Spec => ExistsMeansHeld
<1> DEFINE Told(r) ==
      \/ account[r] \notin accounts
      \/ \E h \in holdings : account[h] = account[r] /\ listing[h] = listing[r]
<1>1. ASSUME IInv, [Next]_vars, NEW r \in Requests, req[r] # "exists", req'[r] = "exists"
      PROVE  Told(r)
  <2>0. TypeOK
    BY <1>1 DEF IInv
  <2>1. RefuseHolding(r)
    BY <1>1, <2>0 DEF Next, Arrive, NotFound, CreateStart, DeleteRead, Continue, FindSecurity,
                      MakeSecurity, FlushSecurity, FlushFails, CommitHolding, RefuseHolding,
                      DeleteCommit, DeleteAccount, Fail, Arrives, Goto, TypeOK, vars
  <2>2. CASE Held(r) = {}
    BY <2>1, <2>2 DEF RefuseHolding, Violates
  <2>3. CASE Held(r) # {}
    <3>1. PICK h \in holdings : account[h] = account[r] /\ security[h] = security[r]
      BY <2>3 DEF Held
    <3>2. /\ security[h] \in securities /\ listing[security[h]] = listing[h]
      BY <1>1 DEF IInv, RowsAreAnswered
    <3>3. listing[security[r]] = listing[r]
      BY <1>1, <2>1 DEF RefuseHolding, IInv, CreationsHaveSecurities, Making
    <3> QED
      BY <3>1, <3>2, <3>3
  <2> QED
    BY <2>2, <2>3
<1>2. IInv /\ [Next]_vars =>
        [\A r \in Requests : req[r] # "exists" /\ req'[r] = "exists" => Told(r)]_vars
  BY <1>1
<1> QED
  BY <1>2, Invariance, PTL DEF Spec, ExistsMeansHeld
=============================================================================
