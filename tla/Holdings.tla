------------------------------ MODULE Holdings ------------------------------
(***************************************************************************)
(* Holdings and the securities they share: create_holding and               *)
(* delete_holding (backend/accounts/holdings.py), get_or_create_security     *)
(* (backend/market/service.py), and the holdings that disappear with their   *)
(* account (ON DELETE CASCADE, backend/accounts/models.py).                  *)
(*                                                                         *)
(* A holding, and a security that did not exist, are named by the request    *)
(* that inserted them.  A listing is a ticker with its exchange; the unique  *)
(* constraint on securities does not count the ones whose exchange is NULL.  *)
(***************************************************************************)
EXTENDS Naturals, FiniteSets

CONSTANTS
  Accounts,       \* the accounts of the user
  Listings,       \* the (ticker, exchange) pairs clients ask for
  NullListings,   \* those with no exchange
  Requests,       \* the HTTP requests of a run; each is served once
  None            \* no account, listing or row

ASSUME HoldingsAssumption ==
  /\ NullListings \subseteq Listings
  /\ None \notin Accounts \cup Listings \cup Requests

VARIABLES
  accounts,     \* committed accounts rows
  securities,   \* committed securities rows
  holdings,     \* committed holdings rows
  created,      \* holdings with a CREATE audit row
  deletions,    \* the requests that wrote a DELETE audit row of each holding
  req,          \* where each request is in its handler, or how it was answered
  account,      \* the account each creation is for
  listing,      \* the listing each creation is for
  security,     \* the security each creation uses
  victim,       \* the holding each deletion has read
  (* History, read by the properties only. *)
  twinned       \* listings two requests have been making a security of at once

rows == <<accounts, securities, holdings, created, deletions>>
vars == <<rows, req, account, listing, security, victim, twinned>>

Making   == {"making", "ready"}
Running  == {"owned", "removing"} \cup Making
Answered == {"created", "exists", "removed", "notFound", "failed"}

TypeOK ==
  /\ accounts \subseteq Accounts
  /\ securities \subseteq Requests
  /\ holdings \subseteq Requests
  /\ created \subseteq Requests
  /\ deletions \in [Requests -> SUBSET Requests]
  /\ req \in [Requests -> {"idle"} \cup Running \cup Answered]
  /\ account \in [Requests -> Accounts \cup {None}]
  /\ listing \in [Requests -> Listings \cup {None}]
  /\ security \in [Requests -> Requests \cup {None}]
  /\ victim \in [Requests -> Requests \cup {None}]
  /\ twinned \subseteq Listings

Init ==
  /\ accounts = Accounts
  /\ securities = {} /\ holdings = {} /\ created = {}
  /\ deletions = [h \in Requests |-> {}]
  /\ req = [r \in Requests |-> "idle"]
  /\ account = [r \in Requests |-> None]
  /\ listing = [r \in Requests |-> None]
  /\ security = [r \in Requests |-> None]
  /\ victim = [r \in Requests |-> None]
  /\ twinned = {}

-----------------------------------------------------------------------------
Goto(r, stage) == req' = [req EXCEPT ![r] = stage]
Arrives(r, stage) == req[r] = "idle" /\ Goto(r, stage)

(* The rows for a listing; IS NULL finds those without exchange.             *)
FoundByEquals(l) == {s \in securities : listing[s] = l /\ l \notin NullListings}
Found(l) == {s \in securities : listing[s] = l}

(* Requests that have found no security for a listing and go on to make one. *)
Makers(l) == {r \in Requests : /\ req[r] \in Making
                              /\ security[r] = r
                              /\ listing[r] = l}

(* Requests whose INSERT of a security is not committed: the unique index    *)
(* makes others wait for them.                                               *)
HoldsEver(l) == {r \in Requests : /\ req[r] \in {"ready", "exists", "failed"}
                                  /\ security[r] = r
                                  /\ listing[r] = l /\ l \notin NullListings}
Holds(l) == {r \in Makers(l) : req[r] = "ready" /\ l \notin NullListings}

(* What the security INSERT of r collides with.                              *)
Collides(l) == l \notin NullListings /\ Found(l) # {}

(* The holding INSERT meets the unique pair, or the account is gone.         *)
Held(r) ==
  {h \in holdings : account[h] = account[r] /\ security[h] = security[r]}
Violates(r) == Held(r) # {} \/ account[r] \notin accounts

-----------------------------------------------------------------------------
NotFound(r) ==
  /\ Arrives(r, "notFound")
  /\ UNCHANGED <<rows, account, listing, security, victim, twinned>>

(* create_holding: (1) the account is the user's.                            *)
CreateStart(r, a, l) ==
  /\ a \in accounts
  /\ Arrives(r, "owned")
  /\ account' = [account EXCEPT ![r] = a]
  /\ listing' = [listing EXCEPT ![r] = l]
  /\ UNCHANGED <<rows, security, victim, twinned>>

(* (2) find the security: any row if there are several ...                   *)
FindSecurity(r, s) ==
  /\ req[r] = "owned"
  /\ s \in Found(listing[r])
  /\ security' = [security EXCEPT ![r] = s]
  /\ Goto(r, "ready")
  /\ UNCHANGED <<rows, account, listing, victim, twinned>>

(* ... or stage a new one.                                                   *)
MakeSecurity(r) ==
  /\ req[r] = "owned"
  /\ Found(listing[r]) = {}
  /\ security' = [security EXCEPT ![r] = r]
  /\ Goto(r, "making")
  /\ twinned' = twinned \cup {l \in {listing[r]} : Makers(l) # {}}
  /\ UNCHANGED <<rows, account, listing, victim>>

(* The flush inserts the staged security, and waits for another INSERT of    *)
(* the same listing to be decided first.  It commits nothing.                *)
StoredWithSecurity(r) == securities \cup {r}
Stored(r) == securities

FlushSecurity(r) ==
  /\ req[r] = "making"
  /\ Holds(listing[r]) = {}
  /\ ~Collides(listing[r])
  /\ securities' = Stored(r)
  /\ Goto(r, "ready")
  /\ UNCHANGED <<accounts, holdings, created, deletions, account, listing, security,
                 victim, twinned>>

(* It is outside the try: an IntegrityError here is a 500.                   *)
FlushFails(r) ==
  /\ req[r] = "making"
  /\ Holds(listing[r]) = {}
  /\ Collides(listing[r])
  /\ Goto(r, "failed")
  /\ UNCHANGED <<rows, account, listing, security, victim, twinned>>

(* (3)-(5) holding, audit row and security land together.                    *)
CommitHolding(r) ==
  /\ req[r] = "ready"
  /\ ~Violates(r)
  /\ securities' = securities \cup {security[r]}
  /\ holdings' = holdings \cup {r}
  /\ created' = created \cup {r}
  /\ Goto(r, "created")
  /\ UNCHANGED <<accounts, deletions, account, listing, security, victim, twinned>>

(* Any IntegrityError of the commit is answered HOLDING_EXISTS; the rollback *)
(* drops the staged security too.                                            *)
RefuseHolding(r) ==
  /\ req[r] = "ready"
  /\ Violates(r)
  /\ Goto(r, "exists")
  /\ UNCHANGED <<rows, account, listing, security, victim, twinned>>

-----------------------------------------------------------------------------
(* delete_holding: the row, joined with its account.                         *)
DeleteRead(r, h) ==
  /\ h \in holdings
  /\ Arrives(r, "removing")
  /\ victim' = [victim EXCEPT ![r] = h]
  /\ UNCHANGED <<rows, account, listing, security, twinned>>

(* A DELETE that finds no row any more is warned about and audited.          *)
RemainingOfListing(r) == {h \in holdings : security[h] # security[victim[r]]}
Remaining(r) == holdings \ {victim[r]}

DeleteCommit(r) ==
  /\ req[r] = "removing"
  /\ holdings' = Remaining(r)
  /\ deletions' = [deletions EXCEPT ![victim[r]] = @ \cup {r}]
  /\ Goto(r, "removed")
  /\ UNCHANGED <<accounts, securities, created, account, listing, security, victim, twinned>>

(* delete_account; the database deletes the holdings, and nothing audits it. *)
DeleteAccount(a) ==
  /\ a \in accounts
  /\ accounts' = accounts \ {a}
  /\ holdings' = {h \in holdings : account[h] # a}
  /\ UNCHANGED <<securities, created, deletions, req, account, listing, security,
                 victim, twinned>>

(* The worker dies or the transaction is refused: all of it is undone.       *)
Fail(r) ==
  /\ req[r] \in Running
  /\ Goto(r, "failed")
  /\ UNCHANGED <<rows, account, listing, security, victim, twinned>>

-----------------------------------------------------------------------------
Arrive(r) ==
  \/ NotFound(r)
  \/ \E a \in Accounts, l \in Listings : CreateStart(r, a, l)
  \/ \E h \in holdings : DeleteRead(r, h)

Continue(r) ==
  \/ \E s \in securities : FindSecurity(r, s)
  \/ MakeSecurity(r) \/ FlushSecurity(r) \/ FlushFails(r)
  \/ CommitHolding(r) \/ RefuseHolding(r)
  \/ DeleteCommit(r)

Next ==
  \/ \E r \in Requests : Arrive(r) \/ Continue(r) \/ Fail(r)
  \/ \E a \in Accounts : DeleteAccount(a)

Spec == Init /\ [][Next]_vars

(* A started handler is driven on whenever it is not waiting for the index.  *)
FairSpec == Spec /\ \A r \in Requests : WF_vars(Continue(r))

-----------------------------------------------------------------------------
(* A listing has one security and an account holds it once, except a listing *)
(* without exchange that two requests have been making a security of.        *)
HeldOnceUnlessTwinned ==
  /\ \A s, t \in securities : s # t /\ listing[s] = listing[t] =>
       listing[s] \in NullListings \cap twinned
  /\ \A g, h \in holdings : g # h /\ account[g] = account[h] /\ listing[g] = listing[h] =>
       listing[g] \in NullListings \cap twinned

(* All or nothing: create_holding only ever stores a security with a holding *)
(* of it, and whatever a refused or failed request staged is gone.  (The     *)
(* seed script, in PriceCache, stores securities that nobody holds.)         *)
SecuritiesComeWithHoldings == securities \subseteq created

(* The audit trail of a holding accounts for it: one that is not there has a *)
(* DELETE audit row or went with its account; one that is there was created  *)
(* and never deleted.                                                        *)
AuditAccountsForHoldings ==
  \A h \in created :
    IF h \in holdings THEN deletions[h] = {} /\ account[h] \in accounts
                      ELSE deletions[h] # {} \/ account[h] \notin accounts

(* HOLDING_EXISTS is answered when the account holds the listing, or when    *)
(* the account is gone.                                                      *)
ExistsMeansHeld ==
  [][\A r \in Requests : req[r] # "exists" /\ req'[r] = "exists" =>
       \/ account[r] \notin accounts
       \/ \E h \in holdings : account[h] = account[r] /\ listing[h] = listing[r]]_vars

(* A creation that has started is answered, though it may wait for another   *)
(* one of the same listing.                                                  *)
EveryCreationAnswered ==
  \A r \in Requests : req[r] \in Running ~> req[r] \in Answered

-----------------------------------------------------------------------------
(* The inductive strengthening.                                              *)

(* Rows keep the names of requests that were answered.                       *)
RowsAreAnswered ==
  /\ holdings \cup securities \subseteq created
  /\ \A h \in created : /\ req[h] = "created"
                        /\ listing[h] \in Listings
                        /\ security[h] \in securities
                        /\ listing[security[h]] = listing[h]
  /\ \A s \in securities : security[s] = s
  /\ \A h \in Requests : deletions[h] # {} => h \in created
  /\ \A r \in Requests : req[r] = "removing" => victim[r] \in created

(* A creation at work has a listing; its security is its own or a stored one *)
(* of that listing.                                                          *)
CreationsHaveSecurities ==
  \A r \in Requests :
    /\ req[r] \in {"owned"} \cup Making => account[r] \in Accounts /\ listing[r] \in Listings
    /\ req[r] \in Making =>
         \/ security[r] = r
         \/ /\ req[r] = "ready"
            /\ security[r] \in securities
            /\ listing[security[r]] = listing[r]

(* The index: an uncommitted security with an exchange is the only one of    *)
(* its listing.                                                              *)
IndexHolds ==
  \A l \in Listings \ NullListings :
    \A r \in Holds(l) : Holds(l) = {r} /\ Found(l) = {}

(* Makers of one listing that nobody raced are alone, and nothing was stored *)
(* since.                                                                    *)
MakersAlone ==
  \A l \in Listings \ twinned : \A r \in Makers(l) : Makers(l) = {r} /\ Found(l) = {}

(* An account holds a security once.                                         *)
PairsUnique ==
  \A g, h \in holdings : account[g] = account[h] /\ security[g] = security[h] => g = h

IInv ==
  /\ TypeOK
  /\ RowsAreAnswered
  /\ CreationsHaveSecurities
  /\ IndexHolds
  /\ MakersAlone
  /\ PairsUnique
  /\ HeldOnceUnlessTwinned
  /\ AuditAccountsForHoldings
=============================================================================
