------------------------------- MODULE Ledger -------------------------------
(***************************************************************************)
(* The user's books and their audit trail: accounts                         *)
(* (backend/accounts/service.py), income and expenses                       *)
(* (backend/cashflow/service.py), audit_log (backend/common/audit.py) and    *)
(* the expenses a CSV import inserts (backend/ingestion/service.py).         *)
(*                                                                         *)
(* Every mutation reads the row, stages the change and an audit row, and     *)
(* commits both.  SQLAlchemy writes only the fields that differ from what    *)
(* was read.  Accounts are flushed and read back before the audit row is     *)
(* made; from its UPDATE to its commit such a request holds the row's lock.  *)
(***************************************************************************)
EXTENDS Sequences, Naturals

CONSTANTS
  Accounts,   \* the accounts rows there can be
  Entries,    \* the income and expense rows there can be
  Requests,   \* the HTTP requests of a run; each is served once
  Fields,     \* the fields a PATCH can carry
  Values,     \* the values of a field
  NoRow       \* no row

Entities == Accounts \cup Entries
Contents == [Fields -> Values]

ASSUME LedgerAssumption ==
  /\ Accounts \cap Entries = {}
  /\ NoRow \notin Contents

VARIABLES
  row,         \* the committed row of each entity
  trail,       \* the audit rows of each entity, in the order of their commits
  req,         \* where each request is in its handler, or how it was answered
  target,      \* the entity each request is about
  old,         \* the row each request read
  asked,       \* the row each request wants, for the fields of its PATCH
  new,         \* the row each request read back or made, for its audit row
  (* History, read by the properties only. *)
  imported,    \* the contents an entity got from a CSV import
  lastWrite,   \* new_data of the latest audit row whose request wrote the row
  overlapped   \* entities two requests have been at work on at once

history == <<imported, lastWrite, overlapped>>
vars == <<row, trail, req, target, old, asked, new, history>>

Running  == {"updating", "deleting", "flushed", "refreshed"}
Answered == {"created", "updated", "deleted", "notFound", "failed"}

AuditRows == [action : {"CREATE", "UPDATE", "DELETE"},
              old : Contents \cup {NoRow}, new : Contents \cup {NoRow}]

TypeOK ==
  /\ row \in [Entities -> Contents \cup {NoRow}]
  /\ trail \in [Entities -> Seq(AuditRows)]
  /\ req \in [Requests -> {"idle"} \cup Running \cup Answered]
  /\ target \in [Requests -> Entities \cup {NoRow}]
  /\ old \in [Requests -> Contents \cup {NoRow}]
  /\ asked \in [Requests -> Contents \cup {NoRow}]
  /\ new \in [Requests -> Contents \cup {NoRow}]
  /\ imported \in [Entities -> Contents \cup {NoRow}]
  /\ lastWrite \in [Entities -> Contents \cup {NoRow}]
  /\ overlapped \subseteq Entities
  /\ \A r \in Requests : req[r] \in Running =>
       /\ target[r] \in Entities
       /\ old[r] \in Contents
       /\ req[r] # "deleting" => asked[r] \in Contents
       /\ req[r] = "refreshed" => new[r] \in Contents

Init ==
  /\ row = [e \in Entities |-> NoRow]
  /\ trail = [e \in Entities |-> <<>>]
  /\ req = [r \in Requests |-> "idle"]
  /\ target = [r \in Requests |-> NoRow]
  /\ old = [r \in Requests |-> NoRow]
  /\ asked = [r \in Requests |-> NoRow]
  /\ new = [r \in Requests |-> NoRow]
  /\ imported = [e \in Entities |-> NoRow]
  /\ lastWrite = [e \in Entities |-> NoRow]
  /\ overlapped = {}

-----------------------------------------------------------------------------
Goto(r, stage) == req' = [req EXCEPT ![r] = stage]
Arrives(r, stage) == req[r] = "idle" /\ Goto(r, stage)
InFlight(e) == {r \in Requests : req[r] \in Running /\ target[r] = e}

(* uuid4: an id no row and no audit row has had. *)
Fresh(e) == row[e] = NoRow /\ trail[e] = <<>> /\ imported[e] = NoRow

(* The fields the flush writes, and the row it makes of a row. *)
Changed(r) == {f \in Fields : asked[r][f] # old[r][f]}
WrittenWhole(r, c) == asked[r]
Written(r, c) == [f \in Fields |-> IF f \in Changed(r) THEN asked[r][f] ELSE c[f]]

(* Requests whose UPDATE holds the lock of e until they commit. *)
HoldersEver(e) ==
  {r \in Requests : req[r] \in {"flushed", "refreshed", "updated"} /\ target[r] = e}
Holders(e) ==
  {r \in Requests : /\ req[r] \in {"flushed", "refreshed"}
                    /\ target[r] = e
                    /\ Changed(r) # {}}

(* write_audit, in the transaction of the change.  The trail is in commit    *)
(* order.  The stored rows carry created_at = now(), when their transaction  *)
(* began (at the SELECT of the user, before the row is read), and the export *)
(* sorts by that: for requests that overlap the two orders can differ.       *)
Audit(e, action, o, n) ==
  trail' = [trail EXCEPT ![e] = Append(@, [action |-> action, old |-> o, new |-> n])]

(* old = _snapshot(...), before the PATCH is applied. *)
SnapshotLate(r) == asked[r]
Snapshot(r) == old[r]

Write(e, c) == row' = [row EXCEPT ![e] = c]
Credit(e, n) == lastWrite' = [lastWrite EXCEPT ![e] = n]

(* create_account, create_income, create_expense: nobody else knows the id   *)
(* before the commit.                                                        *)
Create(r, e, c) ==
  /\ Fresh(e)
  /\ Arrives(r, "created")
  /\ Write(e, c) /\ Credit(e, c)
  /\ Audit(e, "CREATE", NoRow, c)
  /\ target' = [target EXCEPT ![r] = e]
  /\ UNCHANGED <<old, asked, new, imported, overlapped>>

(* import_expenses_csv: rows without an audit row. *)
Import(r, e, c) ==
  /\ e \in Entries
  /\ Fresh(e)
  /\ Arrives(r, "created")
  /\ Write(e, c)
  /\ imported' = [imported EXCEPT ![e] = c]
  /\ Credit(e, c)
  /\ target' = [target EXCEPT ![r] = e]
  /\ UNCHANGED <<trail, old, asked, new, overlapped>>

-----------------------------------------------------------------------------
(* _get_owned: 404, or the row and the snapshot of it. *)
NotFound(r, e) ==
  /\ row[e] = NoRow
  /\ Arrives(r, "notFound")
  /\ target' = [target EXCEPT ![r] = e]
  /\ UNCHANGED <<row, trail, old, asked, new, history>>

Read(r, e, stage) ==
  /\ row[e] # NoRow
  /\ Arrives(r, stage)
  /\ target' = [target EXCEPT ![r] = e]
  /\ old' = [old EXCEPT ![r] = row[e]]
  /\ overlapped' = overlapped \cup {x \in {e} : InFlight(x) # {}}
  /\ UNCHANGED <<row, trail, new, imported, lastWrite>>

(* The PATCH sets fields of the loaded row; leaving one out is setting it to *)
(* the value it was loaded with.                                             *)
ReadUpdate(r, e, c) ==
  /\ Read(r, e, "updating")
  /\ asked' = [asked EXCEPT ![r] = c]

ReadDelete(r, e) ==
  /\ Read(r, e, "deleting")
  /\ UNCHANGED asked

(* An UPDATE or DELETE waits for the lock; an UPDATE that finds no row       *)
(* raises StaleDataError.  Nothing to write is no UPDATE at all.             *)
Unlocked(e) == Holders(e) = {}
Flushes(r) ==
  Changed(r) # {} => Unlocked(target[r]) /\ row[target[r]] # NoRow

UpdateStale(r) ==
  /\ req[r] = "updating"
  /\ Changed(r) # {}
  /\ row[target[r]] = NoRow
  /\ Goto(r, "failed")
  /\ UNCHANGED <<row, trail, target, old, asked, new, history>>

(* update_income, update_expense: the audit row is made of what was read,    *)
(* and the flush is part of the commit.                                      *)
UpdateEntry(r) ==
  LET e == target[r] IN
  /\ req[r] = "updating" /\ e \in Entries
  /\ Flushes(r)
  /\ IF Changed(r) = {} THEN UNCHANGED <<row, lastWrite>>
                        ELSE Write(e, Written(r, row[e])) /\ Credit(e, asked[r])
  /\ Audit(e, "UPDATE", Snapshot(r), asked[r])
  /\ Goto(r, "updated")
  /\ UNCHANGED <<target, old, asked, new, imported, overlapped>>

(* update_account: flush, refresh, commit. *)
FlushAccount(r) ==
  /\ req[r] = "updating" /\ target[r] \in Accounts
  /\ Flushes(r)
  /\ Goto(r, "flushed")
  /\ UNCHANGED <<row, trail, target, old, asked, new, history>>

(* The SELECT sees the request's own UPDATE over the row as it is now. *)
ReadBackOwn(r) == asked[r]
ReadBack(r) == Written(r, row[target[r]])

RefreshAccount(r) ==
  /\ req[r] = "flushed"
  /\ row[target[r]] # NoRow
  /\ new' = [new EXCEPT ![r] = ReadBack(r)]
  /\ Goto(r, "refreshed")
  /\ UNCHANGED <<row, trail, target, old, asked, history>>

(* Nothing was written, so nothing was locked, and the row is gone.  *)
RefreshGone(r) ==
  /\ req[r] = "flushed"
  /\ row[target[r]] = NoRow
  /\ Goto(r, "failed")
  /\ UNCHANGED <<row, trail, target, old, asked, new, history>>

CommitAccount(r) ==
  LET e == target[r] IN
  /\ req[r] = "refreshed"
  /\ IF Changed(r) = {} THEN UNCHANGED <<row, lastWrite>>
                        ELSE Write(e, Written(r, row[e])) /\ Credit(e, new[r])
  /\ Audit(e, "UPDATE", Snapshot(r), new[r])
  /\ Goto(r, "updated")
  /\ UNCHANGED <<target, old, asked, new, imported, overlapped>>

(* delete_account, delete_income, delete_expense.  A DELETE that finds no    *)
(* row is only warned about, and its audit row commits.                      *)
CommitDelete(r) ==
  LET e == target[r] IN
  /\ req[r] = "deleting"
  /\ Unlocked(e)
  /\ Write(e, NoRow) /\ Credit(e, NoRow)
  /\ Audit(e, "DELETE", Snapshot(r), NoRow)
  /\ Goto(r, "deleted")
  /\ UNCHANGED <<target, old, asked, new, imported, overlapped>>

(* The worker dies or the transaction is refused: all of it is undone. *)
Fail(r) ==
  /\ req[r] \in Running
  /\ Goto(r, "failed")
  /\ UNCHANGED <<row, trail, target, old, asked, new, history>>

-----------------------------------------------------------------------------
Arrive(r) ==
  \E e \in Entities :
    \/ NotFound(r, e) \/ ReadDelete(r, e)
    \/ \E c \in Contents : Create(r, e, c) \/ Import(r, e, c) \/ ReadUpdate(r, e, c)

Continue(r) ==
  \/ UpdateStale(r) \/ UpdateEntry(r)
  \/ FlushAccount(r) \/ RefreshAccount(r) \/ RefreshGone(r) \/ CommitAccount(r)
  \/ CommitDelete(r)

Next == \E r \in Requests : Arrive(r) \/ Continue(r) \/ Fail(r)

Spec == Init /\ [][Next]_vars

(* A started handler is driven on whenever it is not waiting for a lock. *)
FairSpec == Spec /\ \A r \in Requests : WF_vars(Continue(r))

-----------------------------------------------------------------------------
(* The audit trail of an entity replays to its row: each audit row starts    *)
(* from what the one before it left, the first from nothing or from what was *)
(* imported, unless two requests have been at work on the entity at once.    *)
(* The order is that of commits.                                             *)
Before(e, i) == IF i = 1 THEN imported[e] ELSE trail[e][i - 1].new

Replays(e) ==
  /\ \A i \in 1 .. Len(trail[e]) : trail[e][i].old = Before(e, i)
  /\ row[e] = Before(e, Len(trail[e]) + 1)

TrailIsAChain == \A e \in Entities \ overlapped : Replays(e)

(* What the last request to write an account put in its audit row is what     *)
(* the account is, however requests overlap: that is what the flush and       *)
(* refresh of update_account are for.  Last is by commit; after an overlap    *)
(* the audit row with the greatest created_at can be another one.            *)
AccountTrailCurrent == \A a \in Accounts : lastWrite[a] = row[a]

(* A PATCH changes no field it did not set, whatever was committed since the *)
(* row was read: concurrent PATCHes of different fields are both kept.       *)
NoFieldOverwritten ==
  [][\A e \in Entities : row[e] # NoRow /\ row'[e] # NoRow =>
       \A f \in Fields : row'[e][f] # row[e][f] =>
         \E r \in Requests :
           /\ req[r] # "updated" /\ req'[r] = "updated"
           /\ target[r] = e
           /\ row'[e][f] = asked[r][f] /\ asked[r][f] # old[r][f]]_vars

(* No request waits for a row lock for ever.                                 *)
EveryRequestAnswered ==
  \A r \in Requests : req[r] \in Running ~> req[r] \in Answered

-----------------------------------------------------------------------------
(* The inductive strengthening.                                              *)

(* A lock has one holder, and keeps its row from changing between the        *)
(* UPDATE, the read-back and the commit.                                     *)
LocksHold ==
  \A r \in Requests : r \in Holders(target[r]) =>
    /\ Holders(target[r]) = {r}
    /\ row[target[r]] # NoRow
    /\ req[r] = "refreshed" => new[r] = Written(r, row[target[r]])

(* A request that is alone at work on an entity has read the row as it is.   *)
AloneIsCurrent ==
  \A r \in Requests : req[r] \in Running /\ target[r] \notin overlapped =>
    /\ InFlight(target[r]) = {r}
    /\ old[r] = row[target[r]]
    /\ req[r] = "refreshed" => new[r] = asked[r]

(* Only accounts are flushed before their commit.                            *)
FlushedAreAccounts ==
  \A r \in Requests : req[r] \in {"flushed", "refreshed"} => target[r] \in Accounts

IInv ==
  /\ TypeOK
  /\ FlushedAreAccounts
  /\ LocksHold
  /\ AccountTrailCurrent
  /\ AloneIsCurrent
  /\ TrailIsAChain
=============================================================================
