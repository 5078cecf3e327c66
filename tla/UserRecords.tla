---------------------------- MODULE UserRecords ----------------------------
(***************************************************************************)
(* The rows of table users and the requests that create and erase them      *)
(* (backend/auth/service.py register_user, backend/privacy/service.py       *)
(* delete_account).  Every other module of a user's data shares req: where   *)
(* each HTTP request is in its handler, with what it has read, or how it was *)
(* answered.  A request is a read step, then a commit step: another request  *)
(* may run at every await between them.                                     *)
(***************************************************************************)
EXTENDS FiniteSets

CONSTANTS
  UserIds,      \* the ids a user can be given
  Registered,   \* those registered before the run begins
  Emails,       \* e-mail addresses, lower-cased and stripped
  EmailOf,      \* the address of each user registered before
  Requests      \* the requests of a run; each is served once

ASSUME RegisteredAssumption ==
  /\ Registered \subseteq UserIds
  /\ EmailOf \in [Registered -> Emails]
  /\ \A u, v \in Registered : EmailOf[u] = EmailOf[v] => u = v

VARIABLES
  users,    \* the users that exist, with their e-mail address
  erased,   \* users whose erasure is in the audit log
  req       \* each request: the stage it is at and what it has read

userVars == <<users, erased>>

Existing == DOMAIN users
Known == Existing \cup erased

(* How a request ends: error is a 500 answer, died is a lost worker.  What    *)
(* an upload, an export or a link was about is kept for the properties.      *)
Answered == {"refused", "informed", "error", "died", "registered", "erased",
             "coded", "replied"}
Ended == Answered \cup {"uploaded", "linked", "exported"}

UserWork ==
  [at : {"idle"} \cup Answered]
    \cup [at : {"registering"}, email : Emails]
    \cup [at : {"erasing"}, user : UserIds]

(* Two registrations that raced for one address end with one account: part of *)
(* the type invariant, as the unique index is part of the table.             *)
OneAccountPerAddress ==
  \A u, v \in Existing : users[u] = users[v] => u = v

UsersTypeOK ==
  /\ Existing \subseteq UserIds
  /\ users \in [Existing -> Emails]
  /\ erased \subseteq UserIds
  /\ OneAccountPerAddress

UsersInit ==
  /\ users = EmailOf
  /\ erased = {}
  /\ req = [r \in Requests |-> [at |-> "idle"]]

-----------------------------------------------------------------------------
Goto(r, work) == req' = [req EXCEPT ![r] = work]
Move(r, stage) == req' = [req EXCEPT ![r].at = stage]
End(r, answer) == Goto(r, [at |-> answer])
Begin(r, work) == req[r].at = "idle" /\ Goto(r, work)
Running(r) == req[r].at \notin Ended \cup {"idle"}

(* A 4xx before anything is written: a weak password, a wrong one, a file    *)
(* without its columns, or an access token whose user is gone.               *)
Refuse(r) ==
  /\ Begin(r, [at |-> "refused"])
  /\ UNCHANGED userVars

(* register_user: the SELECT on the address, then the INSERT.  A unique      *)
(* index decides between two registrations that both found it free; the      *)
(* loser's IntegrityError is not caught.                                     *)
Taken(e) == \E u \in Existing : users[u] = e

RegisterRead(r, e) ==
  /\ ~Taken(e)
  /\ Begin(r, [at |-> "registering", email |-> e])
  /\ UNCHANGED userVars

AddedUnchecked(r) == TRUE
Added(r) == ~Taken(req[r].email)

RegisterCommit(r, u) ==
  /\ req[r].at = "registering"
  /\ Added(r)
  /\ u \notin Known
  /\ users' = [v \in Existing \cup {u} |-> IF v = u THEN req[r].email ELSE users[v]]
  /\ End(r, "registered")
  /\ UNCHANGED erased

RegisterLoses(r) ==
  /\ req[r].at = "registering"
  /\ ~Added(r)
  /\ End(r, "error")
  /\ UNCHANGED userVars

(* delete_account: get_current_user and the password, then the audit row and *)
(* DELETE FROM users in one commit.  A second deletion finds no row, which   *)
(* only warns, and commits its audit row.                                    *)
EraseRead(r, u) ==
  /\ u \in Existing
  /\ Begin(r, [at |-> "erasing", user |-> u])
  /\ UNCHANGED userVars

EraseCommit(r) ==
  /\ req[r].at = "erasing"
  /\ users' = [v \in Existing \ {req[r].user} |-> users[v]]
  /\ erased' = erased \cup {req[r].user}
  /\ End(r, "erased")

(* A worker dies, or the database ends the transaction: what the request had *)
(* not committed is rolled back.                                             *)
Die(r) ==
  /\ Running(r)
  /\ End(r, "died")
  /\ UNCHANGED userVars
=============================================================================
