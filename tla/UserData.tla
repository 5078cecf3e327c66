------------------------------ MODULE UserData ------------------------------
(***************************************************************************)
(* What a user's data goes through outside the REST forms: registration,     *)
(* uploads, the bot, the export of everything and the erasure of the         *)
(* account, all at once (backend/privacy over backend/ingestion and          *)
(* backend/telegram).                                                        *)
(***************************************************************************)
EXTENDS CsvImport, TelegramBot

(* A line's fingerprint is no request's audit row.                           *)
ASSUME ItemsAssumption == Lines \cap Requests = {}

vars == <<userVars, req, importVars, botVars>>

ExportWork ==
  [at : {"exporting", "exported"}, user : UserIds,
   file : Seq(SUBSET (Lines \cup Requests \cup UserIds))]

TypeOK ==
  /\ UsersTypeOK /\ ImportTypeOK /\ BotTypeOK
  /\ req \in [Requests -> UserWork \cup ImportWork \cup BotWork \cup ExportWork]

Init == UsersInit /\ ImportInit /\ BotInit

-----------------------------------------------------------------------------
(* export_data reads table after table, each SELECT what is committed when   *)
(* it runs.  Of its sections three are stored here: the expenses, whether the *)
(* bot is linked, and the audit log, in this order.                          *)
TrailFirst == <<"audit_log", "telegram", "expenses">>
Section == <<"expenses", "telegram", "audit_log">>

Stored(u, section) ==
  CASE section = "expenses"  -> Imported(u) \cup {q \in Requests : <<u, q>> \in entries}
    [] section = "telegram"  -> {v \in Linked \cap {u} : link[v].chat # NoChat}
    [] section = "audit_log" -> {q \in Requests : <<u, q>> \in audited}

ExportRead(r, u) ==
  /\ u \in Existing
  /\ Begin(r, [at |-> "exporting", user |-> u, file |-> <<>>])
  /\ UNCHANGED <<userVars, importVars, botVars>>

ExportSection(r) ==
  /\ req[r].at = "exporting"
  /\ LET next == Len(req[r].file) + 1 IN
       Goto(r, [req[r] EXCEPT
                 !.file = Append(@, Stored(req[r].user, Section[next])),
                 !.at = IF next = Len(Section) THEN "exported" ELSE @])
  /\ UNCHANGED <<userVars, importVars, botVars>>

(* DELETE FROM users waits for whoever holds a checked foreign key, and      *)
(* cascades.                                                                 *)
EraseDoesNotWait(r) ==
  /\ EraseCommit(r)
  /\ ImportCascade(req[r].user) /\ BotCascade(req[r].user)
Erase(r) ==
  /\ EraseCommit(r)
  /\ ~ImportPins(req[r].user)
  /\ ImportCascade(req[r].user) /\ BotCascade(req[r].user)

UserArrives(r) ==
  /\ \/ Refuse(r)
     \/ \E e \in Emails : RegisterRead(r, e)
     \/ \E u \in UserIds : EraseRead(r, u)
  /\ UNCHANGED <<importVars, botVars>>

UserContinues(r) ==
  /\ (\E u \in UserIds : RegisterCommit(r, u)) \/ RegisterLoses(r)
  /\ UNCHANGED <<importVars, botVars>>

Arrive(r) ==
  \/ UserArrives(r)
  \/ Upload(r) /\ UNCHANGED botVars
  \/ ((\E u \in UserIds : CodeRead(r, u)) \/ Webhook(r)) /\ UNCHANGED importVars
  \/ \E u \in UserIds : ExportRead(r, u)

Continue(r) ==
  \/ UserContinues(r)
  \/ ImportContinues(r) /\ UNCHANGED botVars
  \/ BotContinues(r) /\ UNCHANGED importVars
  \/ ExportSection(r)
  \/ Erase(r)

Next ==
  \/ \E r \in Requests :
       \/ Arrive(r) \/ Continue(r)
       \/ Die(r) /\ UNCHANGED <<importVars, botVars>>
       \/ GiveUp(r) /\ UNCHANGED importVars
  \/ \E u \in UserIds, l \in Lines : DeleteExpense(u, l) /\ UNCHANGED botVars
  \/ \E c \in Codes : CodeExpires(c) /\ UNCHANGED importVars

Spec == Init /\ [][Next]_vars

(* A request a worker has started is driven to its end, by the event loop    *)
(* and by the database that grants or breaks its lock waits.                 *)
FairSpec == Spec /\ \A r \in Requests : WF_vars(Continue(r))

-----------------------------------------------------------------------------
(* Erasure leaves nothing behind: whatever was in flight, rows, receipts,    *)
(* links and bot entries belong to users that exist.                         *)
NothingLeftBehind ==
  /\ \A x \in rows \cup entries : x[1] \in Existing
  /\ \A x \in receipts : x.user \in Existing
  /\ Linked \subseteq Existing

(* An export is torn only one way: every expense it lists that was entered   *)
(* by hand has its CREATE row in the exported audit log.                     *)
Listed(r, section) == req[r].file[CHOOSE i \in DOMAIN Section : Section[i] = section]

ExportIsConsistent ==
  \A r \in Requests : req[r].at = "exported" =>
    Listed(r, "expenses") \cap Requests \subseteq Listed(r, "audit_log")

(* Every request that has begun is answered, uploads that deadlock and       *)
(* erasures that wait for them too.                                          *)
EveryRequestAnswered ==
  \A r \in Requests : Running(r) ~> ~Running(r)
-----------------------------------------------------------------------------
(* The inductive invariant: the parts of the components, ids that are never   *)
(* given again, and exports that have their expenses before their audit log. *)
ExportsInv ==
  \A r \in Requests :
    LET f == req[r].file
        made == f[1] \cap Requests IN
    /\ req[r].at = "exporting" =>
         Len(f) < 3 /\ (Len(f) > 0 => \A q \in made : <<req[r].user, q>> \in audited)
    /\ req[r].at = "exported" => Len(f) = 3 /\ made \subseteq f[3]

IInv ==
  TypeOK /\ Existing \cap erased = {} /\ ImportInv /\ BotInv /\ ExportsInv
=============================================================================
