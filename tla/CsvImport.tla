----------------------------- MODULE CsvImport -----------------------------
(***************************************************************************)
(* Uploads of expenses (backend/ingestion/service.py): a CSV file becomes    *)
(* rows with a fingerprint and one receipt, in one transaction.  The         *)
(* multi-row INSERT ... ON CONFLICT DO NOTHING takes the unique key of one    *)
(* line after the other, and waits at a line that another transaction has    *)
(* inserted and not committed; its foreign key is checked at the statement's *)
(* end, and from then on the user's row is locked against deletion.          *)
(***************************************************************************)
EXTENDS UserRecords, Naturals, Sequences, FiniteSetsExt, Functions

CONSTANTS
  Lines,        \* lines by their fingerprint: date, amount, currency, category, note
  Bad,          \* a line with an error of its own, reported in the receipt
  Broken,       \* a line the parser does not survive: surplus fields, amount NaN
  Files,        \* the files uploaded: sequences of lines
  MaxDeleted    \* bound: expenses deleted in a run

ASSUME FilesAssumption ==
  /\ Bad \notin Lines /\ Broken \notin Lines /\ Bad # Broken
  /\ \A f \in Files : f \in Seq(Lines \cup {Bad, Broken})
  /\ MaxDeleted \in Nat

VARIABLES
  rows,      \* imported expenses: the user and the fingerprint
  receipts,  \* table import_receipts
  (* History, read by the properties only. *)
  gone,      \* lines deleted while or after each upload ran
  deleted    \* how many imported expenses of each user were deleted

importVars == <<rows, receipts, gone, deleted>>

(* parse_expense_rows: where the valid lines are, and the errors.            *)
Valid(f) == {i \in DOMAIN f : f[i] \in Lines}
Failures(f) == {i \in DOMAIN f : f[i] = Bad}
Breaks(f) == \E i \in DOMAIN f : f[i] = Broken

(* dict.setdefault keeps the first of equal lines, in their order.           *)
Unique(f) == {i \in Valid(f) : \A j \in Valid(f) : f[j] = f[i] => i <= j}

Receipt == [upload : Requests, user : UserIds, inserted : Nat,
            duplicates : Nat, failed : Nat]

ImportWork ==
  [at : {"importing", "imported"}, user : UserIds, file : Files,
   todo : SUBSET Nat, held : SUBSET Lines]
    \cup [at : {"uploaded"}, user : UserIds, file : Files]

ImportTypeOK ==
  /\ rows \subseteq UserIds \X Lines
  /\ receipts \subseteq Receipt
  /\ gone \in [Requests -> SUBSET Lines]
  /\ deleted \in [UserIds -> 0..MaxDeleted]

ImportInit ==
  /\ rows = {} /\ receipts = {}
  /\ gone = [r \in Requests |-> {}]
  /\ deleted = [u \in UserIds |-> 0]

-----------------------------------------------------------------------------
Importing(r) == req[r].at = "importing"
Uploads(u) == {r \in Requests :
                 req[r].at \in {"importing", "imported", "uploaded"} /\ req[r].user = u}
AtLine(r) == Importing(r) /\ req[r].todo # {}
NextLine(r) == req[r].file[Min(req[r].todo)]

(* get_current_user, then the whole file is parsed.                          *)
UploadRead(r, u, f) ==
  /\ u \in Existing
  /\ ~Breaks(f)
  /\ Begin(r, [at |-> "importing", user |-> u, file |-> f, todo |-> Unique(f),
               held |-> {}])
  /\ UNCHANGED <<userVars, importVars>>

(* Nothing catches what the parser raises on such a line.                    *)
UploadBreaks(r, u, f) ==
  /\ u \in Existing
  /\ Breaks(f)
  /\ Begin(r, [at |-> "error"])
  /\ UNCHANGED <<userVars, importVars>>

(* The transactions whose uncommitted row the next line of r meets.          *)
Blockers(r) ==
  {s \in Requests \ {r} :
     /\ AtLine(r) /\ req[s].at \in {"importing", "imported"}
     /\ req[s].user = req[r].user /\ NextLine(r) \in req[s].held}

(* ON CONFLICT DO NOTHING: a committed row makes the line a duplicate.       *)
AlwaysNew(r) == TRUE
IsNew(r) == <<req[r].user, NextLine(r)>> \notin rows

TakeLine(r, new) ==
  /\ AtLine(r)
  /\ Goto(r, [req[r] EXCEPT !.todo = @ \ {Min(@)},
                            !.held = @ \cup {l \in {NextLine(r)} : new}])
  /\ UNCHANGED <<userVars, importVars>>

InsertLineSkipping(r) == TakeLine(r, IsNew(r) /\ Blockers(r) = {})
InsertLine(r) == Blockers(r) = {} /\ TakeLine(r, IsNew(r))

(* PostgreSQL aborts a transaction of a cycle of waiting ones: uploads whose *)
(* files hold lines of one user in opposite orders wait for each other.  A   *)
(* line has one uncommitted holder, so a set in which everyone waits and is  *)
(* waited for is made of cycles.                                            *)
NoVictim(r) == FALSE
Victim(r) ==
  \E S \in SUBSET Requests :
    /\ r \in S
    /\ \A s \in S : AtLine(s) /\ \E t \in S : s \in Blockers(t)

Deadlocked(r) ==
  /\ AtLine(r)
  /\ Victim(r)
  /\ End(r, "error")
  /\ UNCHANGED <<userVars, importVars>>

(* The foreign key to users, at the end of the statement.                    *)
UserIsThere(r) == req[r].user \in Existing

StatementEnds(r) ==
  /\ Importing(r) /\ req[r].todo = {}
  /\ IF UserIsThere(r) THEN Move(r, "imported") ELSE End(r, "error")
  /\ UNCHANGED <<userVars, importVars>>

(* The receipt is added and everything commits together.                     *)
ReceiptOf(r) ==
  [upload |-> r, user |-> req[r].user,
   inserted |-> Cardinality(req[r].held),
   duplicates |-> Cardinality(Valid(req[r].file)) - Cardinality(req[r].held),
   failed |-> Cardinality(Failures(req[r].file))]

UploadCommit(r) ==
  /\ req[r].at = "imported"
  /\ rows' = rows \cup {<<req[r].user, l>> : l \in req[r].held}
  /\ receipts' = receipts \cup {ReceiptOf(r)}
  /\ Goto(r, [at |-> "uploaded", user |-> req[r].user, file |-> req[r].file])
  /\ UNCHANGED <<userVars, gone, deleted>>

(* DELETE /expenses/{id} of an imported expense.                             *)
DeleteExpense(u, l) ==
  /\ <<u, l>> \in rows
  /\ deleted[u] < MaxDeleted
  /\ rows' = rows \ {<<u, l>>}
  /\ gone' = [r \in Requests |-> IF r \in Uploads(u) THEN gone[r] \cup {l} ELSE gone[r]]
  /\ deleted' = [deleted EXCEPT ![u] = @ + 1]
  /\ UNCHANGED <<userVars, req, receipts>>

Upload(r) ==
  \E u \in UserIds, f \in Files : UploadRead(r, u, f) \/ UploadBreaks(r, u, f)

ImportContinues(r) ==
  InsertLine(r) \/ Deadlocked(r) \/ StatementEnds(r) \/ UploadCommit(r)

(* What ON DELETE CASCADE does to these tables, and when it has to wait: a   *)
(* checked foreign key holds the user's row until the upload commits.        *)
ImportPins(u) == \E r \in Uploads(u) : req[r].at = "imported"
ImportCascade(u) ==
  /\ rows' = {x \in rows : x[1] # u}
  /\ receipts' = {x \in receipts : x.user # u}
  /\ UNCHANGED <<gone, deleted>>

-----------------------------------------------------------------------------
(* Every valid line of an upload that was answered is an expense of the      *)
(* user, whoever inserted it, unless it was deleted since the upload began.  *)
(* A PATCH of an imported expense is not modelled here: it keeps the row and *)
(* its fingerprint, whatever it makes of the contents.                       *)
UploadedIsThere ==
  \A r \in Requests : req[r].at = "uploaded" /\ req[r].user \in Existing =>
    \A i \in Valid(req[r].file) :
      LET l == req[r].file[i] IN <<req[r].user, l>> \in rows \/ l \in gone[r]

(* The inserted counts of a user's receipts add up to the imported expenses  *)
(* there are and were: racing uploads never both count a line.               *)
Imported(u) == {l \in Lines : <<u, l>> \in rows}
ReceiptsOf(u) == {x \in receipts : x.user = u}
Inserted == [x \in receipts |-> x.inserted]

ReceiptsAddUp ==
  \A u \in Existing :
    SumFunctionOnSet(Inserted, ReceiptsOf(u)) = Cardinality(Imported(u)) + deleted[u]

-----------------------------------------------------------------------------
(* The inductive strengthening.  An upload's transaction holds the lines of  *)
(* its file that nobody else has; those it has passed are held, or committed *)
(* by somebody, or deleted since; and once its foreign key is checked its     *)
(* user stays.                                                               *)
InFlight(r) == req[r].at \in {"importing", "imported"}
LinesOf(f) == {f[i] : i \in Valid(f)}
Passed(r) == Unique(req[r].file) \ req[r].todo

UploadInv ==
  \A r \in Requests :
    /\ InFlight(r) =>
         /\ req[r].todo \subseteq Unique(req[r].file)
         /\ req[r].held \subseteq LinesOf(req[r].file)
         /\ \A l \in req[r].held : <<req[r].user, l>> \notin rows
         /\ req[r].user \in Existing =>
              \A i \in Passed(r) :
                LET l == req[r].file[i] IN
                  l \in req[r].held \/ <<req[r].user, l>> \in rows \/ l \in gone[r]
    /\ req[r].at = "imported" => req[r].user \in Existing /\ req[r].todo = {}
    /\ InFlight(r) \/ req[r].at = "uploaded" => req[r].user \in Known

OneHolder ==
  \A r, s \in Requests :
    r # s /\ InFlight(r) /\ InFlight(s) /\ req[r].user = req[s].user
      => req[r].held \cap req[s].held = {}

(* What the counts need: sets that can be counted, one receipt per upload,    *)
(* and users who were never there have nothing.                              *)
Countable ==
  /\ IsFiniteSet(receipts)
  /\ \A u \in UserIds : IsFiniteSet(Imported(u))
  /\ \A x \in receipts : req[x.upload].at = "uploaded"
  /\ \A u \in UserIds \ Known : deleted[u] = 0

ImportOwned ==
  /\ \A x \in rows : x[1] \in Existing
  /\ \A x \in receipts : x.user \in Existing

ImportInv ==
  UploadInv /\ OneHolder /\ Countable /\ ImportOwned /\ UploadedIsThere /\ ReceiptsAddUp
=============================================================================
