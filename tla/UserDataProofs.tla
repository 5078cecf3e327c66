--------------------------- MODULE UserDataProofs ---------------------------
(***************************************************************************)
(* Theorems about UserData for any users, files, codes, updates and          *)
(* requests.  The invariant of each component is kept by the component's own *)
(* steps one by one, and by everybody else's because they leave its tables   *)
(* alone and move requests outside its stages.                               *)
(***************************************************************************)
EXTENDS UserData, SumProofs

-----------------------------------------------------------------------------
(* What requests carry at each stage.                                        *)
Uploading == [at : {"importing", "imported"}, user : UserIds, file : Files,
              todo : SUBSET Nat, held : SUBSET Lines]
Linking == [at : {"linking", "binding"}, user : UserIds, chat : Chats, code : Codes,
            loaded : Chats \cup {NoChat}]
Booking == [at : {"booking", "replying"}, update : Updates, owner : SUBSET UserIds]
Work == UserWork \cup ImportWork \cup BotWork \cup ExportWork

LEMMA WorkByStage ==
  ASSUME NEW w \in Work
  PROVE  /\ w.at \in {"importing", "imported"} => w \in Uploading
         /\ w.at = "uploaded" => w \in [at : {"uploaded"}, user : UserIds, file : Files]
         /\ w.at \in {"linking", "binding"} => w \in Linking
         /\ w.at = "linked" =>
              w \in [at : {"linked"}, user : UserIds, chat : Chats, code : Codes]
         /\ w.at = "coding" => w \in [at : {"coding"}, user : UserIds, had : BOOLEAN]
         /\ w.at \in {"booking", "replying"} => w \in Booking
         /\ w.at \in {"exporting", "exported"} => w \in ExportWork
         /\ w.at = "registering" => w \in [at : {"registering"}, email : Emails]
         /\ w.at = "erasing" => w \in [at : {"erasing"}, user : UserIds]
<1> USE DEF Work, UserWork, ImportWork, BotWork, ExportWork, Uploading, Linking, Booking
<1>1. CASE w \in UserWork
  <2>1. CASE w \in [at : {"idle"} \cup Answered]
    <3>1. w.at \in {"idle"} \cup Answered
      BY <2>1
    <3>2. w.at \notin {"importing", "imported", "uploaded", "linking", "binding", "linked",
                      "coding", "booking", "replying", "exporting", "exported",
                      "registering", "erasing"}
      BY <3>1 DEF Answered
    <3> QED
      BY <2>1, <3>2
  <2> QED
    BY <1>1, <2>1
<1>2. CASE w \in ImportWork
  BY <1>2
<1>3. CASE w \in BotWork
  BY <1>3
<1>4. CASE w \in ExportWork
  BY <1>4
<1> QED
  BY <1>1, <1>2, <1>3, <1>4

LEMMA AnswerIsWork ==
  ASSUME NEW a \in Answered \cup {"idle"}
  PROVE  [at |-> a] \in Work /\ [at |-> a].at = a
BY DEF Work, UserWork

(* The members of a file that are valid, and a smallest one of some.         *)
LEMMA NatMin ==
  ASSUME NEW S \in SUBSET Nat, S # {}
  PROVE  Min(S) \in S /\ \A y \in S : Min(S) <= y
<1> DEFINE A == {n \in Nat : \A m \in 0..n : m \notin S}
<1> SUFFICES ASSUME ~ \E x \in S : \A y \in S : x <= y
             PROVE  FALSE
  BY DEF Min
<1>1. 0 \in A
  <2>1. 0 \notin S
    OBVIOUS
  <2> QED
    BY <2>1
<1>2. ASSUME NEW n \in Nat, n \in A PROVE n + 1 \in A
  <2>1. n + 1 \notin S
    <3>1. \A y \in S : ~(y \in 0..n)
      BY <1>2
    <3>2. \A y \in S : n + 1 <= y
      BY <3>1
    <3> QED
      BY <3>2
  <2> SUFFICES ASSUME NEW m \in 0..(n + 1) PROVE m \notin S
    OBVIOUS
  <2>2. m \in 0..n \/ m = n + 1
    OBVIOUS
  <2> QED
    BY <1>2, <2>1, <2>2
<1>3. Nat \subseteq A
  <2> HIDE DEF A
  <2> QED
    BY <1>1, <1>2, Counting
<1>4. PICK x \in S : x \in A
  BY <1>3
<1> QED
  BY <1>4

(* The lines of a file: places of it, finitely many, and the first of equal  *)
(* lines for every line.                                                     *)
LEMMA FileLines ==
  ASSUME NEW f \in Files
  PROVE  /\ Valid(f) \subseteq Nat /\ Unique(f) \subseteq Valid(f)
         /\ \A i \in Valid(f) : f[i] \in Lines
         /\ IsFiniteSet(Valid(f)) /\ IsFiniteSet(Failures(f))
         /\ IsFiniteSet(LinesOf(f)) /\ LinesOf(f) \subseteq Lines
         /\ Cardinality(LinesOf(f)) <= Cardinality(Valid(f))
<1>1. f \in Seq(Lines \cup {Bad, Broken})
  BY FilesAssumption
<1>2. DOMAIN f = 1..Len(f) /\ Len(f) \in Nat
  BY <1>1
<1>3. IsFiniteSet(1..Len(f))
  BY <1>2, FS_Interval
<1>4. Valid(f) \subseteq 1..Len(f) /\ Failures(f) \subseteq 1..Len(f)
  BY <1>2 DEF Valid, Failures
<1>5. IsFiniteSet(Valid(f)) /\ IsFiniteSet(Failures(f))
  BY <1>3, <1>4, FS_Subset
<1>6. IsFiniteSet(LinesOf(f)) /\ Cardinality(LinesOf(f)) <= Cardinality(Valid(f))
  <2>1. [i \in Valid(f) |-> f[i]] \in Surjection(Valid(f), LinesOf(f))
    BY DEF LinesOf, Surjection
  <2> QED
    BY <1>5, <2>1, FS_Surjection
<1>7. LinesOf(f) \subseteq Lines
  BY DEF LinesOf, Valid
<1> QED
  BY <1>2, <1>4, <1>5, <1>6, <1>7 DEF Valid, Unique

LEMMA FirstOfEqualLines ==
  ASSUME NEW f \in Files, NEW i \in Valid(f)
  PROVE  \E j \in Unique(f) : f[j] = f[i]
<1> DEFINE S == {j \in Valid(f) : f[j] = f[i]}
<1>1. S \in SUBSET Nat /\ S # {}
  BY FileLines
<1>2. Min(S) \in S /\ \A y \in S : Min(S) <= y
  <2> HIDE DEF S
  <2> QED
    BY <1>1, NatMin
<1>3. Min(S) \in Unique(f)
  <2>1. PICK m : m = Min(S)
    OBVIOUS
  <2> QED
    BY <1>2, <2>1 DEF Unique
<1> QED
  BY <1>2, <1>3

(* What an upload that is being inserted holds, and its next line.           *)
LEMMA Holding ==
  ASSUME TypeOK, UploadInv, NEW r \in Requests, InFlight(r)
  PROVE  /\ req[r] \in Uploading
         /\ IsFiniteSet(req[r].held)
         /\ Cardinality(req[r].held) \in Nat
         /\ Cardinality(Valid(req[r].file)) - Cardinality(req[r].held) \in Nat
         /\ Cardinality(Failures(req[r].file)) \in Nat
<1>1. req[r] \in Uploading
  BY WorkByStage DEF TypeOK, Work, InFlight
<1>2. req[r].file \in Files /\ req[r].held \subseteq LinesOf(req[r].file)
  BY <1>1 DEF Uploading, UploadInv
<1>3. PICK f \in Files : f = req[r].file
  BY <1>2
<1>4. /\ IsFiniteSet(Valid(f)) /\ IsFiniteSet(Failures(f)) /\ IsFiniteSet(LinesOf(f))
      /\ Cardinality(LinesOf(f)) <= Cardinality(Valid(f))
  BY <1>3, FileLines
<1>5. IsFiniteSet(req[r].held) /\ Cardinality(req[r].held) <= Cardinality(LinesOf(f))
  BY <1>2, <1>3, <1>4, FS_Subset
<1>6. /\ Cardinality(req[r].held) \in Nat /\ Cardinality(LinesOf(f)) \in Nat
      /\ Cardinality(Valid(f)) \in Nat /\ Cardinality(Failures(f)) \in Nat
  BY <1>4, <1>5, FS_CardinalityType
<1>7. \A h, m, n \in Nat : h <= m /\ m <= n => n - h \in Nat
  OBVIOUS
<1> QED
  BY <1>1, <1>3, <1>4, <1>5, <1>6, <1>7

LEMMA NextLineIsALine ==
  ASSUME TypeOK, UploadInv, NEW r \in Requests, AtLine(r)
  PROVE  /\ Min(req[r].todo) \in req[r].todo
         /\ Min(req[r].todo) \in Unique(req[r].file)
         /\ Min(req[r].todo) \in Valid(req[r].file)
         /\ NextLine(r) \in Lines /\ NextLine(r) \in LinesOf(req[r].file)
<1>1. InFlight(r) /\ req[r].todo # {}
  BY DEF AtLine, Importing, InFlight
<1>2. req[r].todo \subseteq Unique(req[r].file) /\ req[r].file \in Files
  BY <1>1, Holding DEF UploadInv, Uploading
<1>3. PICK T : T = req[r].todo
  OBVIOUS
<1>4. T \in SUBSET Nat /\ T # {}
  BY <1>1, <1>2, <1>3, FileLines
<1>5. Min(T) \in T
  BY <1>4, NatMin
<1> QED
  BY <1>2, <1>3, <1>5, FileLines DEF NextLine, LinesOf

-----------------------------------------------------------------------------
(* Every step moves one request, or none.                                    *)
Moves(r, w) == req' = [req EXCEPT ![r] = w]

LEMMA MovedType ==
  ASSUME TypeOK, NEW r \in Requests, NEW w, Moves(r, w)
  PROVE  /\ req'[r] = w
         /\ \A s \in Requests : s # r => req'[s] = req[s]
         /\ w \in Work => req' \in [Requests -> Work]
BY DEF TypeOK, Moves, Work

LEMMA ArrivalMoves ==
  ASSUME TypeOK, NEW r \in Requests, Arrive(r)
  PROVE  req[r].at = "idle" /\ \E w \in Work : Moves(r, w)
<1> USE DEF Goto, Begin, Moves
<1>1. CASE UserArrives(r)
  <2>1. CASE Refuse(r)
    BY <2>1, AnswerIsWork DEF Refuse, Answered
  <2>2. CASE \E e \in Emails : RegisterRead(r, e)
    BY <2>2 DEF RegisterRead, Work, UserWork
  <2>3. CASE \E u \in UserIds : EraseRead(r, u)
    BY <2>3 DEF EraseRead, Work, UserWork
  <2> QED
    BY <1>1, <2>1, <2>2, <2>3 DEF UserArrives
<1>2. CASE Upload(r)
  <2> SUFFICES ASSUME NEW u \in UserIds, NEW f \in Files, UploadRead(r, u, f) \/ UploadBreaks(r, u, f)
               PROVE  req[r].at = "idle" /\ \E w \in Work : Moves(r, w)
    BY <1>2 DEF Upload
  <2>1. CASE UploadRead(r, u, f)
    <3>1. Unique(f) \in SUBSET Nat
      BY FileLines
    <3>2. [at |-> "importing", user |-> u, file |-> f, todo |-> Unique(f), held |-> {}] \in Work
      BY <3>1 DEF Work, ImportWork
    <3> QED
      BY <2>1, <3>2 DEF UploadRead
  <2>2. CASE UploadBreaks(r, u, f)
    BY <2>2, AnswerIsWork DEF UploadBreaks, Answered
  <2> QED
    BY <2>1, <2>2
<1>3. CASE \E u \in UserIds : CodeRead(r, u)
  <2>1. PICK u \in UserIds : CodeRead(r, u)
    BY <1>3
  <2>2. [at |-> "coding", user |-> u, had |-> u \in Linked]
          \in [at : {"coding"}, user : UserIds, had : BOOLEAN]
    OBVIOUS
  <2>3. [at |-> "coding", user |-> u, had |-> u \in Linked] \in Work
    BY <2>2, Zenon DEF Work, BotWork
  <2>4. req[r].at = "idle"
    BY <2>1 DEF CodeRead
  <2>5. Moves(r, [at |-> "coding", user |-> u, had |-> u \in Linked])
    BY <2>1, Zenon DEF CodeRead
  <2> QED
    BY <2>3, <2>4, <2>5, Zenon
<1>4. CASE Webhook(r)
  <2>1. CASE \E chat \in Chats, c \in Codes : LinkRead(r, chat, c)
    <3>1. PICK chat \in Chats, c \in Codes : LinkRead(r, chat, c)
      BY <2>1
    <3>2. PICK u : u = CHOOSE v \in Linked : link[v].code = c
      OBVIOUS
    <3>3. u \in Linked
      BY <3>1, <3>2 DEF LinkRead, Redeemable
    <3>4. u \in UserIds /\ link[u].chat \in Chats \cup {NoChat}
      BY <3>3 DEF TypeOK, BotTypeOK, Row
    <3>5. [at |-> "linking", user |-> u, chat |-> chat, code |-> c, loaded |-> link[u].chat] \in Work
      BY <3>4 DEF Work, BotWork
    <3> QED
      BY <3>1, <3>2, <3>5 DEF LinkRead
  <2>2. CASE \E m \in Updates : Deliver(r, m)
    <3>1. PICK m \in Updates : Deliver(r, m)
      BY <2>2
    <3>2. PICK o : o = {u \in Linked : link[u].chat = Sender[m]}
      OBVIOUS
    <3>3. o \in SUBSET UserIds
      BY <3>2 DEF TypeOK, BotTypeOK
    <3>4. [at |-> IF o = {} THEN "replying" ELSE "booking", update |-> m, owner |-> o] \in Work
      BY <3>3 DEF Work, BotWork
    <3> QED
      BY <3>1, <3>2, <3>4 DEF Deliver
  <2>3. CASE Inform(r)
    BY <2>3, AnswerIsWork DEF Inform, Answered
  <2> QED
    BY <1>4, <2>1, <2>2, <2>3 DEF Webhook
<1>5. CASE \E u \in UserIds : ExportRead(r, u)
  <2>1. <<>> \in Seq(SUBSET (Lines \cup Requests \cup UserIds))
    OBVIOUS
  <2> QED
    BY <1>5, <2>1 DEF ExportRead, Work, ExportWork
<1> QED
  BY <1>1, <1>2, <1>3, <1>4, <1>5 DEF Arrive

(* The next state of an upload's own work. *)
LEMMA TakeLineMoves ==
  ASSUME TypeOK, UploadInv, NEW r \in Requests, NEW new, TakeLine(r, new)
  PROVE  \E w \in Work :
           /\ Moves(r, w) /\ w \in Uploading
           /\ w.at = "importing" /\ req[r].at = "importing"
           /\ w.user = req[r].user /\ w.file = req[r].file
           /\ w.todo = req[r].todo \ {Min(req[r].todo)}
           /\ w.held = req[r].held \cup {l \in {NextLine(r)} : new}
<1>1. AtLine(r) /\ InFlight(r) /\ req[r].at = "importing"
  BY DEF TakeLine, AtLine, Importing, InFlight
<1>2. req[r] \in Uploading /\ NextLine(r) \in Lines
  BY <1>1, Holding, NextLineIsALine
<1>3. PICK h : h = {l \in {NextLine(r)} : new}
  OBVIOUS
<1>4. PICK m : m = Min(req[r].todo)
  OBVIOUS
<1>5. h \in SUBSET Lines
  BY <1>2, <1>3
<1> DEFINE w == [req[r] EXCEPT !.todo = @ \ {m}, !.held = @ \cup h]
<1>6. w \in Uploading /\ w.at = "importing" /\ w.user = req[r].user /\ w.file = req[r].file
      /\ w.todo = req[r].todo \ {m} /\ w.held = req[r].held \cup h
  BY <1>1, <1>2, <1>5 DEF Uploading
<1>7. w \in Work
  BY <1>6 DEF Work, ImportWork, Uploading
<1>8. Moves(r, w)
  BY <1>3, <1>4 DEF TakeLine, Goto, Moves
<1> HIDE DEF w
<1> QED
  BY <1>1, <1>3, <1>4, <1>6, <1>7, <1>8

LEMMA StoredType ==
  ASSUME TypeOK, NEW u \in UserIds, NEW i \in 1..3
  PROVE  Stored(u, Section[i]) \in SUBSET (Lines \cup Requests \cup UserIds)
<1>1. Section[1] = "expenses" /\ Section[2] = "telegram" /\ Section[3] = "audit_log"
  BY DEF Section
<1>2. Imported(u) \subseteq Lines
  BY DEF Imported
<1>3. i \in {1, 2, 3}
  OBVIOUS
<1>4. CASE i = 1
  BY <1>1, <1>2, <1>4 DEF Stored
<1>5. CASE i = 2
  BY <1>1, <1>5 DEF Stored
<1>6. CASE i = 3
  BY <1>1, <1>6 DEF Stored
<1> QED
  BY <1>3, <1>4, <1>5, <1>6

LEMMA ContinuationMoves ==
  ASSUME TypeOK, UploadInv, ExportsInv, NEW r \in Requests, Continue(r)
  PROVE  req[r].at \notin Ended \cup {"idle"} /\ \E w \in Work : Moves(r, w)
<1> USE DEF Goto, End, Moves
<1>a. \A a \in Answered : [at |-> a] \in Work
  BY AnswerIsWork
<1>1. CASE UserContinues(r) \/ Erase(r)
  BY <1>1, <1>a DEF UserContinues, RegisterCommit, RegisterLoses, Erase, EraseCommit, Ended, Answered
<1>2. CASE ImportContinues(r)
  <2>1. CASE InsertLine(r)
    <3>1. TakeLine(r, IsNew(r))
      BY <2>1 DEF InsertLine
    <3> QED
      BY <3>1, TakeLineMoves DEF Ended, Answered
  <2>2. CASE Deadlocked(r)
    BY <2>2, <1>a DEF Deadlocked, AtLine, Importing, Ended, Answered
  <2>3. CASE StatementEnds(r)
    <3>1. req[r].at = "importing" /\ InFlight(r)
      BY <2>3 DEF StatementEnds, Importing, InFlight
    <3>2. req[r] \in Uploading
      BY <3>1, Holding
    <3>3. [req[r] EXCEPT !.at = "imported"] \in Work
      BY <3>2 DEF Uploading, Work, ImportWork
    <3> QED
      BY <2>3, <3>1, <3>3, <1>a DEF StatementEnds, Move, Ended, Answered
  <2>4. CASE UploadCommit(r)
    <3>1. req[r].at = "imported" /\ InFlight(r)
      BY <2>4 DEF UploadCommit, InFlight
    <3>2. req[r] \in Uploading
      BY <3>1, Holding
    <3>3. [at |-> "uploaded", user |-> req[r].user, file |-> req[r].file] \in Work
      BY <3>2 DEF Uploading, Work, ImportWork
    <3> QED
      BY <2>4, <3>1, <3>3 DEF UploadCommit, Ended, Answered
  <2> QED
    BY <1>2, <2>1, <2>2, <2>3, <2>4 DEF ImportContinues
<1>3. CASE BotContinues(r)
  <2>1. CASE (\E c \in Codes : CodeCommit(r, c)) \/ CodeFails(r)
    BY <2>1, <1>a DEF CodeCommit, CodeFails, Ended, Answered
  <2>2. CASE LinkCheck(r) \/ LinkCommit(r) \/ LinkFails(r)
    <3>1. req[r].at \in {"linking", "binding"}
      BY <2>2 DEF LinkCheck, LinkCommit, LinkFails
    <3>2. req[r] \in Linking
      BY <3>1, WorkByStage DEF TypeOK, Work
    <3>3. [req[r] EXCEPT !.at = "binding"] \in Work
      BY <3>2 DEF Linking, Work, BotWork
    <3>4. [at |-> "linked", user |-> req[r].user, chat |-> req[r].chat, code |-> req[r].code] \in Work
      BY <3>2 DEF Linking, Work, BotWork
    <3> QED
      BY <2>2, <3>1, <3>3, <3>4, <1>a DEF LinkCheck, LinkCommit, LinkFails, Move, Ended, Answered
  <2>3. CASE BookCommit(r) \/ BookFails(r) \/ Reply(r)
    <3>1. req[r].at \in {"booking", "replying"}
      BY <2>3 DEF BookCommit, BookFails, Reply
    <3>2. req[r] \in Booking
      BY <3>1, WorkByStage DEF TypeOK, Work
    <3>3. [req[r] EXCEPT !.at = "replying"] \in Work
      BY <3>2 DEF Booking, Work, BotWork
    <3> QED
      BY <2>3, <3>1, <3>3, <1>a DEF BookCommit, BookFails, Reply, Answers, Move, Ended, Answered
  <2> QED
    BY <1>3, <2>1, <2>2, <2>3 DEF BotContinues
<1>4. CASE ExportSection(r)
  <2>1. req[r].at = "exporting" /\ req[r] \in ExportWork
    BY <1>4, WorkByStage DEF ExportSection, TypeOK, Work
  <2>2. PICK s : s = Stored(req[r].user, Section[Len(req[r].file) + 1])
    OBVIOUS
  <2>3. PICK n : n = Len(req[r].file) + 1
    OBVIOUS
  <2>4. s \in SUBSET (Lines \cup Requests \cup UserIds)
    <3>1. n \in 1..3 /\ req[r].user \in UserIds
      BY <2>1, <2>3 DEF ExportsInv, ExportWork
    <3> QED
      BY <2>2, <2>3, <3>1, StoredType
  <2>5. Append(req[r].file, s) \in Seq(SUBSET (Lines \cup Requests \cup UserIds))
    BY <2>1, <2>4 DEF ExportWork
  <2>6. PICK a : a = IF n = Len(Section) THEN "exported" ELSE req[r].at
    OBVIOUS
  <2>7. a \in {"exporting", "exported"}
    BY <2>1, <2>6
  <2>8. [req[r] EXCEPT !.file = Append(@, s), !.at = a] \in Work
    BY <2>1, <2>5, <2>7 DEF Work, ExportWork
  <2>9. Moves(r, [req[r] EXCEPT !.file = Append(@, s), !.at = a])
    BY <1>4, <2>2, <2>3, <2>6 DEF ExportSection
  <2> QED
    BY <2>1, <2>8, <2>9 DEF Ended, Answered
<1> QED
  BY <1>1, <1>2, <1>3, <1>4 DEF Continue

-----------------------------------------------------------------------------
(* The steps that write a table; every other one only moves its request.     *)
Quiet == UNCHANGED <<userVars, importVars, botVars>>

Writes(r) ==
  \/ (\E u \in UserIds : RegisterCommit(r, u)) /\ UNCHANGED <<importVars, botVars>>
  \/ Erase(r)
  \/ UploadCommit(r) /\ UNCHANGED botVars
  \/ (\E c \in Codes : CodeCommit(r, c)) /\ UNCHANGED importVars
  \/ LinkCommit(r) /\ UNCHANGED importVars
  \/ (\E m \in Updates : Deliver(r, m)) /\ UNCHANGED importVars
  \/ BookCommit(r) /\ UNCHANGED importVars
  \/ Reply(r) /\ UNCHANGED importVars
  \/ GiveUp(r) /\ UNCHANGED importVars

LEMMA ArrivalWrites ==
  ASSUME NEW r \in Requests, Arrive(r)
  PROVE  Quiet \/ Writes(r)
<1> USE DEF Quiet
<1>1. CASE UserArrives(r)
  BY <1>1 DEF UserArrives, Refuse, RegisterRead, EraseRead
<1>2. CASE Upload(r) /\ UNCHANGED botVars
  BY <1>2 DEF Upload, UploadRead, UploadBreaks
<1>3. CASE (\E u \in UserIds : CodeRead(r, u)) /\ UNCHANGED importVars
  BY <1>3 DEF CodeRead
<1>4. CASE Webhook(r) /\ UNCHANGED importVars
  BY <1>4 DEF Webhook, LinkRead, Inform, Writes
<1>5. CASE \E u \in UserIds : ExportRead(r, u)
  BY <1>5 DEF ExportRead
<1> QED
  BY <1>1, <1>2, <1>3, <1>4, <1>5 DEF Arrive

LEMMA ContinuationWrites ==
  ASSUME NEW r \in Requests, Continue(r)
  PROVE  Quiet \/ Writes(r)
<1> USE DEF Quiet
<1>1. CASE UserContinues(r)
  BY <1>1 DEF UserContinues, RegisterLoses, Writes
<1>2. CASE ImportContinues(r) /\ UNCHANGED botVars
  BY <1>2 DEF ImportContinues, InsertLine, TakeLine, Deadlocked, StatementEnds, Writes
<1>3. CASE BotContinues(r) /\ UNCHANGED importVars
  BY <1>3 DEF BotContinues, CodeFails, LinkCheck, LinkFails, BookFails, Writes
<1>4. CASE ExportSection(r)
  BY <1>4 DEF ExportSection
<1>5. CASE Erase(r)
  BY <1>5 DEF Writes
<1> QED
  BY <1>1, <1>2, <1>3, <1>4, <1>5 DEF Continue

LEMMA StepWrites ==
  ASSUME [Next]_vars
  PROVE  \/ Quiet
         \/ \E r \in Requests : Writes(r)
         \/ (\E u \in UserIds, l \in Lines : DeleteExpense(u, l)) /\ UNCHANGED botVars
         \/ (\E c \in Codes : CodeExpires(c)) /\ UNCHANGED importVars
<1>1. CASE \E r \in Requests : Arrive(r) \/ Continue(r)
  BY <1>1, ArrivalWrites, ContinuationWrites
<1>2. CASE \E r \in Requests : Die(r) /\ UNCHANGED <<importVars, botVars>>
  BY <1>2 DEF Die, Quiet
<1>3. CASE \E r \in Requests : GiveUp(r) /\ UNCHANGED importVars
  BY <1>3 DEF Writes
<1>4. CASE UNCHANGED vars
  BY <1>4 DEF vars, Quiet
<1> QED
  BY <1>1, <1>2, <1>3, <1>4 DEF Next

(* Every step moves one running or idle request, or none.                     *)
LEMMA StepMoves ==
  ASSUME TypeOK, UploadInv, ExportsInv, [Next]_vars
  PROVE  \/ req' = req
         \/ \E r \in Requests, w \in Work : Moves(r, w) /\ req[r].at \notin Ended
<1>1. CASE \E r \in Requests : Arrive(r)
  <2>1. "idle" \notin Ended
    BY DEF Ended, Answered
  <2> QED
    BY <1>1, <2>1, ArrivalMoves
<1>2. CASE \E r \in Requests : Continue(r)
  BY <1>2, ContinuationMoves
<1>3. CASE \E r \in Requests : Die(r) /\ UNCHANGED <<importVars, botVars>>
  <2>1. [at |-> "died"] \in Work
    BY AnswerIsWork DEF Answered
  <2> QED
    BY <1>3, <2>1 DEF Die, Running, End, Goto, Moves
<1>4. CASE \E r \in Requests : GiveUp(r) /\ UNCHANGED importVars
  BY <1>4 DEF GiveUp
<1>5. CASE \/ \E u \in UserIds, l \in Lines : DeleteExpense(u, l) /\ UNCHANGED botVars
           \/ \E c \in Codes : CodeExpires(c) /\ UNCHANGED importVars
  BY <1>5 DEF DeleteExpense, CodeExpires
<1>6. CASE UNCHANGED vars
  BY <1>6 DEF vars
<1> QED
  BY <1>1, <1>2, <1>3, <1>4, <1>5, <1>6 DEF Next

LEMMA UsersTypeNext ==
  ASSUME TypeOK, [Next]_vars
  PROVE  UsersTypeOK'
<1> USE DEF UsersTypeOK, OneAccountPerAddress, Existing, userVars
<1>0. UsersTypeOK
  BY DEF TypeOK
<1>1. CASE \E r \in Requests, u \in UserIds : RegisterCommit(r, u)
  <2>1. PICK r \in Requests, u \in UserIds : RegisterCommit(r, u)
    BY <1>1
  <2>2. req[r].email \in Emails
    BY <2>1, WorkByStage DEF RegisterCommit, TypeOK, Work
  <2>3. /\ \A v \in Existing : users[v] # req[r].email
        /\ u \notin Existing
        /\ users' = [v \in Existing \cup {u} |-> IF v = u THEN req[r].email ELSE users[v]]
        /\ erased' = erased
    BY <2>1 DEF RegisterCommit, Added, Taken, Known
  <2> QED
    BY <1>0, <2>2, <2>3
<1>2. CASE \E r \in Requests : Erase(r)
  <2>1. PICK r \in Requests : Erase(r)
    BY <1>2
  <2>2. req[r].user \in UserIds
    BY <2>1, WorkByStage DEF Erase, EraseCommit, TypeOK, Work
  <2>3. /\ users' = [v \in Existing \ {req[r].user} |-> users[v]]
        /\ erased' = erased \cup {req[r].user}
    BY <2>1 DEF Erase, EraseCommit
  <2> QED
    BY <1>0, <2>2, <2>3
<1>3. CASE UNCHANGED userVars
  BY <1>0, <1>3
<1> QED
  BY <1>1, <1>2, <1>3, StepWrites
     DEF Quiet, Writes, UploadCommit, CodeCommit, LinkCommit, Deliver, BookCommit, Reply,
         GiveUp, DeleteExpense, CodeExpires

LEMMA ReceiptType ==
  ASSUME TypeOK, UploadInv, NEW r \in Requests, UploadCommit(r)
  PROVE  /\ ReceiptOf(r) \in Receipt
         /\ ReceiptOf(r).upload = r /\ ReceiptOf(r).user = req[r].user
         /\ ReceiptOf(r).inserted = Cardinality(req[r].held)
<1>1. InFlight(r)
  BY DEF UploadCommit, InFlight
<1>2. PICK h \in Nat : h = Cardinality(req[r].held)
  BY <1>1, Holding
<1>3. PICK d \in Nat : d = Cardinality(Valid(req[r].file)) - Cardinality(req[r].held)
  BY <1>1, Holding
<1>4. PICK e \in Nat : e = Cardinality(Failures(req[r].file))
  BY <1>1, Holding
<1>5. req[r].user \in UserIds
  BY <1>1, Holding DEF Uploading
<1>6. ReceiptOf(r) = [upload |-> r, user |-> req[r].user, inserted |-> h, duplicates |-> d,
                      failed |-> e]
  BY <1>2, <1>3, <1>4 DEF ReceiptOf
<1> QED
  BY <1>2, <1>5, <1>6 DEF Receipt

LEMMA ImportTypeNext ==
  ASSUME TypeOK, UploadInv, [Next]_vars
  PROVE  ImportTypeOK'
<1> USE DEF ImportTypeOK, importVars
<1>0. ImportTypeOK
  BY DEF TypeOK
<1>1. CASE \E r \in Requests : UploadCommit(r)
  <2>1. PICK r \in Requests : UploadCommit(r)
    BY <1>1
  <2>2. req[r].user \in UserIds /\ req[r].held \subseteq Lines
    BY <2>1, Holding DEF UploadCommit, InFlight, Uploading
  <2>3. ReceiptOf(r) \in Receipt
    BY <2>1, ReceiptType
  <2> QED
    BY <1>0, <2>1, <2>2, <2>3 DEF UploadCommit
<1>2. CASE \E u \in UserIds, l \in Lines : DeleteExpense(u, l)
  <2>1. PICK u \in UserIds, l \in Lines : DeleteExpense(u, l)
    BY <1>2
  <2>2. rows' \subseteq UserIds \X Lines /\ receipts' \subseteq Receipt
    BY <1>0, <2>1 DEF DeleteExpense
  <2>3. gone' \in [Requests -> SUBSET Lines]
    BY <1>0, <2>1 DEF DeleteExpense
  <2>4. deleted' \in [UserIds -> 0..MaxDeleted]
    BY <1>0, <2>1, FilesAssumption DEF DeleteExpense
  <2> QED
    BY <2>2, <2>3, <2>4
<1>3. CASE \E r \in Requests : Erase(r)
  BY <1>0, <1>3 DEF Erase, ImportCascade
<1>4. CASE UNCHANGED importVars
  BY <1>0, <1>4
<1> QED
  BY <1>1, <1>2, <1>3, <1>4, StepWrites DEF Quiet, Writes

LEMMA BotTypeNext ==
  ASSUME TypeOK, CodesInv, [Next]_vars
  PROVE  BotTypeOK'
<1> USE DEF BotTypeOK, botVars, Linked, Row
<1>0. BotTypeOK
  BY DEF TypeOK
<1>1. CASE \E r \in Requests, c \in Codes : CodeCommit(r, c)
  <2>1. PICK r \in Requests, c \in Codes : CodeCommit(r, c)
    BY <1>1
  <2>2. PICK u \in UserIds : u = req[r].user
    BY <2>1, WorkByStage DEF CodeCommit, TypeOK, Work
  <2>3. PICK chat : chat = IF req[r].had THEN link[req[r].user].chat ELSE NoChat
    OBVIOUS
  <2>4. chat \in Chats \cup {NoChat}
    BY <1>0, <2>1, <2>3 DEF CodeCommit, CanStore
  <2>5. link' = [v \in Linked \cup {u} |-> IF v = u THEN [chat |-> chat, code |-> c] ELSE link[v]]
    BY <2>1, <2>2, <2>3 DEF CodeCommit
  <2>6. DOMAIN link' = Linked \cup {u} /\ \A v \in Linked \cup {u} : link'[v] \in Row
    BY <1>0, <2>4, <2>5
  <2>7. Linked' \subseteq UserIds /\ link' \in [Linked' -> Row]
    BY <1>0, <2>2, <2>5, <2>6
  <2> QED
    BY <1>0, <2>1, <2>7 DEF CodeCommit
<1>2. CASE \E r \in Requests : LinkCommit(r)
  <2>1. PICK r \in Requests : LinkCommit(r)
    BY <1>2
  <2>2. req[r] \in Linking /\ req[r].user \in Linked
    BY <2>1, WorkByStage DEF LinkCommit, CanBind, TypeOK, Work
  <2>3. Updated(r, link[req[r].user]) \in Row
    BY <1>0, <2>2 DEF Updated, Linking
  <2>4. Linked' = Linked /\ link' \in [Linked -> Row]
    BY <1>0, <2>1, <2>2, <2>3 DEF LinkCommit
  <2>5. Sharing(req[r].code) \subseteq Requests
    BY DEF Sharing
  <2>6. sharers' \in [Codes -> SUBSET Requests]
    BY <1>0, <2>1, <2>2, <2>5 DEF LinkCommit, Linking
  <2> QED
    BY <1>0, <2>1, <2>4, <2>6 DEF LinkCommit
<1>3. CASE \E c \in Codes : CodeExpires(c)
  <2>1. PICK c \in Codes : CodeExpires(c)
    BY <1>3
  <2>2. c \in shown
    BY <2>1, SenderAssumption DEF CodeExpires, CodesInv
  <2> QED
    BY <1>0, <2>1, <2>2 DEF CodeExpires
<1>4. CASE \E r \in Requests, m \in Updates : Deliver(r, m)
  BY <1>0, <1>4 DEF Deliver
<1>5. CASE \E r \in Requests : BookCommit(r)
  <2>1. PICK r \in Requests : BookCommit(r)
    BY <1>5
  <2>2. req[r].owner \in SUBSET UserIds
    BY <2>1, WorkByStage DEF BookCommit, TypeOK, Work, Booking
  <2> QED
    BY <1>0, <2>1, <2>2 DEF BookCommit
<1>6. CASE \E r \in Requests : Reply(r)
  <2>1. PICK r \in Requests : Reply(r)
    BY <1>6
  <2>2. req[r].update \in Updates
    BY <2>1, WorkByStage DEF Reply, TypeOK, Work, Booking
  <2> QED
    BY <1>0, <2>1, <2>2 DEF Reply, Answers
<1>7. CASE \E r \in Requests : GiveUp(r)
  BY <1>0, <1>7 DEF GiveUp
<1>8. CASE \E r \in Requests : Erase(r)
  BY <1>0, <1>8 DEF Erase, BotCascade
<1>9. CASE UNCHANGED botVars
  BY <1>0, <1>9
<1> QED
  BY <1>1, <1>2, <1>3, <1>4, <1>5, <1>6, <1>7, <1>8, <1>9, StepWrites DEF Quiet, Writes

(* Where each handler's step leaves its request.                             *)
LEMMA Targets ==
  ASSUME TypeOK, UploadInv, ExportsInv, NEW r \in Requests
  PROVE  /\ UserArrives(r) \/ UserContinues(r)
              => req'[r].at \in Answered \cup {"registering", "erasing"}
         /\ (\E u \in UserIds, f \in Files : UploadRead(r, u, f)) => req'[r].at = "importing"
         /\ InsertLine(r) => req'[r].at = "importing"
         /\ StatementEnds(r) => req'[r].at = "error" \/ (UserIsThere(r) /\ req'[r].at = "imported")
         /\ UploadCommit(r) => req'[r].at = "uploaded"
         /\ (\E u \in UserIds : CodeRead(r, u)) => req'[r].at = "coding"
         /\ (\E c \in Codes : CodeCommit(r, c)) => req'[r].at = "coded"
         /\ (\E chat \in Chats, c \in Codes : LinkRead(r, chat, c)) => req'[r].at = "linking"
         /\ LinkCheck(r) => req'[r].at \in {"binding", "informed"}
         /\ LinkCommit(r) => req'[r].at = "linked"
         /\ CodeFails(r) \/ LinkFails(r) \/ Inform(r) \/ BookFails(r) \/ Deadlocked(r)
              \/ (\E u \in UserIds, f \in Files : UploadBreaks(r, u, f))
              => req'[r].at \in {"error", "informed"}
         /\ (\E m \in Updates : Deliver(r, m)) => req'[r].at \in {"booking", "replying"}
         /\ BookCommit(r) => req'[r].at = "replying"
         /\ Reply(r) => req'[r].at = "replied"
         /\ (\E u \in UserIds : ExportRead(r, u)) \/ ExportSection(r)
              => req'[r].at \in {"exporting", "exported"}
         /\ Erase(r) => req'[r].at = "erased"
         /\ Die(r) => req'[r].at = "died"
<1> USE DEF Begin, End, Goto, Answered
<1>t. req \in [Requests -> Work]
  BY DEF TypeOK, Work
<1>g. \A w : Moves(r, w) => req'[r] = w
  BY MovedType
<1>1. UserArrives(r) \/ UserContinues(r)
        => req'[r].at \in Answered \cup {"registering", "erasing"}
  <2>1. Refuse(r) => req'[r].at = "refused"
    BY <1>t DEF Refuse
  <2>2. (\E e \in Emails : RegisterRead(r, e)) => req'[r].at = "registering"
    BY <1>t DEF RegisterRead
  <2>3. (\E u \in UserIds : EraseRead(r, u)) => req'[r].at = "erasing"
    BY <1>t DEF EraseRead
  <2>4. (\E u \in UserIds : RegisterCommit(r, u)) => req'[r].at = "registered"
    BY <1>t DEF RegisterCommit
  <2>5. RegisterLoses(r) => req'[r].at = "error"
    BY <1>t DEF RegisterLoses
  <2> QED
    BY <2>1, <2>2, <2>3, <2>4, <2>5 DEF UserArrives, UserContinues
<1>2. (\E u \in UserIds, f \in Files : UploadRead(r, u, f)) => req'[r].at = "importing"
  BY <1>t DEF UploadRead
<1>3. InsertLine(r) => req'[r].at = "importing"
  <2> SUFFICES ASSUME InsertLine(r) PROVE req'[r].at = "importing"
    OBVIOUS
  <2>1. PICK w \in Work : Moves(r, w) /\ w.at = "importing"
    BY TakeLineMoves DEF InsertLine
  <2> QED
    BY <2>1, MovedType
<1>4. StatementEnds(r) => req'[r].at = "error" \/ (UserIsThere(r) /\ req'[r].at = "imported")
  <2> SUFFICES ASSUME StatementEnds(r)
               PROVE  req'[r].at = "error" \/ (UserIsThere(r) /\ req'[r].at = "imported")
    OBVIOUS
  <2>1. req[r] \in Uploading
    BY Holding DEF StatementEnds, Importing, InFlight
  <2>2. [req[r] EXCEPT !.at = "imported"].at = "imported"
    BY <2>1 DEF Uploading
  <2>3. CASE UserIsThere(r)
    <3>1. Moves(r, [req[r] EXCEPT !.at = "imported"])
      BY <2>3 DEF StatementEnds, Move, Moves
    <3> QED
      BY <1>g, <2>2, <2>3, <3>1
  <2>4. CASE ~UserIsThere(r)
    <3>1. Moves(r, [at |-> "error"])
      BY <2>4 DEF StatementEnds, Moves
    <3>2. req'[r] = [at |-> "error"]
      BY <1>g, <3>1
    <3> QED
      BY <3>2
  <2> QED
    BY <2>3, <2>4
<1>5. UploadCommit(r) => req'[r].at = "uploaded"
  BY <1>t DEF UploadCommit
<1>6. (\E u \in UserIds : CodeRead(r, u)) => req'[r].at = "coding"
  BY <1>t DEF CodeRead
<1>7. (\E c \in Codes : CodeCommit(r, c)) => req'[r].at = "coded"
  BY <1>t DEF CodeCommit
<1>8. (\E chat \in Chats, c \in Codes : LinkRead(r, chat, c)) => req'[r].at = "linking"
  BY <1>t DEF LinkRead
<1>9. LinkCheck(r) => req'[r].at \in {"binding", "informed"}
  <2> SUFFICES ASSUME LinkCheck(r) PROVE req'[r].at \in {"binding", "informed"}
    OBVIOUS
  <2>1. req[r] \in Linking
    BY WorkByStage, <1>t DEF LinkCheck
  <2>2. [req[r] EXCEPT !.at = "binding"].at = "binding"
    BY <2>1 DEF Linking
  <2>3. CASE BoundToAnother(r)
    BY <1>t, <2>3 DEF LinkCheck
  <2>4. CASE ~BoundToAnother(r)
    <3>1. Moves(r, [req[r] EXCEPT !.at = "binding"])
      BY <2>4 DEF LinkCheck, Move, Moves
    <3> QED
      BY <1>g, <2>2, <3>1
  <2> QED
    BY <2>3, <2>4
<1>10. LinkCommit(r) => req'[r].at = "linked"
  BY <1>t DEF LinkCommit
<1>11. CodeFails(r) \/ LinkFails(r) \/ Inform(r) \/ BookFails(r) \/ Deadlocked(r)
              \/ (\E u \in UserIds, f \in Files : UploadBreaks(r, u, f))
              => req'[r].at \in {"error", "informed"}
  BY <1>t DEF CodeFails, LinkFails, Inform, BookFails, Deadlocked, UploadBreaks
<1>12. (\E m \in Updates : Deliver(r, m)) => req'[r].at \in {"booking", "replying"}
  BY <1>t DEF Deliver
<1>13. BookCommit(r) => req'[r].at = "replying"
  <2> SUFFICES ASSUME BookCommit(r) PROVE req'[r].at = "replying"
    OBVIOUS
  <2>1. req[r] \in Booking
    BY WorkByStage, <1>t DEF BookCommit
  <2>2. [req[r] EXCEPT !.at = "replying"].at = "replying"
    BY <2>1 DEF Booking
  <2> QED
    BY <1>t, <2>2 DEF BookCommit, Move
<1>14. Reply(r) => req'[r].at = "replied"
  BY <1>t DEF Reply, Answers
<1>15. (\E u \in UserIds : ExportRead(r, u)) => req'[r].at = "exporting"
  BY <1>t DEF ExportRead
<1>16. ExportSection(r) => req'[r].at \in {"exporting", "exported"}
  <2> SUFFICES ASSUME ExportSection(r) PROVE req'[r].at \in {"exporting", "exported"}
    OBVIOUS
  <2>1. req[r].at = "exporting" /\ req[r] \in ExportWork
    BY WorkByStage, <1>t DEF ExportSection
  <2>2. PICK s : s = Append(req[r].file, Stored(req[r].user, Section[Len(req[r].file) + 1]))
    OBVIOUS
  <2>3. PICK a : a = IF Len(req[r].file) + 1 = Len(Section) THEN "exported" ELSE req[r].at
    OBVIOUS
  <2>4. req' = [req EXCEPT ![r] = [req[r] EXCEPT !.file = s, !.at = a]]
    BY <2>2, <2>3 DEF ExportSection
  <2>5. [req[r] EXCEPT !.file = s, !.at = a].at = a
    BY <2>1 DEF ExportWork
  <2> QED
    BY <1>t, <2>1, <2>3, <2>4, <2>5
<1>17. Erase(r) => req'[r].at = "erased"
  BY <1>t DEF Erase, EraseCommit
<1>18. Die(r) => req'[r].at = "died"
  BY <1>t DEF Die
<1> QED
  BY <1>1, <1>2, <1>3, <1>4, <1>5, <1>6, <1>7, <1>8, <1>9, <1>10, <1>11, <1>12, <1>13,
     <1>14, <1>15, <1>16, <1>17, <1>18

-----------------------------------------------------------------------------
(* Steps that do not concern uploads: their tables stay, and requests other   *)
(* than an answered upload stay, or leave for stages that are none of theirs. *)
UploadStages == {"importing", "imported", "uploaded"}

NotAnUpload ==
  /\ UNCHANGED <<userVars, importVars>>
  /\ \A s \in Requests :
       req'[s] = req[s] \/ (req[s].at # "uploaded" /\ req'[s].at \notin UploadStages)

ImportSteps ==
  \/ \E r \in Requests, u \in UserIds, f \in Files : UploadRead(r, u, f)
  \/ \E r \in Requests : InsertLine(r)
  \/ \E r \in Requests : StatementEnds(r) /\ UserIsThere(r) /\ req'[r].at = "imported"
  \/ \E r \in Requests : UploadCommit(r)
  \/ \E u \in UserIds, l \in Lines : DeleteExpense(u, l)
  \/ (\E r \in Requests, u \in UserIds : RegisterCommit(r, u)) /\ UNCHANGED importVars
  \/ \E r \in Requests : Erase(r)

LEMMA OthersStay ==
  ASSUME TypeOK, NEW r \in Requests, NEW w, Moves(r, w), req[r].at # "uploaded",
         req'[r].at \notin UploadStages, UNCHANGED <<userVars, importVars>>
  PROVE  NotAnUpload
BY MovedType DEF NotAnUpload

LEMMA ImportKindsOfArrivals ==
  ASSUME TypeOK, UploadInv, ExportsInv, NEW r \in Requests, Arrive(r)
  PROVE  NotAnUpload \/ ImportSteps
<1> SUFFICES ASSUME ~ImportSteps PROVE NotAnUpload
  OBVIOUS
<1>1. UNCHANGED <<userVars, importVars>>
  BY ArrivalWrites DEF Quiet, Writes, ImportSteps, CodeCommit, LinkCommit, Deliver, BookCommit,
                    Reply, GiveUp
<1>2. PICK w \in Work : Moves(r, w) /\ req[r].at = "idle"
  BY ArrivalMoves
<1>3. req'[r].at \notin UploadStages
  <2>1. \A u \in UserIds, f \in Files : ~UploadRead(r, u, f)
    BY DEF ImportSteps
  <2> QED
    BY <2>1, Targets DEF Arrive, Upload, Webhook, UploadStages, Answered
<1> QED
  BY <1>1, <1>2, <1>3, OthersStay

LEMMA ImportKindsOfContinuations ==
  ASSUME TypeOK, UploadInv, ExportsInv, NEW r \in Requests, Continue(r)
  PROVE  NotAnUpload \/ ImportSteps
<1> SUFFICES ASSUME ~ImportSteps PROVE NotAnUpload
  OBVIOUS
<1>1. UNCHANGED <<userVars, importVars>>
  BY ContinuationWrites DEF Quiet, Writes, ImportSteps, CodeCommit, LinkCommit, Deliver, BookCommit,
                    Reply, GiveUp
<1>2. PICK w \in Work : Moves(r, w) /\ req[r].at \notin Ended
  BY ContinuationMoves
<1>3. req'[r].at \notin UploadStages
  <2>1. ~InsertLine(r) /\ ~UploadCommit(r) /\ ~Erase(r)
        /\ ~(StatementEnds(r) /\ UserIsThere(r) /\ req'[r].at = "imported")
    BY DEF ImportSteps
  <2>2. CASE UserContinues(r) \/ ExportSection(r)
    BY <2>2, Targets DEF UploadStages, Answered
  <2>3. CASE ImportContinues(r)
    BY <2>1, <2>3, Targets DEF ImportContinues, UploadStages
  <2>4. CASE BotContinues(r)
    BY <2>4, Targets DEF BotContinues, UploadStages
  <2> QED
    BY <2>1, <2>2, <2>3, <2>4 DEF Continue
<1> QED
  BY <1>1, <1>2, <1>3, OthersStay DEF Ended

LEMMA ImportKinds ==
  ASSUME TypeOK, UploadInv, ExportsInv, [Next]_vars
  PROVE  NotAnUpload \/ ImportSteps
<1>1. CASE \E r \in Requests : Arrive(r) \/ Continue(r)
  BY <1>1, ImportKindsOfArrivals, ImportKindsOfContinuations
<1>2. CASE \E r \in Requests : Die(r) /\ UNCHANGED <<importVars, botVars>>
  <2>1. PICK r \in Requests : Die(r) /\ UNCHANGED <<importVars, botVars>>
    BY <1>2
  <2>2. Moves(r, [at |-> "died"]) /\ req[r].at # "uploaded" /\ UNCHANGED <<userVars, importVars>>
    BY <2>1 DEF Die, Running, End, Goto, Moves, Ended
  <2>3. req'[r].at \notin UploadStages
    BY <2>1, Targets DEF UploadStages
  <2> QED
    BY <2>2, <2>3, OthersStay
<1>3. CASE \E r \in Requests : GiveUp(r) /\ UNCHANGED importVars
  BY <1>3 DEF GiveUp, NotAnUpload
<1>4. CASE \E u \in UserIds, l \in Lines : DeleteExpense(u, l)
  BY <1>4 DEF ImportSteps
<1>5. CASE (\E c \in Codes : CodeExpires(c)) /\ UNCHANGED importVars
  BY <1>5 DEF CodeExpires, NotAnUpload
<1>6. CASE UNCHANGED vars
  BY <1>6 DEF vars, NotAnUpload
<1> QED
  BY <1>1, <1>2, <1>3, <1>4, <1>5, <1>6 DEF Next

(* Other steps keep the uploads' invariant. *)
LEMMA ImportInvFrame ==
  ASSUME TypeOK, ImportInv, NotAnUpload
  PROVE  ImportInv'
<1>1. /\ Existing' = Existing /\ Known' = Known /\ rows' = rows /\ receipts' = receipts
      /\ gone' = gone /\ deleted' = deleted
  BY DEF NotAnUpload, userVars, importVars, Existing, Known
<1>2. \A s \in Requests :
        req'[s] = req[s] \/ (req[s].at # "uploaded" /\ req'[s].at \notin UploadStages)
  BY DEF NotAnUpload
<1>3. UploadInv'
  BY <1>1, <1>2 DEF ImportInv, UploadInv, InFlight, Passed, UploadStages
<1>4. OneHolder'
  BY <1>2 DEF ImportInv, OneHolder, InFlight, UploadStages
<1>5. Countable'
  <2>1. \A x \in receipts : x.upload \in Requests /\ req[x.upload].at = "uploaded"
    BY DEF ImportInv, Countable, TypeOK, ImportTypeOK, Receipt
  <2>2. \A x \in receipts' : req'[x.upload].at = "uploaded"
    BY <1>1, <1>2, <2>1
  <2> QED
    BY <1>1, <2>2 DEF ImportInv, Countable, Imported
<1>6. ImportOwned'
  BY <1>1 DEF ImportInv, ImportOwned
<1>7. UploadedIsThere'
  BY <1>1, <1>2 DEF ImportInv, UploadedIsThere, UploadStages
<1>8. ReceiptsAddUp'
  BY <1>1 DEF ImportInv, ReceiptsAddUp, Inserted, ReceiptsOf, Imported
<1> QED
  BY <1>3, <1>4, <1>5, <1>6, <1>7, <1>8 DEF ImportInv

(* What every upload step needs of the tables it leaves alone. *)
LEMMA SameTables ==
  ASSUME TypeOK, ImportInv, UNCHANGED <<userVars, importVars>>,
         \A s \in Requests : req[s].at = "uploaded" => req'[s] = req[s],
         \A s \in Requests : req[s].at # "uploaded" => req'[s].at # "uploaded"
  PROVE  Countable' /\ ImportOwned' /\ UploadedIsThere' /\ ReceiptsAddUp'
<1>1. /\ Existing' = Existing /\ Known' = Known /\ rows' = rows /\ receipts' = receipts
      /\ gone' = gone /\ deleted' = deleted
  BY DEF userVars, importVars, Existing, Known
<1>5. Countable'
  <2>1. \A x \in receipts : x.upload \in Requests /\ req[x.upload].at = "uploaded"
    BY DEF ImportInv, Countable, TypeOK, ImportTypeOK, Receipt
  <2>2. \A x \in receipts' : req'[x.upload].at = "uploaded"
    BY <1>1, <2>1
  <2> QED
    BY <1>1, <2>2 DEF ImportInv, Countable, Imported
<1>6. ImportOwned'
  BY <1>1 DEF ImportInv, ImportOwned
<1>7. UploadedIsThere'
  BY <1>1 DEF ImportInv, UploadedIsThere
<1>8. ReceiptsAddUp'
  BY <1>1 DEF ImportInv, ReceiptsAddUp, Inserted, ReceiptsOf, Imported
<1> QED
  BY <1>5, <1>6, <1>7, <1>8

(* An upload begins with nothing passed and nothing held. *)
LEMMA UploadReadKeeps ==
  ASSUME TypeOK, ImportInv, NEW r \in Requests, NEW u \in UserIds, NEW f \in Files,
         UploadRead(r, u, f)
  PROVE  ImportInv'
<1>1. PICK w : w = [at |-> "importing", user |-> u, file |-> f, todo |-> Unique(f), held |-> {}]
  OBVIOUS
<1>2. w.at = "importing" /\ w.user = u /\ w.file = f /\ w.todo = Unique(f) /\ w.held = {}
  BY <1>1
<1>3. Moves(r, w) /\ u \in Existing /\ req[r].at = "idle" /\ UNCHANGED <<userVars, importVars>>
  BY <1>1 DEF UploadRead, Begin, Goto, Moves
<1>4. req'[r] = w /\ \A s \in Requests : s # r => req'[s] = req[s]
  BY <1>3, MovedType
<1>5. Existing' = Existing /\ Known' = Known /\ rows' = rows /\ gone' = gone
  BY <1>3 DEF userVars, importVars, Existing, Known
<1>6. UploadInv'
  <2> SUFFICES ASSUME NEW s \in Requests
               PROVE  UploadInv!(s)'
    BY DEF UploadInv
  <2>1. CASE s = r
    BY <1>2, <1>3, <1>4, <1>5, <2>1 DEF InFlight, Passed, Known
  <2>2. CASE s # r
    BY <1>4, <1>5, <2>2 DEF ImportInv, UploadInv, InFlight, Passed
  <2> QED
    BY <2>1, <2>2
<1>7. OneHolder'
  BY <1>2, <1>4 DEF ImportInv, OneHolder, InFlight
<1>8. Countable' /\ ImportOwned' /\ UploadedIsThere' /\ ReceiptsAddUp'
  BY <1>2, <1>3, <1>4, SameTables
<1> QED
  BY <1>6, <1>7, <1>8 DEF ImportInv

(* A line is taken from nobody: its row is committed, or becomes the upload's.*)
LEMMA InsertLineKeeps ==
  ASSUME TypeOK, ImportInv, NEW r \in Requests, InsertLine(r)
  PROVE  ImportInv'
<1>0. UploadInv /\ OneHolder
  BY DEF ImportInv
<1>1. PICK w \in Work :
           /\ Moves(r, w) /\ w \in Uploading
           /\ w.at = "importing" /\ req[r].at = "importing"
           /\ w.user = req[r].user /\ w.file = req[r].file
           /\ w.todo = req[r].todo \ {Min(req[r].todo)}
           /\ w.held = req[r].held \cup {l \in {NextLine(r)} : IsNew(r)}
  BY <1>0, TakeLineMoves DEF InsertLine
<1>2. AtLine(r) /\ Blockers(r) = {} /\ UNCHANGED <<userVars, importVars>>
  BY DEF InsertLine, TakeLine
<1>3. PICK m : m = Min(req[r].todo)
  OBVIOUS
<1>4. PICK n : n = NextLine(r)
  OBVIOUS
<1>5. m \in req[r].todo /\ n \in LinesOf(req[r].file) /\ n = req[r].file[m]
  BY <1>0, <1>2, <1>3, <1>4, NextLineIsALine DEF NextLine
<1>6. req'[r] = w /\ \A s \in Requests : s # r => req'[s] = req[s]
  BY <1>1, MovedType
<1>7. Existing' = Existing /\ Known' = Known /\ rows' = rows /\ gone' = gone
  BY <1>2 DEF userVars, importVars, Existing, Known
<1>8. /\ req'[r].at = "importing" /\ req'[r].user = req[r].user /\ req'[r].file = req[r].file
      /\ req'[r].todo = req[r].todo \ {m}
      /\ \A l : l \in req'[r].held
                  <=> (l \in req[r].held \/ (l = n /\ <<req[r].user, n>> \notin rows))
  BY <1>1, <1>3, <1>4, <1>6 DEF IsNew
<1>9. UploadInv'
  <2> SUFFICES ASSUME NEW s \in Requests
               PROVE  UploadInv!(s)'
    BY DEF UploadInv
  <2>1. CASE s = r
    <3>1. UploadInv!(r)
      BY <1>0 DEF UploadInv
    <3>2. InFlight(r) /\ InFlight(r)' /\ req'[r].at # "imported"
      BY <1>1, <1>8 DEF InFlight
    <3>3. req'[r].todo \subseteq Unique(req'[r].file) /\ req'[r].held \subseteq LinesOf(req'[r].file)
      BY <1>5, <1>8, <3>1, <3>2
    <3>4. \A l \in req'[r].held : <<req'[r].user, l>> \notin rows'
      BY <1>7, <1>8, <3>1, <3>2
    <3>5. \A i \in Passed(r)' : i \in Passed(r) \/ i = m
      BY <1>8 DEF Passed
    <3>6. req'[r].user \in Existing' =>
            \A i \in Passed(r)' :
              \/ req'[r].file[i] \in req'[r].held
              \/ <<req'[r].user, req'[r].file[i]>> \in rows'
              \/ req'[r].file[i] \in gone'[r]
      BY <1>5, <1>7, <1>8, <3>1, <3>2, <3>5
    <3>7. req'[r].user \in Known'
      BY <1>7, <1>8, <3>1, <3>2
    <3> QED
      BY <2>1, <3>2, <3>3, <3>4, <3>6, <3>7
  <2>2. CASE s # r
    BY <1>0, <1>6, <1>7, <2>2 DEF UploadInv, InFlight, Passed
  <2> QED
    BY <2>1, <2>2
<1>10. OneHolder'
  <2>1. ASSUME NEW s \in Requests, s # r, InFlight(s), req[s].user = req[r].user
        PROVE  req[s].held \cap req'[r].held = {}
    <3>1. req[s].held \cap req[r].held = {}
      BY <1>0, <1>1, <2>1 DEF OneHolder, InFlight
    <3>2. n \notin req[s].held
      BY <1>2, <1>4, <2>1 DEF Blockers, InFlight
    <3> QED
      BY <1>8, <3>1, <3>2
  <2> SUFFICES ASSUME NEW s \in Requests, NEW t \in Requests, s # t,
                      InFlight(s)', InFlight(t)', req'[s].user = req'[t].user
               PROVE  req'[s].held \cap req'[t].held = {}
    BY DEF OneHolder
  <2>2. CASE s = r
    BY <1>6, <1>8, <2>1, <2>2 DEF InFlight
  <2>3. CASE t = r
    BY <1>6, <1>8, <2>1, <2>3 DEF InFlight
  <2>4. CASE s # r /\ t # r
    BY <1>0, <1>6, <2>4 DEF OneHolder, InFlight
  <2> QED
    BY <2>2, <2>3, <2>4
<1>11. Countable' /\ ImportOwned' /\ UploadedIsThere' /\ ReceiptsAddUp'
  BY <1>1, <1>2, <1>6, SameTables
<1> QED
  BY <1>9, <1>10, <1>11 DEF ImportInv

(* The foreign key finds the user. *)
LEMMA StatementEndsKeeps ==
  ASSUME TypeOK, ImportInv, NEW r \in Requests, StatementEnds(r), UserIsThere(r)
  PROVE  ImportInv'
<1>0. UploadInv /\ OneHolder
  BY DEF ImportInv
<1>1. req[r].at = "importing" /\ req[r].todo = {} /\ req[r].user \in Existing
      /\ Move(r, "imported") /\ UNCHANGED <<userVars, importVars>>
  BY DEF StatementEnds, Importing, UserIsThere
<1>2. req[r] \in Uploading
  BY <1>0, <1>1, Holding DEF InFlight
<1>3. PICK w : w = [req[r] EXCEPT !.at = "imported"]
  OBVIOUS
<1>4. /\ w.at = "imported" /\ w.user = req[r].user /\ w.file = req[r].file
      /\ w.todo = {} /\ w.held = req[r].held
  BY <1>1, <1>2, <1>3 DEF Uploading
<1>5. Moves(r, w)
  BY <1>1, <1>3 DEF Move, Moves
<1>6. req'[r] = w /\ \A s \in Requests : s # r => req'[s] = req[s]
  BY <1>5, MovedType
<1>7. Existing' = Existing /\ Known' = Known /\ rows' = rows /\ gone' = gone
  BY <1>1 DEF userVars, importVars, Existing, Known
<1>8. UploadInv'
  <2> SUFFICES ASSUME NEW s \in Requests
               PROVE  UploadInv!(s)'
    BY DEF UploadInv
  <2>1. CASE s = r
    BY <1>0, <1>1, <1>4, <1>6, <1>7, <2>1 DEF UploadInv, InFlight, Passed
  <2>2. CASE s # r
    BY <1>0, <1>6, <1>7, <2>2 DEF UploadInv, InFlight, Passed
  <2> QED
    BY <2>1, <2>2
<1>9. OneHolder'
  BY <1>0, <1>1, <1>4, <1>6 DEF OneHolder, InFlight
<1>10. Countable' /\ ImportOwned' /\ UploadedIsThere' /\ ReceiptsAddUp'
  BY <1>1, <1>4, <1>6, SameTables
<1> QED
  BY <1>8, <1>9, <1>10 DEF ImportInv

(* The sums go on when receipts and expenses change.                         *)
LEMMA InsertedType ==
  ASSUME TypeOK, ImportInv, NEW u
  PROVE  /\ IsFiniteSet(ReceiptsOf(u)) /\ ReceiptsOf(u) \subseteq receipts
         /\ \A x \in ReceiptsOf(u) : Inserted[x] = x.inserted /\ Inserted[x] \in Nat
<1>1. IsFiniteSet(receipts) /\ receipts \subseteq Receipt
  BY DEF ImportInv, Countable, TypeOK, ImportTypeOK
<1>2. IsFiniteSet(ReceiptsOf(u)) /\ ReceiptsOf(u) \subseteq receipts
  BY <1>1, FS_Subset DEF ReceiptsOf
<1>3. ASSUME NEW x \in ReceiptsOf(u) PROVE Inserted[x] = x.inserted /\ Inserted[x] \in Nat
  BY <1>1, <1>2, <1>3 DEF Inserted, Receipt
<1> QED
  BY <1>2, <1>3

(* The receipt and the rows of an upload land together, and count the same.   *)
LEMMA UploadCommitKeeps ==
  ASSUME TypeOK, ImportInv, NEW r \in Requests, UploadCommit(r)
  PROVE  ImportInv'
<1>0. UploadInv /\ OneHolder /\ Countable /\ ImportOwned /\ UploadedIsThere /\ ReceiptsAddUp
  BY DEF ImportInv
<1>1. PICK u : u = req[r].user
  OBVIOUS
<1>2. PICK h : h = req[r].held
  OBVIOUS
<1>3. PICK x : x = ReceiptOf(r)
  OBVIOUS
<1>4. /\ req[r].at = "imported" /\ InFlight(r)
      /\ rows' = rows \cup {<<u, l>> : l \in h}
      /\ receipts' = receipts \cup {x}
      /\ gone' = gone /\ deleted' = deleted /\ UNCHANGED userVars
  BY <1>1, <1>2, <1>3 DEF UploadCommit, InFlight
<1>5. /\ u \in UserIds /\ u \in Existing /\ req[r].todo = {} /\ h \subseteq Lines
      /\ req[r].file \in Files
      /\ IsFiniteSet(h) /\ Cardinality(h) \in Nat /\ \A l \in h : <<u, l>> \notin rows
  BY <1>0, <1>1, <1>2, <1>4, Holding DEF UploadInv, Uploading
<1>6. x \in Receipt /\ x.upload = r /\ x.user = u /\ x.inserted = Cardinality(h)
  BY <1>0, <1>1, <1>2, <1>3, ReceiptType
<1>7. PICK w : w = [at |-> "uploaded", user |-> u, file |-> req[r].file]
  OBVIOUS
<1>8. w.at = "uploaded" /\ w.user = u /\ w.file = req[r].file
  BY <1>7
<1>9. req'[r] = w /\ \A s \in Requests : s # r => req'[s] = req[s]
  <2>1. Moves(r, w)
    BY <1>1, <1>7 DEF UploadCommit, Goto, Moves
  <2> QED
    BY <2>1, MovedType
<1>10. Existing' = Existing /\ Known' = Known
  BY <1>4 DEF userVars, Existing, Known
<1>11. \A v, l : <<v, l>> \in rows' <=> (<<v, l>> \in rows \/ (v = u /\ l \in h))
  BY <1>4
<1>12. UploadInv'
  <2> SUFFICES ASSUME NEW s \in Requests
               PROVE  UploadInv!(s)'
    BY DEF UploadInv
  <2>1. CASE s = r
    BY <1>0, <1>1, <1>4, <1>8, <1>9, <1>10, <2>1 DEF UploadInv, InFlight
  <2>2. CASE s # r
    <3>1. UploadInv!(s)
      BY <1>0 DEF UploadInv
    <3>2. req'[s] = req[s]
      BY <1>9, <2>2
    <3>3. InFlight(s) /\ req[s].user = u => req[s].held \cap h = {}
      BY <1>0, <1>1, <1>2, <1>4, <2>2 DEF OneHolder
    <3>4. InFlight(s) => \A l \in req[s].held : <<req[s].user, l>> \notin rows'
      BY <1>11, <3>1, <3>3
    <3> QED
      BY <1>4, <1>10, <1>11, <3>1, <3>2, <3>4 DEF InFlight, Passed
  <2> QED
    BY <2>1, <2>2
<1>13. OneHolder'
  BY <1>0, <1>8, <1>9 DEF OneHolder, InFlight
<1>14. Imported(u)' = Imported(u) \cup h /\ Imported(u) \cap h = {}
  BY <1>5, <1>11 DEF Imported
<1>15. \A v : v # u => Imported(v)' = Imported(v)
  BY <1>11 DEF Imported
<1>16. Countable'
  <2>1. IsFiniteSet(receipts')
    BY <1>0, <1>4, FS_AddElement DEF Countable
  <2>2. \A v \in UserIds : IsFiniteSet(Imported(v)')
    <3> SUFFICES ASSUME NEW v \in UserIds PROVE IsFiniteSet(Imported(v)')
      OBVIOUS
    <3>1. IsFiniteSet(Imported(v))
      BY <1>0 DEF Countable
    <3>2. IsFiniteSet(Imported(v) \cup h)
      <4>1. PICK I : I = Imported(v)
        OBVIOUS
      <4> QED
        BY <1>5, <3>1, <4>1, FS_Union
    <3> QED
      BY <1>14, <1>15, <3>1, <3>2
  <2>3. \A y \in receipts' : req'[y.upload].at = "uploaded"
    <3>1. \A y \in receipts : y.upload \in Requests /\ y.upload # r
      BY <1>0, <1>4 DEF Countable, TypeOK, ImportTypeOK, Receipt
    <3> QED
      BY <1>0, <1>4, <1>6, <1>8, <1>9, <3>1 DEF Countable
  <2> QED
    BY <1>0, <1>4, <1>10, <2>1, <2>2, <2>3 DEF Countable
<1>17. ImportOwned'
  BY <1>0, <1>4, <1>5, <1>6, <1>10 DEF ImportOwned
<1>18. UploadedIsThere'
  <2> SUFFICES ASSUME NEW s \in Requests, req'[s].at = "uploaded", req'[s].user \in Existing',
                      NEW i \in Valid(req'[s].file)
               PROVE  <<req'[s].user, req'[s].file[i]>> \in rows' \/ req'[s].file[i] \in gone'[s]
    BY DEF UploadedIsThere
  <2>1. CASE s # r
    BY <1>0, <1>4, <1>9, <1>10, <1>11, <2>1 DEF UploadedIsThere
  <2>2. CASE s = r
    <3>1. i \in Valid(req[r].file)
      BY <1>8, <1>9, <2>2
    <3>2. PICK j \in Unique(req[r].file) : req[r].file[j] = req[r].file[i]
      BY <1>5, <3>1, FirstOfEqualLines
    <3>3. j \in Passed(r)
      BY <1>5, <3>2 DEF Passed
    <3>4. \/ req[r].file[j] \in h \/ <<u, req[r].file[j]>> \in rows \/ req[r].file[j] \in gone[r]
      BY <1>0, <1>1, <1>2, <1>4, <1>5, <3>3 DEF UploadInv
    <3> QED
      BY <1>4, <1>8, <1>9, <1>11, <2>2, <3>2, <3>4
  <2> QED
    BY <2>1, <2>2
<1>19. ReceiptsAddUp'
  <2> SUFFICES ASSUME NEW v \in Existing
               PROVE  SumFunctionOnSet(Inserted', ReceiptsOf(v)')
                        = Cardinality(Imported(v)') + deleted'[v]
    BY <1>10 DEF ReceiptsAddUp
  <2>0. v \in UserIds
    BY DEF TypeOK, UsersTypeOK
  <2>1. PICK R : R = ReceiptsOf(v)
    OBVIOUS
  <2>2. PICK W : W = Inserted'
    OBVIOUS
  <2>3. PICK V : V = Inserted
    OBVIOUS
  <2>4. IsFiniteSet(R) /\ R \subseteq receipts /\ \A y \in R : V[y] = y.inserted /\ V[y] \in Nat
    BY <2>1, <2>3, InsertedType
  <2>5. (\A y \in R : W[y] = V[y]) /\ W[x] = Cardinality(h)
    BY <1>4, <1>6, <2>2, <2>4 DEF Inserted
  <2>6. SumFunctionOnSet(W, R) = SumFunctionOnSet(V, R)
    BY <2>4, <2>5, SumSame
  <2>7. SumFunctionOnSet(V, R) = Cardinality(Imported(v)) + deleted[v]
    BY <1>0, <2>1, <2>3 DEF ReceiptsAddUp
  <2>8. CASE v # u
    <3>1. ReceiptsOf(v)' = R
      BY <1>4, <1>6, <2>1, <2>8 DEF ReceiptsOf
    <3> QED
      BY <1>4, <1>15, <2>2, <2>6, <2>7, <2>8, <3>1
  <2>9. CASE v = u
    <3>1. ReceiptsOf(v)' = R \cup {x}
      BY <1>4, <1>6, <2>1, <2>9 DEF ReceiptsOf
    <3>2. x \notin R
      BY <1>0, <1>4, <1>6, <2>4 DEF Countable
    <3>3. SumFunctionOnSet(W, R \cup {x}) = SumFunctionOnSet(W, R) + W[x]
      <4>1. \A y \in R \cup {x} : W[y] \in Nat
        BY <1>5, <2>4, <2>5
      <4> QED
        BY <2>4, <3>2, <4>1, SumAdd
    <3>4. Cardinality(Imported(v)') = Cardinality(Imported(v)) + Cardinality(h)
      <4>1. IsFiniteSet(Imported(v)) /\ Imported(v)' = Imported(v) \cup h /\ Imported(v) \cap h = {}
        BY <1>0, <1>14, <2>0, <2>9 DEF Countable
      <4>2. PICK I : I = Imported(v)
        OBVIOUS
      <4>3. Cardinality(I \cup h) = Cardinality(I) + Cardinality(h) - Cardinality({})
        BY <1>5, <4>1, <4>2, FS_Union
      <4>4. Cardinality(I) \in Nat /\ Cardinality({}) = 0
        BY <4>1, <4>2, FS_CardinalityType, FS_EmptySet
      <4> QED
        BY <1>5, <4>1, <4>2, <4>3, <4>4
    <3>5. Cardinality(Imported(v)) \in Nat /\ deleted[v] \in Nat
      BY <1>0, <2>0, FS_CardinalityType, FilesAssumption DEF Countable, TypeOK, ImportTypeOK
    <3> QED
      BY <1>4, <1>5, <2>2, <2>5, <2>6, <2>7, <3>1, <3>3, <3>4, <3>5
  <2> QED
    BY <2>8, <2>9
<1> QED
  BY <1>12, <1>13, <1>16, <1>17, <1>18, <1>19 DEF ImportInv

(* A deleted line leaves the user's rows, and every upload of his learns it. *)
LEMMA DeleteExpenseKeeps ==
  ASSUME TypeOK, ImportInv, NEW u \in UserIds, NEW n \in Lines, DeleteExpense(u, n)
  PROVE  ImportInv'
<1>0. UploadInv /\ OneHolder /\ Countable /\ ImportOwned /\ UploadedIsThere /\ ReceiptsAddUp
  BY DEF ImportInv
<1>1. /\ <<u, n>> \in rows /\ rows' = rows \ {<<u, n>>}
      /\ deleted' = [deleted EXCEPT ![u] = @ + 1]
      /\ receipts' = receipts /\ req' = req /\ UNCHANGED userVars
  BY DEF DeleteExpense
<1>2. \A s \in Requests :
        gone'[s] = IF s \in Uploads(u) THEN gone[s] \cup {n} ELSE gone[s]
  BY DEF DeleteExpense
<1>3. Existing' = Existing /\ Known' = Known
  BY <1>1 DEF userVars, Existing, Known
<1>4. \A v, l : <<v, l>> \in rows' <=> (<<v, l>> \in rows /\ ~(v = u /\ l = n))
  BY <1>1
<1>5. u \in Existing /\ u \in Known
  <2>1. <<u, n>>[1] = u
    OBVIOUS
  <2> QED
    BY <1>0, <1>1, <2>1 DEF ImportOwned, Known
<1>6. UploadInv'
  <2> SUFFICES ASSUME NEW s \in Requests
               PROVE  UploadInv!(s)'
    BY DEF UploadInv
  <2>1. InFlight(s) /\ req[s].user = u => n \in gone'[s]
    BY <1>2 DEF Uploads, InFlight
  <2>2. gone[s] \subseteq gone'[s]
    BY <1>2
  <2> QED
    BY <1>0, <1>1, <1>3, <1>4, <2>1, <2>2 DEF UploadInv, InFlight, Passed
<1>7. OneHolder'
  BY <1>0, <1>1 DEF OneHolder, InFlight
<1>8. Imported(u)' = Imported(u) \ {n} /\ n \in Imported(u)
  BY <1>1, <1>4 DEF Imported
<1>9. \A v : v # u => Imported(v)' = Imported(v)
  BY <1>4 DEF Imported
<1>10. Countable'
  <2>1. \A v \in UserIds : IsFiniteSet(Imported(v)')
    <3> SUFFICES ASSUME NEW v \in UserIds PROVE IsFiniteSet(Imported(v)')
      OBVIOUS
    <3>1. IsFiniteSet(Imported(v))
      BY <1>0 DEF Countable
    <3>2. IsFiniteSet(Imported(v) \ {n})
      <4>1. PICK I : I = Imported(v)
        OBVIOUS
      <4> QED
        BY <3>1, <4>1, FS_RemoveElement
    <3> QED
      BY <1>8, <1>9, <3>1, <3>2
  <2>2. \A v \in UserIds \ Known' : deleted'[v] = 0
    BY <1>0, <1>1, <1>3, <1>5 DEF Countable, TypeOK, ImportTypeOK
  <2> QED
    BY <1>0, <1>1, <1>3, <2>1, <2>2 DEF Countable
<1>11. ImportOwned'
  BY <1>0, <1>1, <1>3 DEF ImportOwned
<1>12. UploadedIsThere'
  <2> SUFFICES ASSUME NEW s \in Requests, req[s].at = "uploaded", req[s].user \in Existing,
                      NEW i \in Valid(req[s].file)
               PROVE  <<req[s].user, req[s].file[i]>> \in rows' \/ req[s].file[i] \in gone'[s]
    BY <1>1, <1>3 DEF UploadedIsThere
  <2>1. <<req[s].user, req[s].file[i]>> \in rows \/ req[s].file[i] \in gone[s]
    BY <1>0 DEF UploadedIsThere
  <2>2. req[s].user = u => n \in gone'[s]
    BY <1>2 DEF Uploads
  <2>3. gone[s] \subseteq gone'[s]
    BY <1>2
  <2> QED
    BY <1>4, <2>1, <2>2, <2>3
<1>13. ReceiptsAddUp'
  <2> SUFFICES ASSUME NEW v \in Existing
               PROVE  SumFunctionOnSet(Inserted, ReceiptsOf(v))
                        = Cardinality(Imported(v)') + deleted'[v]
    BY <1>1, <1>3 DEF ReceiptsAddUp, ReceiptsOf, Inserted
  <2>0. v \in UserIds
    BY DEF TypeOK, UsersTypeOK
  <2>1. SumFunctionOnSet(Inserted, ReceiptsOf(v)) = Cardinality(Imported(v)) + deleted[v]
    BY <1>0 DEF ReceiptsAddUp
  <2>2. CASE v # u
    BY <1>1, <1>9, <2>0, <2>1, <2>2 DEF TypeOK, ImportTypeOK
  <2>3. CASE v = u
    <3>1. PICK I : I = Imported(v)
      OBVIOUS
    <3>2. IsFiniteSet(I) /\ n \in I
      BY <1>0, <1>8, <2>0, <2>3, <3>1 DEF Countable
    <3>3. Cardinality(I \ {n}) = Cardinality(I) - 1 /\ Cardinality(I) \in Nat
      BY <3>2, FS_RemoveElement, FS_CardinalityType
    <3>4. deleted'[v] = deleted[v] + 1 /\ deleted[v] \in Nat
      BY <1>1, <2>0, <2>3, FilesAssumption DEF TypeOK, ImportTypeOK
    <3> QED
      BY <1>8, <2>1, <2>3, <3>1, <3>3, <3>4
  <2> QED
    BY <2>2, <2>3
<1> QED
  BY <1>6, <1>7, <1>10, <1>11, <1>12, <1>13 DEF ImportInv

(* A new user has nothing yet. *)
LEMMA RegisterKeepsImports ==
  ASSUME TypeOK, ImportInv, NEW r \in Requests, NEW u \in UserIds, RegisterCommit(r, u),
         UNCHANGED importVars
  PROVE  ImportInv'
<1>0. UploadInv /\ OneHolder /\ Countable /\ ImportOwned /\ UploadedIsThere /\ ReceiptsAddUp
  BY DEF ImportInv
<1>1. req[r].at = "registering" /\ u \notin Known /\ Moves(r, [at |-> "registered"])
  BY DEF RegisterCommit, End, Goto, Moves
<1>2. Existing' = Existing \cup {u} /\ Known' = Known \cup {u}
  BY DEF RegisterCommit, Existing, Known
<1>3. rows' = rows /\ receipts' = receipts /\ gone' = gone /\ deleted' = deleted
  BY DEF importVars
<1>4. req'[r].at = "registered" /\ \A s \in Requests : s # r => req'[s] = req[s]
  BY <1>1, MovedType
<1>5. \A s \in Requests : req'[s].at \in UploadStages
        => req'[s] = req[s] /\ req[s].user \in Known /\ req[s].user # u
  BY <1>0, <1>1, <1>4 DEF UploadInv, UploadStages, InFlight, TypeOK
<1>6. UploadInv'
  <2> SUFFICES ASSUME NEW s \in Requests
               PROVE  UploadInv!(s)'
    BY DEF UploadInv
  <2> QED
    BY <1>0, <1>2, <1>3, <1>5 DEF UploadInv, UploadStages, InFlight, Passed
<1>7. OneHolder'
  BY <1>0, <1>5 DEF OneHolder, InFlight, UploadStages
<1>8. Countable'
  <2>1. \A x \in receipts : x.upload \in Requests /\ req[x.upload].at = "uploaded"
    BY <1>0 DEF Countable, TypeOK, ImportTypeOK, Receipt
  <2>2. \A x \in receipts' : req'[x.upload].at = "uploaded"
    BY <1>1, <1>3, <1>4, <2>1
  <2> QED
    BY <1>0, <1>2, <1>3, <2>2 DEF Countable, Imported
<1>9. ImportOwned'
  BY <1>0, <1>2, <1>3 DEF ImportOwned
<1>10. UploadedIsThere'
  BY <1>0, <1>2, <1>3, <1>5 DEF UploadedIsThere, UploadStages
<1>11. ReceiptsAddUp'
  <2> SUFFICES ASSUME NEW v \in Existing'
               PROVE  SumFunctionOnSet(Inserted, ReceiptsOf(v)) = Cardinality(Imported(v)) + deleted[v]
    BY <1>3 DEF ReceiptsAddUp, ReceiptsOf, Inserted, Imported
  <2>1. CASE v \in Existing
    BY <1>0, <2>1 DEF ReceiptsAddUp
  <2>2. CASE v = u
    <3>1. u \notin Existing /\ deleted[u] = 0
      BY <1>0, <1>1 DEF Known, Countable
    <3>2. ReceiptsOf(v) = {} /\ Imported(v) = {}
      <4>1. \A l : <<u, l>>[1] = u
        OBVIOUS
      <4> QED
        BY <1>0, <2>2, <3>1, <4>1 DEF ImportOwned, ReceiptsOf, Imported
    <3>3. Cardinality({}) = 0
      BY FS_EmptySet
    <3> QED
      BY <2>2, <3>1, <3>2, <3>3, SumEmpty
  <2> QED
    BY <1>2, <2>1, <2>2
<1> QED
  BY <1>6, <1>7, <1>8, <1>9, <1>10, <1>11 DEF ImportInv

(* Erasure waits for the uploads that hold the user, and the others lose him. *)
LEMMA EraseKeepsImports ==
  ASSUME TypeOK, ImportInv, NEW r \in Requests, Erase(r)
  PROVE  ImportInv'
<1>0. UploadInv /\ OneHolder /\ Countable /\ ImportOwned /\ UploadedIsThere /\ ReceiptsAddUp
  BY DEF ImportInv
<1>1. PICK u : u = req[r].user
  OBVIOUS
<1>2. /\ req[r].at = "erasing" /\ ~ImportPins(u) /\ Moves(r, [at |-> "erased"])
      /\ rows' = {y \in rows : y[1] # u} /\ receipts' = {y \in receipts : y.user # u}
      /\ gone' = gone /\ deleted' = deleted
  BY <1>1 DEF Erase, EraseCommit, ImportCascade, End, Goto, Moves
<1>3. Existing' = Existing \ {u} /\ Known \subseteq Known'
  BY <1>1 DEF Erase, EraseCommit, Existing, Known
<1>4. req'[r].at = "erased" /\ \A s \in Requests : s # r => req'[s] = req[s]
  BY <1>2, MovedType
<1>5. \A s \in Requests : req'[s].at \in UploadStages => req'[s] = req[s]
  BY <1>4 DEF UploadStages
<1>6. \A v, l : <<v, l>> \in rows' <=> (<<v, l>> \in rows /\ v # u)
  BY <1>2
<1>7. UploadInv'
  <2> SUFFICES ASSUME NEW s \in Requests
               PROVE  UploadInv!(s)'
    BY DEF UploadInv
  <2>1. req[s].at = "imported" => req[s].user # u
    BY <1>2 DEF ImportPins, Uploads
  <2> QED
    BY <1>0, <1>2, <1>3, <1>5, <1>6, <2>1 DEF UploadInv, UploadStages, InFlight, Passed
<1>8. OneHolder'
  BY <1>0, <1>5 DEF OneHolder, InFlight, UploadStages
<1>9. \A v : v # u => Imported(v)' = Imported(v)
  BY <1>6 DEF Imported
<1>10. Countable'
  <2>1. \A x \in receipts : x.upload \in Requests /\ req[x.upload].at = "uploaded"
    BY <1>0 DEF Countable, TypeOK, ImportTypeOK, Receipt
  <2>2. \A x \in receipts' : req'[x.upload].at = "uploaded"
    BY <1>2, <1>4, <2>1
  <2>3. IsFiniteSet(receipts')
    BY <1>0, <1>2, FS_Subset DEF Countable
  <2>4. \A v \in UserIds : IsFiniteSet(Imported(v)')
    <3>1. Imported(u)' = {}
      BY <1>6 DEF Imported
    <3> QED
      BY <1>0, <1>9, <3>1, FS_EmptySet DEF Countable
  <2> QED
    BY <1>0, <1>2, <1>3, <2>2, <2>3, <2>4 DEF Countable
<1>11. ImportOwned'
  BY <1>0, <1>2, <1>3 DEF ImportOwned
<1>12. UploadedIsThere'
  BY <1>0, <1>2, <1>3, <1>5, <1>6 DEF UploadedIsThere, UploadStages
<1>13. ReceiptsAddUp'
  <2> SUFFICES ASSUME NEW v \in Existing, v # u
               PROVE  SumFunctionOnSet(Inserted', ReceiptsOf(v)')
                        = Cardinality(Imported(v)') + deleted'[v]
    BY <1>3 DEF ReceiptsAddUp
  <2>1. PICK R : R = ReceiptsOf(v)
    OBVIOUS
  <2>2. PICK W : W = Inserted'
    OBVIOUS
  <2>3. PICK V : V = Inserted
    OBVIOUS
  <2>4. IsFiniteSet(R) /\ R \subseteq receipts /\ \A y \in R : V[y] = y.inserted
    BY <2>1, <2>3, InsertedType
  <2>5. \A y \in R : y \in receipts' /\ W[y] = V[y]
    BY <1>2, <2>1, <2>2, <2>4 DEF Inserted, ReceiptsOf
  <2>6. SumFunctionOnSet(W, R) = SumFunctionOnSet(V, R)
    BY <2>4, <2>5, SumSame
  <2>7. ReceiptsOf(v)' = R
    BY <1>2, <2>1 DEF ReceiptsOf
  <2>8. SumFunctionOnSet(V, R) = Cardinality(Imported(v)) + deleted[v]
    BY <1>0, <2>1, <2>3 DEF ReceiptsAddUp
  <2> QED
    BY <1>2, <1>9, <2>2, <2>6, <2>7, <2>8
<1> QED
  BY <1>7, <1>8, <1>10, <1>11, <1>12, <1>13 DEF ImportInv

LEMMA ImportInvNext ==
  ASSUME TypeOK, ImportInv, ExportsInv, [Next]_vars
  PROVE  ImportInv'
<1>1. UploadInv
  BY DEF ImportInv
<1>2. CASE NotAnUpload
  BY <1>2, ImportInvFrame
<1>3. CASE ImportSteps
  BY <1>3, UploadReadKeeps, InsertLineKeeps, StatementEndsKeeps, UploadCommitKeeps,
     DeleteExpenseKeeps, RegisterKeepsImports, EraseKeepsImports DEF ImportSteps
<1> QED
  BY <1>1, <1>2, <1>3, ImportKinds

-----------------------------------------------------------------------------
(* Steps that do not concern the bot.                                        *)
LinkStages == {"linking", "binding", "linked"}
Settled == {"error", "died", "replying", "replied"}

LeavesBotAlone(s) ==
  \/ req'[s] = req[s]
  \/ /\ req[s].at # "linked" /\ req'[s].at \notin LinkStages
     /\ req[s].at \in Settled => req'[s].at = "died"

NotABotStep ==
  UNCHANGED <<userVars, botVars>> /\ \A s \in Requests : LeavesBotAlone(s)

BotSteps ==
  \/ \E r \in Requests :
       \/ \E u \in UserIds : RegisterCommit(r, u) /\ UNCHANGED botVars
       \/ Erase(r)
       \/ \E c \in Codes : CodeCommit(r, c)
       \/ \E chat \in Chats, c \in Codes : LinkRead(r, chat, c)
       \/ LinkCheck(r) /\ req'[r].at = "binding"
       \/ LinkCommit(r)
       \/ \E m \in Updates : Deliver(r, m)
       \/ BookCommit(r) \/ Reply(r) \/ GiveUp(r)
  \/ \E c \in Codes : CodeExpires(c)

LEMMA OthersStayForBot ==
  ASSUME TypeOK, NEW r \in Requests, NEW w, Moves(r, w), LeavesBotAlone(r),
         UNCHANGED <<userVars, botVars>>
  PROVE  NotABotStep
BY MovedType DEF NotABotStep, LeavesBotAlone

LEMMA BotKindsOfArrivals ==
  ASSUME TypeOK, UploadInv, ExportsInv, NEW r \in Requests, Arrive(r)
  PROVE  NotABotStep \/ BotSteps
<1> SUFFICES ASSUME ~BotSteps PROVE NotABotStep
  OBVIOUS
<1>1. UNCHANGED <<userVars, botVars>>
  BY ArrivalWrites DEF Quiet, Writes, BotSteps, UploadCommit
<1>2. PICK w \in Work : Moves(r, w) /\ req[r].at = "idle"
  BY ArrivalMoves
<1>3. req'[r].at \notin LinkStages
  <2>1. \A chat \in Chats, c \in Codes : ~LinkRead(r, chat, c)
    BY DEF BotSteps
  <2> QED
    BY <2>1, Targets DEF Arrive, Upload, Webhook, LinkStages, Answered
<1>4. LeavesBotAlone(r)
  BY <1>2, <1>3 DEF LeavesBotAlone, Settled
<1> QED
  BY <1>1, <1>2, <1>4, OthersStayForBot

LEMMA BotKindsOfContinuations ==
  ASSUME TypeOK, UploadInv, ExportsInv, NEW r \in Requests, Continue(r)
  PROVE  NotABotStep \/ BotSteps
<1> SUFFICES ASSUME ~BotSteps PROVE NotABotStep
  OBVIOUS
<1>0. /\ ~Erase(r) /\ ~LinkCommit(r) /\ ~BookCommit(r) /\ ~Reply(r)
      /\ \A c \in Codes : ~CodeCommit(r, c)
      /\ ~(LinkCheck(r) /\ req'[r].at = "binding")
  BY DEF BotSteps
<1>1. UNCHANGED <<userVars, botVars>>
  BY ContinuationWrites DEF Quiet, Writes, BotSteps, UploadCommit
<1>2. PICK w \in Work : Moves(r, w) /\ req[r].at \notin Ended
  BY ContinuationMoves
<1>3. req'[r].at \notin LinkStages
  <2>1. CASE UserContinues(r) \/ ExportSection(r)
    BY <2>1, Targets DEF LinkStages, Answered
  <2>2. CASE ImportContinues(r)
    BY <2>2, Targets DEF ImportContinues, LinkStages
  <2>3. CASE BotContinues(r)
    BY <1>0, <2>3, Targets DEF BotContinues, LinkStages
  <2> QED
    BY <1>0, <2>1, <2>2, <2>3 DEF Continue
<1>4. req[r].at # "replying"
  <2>1. CASE UserContinues(r) \/ ExportSection(r)
    BY <2>1 DEF UserContinues, RegisterCommit, RegisterLoses, ExportSection
  <2>2. CASE ImportContinues(r)
    BY <2>2 DEF ImportContinues, InsertLine, TakeLine, Deadlocked, StatementEnds, UploadCommit,
                AtLine, Importing
  <2>3. CASE BotContinues(r)
    BY <1>0, <2>3 DEF BotContinues, CodeFails, LinkCheck, LinkFails, BookFails
  <2> QED
    BY <1>0, <2>1, <2>2, <2>3 DEF Continue
<1>5. LeavesBotAlone(r)
  BY <1>2, <1>3, <1>4 DEF LeavesBotAlone, Settled, Ended, Answered
<1> QED
  BY <1>1, <1>2, <1>5, OthersStayForBot

LEMMA BotKinds ==
  ASSUME TypeOK, UploadInv, ExportsInv, [Next]_vars
  PROVE  NotABotStep \/ BotSteps
<1>1. CASE \E r \in Requests : Arrive(r) \/ Continue(r)
  BY <1>1, BotKindsOfArrivals, BotKindsOfContinuations
<1>2. CASE \E r \in Requests : Die(r) /\ UNCHANGED <<importVars, botVars>>
  <2>1. PICK r \in Requests : Die(r) /\ UNCHANGED <<importVars, botVars>>
    BY <1>2
  <2>2. Moves(r, [at |-> "died"]) /\ req[r].at # "linked" /\ UNCHANGED <<userVars, botVars>>
    BY <2>1 DEF Die, Running, End, Goto, Moves, Ended
  <2>3. LeavesBotAlone(r)
    BY <2>1, <2>2, Targets DEF LeavesBotAlone, LinkStages
  <2> QED
    BY <2>2, <2>3, OthersStayForBot
<1>3. CASE \E r \in Requests : GiveUp(r) /\ UNCHANGED importVars
  BY <1>3 DEF BotSteps
<1>4. CASE (\E u \in UserIds, l \in Lines : DeleteExpense(u, l)) /\ UNCHANGED botVars
  BY <1>4 DEF DeleteExpense, NotABotStep, LeavesBotAlone
<1>5. CASE \E c \in Codes : CodeExpires(c)
  BY <1>5 DEF BotSteps
<1>6. CASE UNCHANGED vars
  BY <1>6 DEF vars, NotABotStep, LeavesBotAlone
<1> QED
  BY <1>1, <1>2, <1>3, <1>4, <1>5, <1>6 DEF Next

LEMMA BotInvFrame ==
  ASSUME TypeOK, BotInv, NotABotStep
  PROVE  BotInv'
<1>1. /\ Existing' = Existing /\ erased' = erased /\ link' = link /\ Linked' = Linked
      /\ shown' = shown /\ sharers' = sharers /\ entries' = entries /\ audited' = audited
      /\ posted' = posted /\ lost' = lost
  BY DEF NotABotStep, userVars, botVars, Existing, Linked
<1>2. \A s \in Requests : LeavesBotAlone(s)
  BY DEF NotABotStep
<1>3. CodesInv'
  <2>1. \A c : Sharing(c)' \subseteq Sharing(c)
    BY <1>2 DEF Sharing, LeavesBotAlone, LinkStages
  <2> QED
    BY <1>1, <2>1 DEF BotInv, CodesInv
<1>4. LinkersInv'
  BY <1>1, <1>2 DEF BotInv, LinkersInv, LeavesBotAlone, LinkStages
<1>5. UpdatesInv'
  <2>1. \A m \in Updates : posted[m] \subseteq Requests
    BY DEF TypeOK, BotTypeOK
  <2>2. \A e \in audited : e[2] \in Requests
    BY DEF TypeOK, BotTypeOK
  <2>3. \A q \in Requests : /\ req[q].at \in {"error", "died"} => req'[q].at \in {"error", "died"}
                            /\ req[q].at \in {"replying", "replied", "died"}
                                 => req'[q].at \in {"replying", "replied", "died"}
    BY <1>2 DEF LeavesBotAlone, Settled
  <2>4. \A m \in Updates : \A r, s \in posted'[m] :
          r # s => \E q \in {r, s} : q \in lost' \/ req'[q].at \in {"error", "died"}
    BY <1>1, <2>1, <2>3 DEF BotInv, UpdatesInv
  <2> QED
    BY <1>1, <2>2, <2>3, <2>4 DEF BotInv, UpdatesInv
<1>6. BotOwned'
  BY <1>1 DEF BotInv, BotOwned
<1>7. CodeLinksOnce'
  BY <1>1, <1>2 DEF BotInv, CodeLinksOnce, LeavesBotAlone, LinkStages
<1> QED
  BY <1>3, <1>4, <1>5, <1>6, <1>7 DEF BotInv

(* The requests of the updates, and of their audit rows.                     *)
LEMMA BotTables ==
  ASSUME TypeOK
  PROVE  /\ \A m \in Updates : posted[m] \subseteq Requests
         /\ \A e \in audited : e[2] \in Requests
         /\ \A e \in entries : e \in UserIds \X Requests
         /\ \A u \in Linked : u \in UserIds /\ link[u].code \in Codes \cup {NoCode}
BY DEF TypeOK, BotTypeOK, Row

(* Nothing changes for the updates as long as their requests only go from the *)
(* booking to the answer.                                                    *)
LEMMA UpdatesFrame ==
  ASSUME TypeOK, UpdatesInv, UNCHANGED <<audited, posted>>, entries' \subseteq entries,
         lost \subseteq lost',
         \A s \in Requests : req'[s] = req[s] \/ req[s].at \notin {"error", "died", "replied"},
         \A s \in Requests : req'[s] = req[s] \/ req[s].at # "replying" \/ req'[s].at = "replied"
  PROVE  UpdatesInv'
<1>1. \A q \in Requests : /\ req[q].at \in {"error", "died"} => req'[q].at \in {"error", "died"}
                          /\ req[q].at \in {"replying", "replied", "died"}
                               => req'[q].at \in {"replying", "replied", "died"}
  OBVIOUS
<1>2. \A m \in Updates : \A r, s \in posted'[m] :
        r # s => \E q \in {r, s} : q \in lost' \/ req'[q].at \in {"error", "died"}
  BY <1>1, BotTables DEF UpdatesInv
<1>3. \A e \in audited' : req'[e[2]].at \in {"replying", "replied", "died"}
  BY <1>1, BotTables DEF UpdatesInv
<1> QED
  BY <1>2, <1>3 DEF UpdatesInv

(* A new user has no link and no entries. *)
LEMMA RegisterKeepsBot ==
  ASSUME TypeOK, BotInv, NEW r \in Requests, NEW u \in UserIds, RegisterCommit(r, u),
         UNCHANGED botVars
  PROVE  BotInv'
<1>1. req[r].at = "registering" /\ Moves(r, [at |-> "registered"])
  BY DEF RegisterCommit, End, Goto, Moves
<1>2. Existing \subseteq Existing' /\ erased' = erased
  BY DEF RegisterCommit, Existing
<1>3. /\ link' = link /\ Linked' = Linked /\ shown' = shown /\ sharers' = sharers
      /\ entries' = entries /\ audited' = audited /\ posted' = posted /\ lost' = lost
  BY DEF botVars, Linked
<1>4. req'[r].at = "registered" /\ \A s \in Requests : s # r => req'[s] = req[s]
  BY <1>1, MovedType
<1>5. CodesInv'
  <2>1. \A c : Sharing(c)' = Sharing(c)
    BY <1>1, <1>4 DEF Sharing
  <2> QED
    BY <1>3, <2>1 DEF BotInv, CodesInv
<1>6. LinkersInv'
  BY <1>1, <1>2, <1>3, <1>4 DEF BotInv, LinkersInv
<1>7. UpdatesInv'
  BY <1>1, <1>3, <1>4, UpdatesFrame DEF BotInv
<1>8. BotOwned'
  BY <1>2, <1>3 DEF BotInv, BotOwned
<1>9. CodeLinksOnce'
  BY <1>1, <1>3, <1>4 DEF BotInv, CodeLinksOnce
<1> QED
  BY <1>5, <1>6, <1>7, <1>8, <1>9 DEF BotInv

(* Erasure takes the row of the user, which no request finds again. *)
LEMMA EraseKeepsBot ==
  ASSUME TypeOK, BotInv, NEW r \in Requests, Erase(r)
  PROVE  BotInv'
<1>0. PICK u : u = req[r].user
  OBVIOUS
<1>1. /\ req[r].at = "erasing" /\ Moves(r, [at |-> "erased"])
      /\ link' = [v \in Linked \ {u} |-> link[v]]
      /\ entries' = {e \in entries : e[1] # u}
      /\ UNCHANGED <<lapsed, audited, acked, posted, lost, shown, sharers>>
  BY <1>0 DEF Erase, EraseCommit, BotCascade, End, Goto, Moves
<1>2. Existing' = Existing \ {u} /\ erased' = erased \cup {u}
  BY <1>0 DEF Erase, EraseCommit, Existing
<1>3. Linked' = Linked \ {u} /\ \A v \in Linked' : link'[v] = link[v]
  BY <1>1 DEF Linked
<1>4. req'[r].at = "erased" /\ \A s \in Requests : s # r => req'[s] = req[s]
  BY <1>1, MovedType
<1>5. CodesInv'
  <2>1. \A c : Sharing(c)' = Sharing(c)
    BY <1>1, <1>4 DEF Sharing
  <2> QED
    BY <1>1, <1>3, <2>1 DEF BotInv, CodesInv
<1>6. LinkersInv'
  BY <1>1, <1>2, <1>3, <1>4 DEF BotInv, LinkersInv
<1>7. UpdatesInv'
  BY <1>1, <1>4, UpdatesFrame DEF BotInv
<1>8. BotOwned'
  BY <1>1, <1>2, <1>3 DEF BotInv, BotOwned
<1>9. CodeLinksOnce'
  BY <1>1, <1>4 DEF BotInv, CodeLinksOnce
<1> QED
  BY <1>5, <1>6, <1>7, <1>8, <1>9 DEF BotInv

(* A code is new to every row and every request. *)
LEMMA CodeCommitKeeps ==
  ASSUME TypeOK, BotInv, Existing \cap erased = {}, NEW r \in Requests, NEW c \in Codes,
         CodeCommit(r, c)
  PROVE  BotInv'
<1>0. PICK u : u = req[r].user
  OBVIOUS
<1>1. PICK chat : chat = IF req[r].had THEN link[u].chat ELSE NoChat
  OBVIOUS
<1>2. /\ req[r].at = "coding" /\ c \notin shown /\ Moves(r, [at |-> "coded"])
      /\ link' = [v \in Linked \cup {u} |-> IF v = u THEN [chat |-> chat, code |-> c] ELSE link[v]]
      /\ shown' = shown \cup {c}
      /\ UNCHANGED <<userVars, entries, audited, posted, lost, sharers>>
  BY <1>0, <1>1 DEF CodeCommit, End, Goto, Moves
<1>3. IF req[r].had THEN u \in Linked ELSE u \in Existing \ Linked
  BY <1>0 DEF CodeCommit, CanStore
<1>4. Existing' = Existing /\ erased' = erased
  BY <1>2 DEF userVars, Existing
<1>5. /\ Linked' = Linked \cup {u}
      /\ \A v \in Linked : v # u => link'[v] = link[v]
      /\ link'[u].code = c /\ link'[u].chat = chat
  BY <1>2 DEF Linked
<1>6. req'[r].at = "coded" /\ \A s \in Requests : s # r => req'[s] = req[s]
  BY <1>2, MovedType
<1>7. CodesInv'
  <2>1. \A d : Sharing(d)' = Sharing(d)
    BY <1>2, <1>6 DEF Sharing
  <2>2. \A v \in Linked' : link'[v].code # NoCode => link'[v].code \in shown'
    BY <1>2, <1>5 DEF BotInv, CodesInv
  <2>3. \A v \in Linked : link[v].code # c
    BY <1>2, SenderAssumption DEF BotInv, CodesInv
  <2>4. \A v, w \in Linked' : link'[v].code = link'[w].code /\ v # w => link'[v].code = NoCode
    BY <1>5, <2>3 DEF BotInv, CodesInv
  <2>5. \A d \in Codes : sharers[d] # {} => d # c
    BY <1>2 DEF BotInv, CodesInv
  <2>6. \A d \in Codes : sharers[d] # {} => \A v \in Linked' : link'[v].code # d
    BY <1>5, <2>5 DEF BotInv, CodesInv
  <2> QED
    BY <1>2, <2>1, <2>2, <2>4, <2>6 DEF BotInv, CodesInv
<1>8. LinkersInv'
  <2> SUFFICES ASSUME NEW s \in Requests, req'[s].at \in {"linking", "binding"}
               PROVE  LinkersInv!(s)'
    BY DEF LinkersInv
  <2>1. req'[s] = req[s] /\ s # r
    BY <1>6
  <2>2. LinkersInv!(s)
    BY DEF BotInv, LinkersInv
  <2>3. req[s].code # c
    BY <1>2, <2>1, <2>2
  <2>4. req[s].user = u /\ u \notin Linked => FALSE
    BY <1>3, <2>1, <2>2
  <2>5. req[s].user = u => link'[u].chat = link[u].chat
    BY <1>1, <1>3, <1>5, <2>4
  <2>6. \A q \in Requests : req[q].at = "linked" => req'[q] = req[q]
    BY <1>2, <1>6
  <2>7. req[s].at \in {"linking", "binding"}
    BY <2>1
  <2>8. req[s].code \in shown'
    BY <1>2, <2>2, <2>7
  <2>9. \A v \in Linked' : link'[v].code = req[s].code => v = req[s].user
    BY <1>5, <2>2, <2>3, <2>7
  <2>10. req[s].user \in Linked' \cup erased'
    BY <1>4, <1>5, <2>2, <2>7
  <2>11. ASSUME req[s].user \in Linked'
         PROVE  \/ link'[req[s].user].chat = req[s].loaded
                \/ \E q \in Requests \ {s} : req'[q].at = "linked" /\ req'[q].user = req[s].user
    <3>1. req[s].user \in Linked /\ link'[req[s].user].chat = link[req[s].user].chat
      BY <1>5, <2>4, <2>5, <2>11
    <3>2. \/ link[req[s].user].chat = req[s].loaded
          \/ \E q \in Requests \ {s} : req[q].at = "linked" /\ req[q].user = req[s].user
      BY <2>2, <2>7, <3>1
    <3> QED
      BY <2>6, <3>1, <3>2
  <2> QED
    BY <2>1, <2>8, <2>9, <2>10, <2>11
<1>9. UpdatesInv'
  BY <1>2, <1>6, UpdatesFrame DEF BotInv
<1>10. BotOwned'
  BY <1>2, <1>3, <1>4, <1>5 DEF BotInv, BotOwned
<1>11. CodeLinksOnce'
  BY <1>2, <1>6 DEF BotInv, CodeLinksOnce
<1> QED
  BY <1>7, <1>8, <1>9, <1>10, <1>11 DEF BotInv

(* A request can read a code only before it was first used. *)
LEMMA LinkReadKeeps ==
  ASSUME TypeOK, BotInv, NEW r \in Requests, NEW chat \in Chats, NEW c \in Codes,
         LinkRead(r, chat, c)
  PROVE  BotInv'
<1>0. PICK u : u = CHOOSE v \in Linked : link[v].code = c
  OBVIOUS
<1>1. u \in Linked /\ link[u].code = c
  BY <1>0 DEF LinkRead, Redeemable
<1>2. PICK w : w = [at |-> "linking", user |-> u, chat |-> chat, code |-> c, loaded |-> link[u].chat]
  OBVIOUS
<1>3. w.at = "linking" /\ w.user = u /\ w.code = c /\ w.loaded = link[u].chat
  BY <1>2
<1>4. req[r].at = "idle" /\ Moves(r, w) /\ UNCHANGED <<userVars, botVars>>
  BY <1>0, <1>2 DEF LinkRead, Begin, Goto, Moves
<1>5. req'[r] = w /\ \A s \in Requests : s # r => req'[s] = req[s]
  BY <1>4, MovedType
<1>6. /\ Existing' = Existing /\ erased' = erased /\ link' = link /\ Linked' = Linked
      /\ shown' = shown /\ sharers' = sharers /\ entries' = entries /\ audited' = audited
      /\ posted' = posted /\ lost' = lost
  BY <1>4 DEF userVars, botVars, Existing, Linked
<1>7. c # NoCode /\ c \in shown /\ \A v \in Linked : link[v].code = c => v = u
  BY <1>1, SenderAssumption DEF BotInv, CodesInv
<1>8. CodesInv'
  <2>1. \A d : d # c => Sharing(d)' = Sharing(d)
    BY <1>3, <1>4, <1>5 DEF Sharing
  <2>2. sharers[c] = {}
    BY <1>1 DEF BotInv, CodesInv
  <2> QED
    BY <1>6, <2>1, <2>2 DEF BotInv, CodesInv
<1>9. LinkersInv'
  <2> SUFFICES ASSUME NEW s \in Requests, req'[s].at \in {"linking", "binding"}
               PROVE  LinkersInv!(s)'
    BY DEF LinkersInv
  <2>1. CASE s = r
    BY <1>1, <1>3, <1>5, <1>6, <1>7, <2>1
  <2>2. CASE s # r
    <3>1. \A q \in Requests : req[q].at = "linked" => req'[q] = req[q]
      BY <1>4, <1>5
    <3> QED
      BY <1>5, <1>6, <2>2, <3>1 DEF BotInv, LinkersInv
  <2> QED
    BY <2>1, <2>2
<1>10. UpdatesInv'
  BY <1>4, <1>5, <1>6, UpdatesFrame DEF BotInv
<1>11. BotOwned'
  BY <1>6 DEF BotInv, BotOwned
<1>12. CodeLinksOnce'
  BY <1>3, <1>5, <1>6 DEF BotInv, CodeLinksOnce
<1> QED
  BY <1>8, <1>9, <1>10, <1>11, <1>12 DEF BotInv

LEMMA LinkCheckKeeps ==
  ASSUME TypeOK, BotInv, NEW r \in Requests, LinkCheck(r), req'[r].at = "binding"
  PROVE  BotInv'
<1>1. req[r].at = "linking" /\ req[r] \in Linking /\ UNCHANGED <<userVars, botVars>>
  BY WorkByStage DEF LinkCheck, TypeOK, Work
<1>2. PICK w : w = [req[r] EXCEPT !.at = "binding"]
  OBVIOUS
<1>3. w.at = "binding" /\ w.user = req[r].user /\ w.code = req[r].code /\ w.loaded = req[r].loaded
  BY <1>1, <1>2 DEF Linking
<1>4. Moves(r, w)
  <2>1. CASE BoundToAnother(r)
    <3>1. Moves(r, [at |-> "informed"])
      BY <2>1 DEF LinkCheck, End, Goto, Moves
    <3>2. req'[r] = [at |-> "informed"]
      BY <3>1, MovedType
    <3> QED
      BY <3>2
  <2>2. CASE ~BoundToAnother(r)
    BY <1>2, <2>2 DEF LinkCheck, Move, Moves
  <2> QED
    BY <2>1, <2>2
<1>5. req'[r] = w /\ \A s \in Requests : s # r => req'[s] = req[s]
  BY <1>4, MovedType
<1>6. /\ Existing' = Existing /\ erased' = erased /\ link' = link /\ Linked' = Linked
      /\ shown' = shown /\ sharers' = sharers /\ entries' = entries /\ audited' = audited
      /\ posted' = posted /\ lost' = lost
  BY <1>1 DEF userVars, botVars, Existing, Linked
<1>7. CodesInv'
  <2>1. \A c : Sharing(c)' = Sharing(c)
    BY <1>1, <1>3, <1>5 DEF Sharing
  <2> QED
    BY <1>6, <2>1 DEF BotInv, CodesInv
<1>8. LinkersInv'
  BY <1>1, <1>3, <1>5, <1>6 DEF BotInv, LinkersInv
<1>9. UpdatesInv'
  BY <1>1, <1>5, <1>6, UpdatesFrame DEF BotInv
<1>10. BotOwned'
  BY <1>6 DEF BotInv, BotOwned
<1>11. CodeLinksOnce'
  BY <1>3, <1>5, <1>6 DEF BotInv, CodeLinksOnce
<1> QED
  BY <1>7, <1>8, <1>9, <1>10, <1>11 DEF BotInv

(* The first use of a code leaves no row with it, and nobody who read it     *)
(* later.                                                                    *)
LEMMA LinkCommitKeeps ==
  ASSUME TypeOK, BotInv, NEW r \in Requests, LinkCommit(r)
  PROVE  BotInv'
<1>0. req[r].at = "binding" /\ req[r] \in Linking
  BY WorkByStage DEF LinkCommit, TypeOK, Work
<1>1. PICK u : u = req[r].user
  OBVIOUS
<1>2. PICK c \in Codes : c = req[r].code
  BY <1>0 DEF Linking
<1>3. /\ u \in Linked
      /\ link' = [link EXCEPT ![u] = Updated(r, @)]
      /\ sharers' = [sharers EXCEPT ![c] = IF @ = {} THEN Sharing(c) ELSE @]
      /\ UNCHANGED <<userVars, entries, audited, posted, lost, shown>>
  BY <1>1, <1>2 DEF LinkCommit, CanBind
<1>4. PICK w : w = [at |-> "linked", user |-> u, chat |-> req[r].chat, code |-> c]
  OBVIOUS
<1>5. w.at = "linked" /\ w.user = u /\ w.code = c
  BY <1>4
<1>6. Moves(r, w)
  BY <1>1, <1>2, <1>4 DEF LinkCommit, Goto, Moves
<1>7. req'[r] = w /\ \A s \in Requests : s # r => req'[s] = req[s]
  BY <1>6, MovedType
<1>8. /\ Existing' = Existing /\ erased' = erased /\ shown' = shown /\ entries' = entries
      /\ audited' = audited /\ posted' = posted /\ lost' = lost
  BY <1>3 DEF userVars, Existing
<1>9. /\ Linked' = Linked
      /\ \A v \in Linked : v # u => link'[v] = link[v]
      /\ link'[u].code = NoCode
  BY <1>3 DEF Linked, Updated, TypeOK, BotTypeOK
<1>10. /\ sharers'[c] = IF sharers[c] = {} THEN Sharing(c) ELSE sharers[c]
       /\ \A d \in Codes : d # c => sharers'[d] = sharers[d]
  BY <1>2, <1>3 DEF TypeOK, BotTypeOK
<1>11. c \in shown /\ \A v \in Linked : link[v].code = c => v = u
  BY <1>0, <1>1, <1>2 DEF BotInv, LinkersInv
<1>12. CodesInv'
  <2>1. \A d \in Codes : Sharing(d)' \subseteq Sharing(d)
    BY <1>5, <1>7 DEF Sharing
  <2>2. \A v \in Linked' : link'[v].code # NoCode => link'[v].code \in shown'
    BY <1>8, <1>9 DEF BotInv, CodesInv
  <2>3. \A v, t \in Linked' : link'[v].code = link'[t].code /\ v # t => link'[v].code = NoCode
    BY <1>9 DEF BotInv, CodesInv
  <2>4. ASSUME NEW d \in Codes, sharers'[d] # {}
        PROVE  /\ d \in shown'
               /\ \A v \in Linked' : link'[v].code # d
               /\ Sharing(d)' \subseteq sharers'[d]
    <3>1. CASE d = c
      <4>1. \A v \in Linked' : link'[v].code # c
        BY <1>9, <1>11, SenderAssumption
      <4>2. Sharing(c) \subseteq sharers'[c]
        BY <1>10 DEF BotInv, CodesInv
      <4> QED
        BY <1>8, <1>11, <2>1, <3>1, <4>1, <4>2
    <3>2. CASE d # c
      <4>1. sharers[d] # {} /\ sharers'[d] = sharers[d]
        BY <1>10, <2>4, <3>2
      <4>2. d \in shown /\ (\A v \in Linked : link[v].code # d) /\ Sharing(d) \subseteq sharers[d]
        BY <4>1 DEF BotInv, CodesInv
      <4> QED
        BY <1>8, <1>9, <2>1, <4>1, <4>2, SenderAssumption
    <3> QED
      BY <3>1, <3>2
  <2> QED
    BY <2>2, <2>3, <2>4 DEF CodesInv
<1>13. LinkersInv'
  <2> SUFFICES ASSUME NEW s \in Requests, req'[s].at \in {"linking", "binding"}
               PROVE  LinkersInv!(s)'
    BY DEF LinkersInv
  <2>1. req'[s] = req[s] /\ s # r /\ req[s].at \in {"linking", "binding"}
    BY <1>5, <1>7
  <2>2. /\ req[s].code \in shown
        /\ \A v \in Linked : link[v].code = req[s].code => v = req[s].user
        /\ req[s].user \in Linked \cup erased
        /\ req[s].user \in Linked =>
             \/ link[req[s].user].chat = req[s].loaded
             \/ \E q \in Requests \ {s} : req[q].at = "linked" /\ req[q].user = req[s].user
    BY <2>1 DEF BotInv, LinkersInv
  <2>3. req[s].code # NoCode
    <3>1. req[s] \in Linking
      BY <2>1, WorkByStage DEF TypeOK, Work
    <3> QED
      BY <3>1, SenderAssumption DEF Linking
  <2>4. \A v \in Linked' : link'[v].code = req[s].code => v = req[s].user
    BY <1>9, <2>2, <2>3
  <2>5. \A q \in Requests : req[q].at = "linked" => req'[q] = req[q]
    BY <1>0, <1>7
  <2>6. ASSUME req[s].user \in Linked'
        PROVE  \/ link'[req[s].user].chat = req[s].loaded
               \/ \E q \in Requests \ {s} : req'[q].at = "linked" /\ req'[q].user = req[s].user
    <3>1. CASE req[s].user = u
      BY <1>5, <1>7, <2>1, <3>1
    <3>2. CASE req[s].user # u
      BY <1>9, <2>2, <2>5, <2>6, <3>2
    <3> QED
      BY <3>1, <3>2
  <2> QED
    BY <1>8, <1>9, <2>1, <2>2, <2>4, <2>6
<1>14. UpdatesInv'
  BY <1>0, <1>3, <1>7, UpdatesFrame DEF BotInv
<1>15. BotOwned'
  BY <1>8, <1>9 DEF BotInv, BotOwned
<1>16. CodeLinksOnce'
  <2> SUFFICES ASSUME NEW s \in Requests, req'[s].at = "linked"
               PROVE  s \in sharers'[req'[s].code]
    BY DEF CodeLinksOnce
  <2>1. CASE s = r
    <3>1. r \in Sharing(c)
      BY <1>0, <1>2 DEF Sharing
    <3> QED
      BY <1>5, <1>7, <1>10, <2>1, <3>1 DEF BotInv, CodesInv
  <2>2. CASE s # r
    <3>1. req'[s] = req[s] /\ s \in sharers[req[s].code]
      BY <1>7, <2>2 DEF BotInv, CodeLinksOnce
    <3>2. req[s].code \in Codes
      BY <2>2, <3>1, WorkByStage DEF TypeOK, Work
    <3> QED
      BY <1>10, <3>1, <3>2
  <2> QED
    BY <2>1, <2>2
<1> QED
  BY <1>12, <1>13, <1>14, <1>15, <1>16 DEF BotInv

(* What the steps of an update leave alone. *)
LEMMA LinksFrame ==
  ASSUME TypeOK, BotInv, UNCHANGED <<userVars, link, shown, sharers>>,
         \A s \in Requests : req'[s] = req[s]
           \/ (req[s].at # "linked" /\ req'[s].at \notin LinkStages)
  PROVE  CodesInv' /\ LinkersInv' /\ CodeLinksOnce' /\ Linked' = Linked /\ Existing' = Existing
<1>1. /\ Existing' = Existing /\ erased' = erased /\ link' = link /\ Linked' = Linked
      /\ shown' = shown /\ sharers' = sharers
  BY DEF userVars, Existing, Linked
<1>2. CodesInv'
  <2>1. \A c : Sharing(c)' \subseteq Sharing(c)
    BY DEF Sharing, LinkStages
  <2> QED
    BY <1>1, <2>1 DEF BotInv, CodesInv
<1>3. LinkersInv'
  BY <1>1 DEF BotInv, LinkersInv, LinkStages
<1>4. CodeLinksOnce'
  BY <1>1 DEF BotInv, CodeLinksOnce, LinkStages
<1> QED
  BY <1>1, <1>2, <1>3, <1>4

(* Telegram posts an update again only when it has given the others up. *)
LEMMA DeliverKeeps ==
  ASSUME TypeOK, BotInv, NEW r \in Requests, NEW m \in Updates, Deliver(r, m)
  PROVE  BotInv'
<1>1. /\ req[r].at = "idle" /\ Due(m)
      /\ posted' = [posted EXCEPT ![m] = @ \cup {r}]
      /\ UNCHANGED <<userVars, link, lapsed, entries, audited, acked, lost, shown, sharers>>
  BY DEF Deliver, Begin
<1>2. PICK w : w = [at |-> IF {u \in Linked : link[u].chat = Sender[m]} = {}
                             THEN "replying" ELSE "booking",
                    update |-> m, owner |-> {u \in Linked : link[u].chat = Sender[m]}]
  OBVIOUS
<1>3. Moves(r, w)
  BY <1>2 DEF Deliver, Begin, Goto, Moves
<1>4. w.at \in {"replying", "booking"}
  BY <1>2
<1>5. req'[r] = w /\ \A s \in Requests : s # r => req'[s] = req[s]
  BY <1>3, MovedType
<1>6. CodesInv' /\ LinkersInv' /\ CodeLinksOnce' /\ Linked' = Linked /\ Existing' = Existing
  <2>1. \A s \in Requests : req'[s] = req[s]
           \/ (req[s].at # "linked" /\ req'[s].at \notin LinkStages)
    BY <1>1, <1>4, <1>5 DEF LinkStages
  <2> QED
    BY <1>1, <2>1, LinksFrame
<1>7. UpdatesInv'
  <2>1. \A q \in Requests : /\ req[q].at \in {"error", "died"} => req'[q] = req[q]
                            /\ req[q].at \in {"replying", "replied", "died"} => req'[q] = req[q]
    BY <1>1, <1>5
  <2>2. \A n \in Updates : posted[n] \subseteq Requests
    BY BotTables
  <2>3. ASSUME NEW n \in Updates, NEW p \in posted'[n], NEW s \in posted'[n], p # s
        PROVE  \E q \in {p, s} : q \in lost' \/ req'[q].at \in {"error", "died"}
    <3>1. CASE p \in posted[n] /\ s \in posted[n]
      <4>1. \E q \in {p, s} : q \in lost \/ req[q].at \in {"error", "died"}
        BY <2>3, <3>1 DEF BotInv, UpdatesInv
      <4> QED
        BY <1>1, <2>1, <2>2, <3>1, <4>1
    <3>2. CASE ~(p \in posted[n] /\ s \in posted[n])
      <4>1. n = m /\ (p = r \/ s = r) /\ (p # r => p \in posted[m]) /\ (s # r => s \in posted[m])
        BY <1>1, <3>2 DEF TypeOK, BotTypeOK
      <4>2. \A q \in posted[m] : q \in lost \/ req[q].at \in {"error", "died"}
        BY <1>1 DEF Due
      <4>3. PICK q \in {p, s} : q # r
        BY <2>3, <4>1
      <4> QED
        BY <1>1, <2>1, <2>2, <4>1, <4>2, <4>3
    <3> QED
      BY <3>1, <3>2
  <2>4. \A e \in audited' : req'[e[2]].at \in {"replying", "replied", "died"}
    BY <1>1, <2>1, BotTables DEF BotInv, UpdatesInv
  <2> QED
    BY <1>1, <2>3, <2>4 DEF BotInv, UpdatesInv
<1>8. BotOwned'
  BY <1>1, <1>6 DEF BotInv, BotOwned
<1> QED
  BY <1>6, <1>7, <1>8 DEF BotInv

(* An entry and its audit row are committed together, for a user who exists. *)
LEMMA BookCommitKeeps ==
  ASSUME TypeOK, BotInv, NEW r \in Requests, BookCommit(r)
  PROVE  BotInv'
<1>1. /\ req[r].at = "booking" /\ req[r].owner \subseteq Existing
      /\ entries' = entries \cup (req[r].owner \X {r})
      /\ audited' = audited \cup (req[r].owner \X {r})
      /\ UNCHANGED <<userVars, link, posted, lost, shown, sharers>>
  BY DEF BookCommit
<1>2. req[r] \in Booking
  BY <1>1, WorkByStage DEF TypeOK, Work
<1>3. PICK w : w = [req[r] EXCEPT !.at = "replying"]
  OBVIOUS
<1>4. w.at = "replying" /\ Moves(r, w)
  BY <1>2, <1>3 DEF Booking, BookCommit, Move, Moves
<1>5. req'[r] = w /\ \A s \in Requests : s # r => req'[s] = req[s]
  BY <1>4, MovedType
<1>6. CodesInv' /\ LinkersInv' /\ CodeLinksOnce' /\ Linked' = Linked /\ Existing' = Existing
  <2>1. \A s \in Requests : req'[s] = req[s]
           \/ (req[s].at # "linked" /\ req'[s].at \notin LinkStages)
    BY <1>1, <1>4, <1>5 DEF LinkStages
  <2> QED
    BY <1>1, <2>1, LinksFrame
<1>7. UpdatesInv'
  <2>1. \A q \in Requests : req[q].at \in {"error", "died", "replying", "replied"} => req'[q] = req[q]
    BY <1>1, <1>5
  <2>2. \A n \in Updates : \A p, s \in posted'[n] :
          p # s => \E q \in {p, s} : q \in lost' \/ req'[q].at \in {"error", "died"}
    BY <1>1, <2>1, BotTables DEF BotInv, UpdatesInv
  <2>3. \A e \in audited : req'[e[2]].at \in {"replying", "replied", "died"}
    BY <2>1, BotTables DEF BotInv, UpdatesInv
  <2>4. \A e \in req[r].owner \X {r} : req'[e[2]].at = "replying"
    BY <1>4, <1>5
  <2> QED
    BY <1>1, <2>2, <2>3, <2>4 DEF BotInv, UpdatesInv
<1>8. BotOwned'
  BY <1>1, <1>6 DEF BotInv, BotOwned
<1> QED
  BY <1>6, <1>7, <1>8 DEF BotInv

LEMMA AnswersKeep ==
  ASSUME TypeOK, BotInv, NEW r \in Requests, Reply(r) \/ GiveUp(r)
  PROVE  BotInv'
<1>1. UNCHANGED <<userVars, link, entries, audited, posted, shown, sharers>> /\ lost \subseteq lost'
  BY DEF Reply, GiveUp
<1>2. \A s \in Requests : req'[s] = req[s]
         \/ (req[s].at = "replying" /\ req'[s].at = "replied")
  <2>1. CASE Reply(r)
    <3>1. req[r].at = "replying" /\ Moves(r, [at |-> "replied"])
      BY <2>1 DEF Reply, Answers, End, Goto, Moves
    <3>2. req'[r] = [at |-> "replied"] /\ \A s \in Requests : s # r => req'[s] = req[s]
      BY <3>1, MovedType
    <3> QED
      BY <3>1, <3>2
  <2>2. CASE GiveUp(r)
    BY <2>2 DEF GiveUp
  <2> QED
    BY <2>1, <2>2
<1>3. CodesInv' /\ LinkersInv' /\ CodeLinksOnce' /\ Linked' = Linked /\ Existing' = Existing
  <2>1. \A s \in Requests : req'[s] = req[s]
           \/ (req[s].at # "linked" /\ req'[s].at \notin LinkStages)
    BY <1>2 DEF LinkStages
  <2> QED
    BY <1>1, <2>1, LinksFrame
<1>4. UpdatesInv'
  BY <1>1, <1>2, UpdatesFrame DEF BotInv
<1>5. BotOwned'
  BY <1>1, <1>3 DEF BotInv, BotOwned
<1> QED
  BY <1>3, <1>4, <1>5 DEF BotInv

LEMMA CodeExpiresKeeps ==
  ASSUME TypeOK, BotInv, NEW c \in Codes, CodeExpires(c)
  PROVE  BotInv'
<1>1. UNCHANGED <<userVars, req, link, entries, audited, posted, lost, shown, sharers>>
  BY DEF CodeExpires
<1>2. CodesInv' /\ LinkersInv' /\ CodeLinksOnce' /\ Linked' = Linked /\ Existing' = Existing
  BY <1>1, LinksFrame
<1>3. UpdatesInv'
  BY <1>1, UpdatesFrame DEF BotInv
<1>4. BotOwned'
  BY <1>1, <1>2 DEF BotInv, BotOwned
<1> QED
  BY <1>2, <1>3, <1>4 DEF BotInv

LEMMA BotInvNext ==
  ASSUME TypeOK, UploadInv, ExportsInv, BotInv, Existing \cap erased = {}, [Next]_vars
  PROVE  BotInv'
<1>1. CASE NotABotStep
  BY <1>1, BotInvFrame
<1>2. CASE BotSteps
  BY <1>2, RegisterKeepsBot, EraseKeepsBot, CodeCommitKeeps, LinkReadKeeps, LinkCheckKeeps,
     LinkCommitKeeps, DeliverKeeps, BookCommitKeeps, AnswersKeep, CodeExpiresKeeps DEF BotSteps
<1> QED
  BY <1>1, <1>2, BotKinds

-----------------------------------------------------------------------------
(* Requests are moved in an export only by its own two actions, and become    *)
(* linked only by LinkCommit; audit rows stay.                               *)
ExportStages == {"exporting", "exported"}

LEMMA WhoseSteps ==
  ASSUME TypeOK, UploadInv, ExportsInv, [Next]_vars
  PROVE  /\ audited \subseteq audited'
         /\ \A s \in Requests :
              \/ req'[s] = req[s]
              \/ req'[s].at \notin ExportStages \cup {"linked"}
              \/ \E u \in UserIds : ExportRead(s, u)
              \/ ExportSection(s)
              \/ LinkCommit(s)
<1>1. audited \subseteq audited'
  BY StepWrites DEF Quiet, Writes, botVars, Erase, BotCascade, CodeCommit, LinkCommit, Deliver,
     BookCommit, Reply, GiveUp, CodeExpires
<1>2. CASE \E r \in Requests : Arrive(r) \/ Continue(r)
  <2>1. PICK r \in Requests : Arrive(r) \/ Continue(r)
    BY <1>2
  <2>2. \A s \in Requests : s # r => req'[s] = req[s]
    <3>1. \E w \in Work : Moves(r, w)
      BY <2>1, ArrivalMoves, ContinuationMoves
    <3> QED
      BY <3>1, MovedType
  <2>3. \/ req'[r].at \notin ExportStages \cup {"linked"}
        \/ \E u \in UserIds : ExportRead(r, u)
        \/ ExportSection(r)
        \/ LinkCommit(r)
    <3> USE DEF ExportStages, Answered
    <3>1. CASE UserArrives(r) \/ UserContinues(r) \/ Erase(r)
      BY <3>1, Targets
    <3>2. CASE Upload(r)
      BY <3>2, Targets DEF Upload
    <3>3. CASE ImportContinues(r)
      BY <3>3, Targets DEF ImportContinues
    <3>4. CASE (\E u \in UserIds : CodeRead(r, u)) \/ Webhook(r)
      BY <3>4, Targets DEF Webhook
    <3>5. CASE BotContinues(r)
      BY <3>5, Targets DEF BotContinues
    <3> QED
      BY <2>1, <3>1, <3>2, <3>3, <3>4, <3>5 DEF Arrive, Continue
  <2> QED
    BY <1>1, <2>2, <2>3
<1>3. CASE \E r \in Requests : Die(r) /\ UNCHANGED <<importVars, botVars>>
  <2>1. PICK r \in Requests : Die(r)
    BY <1>3
  <2>2. Moves(r, [at |-> "died"])
    BY <2>1 DEF Die, End, Goto, Moves
  <2> QED
    BY <1>1, <2>1, <2>2, MovedType, Targets DEF ExportStages
<1>4. CASE req' = req
  BY <1>1, <1>4
<1> QED
  BY <1>2, <1>3, <1>4 DEF Next, GiveUp, DeleteExpense, CodeExpires, vars

(* A section is read once those before it are, and the audit log last: an     *)
(* expense the export already lists has its row there by then.               *)
LEMMA ExportSectionKeeps ==
  ASSUME TypeOK, UpdatesInv, ExportsInv, NEW r \in Requests, ExportSection(r)
  PROVE  ExportsInv!(r)'
<1>1. req[r].at = "exporting" /\ req[r] \in ExportWork
  BY WorkByStage DEF ExportSection, TypeOK, Work
<1>2. PICK f : f = req[r].file
  OBVIOUS
<1>3. PICK u \in UserIds : u = req[r].user
  BY <1>1 DEF ExportWork
<1>4. PICK n : n = Len(f) + 1
  OBVIOUS
<1>5. /\ f \in Seq(SUBSET (Lines \cup Requests \cup UserIds))
      /\ n \in 1..3 /\ Len(f) = n - 1
  BY <1>1, <1>2, <1>4 DEF ExportsInv, ExportWork
<1>6. n > 1 => \A q \in f[1] \cap Requests : <<u, q>> \in audited
  BY <1>1, <1>2, <1>3, <1>5 DEF ExportsInv
<1>7. PICK s : s = Stored(u, Section[n])
  OBVIOUS
<1>8. Section[1] = "expenses" /\ Section[3] = "audit_log" /\ Len(Section) = 3
  BY DEF Section
<1>9. s \in SUBSET (Lines \cup Requests \cup UserIds)
  BY <1>5, <1>7, StoredType
<1>10. PICK g : g = Append(f, s)
  OBVIOUS
<1>11. Len(g) = n /\ g[n] = s /\ (n > 1 => g[1] = f[1])
  BY <1>5, <1>9, <1>10
<1>12. PICK a : a = IF n = 3 THEN "exported" ELSE "exporting"
  OBVIOUS
<1> DEFINE w == [req[r] EXCEPT !.file = g, !.at = a]
<1>13. w.file = g /\ w.at = a /\ w.user = u
  BY <1>1, <1>3 DEF ExportWork
<1>14. Moves(r, w)
  BY <1>1, <1>2, <1>3, <1>4, <1>7, <1>8, <1>10, <1>12 DEF ExportSection, Goto, Moves
<1> HIDE DEF w
<1>15. req'[r] = w /\ audited' = audited
  BY <1>14, MovedType DEF ExportSection, botVars
<1>16. \A q \in g[1] \cap Requests : <<u, q>> \in audited
  <2>1. CASE n = 1
    <3>1. s = Imported(u) \cup {q \in Requests : <<u, q>> \in entries}
      BY <1>7, <1>8, <2>1 DEF Stored
    <3>2. Imported(u) \cap Requests = {}
      BY ItemsAssumption DEF Imported
    <3> QED
      BY <1>11, <2>1, <3>1, <3>2 DEF UpdatesInv
  <2>2. CASE n > 1
    BY <1>6, <1>11, <2>2
  <2> QED
    BY <1>5, <2>1, <2>2
<1>17. CASE n = 3
  <2>1. s = {q \in Requests : <<u, q>> \in audited}
    BY <1>7, <1>8, <1>17 DEF Stored
  <2>2. w.at = "exported" /\ Len(w.file) = 3 /\ w.file[1] \cap Requests \subseteq w.file[3]
    BY <1>11, <1>12, <1>13, <1>16, <1>17, <2>1
  <2> QED
    BY <1>15, <2>2
<1>18. CASE n # 3
  <2>1. /\ w.at = "exporting" /\ Len(w.file) < 3
        /\ \A q \in w.file[1] \cap Requests : <<w.user, q>> \in audited
    BY <1>5, <1>11, <1>12, <1>13, <1>16, <1>18
  <2> QED
    BY <1>15, <2>1
<1> QED
  BY <1>17, <1>18

LEMMA ExportsInvNext ==
  ASSUME TypeOK, UploadInv, UpdatesInv, ExportsInv, [Next]_vars
  PROVE  ExportsInv'
<1> SUFFICES ASSUME NEW r \in Requests
             PROVE  ExportsInv!(r)'
  BY DEF ExportsInv
<1>1. audited \subseteq audited'
  BY WhoseSteps
<1>2. CASE req'[r] = req[r]
  BY <1>1, <1>2 DEF ExportsInv
<1>3. CASE req'[r].at \notin ExportStages
  BY <1>3 DEF ExportStages
<1>4. CASE \E u \in UserIds : ExportRead(r, u)
  <2>1. PICK u \in UserIds : ExportRead(r, u)
    BY <1>4
  <2>2. Moves(r, [at |-> "exporting", user |-> u, file |-> <<>>])
    BY <2>1 DEF ExportRead, Begin, Goto, Moves
  <2>3. req'[r].at = "exporting" /\ req'[r].file = <<>>
    BY <2>2, MovedType
  <2> QED
    BY <2>3
<1>5. CASE ExportSection(r)
  BY <1>5, ExportSectionKeeps
<1>6. CASE LinkCommit(r)
  BY <1>3, <1>6, Targets DEF ExportStages
<1> QED
  BY <1>2, <1>3, <1>4, <1>5, <1>6, WhoseSteps

-----------------------------------------------------------------------------
(* An id is never given again: who registers gets one nobody has had.        *)
LEMMA ErasedStayErased ==
  ASSUME TypeOK, Existing \cap erased = {}, [Next]_vars
  PROVE  (Existing \cap erased)' = {}
<1> USE DEF Existing, userVars
<1>1. CASE \E r \in Requests, u \in UserIds : RegisterCommit(r, u)
  <2>1. PICK r \in Requests, u \in UserIds : RegisterCommit(r, u)
    BY <1>1
  <2>2. DOMAIN users' = DOMAIN users \cup {u} /\ erased' = erased /\ u \notin erased
    BY <2>1 DEF RegisterCommit, Known
  <2> QED
    BY <2>2
<1>2. CASE \E r \in Requests : Erase(r)
  <2>1. PICK r \in Requests : Erase(r)
    BY <1>2
  <2>2. DOMAIN users' = DOMAIN users \ {req[r].user} /\ erased' = erased \cup {req[r].user}
    BY <2>1 DEF Erase, EraseCommit
  <2> QED
    BY <2>2
<1>3. CASE UNCHANGED userVars
  BY <1>3
<1> QED
  BY <1>1, <1>2, <1>3, StepWrites
     DEF Quiet, Writes, UploadCommit, CodeCommit, LinkCommit, Deliver, BookCommit, Reply,
         GiveUp, DeleteExpense, CodeExpires

LEMMA TypeOKNext ==
  ASSUME IInv, [Next]_vars
  PROVE  TypeOK'
<1>1. TypeOK /\ UploadInv /\ CodesInv /\ ExportsInv
  BY DEF IInv, ImportInv, BotInv
<1>2. req \in [Requests -> Work]
  BY <1>1 DEF TypeOK, Work
<1>3. req' \in [Requests -> Work]
  <2>1. CASE req' = req
    BY <1>2, <2>1
  <2>2. CASE \E r \in Requests, w \in Work : Moves(r, w) /\ req[r].at \notin Ended
    BY <1>1, <2>2, MovedType
  <2> QED
    BY <1>1, <2>1, <2>2, StepMoves
<1> QED
  BY <1>1, <1>3, UsersTypeNext, ImportTypeNext, BotTypeNext DEF TypeOK, Work

LEMMA NextIInv ==
  ASSUME IInv, [Next]_vars
  PROVE  IInv'
<1>1. /\ TypeOK /\ Existing \cap erased = {} /\ ImportInv /\ BotInv /\ ExportsInv
      /\ UploadInv /\ UpdatesInv
  BY DEF IInv, ImportInv, BotInv
<1>2. TypeOK'
  BY TypeOKNext
<1>3. (Existing \cap erased)' = {}
  BY <1>1, ErasedStayErased
<1>4. ImportInv'
  BY <1>1, ImportInvNext
<1>5. BotInv'
  BY <1>1, BotInvNext
<1>6. ExportsInv'
  BY <1>1, ExportsInvNext
<1> QED
  BY <1>2, <1>3, <1>4, <1>5, <1>6 DEF IInv

(* Nothing is uploaded, entered or asked for yet, and some users have a code  *)
(* or a chat already.                                                        *)
LEMMA InitIInv ==
  ASSUME Init
  PROVE  IInv
<1> USE DEF Init, UsersInit, ImportInit, BotInit, Existing, Linked
<1>1. DOMAIN users = Registered /\ users \in [Registered -> Emails]
  BY RegisteredAssumption
<1>2. \A r \in Requests : req[r].at = "idle"
  OBVIOUS
<1>3. UsersTypeOK
  BY <1>1, RegisteredAssumption DEF UsersTypeOK, OneAccountPerAddress
<1>4. ImportTypeOK
  BY FilesAssumption DEF ImportTypeOK
<1>5. /\ Linked \subseteq Registered /\ link \in [Linked -> Row]
      /\ \A u, v \in Linked : u # v => link[u].code # link[v].code \/ link[u].code = NoCode
  BY FirstLinksAssumption DEF Row
<1>6. /\ shown \subseteq Codes
      /\ \A u \in Linked : link[u].code # NoCode => link[u].code \in shown
  BY <1>5 DEF Row
<1>7. BotTypeOK
  BY <1>5, <1>6, RegisteredAssumption DEF BotTypeOK
<1>8. TypeOK
  <2>1. [at |-> "idle"] \in Work
    BY AnswerIsWork
  <2>2. req \in [Requests -> Work]
    BY <2>1
  <2> QED
    BY <1>3, <1>4, <1>7, <2>2 DEF TypeOK, Work
<1>9. Existing \cap erased = {}
  OBVIOUS
<1>10. ImportInv
  <2>1. \A u \in UserIds : Imported(u) = {} /\ deleted[u] = 0
    BY DEF Imported
  <2>2. UploadInv /\ OneHolder /\ UploadedIsThere
    BY <1>2 DEF UploadInv, OneHolder, UploadedIsThere, InFlight
  <2>3. Countable /\ ImportOwned
    BY <2>1, FS_EmptySet DEF Countable, ImportOwned
  <2>4. ReceiptsAddUp
    <3> SUFFICES ASSUME NEW u \in Existing
                 PROVE  SumFunctionOnSet(Inserted, ReceiptsOf(u))
                          = Cardinality(Imported(u)) + deleted[u]
      BY DEF ReceiptsAddUp
    <3>1. u \in UserIds
      BY <1>1, RegisteredAssumption
    <3>2. ReceiptsOf(u) = {}
      BY DEF ReceiptsOf
    <3>3. PICK W : W = Inserted
      OBVIOUS
    <3>4. SumFunctionOnSet(W, {}) = 0
      BY SumEmpty
    <3> QED
      BY <2>1, <3>1, <3>2, <3>3, <3>4, FS_EmptySet
  <2> QED
    BY <2>2, <2>3, <2>4 DEF ImportInv
<1>11. BotInv
  <2>1. \A c \in Codes : sharers[c] = {}
    OBVIOUS
  <2>2. CodesInv
    BY <1>5, <1>6, <2>1 DEF CodesInv
  <2>3. LinkersInv /\ CodeLinksOnce
    BY <1>2 DEF LinkersInv, CodeLinksOnce
  <2>4. UpdatesInv
    BY DEF UpdatesInv
  <2>5. BotOwned
    BY <1>1, <1>5 DEF BotOwned
  <2> QED
    BY <2>2, <2>3, <2>4, <2>5 DEF BotInv
<1>12. ExportsInv
  BY <1>2 DEF ExportsInv
<1> QED
  BY <1>8, <1>9, <1>10, <1>11, <1>12 DEF IInv

-----------------------------------------------------------------------------
(* What holds in every state: the components' invariants, whichever of their  *)
(* requests run at once.                                                     *)
THEOREM Invariance == Spec => []IInv
<1>1. Init => IInv
  BY InitIInv
<1>2. IInv /\ [Next]_vars => IInv'
  BY NextIInv
<1> QED
  BY <1>1, <1>2, PTL DEF Spec

(* Every table and every request has its type; two registrations that race    *)
(* for one address never both get an account.                                *)
THEOREM TypeCorrect == Spec => []TypeOK
<1>1. IInv => TypeOK
  BY DEF IInv
<1> QED
  BY <1>1, Invariance, PTL

(* Erasure leaves no row, receipt, link or entry of the user, whatever was in *)
(* flight when he went.                                                      *)
THEOREM NothingLeft == Spec => []NothingLeftBehind
<1>1. IInv => NothingLeftBehind
  BY DEF IInv, ImportInv, ImportOwned, BotInv, BotOwned, NothingLeftBehind
<1> QED
  BY <1>1, Invariance, PTL

(* An upload that was answered has all its lines in the database, those that  *)
(* a racing upload inserted and those that were there before too.            *)
THEOREM UploadsComplete == Spec => []UploadedIsThere
<1>1. IInv => UploadedIsThere
  BY DEF IInv, ImportInv
<1> QED
  BY <1>1, Invariance, PTL

(* Racing uploads count every line once: the receipts add up to the rows.    *)
THEOREM ReceiptsSum == Spec => []ReceiptsAddUp
<1>1. IInv => ReceiptsAddUp
  BY DEF IInv, ImportInv
<1> QED
  BY <1>1, Invariance, PTL

(* A link code is used again only by who had read it before its first use.   *)
THEOREM CodesOnce == Spec => []CodeLinksOnce
<1>1. IInv => CodeLinksOnce
  BY DEF IInv, BotInv
<1> QED
  BY <1>1, Invariance, PTL

(* Of two deliveries of one update that both booked it, Telegram gave up on    *)
(* one or its worker died after the commit.                                  *)
THEOREM BookedAtMostOnce == Spec => []BookedOnce
<1>1. IInv => BookedOnce
  <2> SUFFICES ASSUME IInv, NEW m \in Updates, NEW r \in posted[m], NEW s \in posted[m], r # s,
                      \E u \in UserIds : <<u, r>> \in audited,
                      \E u \in UserIds : <<u, s>> \in audited
               PROVE  \E q \in {r, s} : q \in lost \/ req[q].at = "died"
    BY DEF BookedOnce
  <2>1. UpdatesInv
    BY DEF IInv, BotInv
  <2>2. \E q \in {r, s} : q \in lost \/ req[q].at \in {"error", "died"}
    BY <2>1 DEF UpdatesInv
  <2>3. req[r].at # "error" /\ req[s].at # "error"
    BY <2>1 DEF UpdatesInv
  <2> QED
    BY <2>2, <2>3
<1> QED
  BY <1>1, Invariance, PTL

(* An export lists no hand-made expense without its row of the audit log.    *)
THEOREM ExportsConsistent == Spec => []ExportIsConsistent
<1>1. IInv => ExportIsConsistent
  <2> SUFFICES ASSUME IInv, NEW r \in Requests, req[r].at = "exported"
               PROVE  Listed(r, "expenses") \cap Requests \subseteq Listed(r, "audit_log")
    BY DEF ExportIsConsistent
  <2>1. DOMAIN Section = 1..3 /\ Section[1] = "expenses" /\ Section[2] = "telegram"
        /\ Section[3] = "audit_log"
    BY DEF Section
  <2>2. 1 = CHOOSE i \in DOMAIN Section : Section[i] = "expenses"
    BY <2>1
  <2>3. 3 = CHOOSE i \in DOMAIN Section : Section[i] = "audit_log"
    BY <2>1
  <2>4. Listed(r, "expenses") = req[r].file[1] /\ Listed(r, "audit_log") = req[r].file[3]
    BY <2>2, <2>3 DEF Listed
  <2> QED
    BY <2>4 DEF IInv, ExportsInv
<1> QED
  BY <1>1, Invariance, PTL

(* The chat that is told "Linked!" is the owner's from that moment, unless it *)
(* was his before and another chat used the same code meanwhile.             *)
THEOREM ToldLinked == Spec => ToldLinkedIsLinked
<1> DEFINE Told(r) ==
      req[r].at # "linked" /\ req'[r].at = "linked" =>
         \/ link'[req[r].user].chat = req[r].chat
         \/ req[r].loaded = req[r].chat /\ \E s \in Requests \ {r} :
              req[s].at = "linked" /\ req[s].user = req[r].user
<1>1. ASSUME IInv, [Next]_vars, NEW r \in Requests
      PROVE  Told(r)
  <2>1. TypeOK /\ UploadInv /\ ExportsInv /\ LinkersInv
    BY <1>1 DEF IInv, ImportInv, BotInv
  <2>2. CASE req'[r] = req[r] \/ req'[r].at # "linked"
    BY <2>2
  <2>3. CASE (\E u \in UserIds : ExportRead(r, u)) \/ ExportSection(r)
    BY <2>1, <2>3, Targets
  <2>4. CASE LinkCommit(r)
    <3>1. PICK u : u = req[r].user
      OBVIOUS
    <3>2. u \in Linked /\ link' = [link EXCEPT ![u] = Updated(r, @)] /\ req[r].at = "binding"
      BY <2>4, <3>1 DEF LinkCommit, CanBind
    <3>3. link'[u].chat = IF req[r].loaded = req[r].chat THEN link[u].chat ELSE req[r].chat
      BY <2>1, <3>2 DEF Updated, Linked, TypeOK, BotTypeOK
    <3>4. \/ link[u].chat = req[r].loaded
          \/ \E s \in Requests \ {r} : req[s].at = "linked" /\ req[s].user = u
      BY <2>1, <3>1, <3>2 DEF LinkersInv
    <3> QED
      BY <3>1, <3>3, <3>4
  <2> QED
    BY <1>1, <2>1, <2>2, <2>3, <2>4, WhoseSteps
<1>2. IInv /\ [Next]_vars => [\A r \in Requests : Told(r)]_<<link, req>>
  BY <1>1
<1> QED
  BY <1>2, Invariance, PTL DEF Spec, ToldLinkedIsLinked
=============================================================================
