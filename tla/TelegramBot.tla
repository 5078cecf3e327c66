---------------------------- MODULE TelegramBot ----------------------------
(***************************************************************************)
(* The Telegram bot (backend/telegram): codes that link a chat to a user,    *)
(* and updates that Telegram posts to the webhook again and again until one  *)
(* is answered 200.  The row of a user in telegram_links is loaded, changed  *)
(* and flushed: the UPDATE goes by primary key and writes only the columns   *)
(* that differ from what was loaded.                                         *)
(***************************************************************************)
EXTENDS UserRecords

CONSTANTS
  Chats, NoChat,   \* chats, and a row not linked to one
  Codes, NoCode,   \* the codes that can be generated, and a row without one
  FirstLinks,      \* the tables telegram_links a run can begin with
  Updates,         \* /add_expense updates
  Sender           \* the chat each update comes from

ASSUME SenderAssumption ==
  /\ Sender \in [Updates -> Chats]
  /\ NoChat \notin Chats /\ NoCode \notin Codes

VARIABLES
  link,      \* telegram_links: chat_id and link_code of the users with a row
  lapsed,    \* codes whose code_expires_at has passed
  entries,   \* expenses entered by the bot: the user and the request
  audited,   \* their CREATE rows in the audit log
  acked,     \* updates Telegram has seen answered 200
  posted,    \* the requests each update was posted by
  lost,      \* of these, the ones Telegram stopped waiting for
  (* History, read by the properties only. *)
  shown,     \* codes generated so far
  sharers    \* requests that had read a code when it was first used

botVars == <<link, lapsed, entries, audited, acked, posted, lost, shown, sharers>>

Linked == DOMAIN link
Row == [chat : Chats \cup {NoChat}, code : Codes \cup {NoCode}]

(* The unique indexes of telegram_links, and its foreign key to users.       *)
ASSUME FirstLinksAssumption ==
  \A t \in FirstLinks :
    /\ DOMAIN t \subseteq Registered
    /\ t \in [DOMAIN t -> [chat : Chats \cup {NoChat}, code : Codes \cup {NoCode}]]
    /\ \A u, v \in DOMAIN t :
         u # v => /\ t[u].chat # t[v].chat \/ t[u].chat = NoChat
                  /\ t[u].code # t[v].code \/ t[u].code = NoCode

BotWork ==
  [at : {"coding"}, user : UserIds, had : BOOLEAN]
    \cup [at : {"linking", "binding"}, user : UserIds, chat : Chats, code : Codes,
          loaded : Chats \cup {NoChat}]
    \cup [at : {"linked"}, user : UserIds, chat : Chats, code : Codes]
    \cup [at : {"booking", "replying"}, update : Updates, owner : SUBSET UserIds]

BotTypeOK ==
  /\ Linked \subseteq UserIds
  /\ link \in [Linked -> Row]
  /\ lapsed \subseteq shown /\ shown \subseteq Codes
  /\ entries \subseteq UserIds \X Requests
  /\ audited \subseteq UserIds \X Requests
  /\ acked \subseteq Updates /\ lost \subseteq Requests
  /\ posted \in [Updates -> SUBSET Requests]
  /\ sharers \in [Codes -> SUBSET Requests]

BotInit ==
  /\ link \in FirstLinks
  /\ shown = {link[u].code : u \in Linked} \ {NoCode}
  /\ lapsed = {} /\ entries = {} /\ audited = {} /\ acked = {} /\ lost = {}
  /\ posted = [m \in Updates |-> {}]
  /\ sharers = [c \in Codes |-> {}]

-----------------------------------------------------------------------------
(* create_link_code: the user's row is read, then inserted or updated with a *)
(* new code.  An insert that finds a row (unique user_id) or no user, and an *)
(* update that finds no row, is a 500.                                       *)
CodeRead(r, u) ==
  /\ u \in Existing
  /\ Begin(r, [at |-> "coding", user |-> u, had |-> u \in Linked])
  /\ UNCHANGED <<userVars, botVars>>

CanStore(r) ==
  IF req[r].had THEN req[r].user \in Linked
                ELSE req[r].user \in Existing \ Linked

CodeCommit(r, c) ==
  /\ req[r].at = "coding" /\ CanStore(r)
  /\ c \notin shown
  /\ LET chat == IF req[r].had THEN link[req[r].user].chat ELSE NoChat IN
       link' = [v \in Linked \cup {req[r].user} |->
                  IF v = req[r].user THEN [chat |-> chat, code |-> c] ELSE link[v]]
  /\ shown' = shown \cup {c}
  /\ End(r, "coded")
  /\ UNCHANGED <<userVars, lapsed, entries, audited, acked, posted, lost, sharers>>

CodeFails(r) ==
  /\ req[r].at = "coding" /\ ~CanStore(r)
  /\ End(r, "error")
  /\ UNCHANGED <<userVars, botVars>>

CodeExpires(c) ==
  /\ \E u \in Linked : link[u].code = c
  /\ c \notin lapsed
  /\ lapsed' = lapsed \cup {c}
  /\ UNCHANGED <<userVars, req, link, entries, audited, acked, posted, lost, shown, sharers>>

-----------------------------------------------------------------------------
(* link_chat: the row with the code, then the row with the chat.             *)
Redeemable(c) == c \notin lapsed /\ \E u \in Linked : link[u].code = c

LinkRead(r, chat, c) ==
  /\ Redeemable(c)
  /\ LET u == CHOOSE v \in Linked : link[v].code = c IN
       Begin(r, [at |-> "linking", user |-> u, chat |-> chat, code |-> c,
                 loaded |-> link[u].chat])
  /\ UNCHANGED <<userVars, botVars>>

BoundToAnother(r) ==
  \E v \in Linked \ {req[r].user} : link[v].chat = req[r].chat

LinkCheck(r) ==
  /\ req[r].at = "linking"
  /\ IF BoundToAnother(r) THEN End(r, "informed") ELSE Move(r, "binding")
  /\ UNCHANGED <<userVars, botVars>>

(* The row as the UPDATE leaves it, over the row as it is by then.           *)
FirstChatStays(r, old) ==
  [chat |-> IF req[r].loaded # NoChat THEN old.chat ELSE req[r].chat, code |-> NoCode]
CodeStays(r, old) ==
  [chat |-> IF req[r].loaded = req[r].chat THEN old.chat ELSE req[r].chat,
   code |-> old.code]
Updated(r, old) ==
  [chat |-> IF req[r].loaded = req[r].chat THEN old.chat ELSE req[r].chat,
   code |-> NoCode]

(* The unique chat_id, and the row an UPDATE must find.                      *)
CanBind(r) ==
  /\ req[r].user \in Linked
  /\ BoundToAnother(r) => req[r].loaded = req[r].chat

Sharing(c) == {s \in Requests : req[s].at \in {"linking", "binding"} /\ req[s].code = c}

LinkCommit(r) ==
  /\ req[r].at = "binding" /\ CanBind(r)
  /\ link' = [link EXCEPT ![req[r].user] = Updated(r, @)]
  /\ sharers' = [sharers EXCEPT ![req[r].code] = IF @ = {} THEN Sharing(req[r].code) ELSE @]
  /\ Goto(r, [at |-> "linked", user |-> req[r].user, chat |-> req[r].chat,
               code |-> req[r].code])
  /\ UNCHANGED <<userVars, lapsed, entries, audited, acked, posted, lost, shown>>

LinkFails(r) ==
  /\ req[r].at = "binding" /\ ~CanBind(r)
  /\ End(r, "error")
  /\ UNCHANGED <<userVars, botVars>>

(* A wrong or expired code, /help, /summary and anything else: no write.     *)
Inform(r) ==
  /\ Begin(r, [at |-> "informed"])
  /\ UNCHANGED <<userVars, botVars>>

-----------------------------------------------------------------------------
(* Telegram posts an update again when the answer was not a 200, or when it  *)
(* has stopped waiting for one.                                              *)
Due(m) ==
  /\ m \notin acked
  /\ \A s \in posted[m] : s \in lost \/ req[s].at \in {"error", "died"}

(* handle_update and resolve_user; a chat without a link is only answered.   *)
Deliver(r, m) ==
  /\ Due(m)
  /\ LET owner == {u \in Linked : link[u].chat = Sender[m]} IN
       Begin(r, [at |-> IF owner = {} THEN "replying" ELSE "booking",
                 update |-> m, owner |-> owner])
  /\ posted' = [posted EXCEPT ![m] = @ \cup {r}]
  /\ UNCHANGED <<userVars, link, lapsed, entries, audited, acked, lost, shown, sharers>>

(* create_expense: the expense and its audit row in one commit.              *)
BookCommit(r) ==
  /\ req[r].at = "booking"
  /\ req[r].owner \subseteq Existing
  /\ entries' = entries \cup (req[r].owner \X {r})
  /\ audited' = audited \cup (req[r].owner \X {r})
  /\ Move(r, "replying")
  /\ UNCHANGED <<userVars, link, lapsed, acked, posted, lost, shown, sharers>>

BookFails(r) ==
  /\ req[r].at = "booking"
  /\ ~(req[r].owner \subseteq Existing)
  /\ End(r, "error")
  /\ UNCHANGED <<userVars, botVars>>

(* send_message is done, or has raised TelegramUnavailable: 200 both ways.   *)
AnswersIfSent(r) == {"replied", "error"}
Answers(r) == {"replied"}

Reply(r) ==
  /\ req[r].at = "replying"
  /\ \E a \in Answers(r) :
       /\ End(r, a)
       /\ acked' = acked \cup {m \in {req[r].update} : a = "replied" /\ r \notin lost}
  /\ UNCHANGED <<userVars, link, lapsed, entries, audited, posted, lost, shown,
                 sharers>>

(* The client gives up on the answer before it comes.                        *)
GiveUp(r) ==
  /\ req[r].at \in {"booking", "replying"}
  /\ lost' = lost \cup {r}
  /\ UNCHANGED <<userVars, req, link, lapsed, entries, audited, acked, posted,
                 shown, sharers>>

Webhook(r) ==
  \/ \E chat \in Chats, c \in Codes : LinkRead(r, chat, c)
  \/ \E m \in Updates : Deliver(r, m)
  \/ Inform(r)

BotContinues(r) ==
  \/ \E c \in Codes : CodeCommit(r, c)
  \/ CodeFails(r)
  \/ LinkCheck(r) \/ LinkCommit(r) \/ LinkFails(r)
  \/ BookCommit(r) \/ BookFails(r) \/ Reply(r)

BotCascade(u) ==
  /\ link' = [v \in Linked \ {u} |-> link[v]]
  /\ entries' = {e \in entries : e[1] # u}
  /\ UNCHANGED <<lapsed, audited, acked, posted, lost, shown, sharers>>

-----------------------------------------------------------------------------
(* A one-time code is used a second time only by a request that had read it  *)
(* before it was first used.                                                 *)
CodeLinksOnce ==
  \A r \in Requests : req[r].at = "linked" => r \in sharers[req[r].code]

(* A chat that is told "Linked!" is the chat of the code's owner, unless it  *)
(* was his chat before and another chat used the same code meanwhile.        *)
ToldLinkedIsLinked ==
  [][\A r \in Requests : req[r].at # "linked" /\ req'[r].at = "linked" =>
       \/ link'[req[r].user].chat = req[r].chat
       \/ req[r].loaded = req[r].chat /\ \E s \in Requests \ {r} :
            req[s].at = "linked" /\ req[s].user = req[r].user]_<<link, req>>

(* An update is booked twice only if Telegram stopped waiting for one of the *)
(* two deliveries, or its worker died after the commit.                      *)
BookedOnce ==
  \A m \in Updates : \A r, s \in {q \in posted[m] : \E u \in UserIds : <<u, q>> \in audited} :
    r # s => \E q \in {r, s} : q \in lost \/ req[q].at = "died"
-----------------------------------------------------------------------------
(* The inductive strengthening.  A code is in one row at most, and once it    *)
(* was used in none: the requests that still carry it had read it before.    *)
CodesInv ==
  /\ \A u \in Linked : link[u].code # NoCode => link[u].code \in shown
  /\ \A u, v \in Linked : link[u].code = link[v].code /\ u # v => link[u].code = NoCode
  /\ \A c \in Codes : sharers[c] # {} =>
       /\ c \in shown
       /\ \A u \in Linked : link[u].code # c
       /\ Sharing(c) \subseteq sharers[c]

(* The row a request has loaded is still its user's, and its chat changes     *)
(* only under another request that links it.                                 *)
LinkersInv ==
  \A r \in Requests : req[r].at \in {"linking", "binding"} =>
    /\ req[r].code \in shown
    /\ \A u \in Linked : link[u].code = req[r].code => u = req[r].user
    /\ req[r].user \in Linked \cup erased
    /\ req[r].user \in Linked =>
         \/ link[req[r].user].chat = req[r].loaded
         \/ \E s \in Requests \ {r} : req[s].at = "linked" /\ req[s].user = req[r].user

(* An update is in one live request at most, and only requests that got past  *)
(* the commit have an audit row.                                             *)
UpdatesInv ==
  /\ \A m \in Updates : \A r, s \in posted[m] :
       r # s => \E q \in {r, s} : q \in lost \/ req[q].at \in {"error", "died"}
  /\ entries \subseteq audited
  /\ \A e \in audited : req[e[2]].at \in {"replying", "replied", "died"}

BotOwned ==
  /\ \A e \in entries : e[1] \in Existing
  /\ Linked \subseteq Existing

BotInv == CodesInv /\ LinkersInv /\ UpdatesInv /\ BotOwned /\ CodeLinksOnce
=============================================================================
