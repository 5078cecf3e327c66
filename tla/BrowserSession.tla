--------------------------- MODULE BrowserSession ---------------------------
(***************************************************************************)
(* The web client's session (frontend/src/lib/api.ts and auth.ts) against   *)
(* the server of RefreshTokens.  Tabs of one browser share localStorage;     *)
(* each tab runs its own copy of the modules, so refreshInFlight is per tab. *)
(* A call reads the stored token, travels, is served by RefreshTokens, and   *)
(* its answer changes the storage when it comes back; in between the user    *)
(* and the other tabs go on.                                               *)
(***************************************************************************)
EXTENDS RefreshTokens, Naturals

CONSTANTS
  Tabs,       \* tabs open on the application
  MaxBroken   \* bound: calls of a run that end without a proper answer

ASSUME MaxBrokenAssumption == MaxBroken \in Nat

VARIABLES
  stored,     \* localStorage: the refresh token, NoToken when logged out
  call,       \* what each request was sent for, by which tab, with what token
  waiting,    \* requests whose promise has not settled
  broken,     \* calls that ended without a proper answer
  (* History, read by the properties only. *)
  crossed,    \* two calls have been in flight at once
  loggedOut,  \* the user's last finished wish: TRUE from a logout to a login
  replaced    \* tokens of a live session that a second login overwrote

client == <<stored, call, waiting, broken, crossed, loggedOut, replaced>>
server == vars
allVars == <<server, client>>

NoCall == [kind |-> "none"]

Refreshing(b) == {r \in waiting : call[r].kind = "refresh" /\ call[r].tab = b}

ClientInit ==
  /\ Init
  /\ stored = NoToken
  /\ call = [r \in Requests |-> NoCall]
  /\ waiting = {}
  /\ broken = 0
  /\ crossed = FALSE /\ loggedOut = TRUE /\ replaced = {}

-----------------------------------------------------------------------------
(* The client sends a call with the token it read; another one in flight     *)
(* crosses it.                                                               *)
Send(r, kind, b, t) ==
  /\ call[r] = NoCall
  /\ call' = [call EXCEPT ![r] = [kind |-> kind, tab |-> b, token |-> t]]
  /\ waiting' = waiting \cup {r}
  /\ crossed' = (crossed \/ waiting # {})
  /\ UNCHANGED <<server, stored, broken, replaced>>

(* onLogin / onVerify: the login page, one submission at a time.  It does    *)
(* not ask whether the browser is logged in already.                         *)
BeginLogin(r, b) ==
  /\ \A s \in waiting : ~(call[s].kind = "login" /\ call[s].tab = b)
  /\ Send(r, "login", b, NoToken)
  /\ UNCHANGED loggedOut

(* request: a 401, then refreshOnce.  A refresh in flight in this tab is     *)
(* joined, and without a stored token doRefresh returns null: no step.       *)
Joins(b) == Refreshing(b) # {}

BeginRefresh(r, b) ==
  /\ stored # NoToken
  /\ ~Joins(b)
  /\ Send(r, "refresh", b, stored)
  /\ UNCHANGED loggedOut

(* logout: reads the token and calls the server. *)
BeginLogout(r, b) ==
  /\ stored # NoToken
  /\ Send(r, "logout", b, stored)
  /\ UNCHANGED loggedOut

(* The request reaches the server. *)
Deliver(r) ==
  /\ call[r] # NoCall
  /\ \/ call[r].kind = "login" /\ \E t \in Tokens : Login(r, t)
     \/ /\ call[r].kind = "refresh"
        /\ LET t == call[r].token IN
             RefreshReject(r, t) \/ RefreshReuse(r, t) \/ RefreshAccept(r, t)
     \/ /\ call[r].kind = "logout"
        /\ LET t == call[r].token IN LogoutIgnore(r, t) \/ LogoutRead(r, t)
  /\ UNCHANGED client

Serve(r) == Continue(r) /\ UNCHANGED client

(* Another disruption of the run. *)
Breaks == broken < MaxBroken /\ broken' = broken + 1

(* The server answers 5xx. *)
ServerFails(r) == Fail(r) /\ Breaks /\ UNCHANGED <<stored, call, waiting, crossed, loggedOut, replaced>>

-----------------------------------------------------------------------------
(* The answers as the client sees them. *)
Settled(r) == waiting' = waiting \ {r}
Quietly == UNCHANGED <<server, call, crossed>>

(* res.ok: setTokens replaces both tokens. *)
NewTokensAccessOnly(r) == IF stored = NoToken THEN child[r] ELSE stored
NewTokens(r) == child[r]

TokensArrive(r) ==
  /\ r \in waiting
  /\ req[r] = "tokens"
  /\ stored' = NewTokens(r)
  /\ loggedOut' = (call[r].kind # "login" /\ loggedOut)
  /\ replaced' = replaced \cup
       {t \in issued : t = stored /\ call[r].kind = "login"}
  /\ Settled(r)
  /\ Quietly /\ UNCHANGED broken

(* doRefresh, !res.ok: clearTokens, whatever the status. *)
RefreshRefused(r) ==
  /\ r \in waiting /\ call[r].kind = "refresh"
  /\ req[r] \in {"invalid", "reuse", "failed"}
  /\ stored' = NoToken
  /\ Settled(r)
  /\ Quietly /\ UNCHANGED <<broken, loggedOut, replaced>>

(* logout: any answer will do, clearTokens. *)
LogoutDone(r) ==
  /\ r \in waiting /\ call[r].kind = "logout"
  /\ req[r] \in {"loggedOut", "failed"}
  /\ stored' = NoToken
  /\ loggedOut' = TRUE
  /\ Settled(r)
  /\ Quietly /\ UNCHANGED <<broken, replaced>>

(* fetch rejects, before or after the server acted.  A refresh keeps the     *)
(* tokens and throws, a login shows the error, logout clears the tokens.     *)
NetworkError(r) ==
  /\ r \in waiting
  /\ Breaks
  /\ IF call[r].kind = "logout"
       THEN stored' = NoToken /\ loggedOut' = TRUE
       ELSE UNCHANGED <<stored, loggedOut>>
  /\ Settled(r)
  /\ Quietly /\ UNCHANGED replaced

(* The tab is closed or reloaded: its promises are gone. *)
Unload(b) ==
  /\ \E r \in waiting : call[r].tab = b
  /\ Breaks
  /\ waiting' = {r \in waiting : call[r].tab # b}
  /\ UNCHANGED <<stored, loggedOut, replaced>>
  /\ Quietly

TokenExpires(t) == Expire(t) /\ UNCHANGED client

-----------------------------------------------------------------------------
User(r, b) == BeginLogin(r, b) \/ BeginRefresh(r, b) \/ BeginLogout(r, b)
Answer(r) == TokensArrive(r) \/ RefreshRefused(r) \/ LogoutDone(r)
Progress(r) == Deliver(r) \/ Serve(r) \/ Answer(r)

ClientNext ==
  \/ \E r \in Requests, b \in Tabs : User(r, b)
  \/ \E r \in Requests : Progress(r) \/ ServerFails(r) \/ NetworkError(r)
  \/ \E b \in Tabs : Unload(b)
  \/ \E t \in Tokens : TokenExpires(t)

ClientSpec == ClientInit /\ [][ClientNext]_allVars

-----------------------------------------------------------------------------
(* A session is lost to a refused refresh only if the token expired, or the  *)
(* refresh crossed another call, or an earlier call ended without an answer. *)
NoSpuriousLogout ==
  \A r \in Requests :
    call[r].kind = "refresh" /\ req[r] \in {"invalid", "reuse"} =>
      arg[r] \in expired \/ crossed \/ broken > 0

(* When nothing is in flight, nothing crossed and nothing broke, the token   *)
(* in the storage is the one exchangeable token the server knows: after a    *)
(* logout there is none, but for sessions a second login left behind.        *)
BrowserAndServerAgree ==
  waiting = {} /\ ~crossed /\ broken = 0 =>
    /\ issued \ (consumed \cup revoked \cup expired) \subseteq {stored} \cup replaced
    /\ stored \in {NoToken} \cup expired \cup {t \in issued : Fresh(t)}
    /\ loggedOut => stored = NoToken

(* api.ts 111-112: "Clear local tokens no matter what so the user always     *)
(* gets logged out."  Once a logout has finished, only a login puts tokens   *)
(* back.                                                                     *)
LogoutSticks == loggedOut => stored = NoToken

-----------------------------------------------------------------------------
(* The inductive invariant.  While nothing crossed and nothing broke, one     *)
(* call is in flight at most, and the browser and the server agree but for    *)
(* what that call has done already.                                          *)
Exchangeable == issued \ (consumed \cup revoked \cup expired)

ClientTypeOK ==
  /\ stored \in issued \cup {NoToken} /\ replaced \subseteq issued
  /\ call \in [Requests -> {NoCall} \cup [kind : {"login", "refresh", "logout"}, tab : Tabs,
                                          token : issued \cup {NoToken}]]
  /\ waiting \subseteq Requests /\ broken \in 0..MaxBroken
  /\ crossed \in BOOLEAN /\ loggedOut \in BOOLEAN

CallsBecomeRequests ==
  \A r \in Requests :
    /\ call[r] = NoCall => req[r] = "idle" /\ r \notin waiting
    /\ req[r] = "tokens" => child[r] \in issued

Agree ==
  /\ Exchangeable \subseteq {stored} \cup replaced
  /\ stored \in {NoToken} \cup expired \cup Exchangeable
  /\ loggedOut => stored = NoToken

Underway(r) ==
  /\ \/ req[r] = "idle"
     \/ req[r] = "rotating" /\ call[r].kind = "refresh"
     \/ req[r] = "leaving" /\ call[r].kind = "logout"
  /\ Agree

(* A login's token comes beside the stored one, a refresh's replaces it.     *)
TokensOnTheWay(r) ==
  /\ req[r] = "tokens" /\ call[r].kind \in {"login", "refresh"}
  /\ child[r] \in expired \cup Exchangeable
  /\ Exchangeable \subseteq
       {child[r]} \cup replaced \cup {t \in {stored} : call[r].kind = "login"}

Refusing(r) ==
  /\ \/ req[r] = "invalid" /\ call[r].kind = "refresh" /\ stored \in expired
     \/ req[r] = "loggedOut" /\ call[r].kind = "logout"
  /\ Exchangeable \subseteq replaced

InFlight(r) ==
  /\ call[r].kind # "login" =>
       /\ call[r].token = stored /\ stored # NoToken
       /\ req[r] # "idle" => arg[r] = stored
  /\ loggedOut => stored = NoToken
  /\ Underway(r) \/ TokensOnTheWay(r) \/ Refusing(r)

Calm == ~crossed /\ broken = 0

CalmInv ==
  /\ revoked = {}
  /\ \A r \in Requests :
       /\ req[r] \notin {"reusing", "revoking", "reuse", "failed"}
       /\ r \notin waiting /\ call[r] # NoCall => req[r] \in Answered
  /\ waiting = {} => Agree
  /\ \A r \in waiting : waiting = {r} /\ InFlight(r)

ClientInv ==
  /\ ClientTypeOK /\ CallsBecomeRequests
  /\ NoSpuriousLogout
  /\ Calm => CalmInv

BrowserInv == IInv /\ ClientInv
=============================================================================
