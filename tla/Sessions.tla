------------------------------ MODULE Sessions ------------------------------
(***************************************************************************)
(* What the token endpoints promise of a session, with nothing of how: a    *)
(* session is opened by a login, is always held by exactly one refresh       *)
(* token, which every refresh replaces by a new one, and once closed it      *)
(* stays closed.  The promise holds as long as no two requests cross in a    *)
(* session; a crossed session may have any tokens.                          *)
(***************************************************************************)
CONSTANT Tokens   \* the refresh tokens that can be generated

VARIABLES
  seen,      \* tokens that have been handed out
  live,      \* the tokens each session can be refreshed with
  crossed    \* sessions in which requests have crossed

sessionVars == <<seen, live, crossed>>

Init ==
  /\ seen = {} /\ crossed = {}
  /\ live = [s \in Tokens |-> {}]

(* A login; the session is named by its first token.                         *)
Open(s) ==
  /\ s \notin seen
  /\ seen' = seen \cup {s}
  /\ live' = [live EXCEPT ![s] = {s}]
  /\ UNCHANGED crossed

(* A refresh: the one token is exchanged for one nobody has seen.            *)
Refresh(s, t, u) ==
  /\ live[s] = {t}
  /\ u \notin seen
  /\ seen' = seen \cup {u}
  /\ live' = [live EXCEPT ![s] = {u}]
  /\ UNCHANGED crossed

(* A logout, or the reuse of a token.                                        *)
Close(s) ==
  /\ live[s] # {}
  /\ live' = [live EXCEPT ![s] = {}]
  /\ UNCHANGED <<seen, crossed>>

(* Requests cross.  That does not open a closed session by itself.           *)
Cross(s) ==
  /\ crossed' = crossed \cup {s}
  /\ \E L \in SUBSET Tokens : live' = [live EXCEPT ![s] = L]
  /\ live[s] = {} => live' = live
  /\ \E S \in SUBSET Tokens : seen' = seen \cup S

(* A crossed session is promised nothing.                                    *)
Crossed(s) ==
  /\ s \in crossed
  /\ \E L \in SUBSET Tokens : live' = [live EXCEPT ![s] = L]
  /\ \E S \in SUBSET Tokens : seen' = seen \cup S
  /\ UNCHANGED crossed

Next ==
  \E s \in Tokens :
    \/ Open(s)
    \/ \E t, u \in Tokens : Refresh(s, t, u)
    \/ Close(s)
    \/ Cross(s) \/ Crossed(s)

Spec == Init /\ [][Next]_sessionVars
=============================================================================
