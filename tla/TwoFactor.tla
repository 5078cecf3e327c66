----------------------------- MODULE TwoFactor -----------------------------
(***************************************************************************)
(* The second factor of one user (backend/auth/service.py): columns         *)
(* totp_secret and totp_enabled of the users row, the recovery_codes rows,  *)
(* and the requests that enrol, confirm and sign in.  A handler reads the    *)
(* users row first (get_current_user, login_user or _resolve_preauth) and    *)
(* commits later; in between other requests run.                            *)
(*                                                                         *)
(* At commit SQLAlchemy writes only the attributes that differ from what     *)
(* was loaded: assigning totp_enabled the value it had when it was read      *)
(* writes nothing, whatever the row holds by then.                          *)
(***************************************************************************)
EXTENDS Naturals

CONSTANTS
  Requests,   \* the HTTP requests of a run; each is served once
  BatchSize,  \* recovery codes generated by a confirmation
  NoSecret,   \* totp_secret is NULL; a TOTP code no secret generates
  NoCode      \* the request presented no recovery code

ASSUME TwoFactorAssumption ==
  /\ BatchSize \in Nat \ {0}
  /\ NoSecret \notin Requests
  /\ NoCode \notin Requests \X (1 .. BatchSize)

(* A secret is named by the request that enrolled it, and a recovery code by *)
(* the request that confirmed and its place in the answer.                   *)
Codes == Requests \X (1 .. BatchSize)
Batch(r) == {r} \X (1 .. BatchSize)

VARIABLES
  secret,     \* column totp_secret
  enabled,    \* column totp_enabled
  codes,      \* the recovery_codes rows
  used,       \* those with column used
  preauth,    \* an unexpired pre-auth token has been handed out
  req,        \* where each request is in its handler, or how it was answered
  seen,       \* the users row as each enrolment or confirmation read it
  code,       \* the recovery code each request presented and read as unused
  victims,    \* the rows a confirmation's DELETE removes
  (* History, read by the properties only. *)
  proven,     \* secrets a confirmation has verified a TOTP code of
  redeemers,  \* requests holding a code's row, read unused, when it was used
  shown,      \* the codes the latest confirmation was answered with
  mixed,      \* an enrolment and a confirmation have been in flight together
  doubled     \* two confirmations have been replacing the codes together

userRow == <<secret, enabled>>
history == <<proven, redeemers, shown, mixed, doubled>>
vars == <<userRow, codes, used, preauth, req, seen, code, victims, history>>

Running  == {"enrolling", "confirming", "replacing", "redeeming", "issuing"}
Answered == {"enrolled", "confirmed", "session", "refused", "failed"}

TypeOK ==
  /\ secret \in Requests \cup {NoSecret}
  /\ enabled \in BOOLEAN
  /\ codes \subseteq Codes
  /\ used \subseteq codes
  /\ preauth \in BOOLEAN
  /\ req \in [Requests -> {"idle"} \cup Running \cup Answered]
  /\ seen \in [Requests -> [secret : Requests \cup {NoSecret}, enabled : BOOLEAN]]
  /\ code \in [Requests -> Codes \cup {NoCode}]
  /\ victims \in [Requests -> SUBSET Codes]
  /\ proven \subseteq Requests
  /\ redeemers \in [Codes -> SUBSET Requests]
  /\ shown \subseteq Codes
  /\ mixed \in BOOLEAN
  /\ doubled \in BOOLEAN

Init ==
  /\ secret = NoSecret /\ enabled = FALSE
  /\ codes = {} /\ used = {} /\ preauth = FALSE
  /\ req = [r \in Requests |-> "idle"]
  /\ seen = [r \in Requests |-> [secret |-> NoSecret, enabled |-> FALSE]]
  /\ code = [r \in Requests |-> NoCode]
  /\ victims = [r \in Requests |-> {}]
  /\ proven = {} /\ redeemers = [c \in Codes |-> {}] /\ shown = {}
  /\ mixed = FALSE /\ doubled = FALSE

-----------------------------------------------------------------------------
InStages(stages) == {r \in Requests : req[r] \in stages}
Enrolling  == InStages({"enrolling"})
Confirming == InStages({"confirming", "replacing"})
Replacing  == InStages({"replacing"})

(* Requests that have read the row of c as unused and mean to use it. *)
Holding(c) == {r \in InStages({"redeeming"}) : code[r] = c}

Goto(r, stage) == req' = [req EXCEPT ![r] = stage]
Arrives(r, stage) == req[r] = "idle" /\ Goto(r, stage)
ReadUser(r) == seen' = [seen EXCEPT ![r] = [secret |-> secret, enabled |-> enabled]]

(* A TOTP code is the secret it was generated from: one whose enrolment the  *)
(* user has seen, or NoSecret for any other code.                            *)
TotpCodes == InStages({"enrolled"}) \cup {NoSecret}

(* pyotp.TOTP(decrypt(user.totp_secret)).verify(totp_code), on a set secret. *)
AnyEnrolled(s) == s # NoSecret
Verifies(s) == s # NoSecret /\ s = secret

(* enroll_totp: get_current_user reads the row, the commit overwrites it. *)
EnrollRead(r) ==
  /\ Arrives(r, "enrolling")
  /\ ReadUser(r)
  /\ mixed' = (mixed \/ Confirming # {})
  /\ UNCHANGED <<userRow, codes, used, preauth, code, victims,
                 proven, redeemers, shown, doubled>>

SwitchOffNever(r) == enabled
EnabledAfterEnroll(r) == IF seen[r].enabled THEN FALSE ELSE enabled

EnrollCommit(r) ==
  /\ req[r] = "enrolling"
  /\ secret' = r
  /\ enabled' = EnabledAfterEnroll(r)
  /\ Goto(r, "enrolled")
  /\ UNCHANGED <<codes, used, preauth, seen, code, victims, history>>

-----------------------------------------------------------------------------
(* confirm_totp: TOTP_NOT_ENROLLED or INVALID_TOTP. *)
ConfirmRefuse(r, s) ==
  /\ ~Verifies(s)
  /\ Arrives(r, "refused")
  /\ UNCHANGED <<userRow, codes, used, preauth, seen, code, victims, history>>

ConfirmRead(r, s) ==
  /\ Verifies(s)
  /\ Arrives(r, "confirming")
  /\ ReadUser(r)
  /\ proven' = proven \cup {s}
  /\ mixed' = (mixed \/ Enrolling # {})
  /\ UNCHANGED <<userRow, codes, used, preauth, code, victims,
                 redeemers, shown, doubled>>

(* DELETE FROM recovery_codes: over the rows committed when it starts. *)
StaleRows == used
Rows == codes

ConfirmDelete(r) ==
  /\ req[r] = "confirming"
  /\ victims' = [victims EXCEPT ![r] = Rows]
  /\ doubled' = (doubled \/ Replacing # {})
  /\ Goto(r, "replacing")
  /\ UNCHANGED <<userRow, codes, used, preauth, seen, code,
                 proven, redeemers, shown, mixed>>

(* The DELETE, the new rows and totp_enabled = True commit together. *)
SwitchOnLater(r) == enabled
EnabledAfterConfirm(r) == IF seen[r].enabled THEN enabled ELSE TRUE

ConfirmCommit(r) ==
  /\ req[r] = "replacing"
  /\ codes' = (codes \ victims[r]) \cup Batch(r)
  /\ used' = used \ victims[r]
  /\ enabled' = EnabledAfterConfirm(r)
  /\ shown' = Batch(r)
  /\ Goto(r, "confirmed")
  /\ UNCHANGED <<secret, preauth, seen, code, victims,
                 proven, redeemers, mixed, doubled>>

-----------------------------------------------------------------------------
(* login_user with the right password: tokens at once, or a pre-auth token. *)
PasswordAccept(r) ==
  /\ ~enabled
  /\ Arrives(r, "issuing")
  /\ UNCHANGED <<userRow, codes, used, preauth, seen, code, victims, history>>

PasswordPreauth ==
  /\ enabled
  /\ preauth' = TRUE
  /\ UNCHANGED <<userRow, codes, used, req, seen, code, victims, history>>

PreauthExpires ==
  /\ preauth
  /\ preauth' = FALSE
  /\ UNCHANGED <<userRow, codes, used, req, seen, code, victims, history>>

(* verify_totp_login. *)
VerifyTotp(r, s) ==
  /\ preauth
  /\ IF enabled /\ Verifies(s) THEN Arrives(r, "issuing")
                               ELSE Arrives(r, "refused")
  /\ UNCHANGED <<userRow, codes, used, preauth, seen, code, victims, history>>

(* verify_recovery_login: the row of the code must be there and unused.      *)
(* totp_enabled is not looked at.                                            *)
RedeemableIfPresent(c) == c \in codes
Redeemable(c) == c \in codes \ used

RecoverRefuse(r) ==
  /\ preauth
  /\ Arrives(r, "refused")
  /\ UNCHANGED <<userRow, codes, used, preauth, seen, code, victims, history>>

RecoverRead(r, c) ==
  /\ preauth
  /\ Redeemable(c)
  /\ Arrives(r, "redeeming")
  /\ code' = [code EXCEPT ![r] = c]
  /\ UNCHANGED <<userRow, codes, used, preauth, seen, victims, history>>

(* rc.used = True commits, by primary key: used is not looked at again. *)
RedeemCommit(r) ==
  LET c == code[r] IN
  /\ req[r] = "redeeming"
  /\ c \in codes
  /\ used' = used \cup {c}
  /\ redeemers' = [redeemers EXCEPT ![c] = IF c \in used THEN @ ELSE Holding(c)]
  /\ Goto(r, "issuing")
  /\ UNCHANGED <<userRow, codes, preauth, seen, code, victims,
                 proven, shown, mixed, doubled>>

(* A confirmation has deleted the row: the UPDATE matches none and raises    *)
(* StaleDataError, answered 500.                                             *)
RedeemStale(r) ==
  /\ req[r] = "redeeming"
  /\ code[r] \notin codes
  /\ Goto(r, "failed")
  /\ UNCHANGED <<userRow, codes, used, preauth, seen, code, victims, history>>

(* _issue_tokens, a commit of its own. *)
IssueTokens(r) ==
  /\ req[r] = "issuing"
  /\ Goto(r, "session")
  /\ UNCHANGED <<userRow, codes, used, preauth, seen, code, victims, history>>

(* A worker dies or the database refuses: what is not committed is undone. *)
Fail(r) ==
  /\ req[r] \in Running
  /\ Goto(r, "failed")
  /\ UNCHANGED <<userRow, codes, used, preauth, seen, code, victims, history>>

-----------------------------------------------------------------------------
Enrol(r) == EnrollRead(r) \/ EnrollCommit(r)

Confirm(r) ==
  \/ \E s \in TotpCodes : ConfirmRefuse(r, s) \/ ConfirmRead(r, s)
  \/ ConfirmDelete(r) \/ ConfirmCommit(r)

SignIn(r) ==
  \/ PasswordAccept(r)
  \/ \E s \in TotpCodes : VerifyTotp(r, s)
  \/ RecoverRefuse(r)
  \/ \E c \in codes : RecoverRead(r, c)
  \/ RedeemCommit(r) \/ RedeemStale(r) \/ IssueTokens(r)

Next ==
  \/ \E r \in Requests : Enrol(r) \/ Confirm(r) \/ SignIn(r) \/ Fail(r)
  \/ PasswordPreauth \/ PreauthExpires

Spec == Init /\ [][Next]_vars

-----------------------------------------------------------------------------
(* While 2FA is on, the secret it asks for is one the user has proved to     *)
(* hold, unless an enrolment ever ran together with a confirmation: an       *)
(* enrolment overwrites the secret and must switch 2FA off with it.          *)
EnabledSecretProven == enabled /\ ~mixed => secret \in proven

(* When a confirmation is answered, 2FA is on and asks for the secret that   *)
(* was confirmed, with the same exception; settings/page.tsx then says so.   *)
ConfirmEnables ==
  [][\A r \in Requests :
       req'[r] = "confirmed" /\ req[r] # "confirmed" /\ ~mixed =>
         enabled' /\ secret' = seen[r].secret]_vars

(* The codes that open an account are exactly those the latest confirmation  *)
(* showed, unless two confirmations were replacing them together.            *)
CodesAreTheShownOnes == ~doubled => codes = shown

(* A recovery code serves again after it was used only for a request that    *)
(* had already read its row as unused at that moment.                        *)
Granted(r) == req[r] \in {"issuing", "session"} /\ code[r] # NoCode

ReusedOnlyByOverlap == \A r \in Requests : Granted(r) => r \in redeemers[code[r]]

(* "one-time recovery codes", settings/page.tsx 118. *)
RecoveryCodeUsedOnce ==
  \A q, r \in Requests :
    req[q] = "session" /\ req[r] = "session" /\ code[q] = code[r] =>
      q = r \/ code[r] = NoCode

-----------------------------------------------------------------------------
(* The inductive strengthening.                                              *)

(* As long as they have not overlapped, a confirmation in flight has read    *)
(* the row as it is, and an enrolment in flight knows that 2FA is on.        *)
SnapshotsCurrent ==
  /\ \A r \in Confirming : seen[r].secret \in proven
  /\ ~mixed =>
       /\ Confirming = {} \/ Enrolling = {}
       /\ \A r \in Confirming :
            seen[r].secret = secret /\ (seen[r].enabled => enabled)
       /\ \A r \in Enrolling : enabled => seen[r].enabled

(* One confirmation at a time replaces exactly the rows there are. *)
OneReplacement ==
  ~doubled => \A r \in Replacing : Replacing = {r} /\ victims[r] = codes

(* A code exists, or has been presented, only after its batch was inserted;  *)
(* a granted code is used for good; who holds a used code is a redeemer.     *)
CodeHistory ==
  /\ \A c \in codes : req[c[1]] = "confirmed"
  /\ \A r \in Requests : code[r] # NoCode =>
       req[r] # "idle" /\ req[code[r][1]] = "confirmed"
  /\ \A r \in Requests : Granted(r) /\ code[r] \in codes => code[r] \in used
  /\ \A c \in used : Holding(c) \subseteq redeemers[c]

IInv ==
  /\ TypeOK
  /\ SnapshotsCurrent
  /\ EnabledSecretProven
  /\ OneReplacement
  /\ CodesAreTheShownOnes
  /\ CodeHistory
  /\ ReusedOnlyByOverlap
=============================================================================
