-------------------------- MODULE TwoFactorProofs --------------------------
(***************************************************************************)
(* Theorems about TwoFactor for any set of requests and any batch size.     *)
(***************************************************************************)
EXTENDS TwoFactor, TLAPS

(* The codes of a confirmation are codes, and no other confirmation's.      *)
LEMMA BatchCodes ==
  /\ \A r \in Requests : Batch(r) \subseteq Codes
  /\ \A r \in Requests : \A c \in Batch(r) : c[1] = r
  /\ \A c \in Codes : c[1] \in Requests
  /\ NoCode \notin Codes
BY TwoFactorAssumption DEF Batch, Codes

(* Every step leaves the rows, the requests and the history well formed.    *)
LEMMA TypeStep == TypeOK /\ [Next]_vars => TypeOK'
<1> SUFFICES ASSUME TypeOK, [Next]_vars PROVE TypeOK'
  OBVIOUS
<1> USE DEF TypeOK, userRow, history, Goto, Arrives, Running, Answered
<1>1. ASSUME NEW r \in Requests, Enrol(r) PROVE TypeOK'
  <2>1. CASE EnrollRead(r)
    BY <2>1 DEF EnrollRead, ReadUser
  <2>2. CASE EnrollCommit(r)
    BY <2>2 DEF EnrollCommit, EnabledAfterEnroll
  <2> QED
    BY <1>1, <2>1, <2>2 DEF Enrol
<1>2. ASSUME NEW r \in Requests, Confirm(r) PROVE TypeOK'
  <2>1. ASSUME NEW s \in TotpCodes, ConfirmRefuse(r, s) PROVE TypeOK'
    BY <2>1 DEF ConfirmRefuse
  <2>2. ASSUME NEW s \in TotpCodes, ConfirmRead(r, s) PROVE TypeOK'
    <3>1. s \in Requests
      BY <2>2 DEF TotpCodes, InStages, ConfirmRead, Verifies
    <3> QED
      BY <2>2, <3>1 DEF ConfirmRead, ReadUser
  <2>3. CASE ConfirmDelete(r)
    BY <2>3 DEF ConfirmDelete, Rows
  <2>4. CASE ConfirmCommit(r)
    <3>1. Batch(r) \subseteq Codes
      BY BatchCodes
    <3> QED
      BY <2>4, <3>1 DEF ConfirmCommit, EnabledAfterConfirm
  <2> QED
    BY <1>2, <2>1, <2>2, <2>3, <2>4 DEF Confirm
<1>3. ASSUME NEW r \in Requests, SignIn(r) PROVE TypeOK'
  <2>1. ASSUME NEW s \in TotpCodes, VerifyTotp(r, s) PROVE TypeOK'
    BY <2>1 DEF VerifyTotp
  <2>2. ASSUME NEW c \in codes, RecoverRead(r, c) PROVE TypeOK'
    BY <2>2 DEF RecoverRead
  <2>3. CASE RedeemCommit(r)
    <3>1. Holding(code[r]) \subseteq Requests /\ code[r] \in Codes
      BY <2>3 DEF Holding, InStages, RedeemCommit
    <3> QED
      BY <2>3, <3>1 DEF RedeemCommit
  <2>4. CASE PasswordAccept(r) \/ RecoverRefuse(r) \/ RedeemStale(r) \/ IssueTokens(r)
    BY <2>4 DEF PasswordAccept, RecoverRefuse, RedeemStale, IssueTokens
  <2> QED
    BY <1>3, <2>1, <2>2, <2>3, <2>4 DEF SignIn
<1>4. ASSUME NEW r \in Requests, Fail(r) PROVE TypeOK'
  BY <1>4 DEF Fail
<1>5. CASE PasswordPreauth \/ PreauthExpires
  BY <1>5 DEF PasswordPreauth, PreauthExpires
<1>6. CASE UNCHANGED vars
  BY <1>6 DEF vars
<1> QED
  BY <1>1, <1>2, <1>3, <1>4, <1>5, <1>6 DEF Next

(* A step that writes no row and only moves one request out of a handler or *)
(* on to an answer leaves every part of the invariant alone.                *)
LEMMA QuietStep ==
  ASSUME IInv, [Next]_vars, NEW r \in Requests,
         UNCHANGED <<userRow, codes, used, seen, code, victims, history>>,
         req' = [req EXCEPT ![r] = req'[r]],
         req[r] # "confirmed",
         req'[r] \notin {"idle", "enrolling", "confirming", "replacing", "redeeming"},
         Granted(r)' => code[r] = NoCode \/ Granted(r)
  PROVE  IInv'
<1> USE DEF IInv, history, userRow
<1>0. TypeOK /\ TypeOK'
  BY TypeStep
<1>1. SnapshotsCurrent'
  BY <1>0 DEF TypeOK, SnapshotsCurrent, Confirming, Enrolling, InStages
<1>2. EnabledSecretProven' /\ CodesAreTheShownOnes'
  BY DEF EnabledSecretProven, CodesAreTheShownOnes
<1>3. OneReplacement'
  BY <1>0 DEF TypeOK, OneReplacement, Replacing, InStages
<1>4. CodeHistory'
  <2>1. \A x \in Requests : req[x] = "confirmed" => req'[x] = "confirmed"
    BY <1>0 DEF TypeOK
  <2>2. \A x \in Requests : Granted(x)' => Granted(x)
    BY <1>0 DEF TypeOK, Granted
  <2>3. \A c \in used : Holding(c)' \subseteq Holding(c)
    BY <1>0 DEF TypeOK, Holding, InStages
  <2> QED
    BY <1>0, <2>1, <2>2, <2>3, BatchCodes DEF TypeOK, CodeHistory
<1>5. ReusedOnlyByOverlap'
  BY <1>0 DEF TypeOK, ReusedOnlyByOverlap, Granted
<1> QED
  BY <1>0, <1>1, <1>2, <1>3, <1>4, <1>5

(* An enrolment that starts alone has read totp_enabled as it is.            *)
LEMMA EnrollReadStep ==
  ASSUME IInv, NEW r \in Requests, EnrollRead(r)
  PROVE  IInv'
<1> USE DEF IInv, EnrollRead, Arrives, Goto, userRow
<1>0. TypeOK /\ TypeOK'
  BY TypeStep DEF Next, Enrol
<1>1. SnapshotsCurrent'
  BY <1>0 DEF TypeOK, SnapshotsCurrent, ReadUser, Confirming, Enrolling, InStages
<1>2. EnabledSecretProven' /\ CodesAreTheShownOnes'
  BY DEF EnabledSecretProven, CodesAreTheShownOnes
<1>3. OneReplacement'
  BY <1>0 DEF TypeOK, OneReplacement, Replacing, InStages
<1>4. CodeHistory'
  BY <1>0, BatchCodes DEF TypeOK, CodeHistory, Granted, Holding, InStages
<1>5. ReusedOnlyByOverlap'
  BY <1>0 DEF TypeOK, ReusedOnlyByOverlap, Granted
<1> QED
  BY <1>0, <1>1, <1>2, <1>3, <1>4, <1>5

(* An enrolment that commits with no confirmation about switches 2FA off.    *)
LEMMA EnrollCommitStep ==
  ASSUME IInv, NEW r \in Requests, EnrollCommit(r)
  PROVE  IInv'
<1> USE DEF IInv, EnrollCommit, Goto, history
<1>0. TypeOK /\ TypeOK'
  BY TypeStep DEF Next, Enrol
<1>1. r \in Enrolling /\ (~mixed => ~enabled')
  BY <1>0 DEF TypeOK, SnapshotsCurrent, Enrolling, InStages, EnabledAfterEnroll
<1>2. SnapshotsCurrent'
  <2>1. Confirming' = Confirming /\ Enrolling' \subseteq Enrolling
    BY <1>0 DEF TypeOK, Confirming, Enrolling, InStages
  <2>2. ~mixed => Confirming = {}
    BY <1>1 DEF SnapshotsCurrent
  <2> QED
    BY <1>0, <1>1, <2>1, <2>2 DEF SnapshotsCurrent
<1>3. EnabledSecretProven' /\ CodesAreTheShownOnes'
  BY <1>1 DEF EnabledSecretProven, CodesAreTheShownOnes
<1>4. OneReplacement'
  BY <1>0 DEF TypeOK, OneReplacement, Replacing, InStages
<1>5. CodeHistory'
  BY <1>0, BatchCodes DEF TypeOK, CodeHistory, Granted, Holding, InStages
<1>6. ReusedOnlyByOverlap'
  BY <1>0 DEF TypeOK, ReusedOnlyByOverlap, Granted
<1> QED
  BY <1>0, <1>2, <1>3, <1>4, <1>5, <1>6

(* A confirmation is accepted for the secret in the row, which is proven     *)
(* from then on.                                                             *)
LEMMA ConfirmReadStep ==
  ASSUME IInv, NEW r \in Requests, NEW s \in TotpCodes, ConfirmRead(r, s)
  PROVE  IInv'
<1> USE DEF IInv, ConfirmRead, Arrives, Goto, userRow
<1>0. TypeOK /\ TypeOK'
  BY TypeStep DEF Next, Confirm
<1>1. SnapshotsCurrent'
  <2>1. Confirming' = Confirming \cup {r} /\ Enrolling' = Enrolling
    BY <1>0 DEF TypeOK, Confirming, Enrolling, InStages
  <2>2. seen'[r].secret = s /\ s = secret /\ seen'[r].enabled = enabled
    BY <1>0 DEF TypeOK, ReadUser, Verifies
  <2>3. \A x \in Requests : x # r => seen'[x] = seen[x]
    BY <1>0 DEF TypeOK, ReadUser
  <2>4. Confirming \subseteq Requests /\ Enrolling \subseteq Requests /\ r \notin Enrolling
    BY DEF Confirming, Enrolling, InStages
  <2>5. (\A x \in Confirming : seen[x].secret \in proven)'
    BY <2>1, <2>2, <2>3, <2>4 DEF SnapshotsCurrent
  <2>6. ~mixed' => ~mixed /\ Enrolling = {}
    OBVIOUS
  <2>7. ~mixed' => (\A x \in Confirming :
                      seen[x].secret = secret /\ (seen[x].enabled => enabled))'
    BY <2>1, <2>2, <2>3, <2>4, <2>6 DEF SnapshotsCurrent
  <2>8. ~mixed' => Enrolling' = {}
    BY <2>1, <2>6
  <2>9. ~mixed' => (\A x \in Enrolling : enabled => seen[x].enabled)'
    BY <2>8
  <2> HIDE DEF IInv, ConfirmRead, Arrives, Goto, userRow
  <2> QED
    BY <2>5, <2>7, <2>8, <2>9 DEF SnapshotsCurrent
<1>2. EnabledSecretProven' /\ CodesAreTheShownOnes'
  BY DEF EnabledSecretProven, CodesAreTheShownOnes
<1>3. OneReplacement'
  BY <1>0 DEF TypeOK, OneReplacement, Replacing, InStages
<1>4. CodeHistory'
  BY <1>0, BatchCodes DEF TypeOK, CodeHistory, Granted, Holding, InStages
<1>5. ReusedOnlyByOverlap'
  BY <1>0 DEF TypeOK, ReusedOnlyByOverlap, Granted
<1> QED
  BY <1>0, <1>1, <1>2, <1>3, <1>4, <1>5

(* A DELETE that starts while no other is open sees every row there is.      *)
LEMMA ConfirmDeleteStep ==
  ASSUME IInv, NEW r \in Requests, ConfirmDelete(r)
  PROVE  IInv'
<1> USE DEF IInv, ConfirmDelete, Goto, userRow
<1>0. TypeOK /\ TypeOK'
  BY TypeStep DEF Next, Confirm
<1>1. SnapshotsCurrent'
  BY <1>0 DEF TypeOK, SnapshotsCurrent, Confirming, Enrolling, InStages
<1>2. EnabledSecretProven' /\ CodesAreTheShownOnes'
  BY DEF EnabledSecretProven, CodesAreTheShownOnes
<1>3. OneReplacement'
  <2>1. Replacing' = Replacing \cup {r}
    BY <1>0 DEF TypeOK, Replacing, InStages
  <2>2. ~doubled' => Replacing' = {r}
    BY <2>1
  <2>3. victims'[r] = codes'
    BY <1>0 DEF TypeOK, Rows
  <2> QED
    BY <2>2, <2>3 DEF OneReplacement
<1>4. CodeHistory'
  BY <1>0, BatchCodes DEF TypeOK, CodeHistory, Granted, Holding, InStages
<1>5. ReusedOnlyByOverlap'
  BY <1>0 DEF TypeOK, ReusedOnlyByOverlap, Granted
<1> QED
  BY <1>0, <1>1, <1>2, <1>3, <1>4, <1>5

(* A confirmation inserts codes nobody has presented and, alone, leaves no   *)
(* others behind.                                                            *)
LEMMA ConfirmCommitStep ==
  ASSUME IInv, NEW r \in Requests, ConfirmCommit(r)
  PROVE  IInv'
<1> USE DEF IInv, ConfirmCommit, Goto
<1>0. TypeOK /\ TypeOK'
  BY TypeStep DEF Next, Confirm
<1>1. r \in Confirming /\ r \in Replacing
  BY DEF Confirming, Replacing, InStages
<1>2. SnapshotsCurrent'
  BY <1>0 DEF TypeOK, SnapshotsCurrent, Confirming, Enrolling, InStages,
              EnabledAfterConfirm
<1>3. EnabledSecretProven'
  BY <1>0, <1>1 DEF EnabledSecretProven, SnapshotsCurrent
<1>4. CodesAreTheShownOnes'
  BY <1>1 DEF CodesAreTheShownOnes, OneReplacement
<1>5. OneReplacement'
  BY <1>0, <1>1 DEF TypeOK, OneReplacement, Replacing, InStages
<1>6. \A x \in Requests : code[x] \notin Batch(r)
  <2> SUFFICES ASSUME NEW x \in Requests, code[x] \in Batch(r)
               PROVE  FALSE
    OBVIOUS
  <2>1. code[x] # NoCode /\ code[x][1] = r
    BY BatchCodes
  <2> QED
    BY <2>1 DEF CodeHistory
<1>7. CodeHistory'
  <2>1. \A c \in codes' : req'[c[1]] = "confirmed"
    BY <1>0, BatchCodes DEF TypeOK, CodeHistory
  <2>2. \A x \in Requests : code'[x] # NoCode =>
          req'[x] # "idle" /\ req'[code'[x][1]] = "confirmed"
    BY <1>0, BatchCodes DEF TypeOK, CodeHistory
  <2>3. \A x \in Requests : Granted(x)' /\ code'[x] \in codes' => code'[x] \in used'
    BY <1>0, <1>6 DEF TypeOK, CodeHistory, Granted
  <2>4. \A c \in used' : Holding(c)' \subseteq redeemers'[c]
    BY <1>0 DEF TypeOK, CodeHistory, Holding, InStages
  <2> QED
    BY <2>1, <2>2, <2>3, <2>4 DEF CodeHistory
<1>8. ReusedOnlyByOverlap'
  BY <1>0 DEF TypeOK, ReusedOnlyByOverlap, Granted
<1> QED
  BY <1>0, <1>2, <1>3, <1>4, <1>5, <1>7, <1>8

(* A code is read as unused, so nothing is owed to its redeemers.            *)
LEMMA RecoverReadStep ==
  ASSUME IInv, NEW r \in Requests, NEW c \in codes, RecoverRead(r, c)
  PROVE  IInv'
<1> USE DEF IInv, RecoverRead, Arrives, Goto, history, userRow
<1>0. TypeOK /\ TypeOK'
  BY TypeStep DEF Next, SignIn
<1>1. SnapshotsCurrent'
  BY <1>0 DEF TypeOK, SnapshotsCurrent, Confirming, Enrolling, InStages
<1>2. EnabledSecretProven' /\ CodesAreTheShownOnes'
  BY DEF EnabledSecretProven, CodesAreTheShownOnes
<1>3. OneReplacement'
  BY <1>0 DEF TypeOK, OneReplacement, Replacing, InStages
<1>4. CodeHistory'
  <2>1. \A x \in used : Holding(x)' = Holding(x)
    BY <1>0 DEF TypeOK, Holding, InStages, Redeemable
  <2>2. \A x \in Requests : Granted(x)' => Granted(x) /\ code'[x] = code[x]
    BY <1>0 DEF TypeOK, Granted
  <2> QED
    BY <1>0, <2>1, <2>2, BatchCodes DEF TypeOK, CodeHistory
<1>5. ReusedOnlyByOverlap'
  BY <1>0 DEF TypeOK, ReusedOnlyByOverlap, Granted
<1> QED
  BY <1>0, <1>1, <1>2, <1>3, <1>4, <1>5

(* The first to use a code records who else holds it; later ones are among   *)
(* those it recorded.                                                        *)
LEMMA RedeemStep ==
  ASSUME IInv, NEW r \in Requests, RedeemCommit(r)
  PROVE  IInv'
<1> DEFINE c == code[r]
<1> USE DEF IInv, RedeemCommit, Goto, userRow
<1>0. TypeOK /\ TypeOK'
  BY TypeStep DEF Next, SignIn
<1>1. SnapshotsCurrent'
  BY <1>0 DEF TypeOK, SnapshotsCurrent, Confirming, Enrolling, InStages
<1>2. EnabledSecretProven' /\ CodesAreTheShownOnes'
  BY DEF EnabledSecretProven, CodesAreTheShownOnes
<1>3. OneReplacement'
  BY <1>0 DEF TypeOK, OneReplacement, Replacing, InStages
<1>4. c \in codes /\ r \in Holding(c) /\ c \in Codes
  BY <1>0 DEF TypeOK, Holding, InStages
<1>5. Holding(c) \subseteq redeemers'[c] /\ \A x \in Codes \ {c} : redeemers'[x] = redeemers[x]
  BY <1>0, <1>4 DEF TypeOK, CodeHistory
<1>6. \A x \in Codes : Holding(x)' \subseteq Holding(x)
  BY <1>0 DEF TypeOK, Holding, InStages
<1>7. \A x \in Requests : Granted(x)' => x = r \/ Granted(x)
  BY <1>0 DEF TypeOK, Granted
<1>8. CodeHistory'
  <2>1. \A x \in Requests : req[x] = "confirmed" => req'[x] = "confirmed"
    BY <1>0 DEF TypeOK
  <2>2. \A x \in Requests : Granted(x)' /\ code'[x] \in codes' => code'[x] \in used'
    BY <1>7 DEF CodeHistory
  <2>3. \A x \in used' : Holding(x)' \subseteq redeemers'[x]
    BY <1>0, <1>5, <1>6 DEF TypeOK, CodeHistory
  <2>4. \A x \in Requests : req'[x] = "idle" => req[x] = "idle"
    BY <1>0 DEF TypeOK
  <2> QED
    BY <1>0, <2>1, <2>2, <2>3, <2>4, BatchCodes DEF TypeOK, CodeHistory
<1>9. ReusedOnlyByOverlap'
  <2> SUFFICES ASSUME NEW x \in Requests, Granted(x)'
               PROVE  x \in redeemers'[code[x]]
    BY DEF ReusedOnlyByOverlap
  <2>1. CASE x = r
    BY <2>1, <1>4, <1>5
  <2>2. CASE x # r
    <3>1. Granted(x) /\ x \in redeemers[code[x]] /\ code[x] \in Codes
      BY <1>0, <1>7, <2>2 DEF ReusedOnlyByOverlap, TypeOK, Granted
    <3>2. CASE code[x] = c
      BY <1>0, <1>4, <3>1, <3>2 DEF CodeHistory, TypeOK
    <3>3. CASE code[x] # c
      BY <1>5, <3>1, <3>3
    <3> QED
      BY <3>2, <3>3
  <2> QED
    BY <2>1, <2>2
<1> QED
  BY <1>0, <1>1, <1>2, <1>3, <1>8, <1>9

(* Nothing has been enrolled, confirmed or presented at first.               *)
LEMMA InitIInv == Init => IInv
<1> SUFFICES ASSUME Init PROVE IInv
  OBVIOUS
<1> USE DEF Init
<1>1. TypeOK
  BY DEF TypeOK, Running, Answered
<1>2. SnapshotsCurrent /\ OneReplacement
  BY DEF SnapshotsCurrent, OneReplacement, Confirming, Enrolling, Replacing, InStages
<1>3. EnabledSecretProven /\ CodesAreTheShownOnes
  BY DEF EnabledSecretProven, CodesAreTheShownOnes
<1>4. CodeHistory /\ ReusedOnlyByOverlap
  BY DEF CodeHistory, Granted, ReusedOnlyByOverlap
<1> QED
  BY <1>1, <1>2, <1>3, <1>4 DEF IInv

(* Every action of the next-state relation, from the lemmas above.           *)
LEMMA NextIInv == IInv /\ [Next]_vars => IInv'
<1> SUFFICES ASSUME IInv, [Next]_vars PROVE IInv'
  OBVIOUS
<1>0. TypeOK
  BY DEF IInv
<1>1. ASSUME NEW r \in Requests, Enrol(r) PROVE IInv'
  BY <1>1, EnrollReadStep, EnrollCommitStep DEF Enrol
<1>2. ASSUME NEW r \in Requests, NEW s \in TotpCodes,
             ConfirmRefuse(r, s) \/ VerifyTotp(r, s)
      PROVE  IInv'
  <2>1. req[r] = "idle" /\ code[r] = NoCode /\ Goto(r, req'[r])
    BY <1>0, <1>2 DEF ConfirmRefuse, VerifyTotp, Arrives, Goto, TypeOK, IInv,
                      CodeHistory
  <2>2. req'[r] \in {"refused", "issuing"}
    BY <1>0, <1>2 DEF ConfirmRefuse, VerifyTotp, Arrives, Goto, TypeOK
  <2> QED
    BY <1>2, <2>1, <2>2, QuietStep DEF ConfirmRefuse, VerifyTotp, Goto
<1>3. ASSUME NEW r \in Requests, Confirm(r) PROVE IInv'
  BY <1>2, <1>3, ConfirmReadStep, ConfirmDeleteStep, ConfirmCommitStep DEF Confirm
<1>4. ASSUME NEW r \in Requests, PasswordAccept(r) \/ RecoverRefuse(r) PROVE IInv'
  <2>1. req[r] = "idle" /\ code[r] = NoCode /\ Goto(r, req'[r])
    BY <1>0, <1>4 DEF PasswordAccept, RecoverRefuse, Arrives, Goto, TypeOK, IInv,
                      CodeHistory
  <2>2. req'[r] \in {"refused", "issuing"}
    BY <1>0, <1>4 DEF PasswordAccept, RecoverRefuse, Arrives, Goto, TypeOK
  <2> QED
    BY <1>4, <2>1, <2>2, QuietStep DEF PasswordAccept, RecoverRefuse, Goto
<1>5. ASSUME NEW r \in Requests, RedeemStale(r) \/ IssueTokens(r) \/ Fail(r)
      PROVE  IInv'
  <2>1. /\ req[r] \in Running /\ Goto(r, req'[r])
        /\ req'[r] = "failed" \/ (req[r] = "issuing" /\ req'[r] = "session")
    BY <1>0, <1>5 DEF RedeemStale, IssueTokens, Fail, Goto, TypeOK, Running
  <2>2. Granted(r)' => code[r] = NoCode \/ Granted(r)
    BY <1>5, <2>1 DEF Granted, RedeemStale, IssueTokens, Fail
  <2> QED
    BY <1>5, <2>1, <2>2, QuietStep DEF RedeemStale, IssueTokens, Fail, Goto, Running
<1>6. ASSUME NEW r \in Requests, SignIn(r) PROVE IInv'
  BY <1>2, <1>4, <1>5, <1>6, RecoverReadStep, RedeemStep DEF SignIn
<1>7. CASE PasswordPreauth \/ PreauthExpires \/ UNCHANGED vars
  BY <1>7, TypeStep
     DEF PasswordPreauth, PreauthExpires, vars, userRow, history, IInv,
         SnapshotsCurrent, Confirming, Enrolling, Replacing, InStages,
         EnabledSecretProven, OneReplacement, CodesAreTheShownOnes,
         CodeHistory, Granted, Holding, ReusedOnlyByOverlap
<1> QED
  BY <1>1, <1>3, <1>5, <1>6, <1>7 DEF Next

(* The inductive invariant holds in every reachable state.                   *)
THEOREM Invariance == Spec => []IInv
BY InitIInv, NextIInv, PTL DEF Spec

(* The user row, the codes and the requests are well formed; a used code is  *)
(* one that still has a row.                                                 *)
THEOREM TypeCorrect == Spec => []TypeOK
<1>1. IInv => TypeOK
  BY DEF IInv
<1> QED
  BY <1>1, Invariance, PTL

(* 2FA never asks for a secret nobody has confirmed, unless enroll_totp and  *)
(* confirm_totp have overlapped.                                             *)
THEOREM SecretProven == Spec => []EnabledSecretProven
<1>1. IInv => EnabledSecretProven
  BY DEF IInv
<1> QED
  BY <1>1, Invariance, PTL

(* Old recovery codes are gone once new ones are shown, unless two           *)
(* confirm_totp replaced them together.                                      *)
THEOREM ShownCodes == Spec => []CodesAreTheShownOnes
<1>1. IInv => CodesAreTheShownOnes
  BY DEF IInv
<1> QED
  BY <1>1, Invariance, PTL

(* The window between the SELECT and the commit of verify_recovery_login is  *)
(* the only way to use a code twice.                                         *)
THEOREM ReuseOverlaps == Spec => []ReusedOnlyByOverlap
<1>1. IInv => ReusedOnlyByOverlap
  BY DEF IInv
<1> QED
  BY <1>1, Invariance, PTL

(* A confirmation's answer tells the truth: 2FA is on, for that secret.      *)
THEOREM ConfirmTells == Spec => ConfirmEnables
<1>1. ASSUME IInv, [Next]_vars, NEW r \in Requests,
             req'[r] = "confirmed", req[r] # "confirmed", ~mixed
      PROVE  enabled' /\ secret' = seen[r].secret
  <2>0. TypeOK
    BY <1>1 DEF IInv
  <2>1. ConfirmCommit(r)
    BY <1>1, <2>0
       DEF Next, Enrol, EnrollRead, EnrollCommit, Confirm, ConfirmRefuse,
           ConfirmRead, ConfirmDelete, ConfirmCommit, SignIn, PasswordAccept,
           VerifyTotp, RecoverRefuse, RecoverRead, RedeemCommit, RedeemStale,
           IssueTokens, Fail, PasswordPreauth, PreauthExpires, Arrives, Goto,
           TypeOK, vars
  <2>2. r \in Confirming
    BY <2>1 DEF ConfirmCommit, Confirming, InStages
  <2>3. seen[r].secret = secret /\ (seen[r].enabled => enabled)
    BY <1>1, <2>2 DEF IInv, SnapshotsCurrent
  <2> QED
    BY <2>1, <2>3 DEF ConfirmCommit, EnabledAfterConfirm
<1>2. IInv /\ [Next]_vars =>
        [\A r \in Requests :
           req'[r] = "confirmed" /\ req[r] # "confirmed" /\ ~mixed =>
             enabled' /\ secret' = seen[r].secret]_vars
  BY <1>1
<1> QED
  BY <1>2, Invariance, PTL DEF Spec, ConfirmEnables
=============================================================================
