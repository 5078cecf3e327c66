----------------------------- MODULE MCUserData -----------------------------
(***************************************************************************)
(* UserData for TLC.  Requests are numbers and arrive in order, new users    *)
(* get their ids in order, and a request that writes nothing comes last:     *)
(* every other run is a renaming of one of these or has its verdicts.  One   *)
(* user sends the requests; the other one only owns a chat.                  *)
(***************************************************************************)
EXTENDS UserData, TLC

CONSTANTS u1, u2, u3, u4, e1, e2, x, y, a, b, k1, k2, k3, k4

MCEmailOf == (u1 :> e1) @@ (u2 :> e2)
MCFiles == {<<x, y>>, <<y, Bad, x, x>>, <<Broken>>}
MCSender == (1 :> a)
MCFirstLinks ==
  {<<>>, u1 :> [chat |-> a, code |-> k1],
   (u1 :> [chat |-> NoChat, code |-> k1]) @@ (u2 :> [chat |-> b, code |-> NoCode])}

InOrder ==
  /\ \A q, r \in Requests : q < r /\ req[q].at = "idle" => req[r].at = "idle"
  /\ u4 \in Known => u3 \in Known
  /\ (k3 \in shown => k2 \in shown) /\ (k4 \in shown => k3 \in shown)

WritersFirst ==
  \A r \in Requests :
    req[r].at \in {"refused", "informed"} => \A q \in Requests : q <= r

(* Uploads and the bot share no table but users: only erasure meets both.    *)
Stages(S) == \E r \in Requests : req[r].at \in S
OneSubsystem ==
  ~ /\ Stages({"importing", "imported", "uploaded"})
    /\ Stages({"coding", "coded", "linking", "binding", "linked", "booking",
               "replying", "replied", "exporting", "exported"})

OneBusyUser ==
  \A r \in Requests : "user" \in DOMAIN req[r] => req[r].user = u1

Canonical == InOrder /\ WritersFirst /\ OneBusyUser /\ OneSubsystem
=============================================================================
