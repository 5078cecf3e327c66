---------------------------- MODULE MCTwoFactor ----------------------------
(***************************************************************************)
(* TwoFactor for TLC.  Requests are interchangeable, and secrets and codes  *)
(* are named by them, so only runs in which the requests arrive in order    *)
(* are explored: every other run is a renaming of one of these.             *)
(***************************************************************************)
EXTENDS TwoFactor

ArriveInOrder ==
  \A q, r \in Requests : q < r /\ req[q] = "idle" => req[r] = "idle"
=============================================================================
