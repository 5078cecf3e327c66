----------------------------- MODULE MCHoldings -----------------------------
(***************************************************************************)
(* Holdings for TLC, with requests arriving in order: other runs are        *)
(* renamings of these.                                                      *)
(***************************************************************************)
EXTENDS Holdings

ArriveInOrder ==
  \A q, r \in Requests : q < r /\ req[q] = "idle" => req[r] = "idle"
=============================================================================
