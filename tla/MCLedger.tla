------------------------------ MODULE MCLedger ------------------------------
(***************************************************************************)
(* Ledger for TLC, with requests arriving in order and rows created with    *)
(* the same contents: other runs are renamings of these.                    *)
(***************************************************************************)
EXTENDS Ledger

ArriveInOrder ==
  \A q, r \in Requests : q < r /\ req[q] = "idle" => req[r] = "idle"

FirstContents(e) ==
  IF imported[e] # NoRow THEN imported[e]
  ELSE IF trail[e] # <<>> THEN trail[e][1].new ELSE [f \in Fields |-> 0]

Canonical == ArriveInOrder /\ \A e \in Entities : FirstContents(e) = [f \in Fields |-> 0]
=============================================================================
