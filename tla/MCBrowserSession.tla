-------------------------- MODULE MCBrowserSession -------------------------
(***************************************************************************)
(* Instances of BrowserSession for TLC, taken up to renaming: tokens are     *)
(* issued and calls are sent in order, the first one by tab 1.               *)
(***************************************************************************)
EXTENDS BrowserSession

TakenInOrder(S) == \A i \in S : i = 1 \/ i - 1 \in S

Canonical ==
  /\ TakenInOrder(issued)
  /\ TakenInOrder({r \in Requests : call[r] # NoCall})
  /\ call[1] # NoCall => call[1].tab = 1
=============================================================================
