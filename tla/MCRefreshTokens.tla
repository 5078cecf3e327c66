-------------------------- MODULE MCRefreshTokens --------------------------
(***************************************************************************)
(* Instances of RefreshTokens for TLC.  Tokens and requests are numbers, so *)
(* that runs can be taken up to renaming: tokens are issued and requests    *)
(* arrive in order.  Every behaviour is a renaming of such a behaviour, and *)
(* unlike a symmetry set this is sound for liveness too.                    *)
(***************************************************************************)
EXTENDS RefreshTokens, Naturals

TakenInOrder(S) == \A i \in S : i = 1 \/ i - 1 \in S

Canonical ==
  /\ TakenInOrder(issued)
  /\ TakenInOrder({r \in Requests : req[r] # "idle"})
=============================================================================
