----------------------------- MODULE MCTreasury -----------------------------
(* Instances of Treasury for TLC. *)
EXTENDS Treasury, TLC

Interchangeable == Permutations(Operator)
=============================================================================
