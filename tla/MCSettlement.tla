---------------------------- MODULE MCSettlement ----------------------------
(* TLC instances of Settlement. *)
EXTENDS Settlement, TLC

TaskSymmetry == Permutations(Tasks)
=============================================================================
