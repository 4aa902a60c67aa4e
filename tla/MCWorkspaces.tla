---------------------------- MODULE MCWorkspaces ----------------------------
(* TLC instance of Workspaces. *)
EXTENDS Workspaces, TLC

BuilderSymmetry == Permutations(Builders)
=============================================================================
