-------------------------- MODULE MCWorkspaceRental --------------------------
(* TLC instance of WorkspaceRental: two rents share one contract. *)
EXTENDS WorkspaceRental, TLC

LeaseSymmetry == Permutations(Leases)
=============================================================================
