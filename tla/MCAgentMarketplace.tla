------------------------- MODULE MCAgentMarketplace -------------------------
(* TLC instance of AgentMarketplace: two deposits share one contract. *)
EXTENDS AgentMarketplace, TLC

(* A split that truncates both shares, and one the contract must refuse. *)
MCSplits == {[dev |-> 3333, staker |-> 3333, dao |-> 3334],
             [dev |-> 9000, staker |-> 2000, dao |-> 0]}

TaskSymmetry == Permutations(Tasks)
=============================================================================
