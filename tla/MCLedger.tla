------------------------------ MODULE MCLedger ------------------------------
(* TLC instance of Ledger: everything is earned by one developer. *)
EXTENDS Ledger, TLC

CONSTANT dev
EarnedByOne == [r \in References |-> dev]
PriceOf40 == [r \in References |-> 40]
LedgerSymmetry == Permutations(Requests) \cup Permutations(Tasks)
=============================================================================
