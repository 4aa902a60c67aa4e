------------------------ MODULE MCTaskOrchestration ------------------------
(* TLC instances of TaskOrchestration: two tasks, each with its trigger, so *)
(* that a trigger meets the jobs of the other's task.                       *)
EXTENDS TaskOrchestration, TLC

TaskSymmetry == Permutations(Tasks)
=============================================================================
