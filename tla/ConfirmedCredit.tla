--------------------------- MODULE ConfirmedCredit ---------------------------
(***************************************************************************)
(* What the two-phase settlement of docs/ESCROW.md promises, without chain,*)
(* indexer or database: a task whose settlement has become final on the    *)
(* chain is credited in the ledger, once, and no other task ever is.       *)
(***************************************************************************)
EXTENDS Naturals

CONSTANT Tasks

VARIABLES
    final,     \* tasks whose settlement is deep enough in the chain to stay
    credited   \* ledger credits of each task

vars == <<final, credited>>

Init == final = {} /\ credited = [t \in Tasks |-> 0]

Finalise(t) ==
    /\ t \notin final
    /\ final' = final \cup {t}
    /\ UNCHANGED credited

Credit(t) ==
    /\ t \in final /\ credited[t] = 0
    /\ credited' = [credited EXCEPT ![t] = 1]
    /\ UNCHANGED final

Next == \E t \in Tasks : Finalise(t) \/ Credit(t)

Spec == Init /\ [][Next]_vars /\ \A t \in Tasks : WF_vars(Credit(t))
=============================================================================
