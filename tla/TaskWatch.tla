------------------------------ MODULE TaskWatch ------------------------------
(***************************************************************************)
(* pollTaskProgress of HireAgentModal: after a task is submitted, an       *)
(* interval reads it every 1.5 s until an answer is final or more than     *)
(* MaxPolls reads were started.  The interval does not wait for the read   *)
(* before: reads overlap and their answers come in any order.  The panel   *)
(* shown depends on the status alone, the interval and the busy flag are   *)
(* not consulted, and nothing reopens a finished dialog.                   *)
(***************************************************************************)
EXTENDS Naturals, Sequences, SequencesExt

CONSTANTS MaxPolls,     \* reads after which polling gives up (40)
          MaxReads      \* bound: reads under way at once

ASSUME WatchAssumption == {MaxPolls, MaxReads} \subseteq Nat \ {0}

VARIABLES
    task,       \* the task's status at the API
    shownTask,  \* taskStatus of the dialog
    ticking,    \* the interval is set
    spinning,   \* isSubmitting
    attempts,
    reads,      \* answers on the way, in the order they were asked for
    inOrder     \* history: no read overtook an earlier one

watchVars == <<task, shownTask, ticking, spinning, attempts, reads, inOrder>>

Progress == <<"QUEUED", "VERIFYING", "SETTLING", "COMPLETED">>
FinalStatus == {"COMPLETED", "FAILED", "CANCELLED"}
TaskStatus == {Progress[i] : i \in DOMAIN Progress} \cup {"CANCELLED"}

WatchTypeOK ==
    /\ task \in TaskStatus /\ shownTask \in TaskStatus \cup {"RUNNING"}
    /\ {ticking, spinning, inOrder} \subseteq BOOLEAN
    /\ attempts \in 0..(MaxPolls + MaxReads)
    /\ reads \in Seq(TaskStatus \cup {"asked"}) /\ Len(reads) <= MaxReads

\* Right after submitTask answered.
WatchInit ==
    /\ task = "QUEUED" /\ shownTask = "RUNNING"
    /\ ticking = TRUE /\ spinning = TRUE /\ attempts = 0
    /\ reads = <<>> /\ inOrder = TRUE

-----------------------------------------------------------------------------

TaskMoves ==
    /\ task \notin FinalStatus
    /\ \/ \E i \in 1..3 : task = Progress[i] /\ task' = Progress[i + 1]
       \/ task' = "CANCELLED"
    /\ UNCHANGED <<shownTask, ticking, spinning, attempts, reads, inOrder>>

Tick ==
    /\ ticking /\ Len(reads) < MaxReads
    /\ attempts' = attempts + 1
    /\ reads' = Append(reads, "asked")
    /\ UNCHANGED <<task, shownTask, ticking, spinning, inOrder>>

ServerAnswers(i) ==
    /\ reads[i] = "asked"
    /\ reads' = [reads EXCEPT ![i] = task]
    /\ inOrder' = (inOrder /\ \A j \in 1..(i - 1) : reads[j] # "asked")
    /\ UNCHANGED <<task, shownTask, ticking, spinning, attempts>>

\* Variant of GiveUp: the count is never looked at.
NeverGivesUp == FALSE

GiveUp == attempts > MaxPolls

StopIf(done) ==
    /\ ticking' = (ticking /\ ~done)
    /\ spinning' = (spinning /\ ~done)

ReadAnswered(i) ==
    /\ reads[i] # "asked"
    /\ shownTask' = reads[i]
    /\ StopIf(reads[i] \in FinalStatus \/ GiveUp)
    /\ reads' = RemoveAt(reads, i)
    /\ inOrder' = (inOrder /\ i = 1)
    /\ UNCHANGED <<task, attempts>>

\* Ignored by the catch; the count is looked at all the same.
ReadLost(i) ==
    /\ StopIf(GiveUp)
    /\ reads' = RemoveAt(reads, i)
    /\ UNCHANGED <<task, shownTask, attempts, inOrder>>

WatchPanel ==
    CASE shownTask \in {"QUEUED", "RUNNING", "VERIFYING", "SETTLING"} -> "executing"
      [] shownTask = "COMPLETED" -> "deliverable"
      [] OTHER -> "none"

Answer == \E i \in DOMAIN reads : ServerAnswers(i) \/ ReadAnswered(i) \/ ReadLost(i)

WatchNext == TaskMoves \/ Tick \/ Answer

\* The browser's timers fire and every request ends; the task may be stuck.
WatchFairness == WF_watchVars(Tick) /\ WF_watchVars(Answer)

WatchSpec == WatchInit /\ [][WatchNext]_watchVars

-----------------------------------------------------------------------------

\* What must not last: the interval is cleared and the button freed after finitely
\* many reads, though the task may never end and every read may fail
\* (HireAgentModal.tsx:190).
WatchWaits == ticking \/ spinning

\* When polling has stopped and no answer is on the way, a task whose end was
\* worth stopping for is shown as it ended and never as executing, provided that no
\* read overtook an earlier one on its way there or back (HireAgentModal.tsx:180).
EndIsShown ==
    (inOrder /\ ~ticking /\ reads = <<>> /\ ~GiveUp) =>
        WatchPanel # "executing" /\ shownTask = task
=============================================================================
