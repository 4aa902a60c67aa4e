-------------------------- MODULE TaskOrchestration --------------------------
(***************************************************************************)
(* Durable task execution: POST /tasks/submit and /cancel                  *)
(* (backend/routers/tasks.py), the job queue (backend/orchestrator/        *)
(* queue.py) and the worker loop (backend/orchestrator/worker.py).         *)
(*                                                                         *)
(* A submission stores a task, its workflow (always a chain of nodes), one *)
(* job for the first node, and starts a background loop, the task's        *)
(* trigger.  Every trigger claims jobs of any task, oldest first.  An      *)
(* action is the stretch of a coroutine from one commit to the next.       *)
(*                                                                         *)
(* Each iteration opens a session with expire_on_commit=False: what it     *)
(* loads with its claim (the job, the whole workflow, the task, the        *)
(* escrow) it never reads again, and a commit writes only the columns      *)
(* whose value the session itself changed.  A session is therefore a       *)
(* snapshot, and Write below is an UPDATE of one column.                   *)
(*                                                                         *)
(* An operator placed before a definition and named after a fault is that  *)
(* definition with a plausible bug; Next uses none of them.                *)
(***************************************************************************)
EXTENDS Integers, Sequences, FiniteSets

CONSTANTS
    Tasks,           \* one submission, and so one trigger, each
    NodeCount,       \* length of the chain construct_dag_from_intent builds
    MaxAttempts,     \* max_attempts of a job
    TriggerRounds,   \* iterations a trigger runs at most
    RowLocks,        \* FOR UPDATE SKIP LOCKED: PostgreSQL yes, SQLite no
    LeasesExpire,    \* an LLM call (60 s timeout) may outlast a lease (30 s)
    CallsFail,       \* the LLM provider, or the oracle's RPC node, may raise
    LedgerFails,     \* record_task_settlement may find an account twice and raise
    CanCancel,       \* users cancel
    MaxCrashes,      \* bound on triggers that die mid-iteration
    InitialEscrow    \* status of each task's escrow row, if it has one

Nodes == 1..NodeCount

ASSUME OrchestrationAssumption ==
    /\ NodeCount \in Nat \ {0}
    /\ MaxAttempts \in Nat \ {0}
    /\ TriggerRounds \in Nat
    /\ {RowLocks, LeasesExpire, CallsFail, LedgerFails, CanCancel} \subseteq BOOLEAN
    /\ MaxCrashes \in Nat
    /\ InitialEscrow \subseteq {"NONE", "CREATED", "FUNDED"}

VARIABLES
    task,        \* tasks.status, "ABSENT" before the submission
    workflow,    \* workflows.status
    node,        \* workflow_nodes.status
    outputs,     \* nodes whose output_result is stored
    jobs,        \* execution_jobs, oldest first
    escrow,      \* escrows.status of the task, "NONE" without a row
    credits,     \* developer credits of the task in the ledger
    settlements, \* settlement transactions sent for the task
    session,     \* what each trigger is doing, and its snapshot
    cancel,      \* cancel request in flight, per task
    crashes      \* triggers that have died

db == <<task, workflow, node, outputs, jobs, escrow, credits, settlements>>
vars == <<db, session, cancel, crashes>>

TaskStatus == {"ABSENT", "QUEUED", "VERIFYING", "SETTLING", "COMPLETED", "CANCELLED", "FAILED"}
WorkflowStatus == {"ABSENT", "CREATED", "COMPLETED", "CANCELLED"}
NodeStatus == {"QUEUED", "RUNNING", "COMPLETED", "FAILED"}
JobStatus == {"QUEUED", "RUNNING", "COMPLETED", "FAILED", "DLQ"}
EscrowRow == {"NONE", "CREATED", "FUNDED", "SETTLEMENT_PENDING"}
Job == [task : Tasks, node : Nodes, status : JobStatus, attempts : Nat, expired : BOOLEAN]

(* The stages of an iteration, each named for what comes next. *)
Stages == {"off", "claim", "lease", "guard", "call", "advance", "verify", "settling",
           "credit", "oracle", "finish", "finally", "end"}

(* job = 0 while the session holds none.  pending: nodes whose job is       *)
(* inserted but not committed; credited: a ledger credit not committed.     *)
Session == [stage : Stages, rounds : 0..TriggerRounds, job : Nat,
            task : TaskStatus, workflow : WorkflowStatus, nodes : [Nodes -> NodeStatus],
            status : JobStatus, attempts : Nat, escrow : EscrowRow,
            pending : SUBSET Nodes, credited : BOOLEAN]

AllQueued == [n \in Nodes |-> "QUEUED"]
Idle(stage, rounds) ==
    [stage |-> stage, rounds |-> rounds, job |-> 0, task |-> "ABSENT",
     workflow |-> "ABSENT", nodes |-> AllQueued, status |-> "QUEUED", attempts |-> 0,
     escrow |-> "NONE", pending |-> {}, credited |-> FALSE]

NoCancel == [on |-> FALSE, workflow |-> "ABSENT", jobs |-> {}]

Init ==
    /\ task = [t \in Tasks |-> "ABSENT"]
    /\ workflow = [t \in Tasks |-> "ABSENT"]
    /\ node = [t \in Tasks |-> AllQueued]
    /\ outputs = [t \in Tasks |-> {}]
    /\ jobs = <<>>
    /\ escrow \in [Tasks -> InitialEscrow]
    /\ credits = [t \in Tasks |-> 0]
    /\ settlements = [t \in Tasks |-> 0]
    /\ session = [w \in Tasks |-> Idle("off", TriggerRounds)]
    /\ cancel = [t \in Tasks |-> NoCancel]
    /\ crashes = 0

-----------------------------------------------------------------------------
(* UPDATE of a column that a session loaded as old and set to new. *)
Write(stored, old, new) == IF new = old THEN stored ELSE new

At(w, stage) == session[w].stage = stage
Go(w, stage) == session' = [session EXCEPT ![w].stage = stage]
JobOf(w) == jobs[session[w].job]
TaskOf(w) == JobOf(w).task
NodeOf(w) == JobOf(w).node

(* Job rows a session has selected FOR UPDATE and not yet committed. *)
Locked(w) == IF RowLocks THEN {session[v].job : v \in {u \in Tasks \ {w} : At(u, "lease")}}
             ELSE {}

NewJob(t, n) == [task |-> t, node |-> n, status |-> "QUEUED", attempts |-> 0, expired |-> FALSE]

-----------------------------------------------------------------------------
(* submit_multi_agent_task.  A repeated idempotency key returns the stored  *)
(* task and changes nothing.                                                *)
Submit(t) ==
    /\ task[t] = "ABSENT"
    /\ task' = [task EXCEPT ![t] = "QUEUED"]
    /\ workflow' = [workflow EXCEPT ![t] = "CREATED"]
    /\ jobs' = Append(jobs, NewJob(t, 1))
    /\ session' = [session EXCEPT ![t].stage = "claim"]
    /\ UNCHANGED <<node, outputs, escrow, credits, settlements, cancel, crashes>>

(* claim_job_lease, up to its UPDATE: the oldest job that is queued or whose *)
(* lease has run out, with the workflow, task and escrow it drags in.  The   *)
(* attempts already made are not looked at.  With no job the trigger ends.   *)
ClaimableRunning(w) == {j \in DOMAIN jobs \ Locked(w) : jobs[j].status \in {"QUEUED", "RUNNING"}}
Claimable(w) ==
    {j \in DOMAIN jobs \ Locked(w) :
        jobs[j].status = "QUEUED" \/ (jobs[j].status = "RUNNING" /\ jobs[j].expired)}

RoundsLeft(w) == session[w].rounds > 0

SelectJob(w) ==
    /\ At(w, "claim")
    /\ \/ /\ Claimable(w) = {} \/ ~RoundsLeft(w)
          /\ session' = [session EXCEPT ![w] = Idle("end", 0)]
       \/ /\ RoundsLeft(w)
          /\ \E j \in Claimable(w) :
               /\ \A i \in Claimable(w) : j <= i
               /\ LET t == jobs[j].task IN
                  session' = [session EXCEPT ![w] =
                    [@ EXCEPT !.stage = "lease", !.job = j, !.task = task[t],
                              !.workflow = workflow[t], !.nodes = node[t],
                              !.status = jobs[j].status, !.attempts = jobs[j].attempts,
                              !.escrow = escrow[t]]]
    /\ UNCHANGED <<db, cancel, crashes>>

(* claim_job_lease, its commit. *)
TakeLease(w) ==
    LET s == session[w]  t == TaskOf(w)  n == NodeOf(w) IN
    /\ At(w, "lease")
    /\ jobs' = [jobs EXCEPT ![s.job].status = Write(@, s.status, "RUNNING"),
                            ![s.job].attempts = s.attempts + 1,
                            ![s.job].expired = FALSE]
    /\ node' = [node EXCEPT ![t][n] = Write(@, s.nodes[n], "RUNNING")]
    /\ session' = [session EXCEPT ![w] =
                     [s EXCEPT !.stage = "guard", !.status = "RUNNING",
                               !.attempts = s.attempts + 1, !.nodes[n] = "RUNNING"]]
    /\ UNCHANGED <<task, workflow, outputs, escrow, credits, settlements, cancel, crashes>>

(* fail_job: whatever the row says by now, the job is failed, dead-lettered *)
(* or queued again.  Neither the task nor the workflow is told.             *)
OneAttemptShort(s, terminal) ==
    IF terminal THEN "FAILED" ELSE IF s.attempts + 1 >= MaxAttempts THEN "DLQ" ELSE "QUEUED"
FailedAs(s, terminal) ==
    IF terminal THEN "FAILED" ELSE IF s.attempts >= MaxAttempts THEN "DLQ" ELSE "QUEUED"

FailJob(w, terminal) ==
    LET s == session[w]  n == NodeOf(w)  status == FailedAs(s, terminal)
        verdict == IF status = "QUEUED" THEN "QUEUED" ELSE "FAILED"
    IN /\ s.job \notin Locked(w)
       /\ jobs' = [jobs EXCEPT ![s.job].status = Write(@, s.status, status),
                               ![s.job].expired = FALSE]
       /\ node' = [node EXCEPT ![TaskOf(w)][n] = Write(@, s.nodes[n], verdict)]
       /\ session' = [session EXCEPT ![w] =
                        [@ EXCEPT !.stage = "finally", !.credited = FALSE]]

(* process_next_job, before the call: a cancelled task fails its job for    *)
(* good; a job whose escrow is not funded yet uses up one of its attempts.  *)
EscrowReady(s) == s.escrow \in {"NONE", "FUNDED", "SETTLEMENT_PENDING"}

CheckGuards(w) ==
    LET s == session[w] IN
    /\ At(w, "guard")
    /\ \/ /\ s.task \in {"CANCELLED", "FAILED"} /\ FailJob(w, TRUE)
       \/ /\ s.task \notin {"CANCELLED", "FAILED"} /\ ~EscrowReady(s) /\ FailJob(w, FALSE)
       \/ /\ s.task \notin {"CANCELLED", "FAILED"} /\ EscrowReady(s) /\ Go(w, "call")
          /\ UNCHANGED <<jobs, node>>
    /\ UNCHANGED <<task, workflow, outputs, escrow, credits, settlements, cancel, crashes>>

(* The LLM call returned, and complete_job: no check that the lease is       *)
(* still held, nor of what the job has become.                               *)
CompleteJob(w) ==
    LET s == session[w]  t == TaskOf(w)  n == NodeOf(w) IN
    /\ At(w, "call")
    /\ s.job \notin Locked(w)
    /\ jobs' = [jobs EXCEPT ![s.job] = [@ EXCEPT !.status = "COMPLETED", !.expired = FALSE]]
    /\ node' = [node EXCEPT ![t][n] = "COMPLETED"]
    /\ outputs' = [outputs EXCEPT ![t] = @ \cup {n}]
    /\ session' = [session EXCEPT ![w] =
                     [@ EXCEPT !.stage = "advance", !.status = "COMPLETED",
                               !.nodes[n] = "COMPLETED"]]
    /\ UNCHANGED <<task, workflow, escrow, credits, settlements, cancel, crashes>>

(* The call raised, or no agent version could be resolved. *)
CallFails(w) ==
    /\ CallsFail
    /\ At(w, "call")
    /\ FailJob(w, FALSE)
    /\ UNCHANGED <<task, workflow, outputs, escrow, credits, settlements, cancel, crashes>>

(* _check_and_finalize_workflow, children: ready ones by the snapshot of the *)
(* nodes; the jobs they already have by the database.  Two of those make     *)
(* scalar_one_or_none raise, and the completed job is failed after all.      *)
ReadyRegardless(s) == {c \in Nodes \ {1} : s.nodes[c] = "QUEUED"}
ReadyPendingOnly(s) == {c \in Nodes \ {1} : s.nodes[c] = "PENDING" /\ s.nodes[c - 1] = "COMPLETED"}
Ready(s) == {c \in Nodes \ {1} : s.nodes[c] = "QUEUED" /\ s.nodes[c - 1] = "COMPLETED"}

JobsFor(t, n) == {j \in DOMAIN jobs : /\ jobs[j].task = t /\ jobs[j].node = n
                                      /\ jobs[j].status \in {"QUEUED", "RUNNING", "COMPLETED"}}

EnqueueAgain(w) == Ready(session[w])
ToEnqueue(w) == {c \in Ready(session[w]) : JobsFor(TaskOf(w), c) = {}}

AllComplete(s) == \A n \in Nodes : s.nodes[n] = "COMPLETED"
SomeComplete(s) == \E n \in Nodes : s.nodes[n] = "COMPLETED"
Finished(s) == AllComplete(s)

Advance(w) ==
    LET s == session[w] IN
    /\ At(w, "advance")
    /\ \/ /\ \E c \in Ready(s) : Cardinality(JobsFor(TaskOf(w), c)) >= 2
          /\ FailJob(w, FALSE)
       \/ /\ \A c \in Ready(s) : Cardinality(JobsFor(TaskOf(w), c)) < 2
          /\ session' = [session EXCEPT ![w] =
               [@ EXCEPT !.stage = IF Finished(s) THEN "verify" ELSE "finally",
                         !.pending = ToEnqueue(w)]]
          /\ UNCHANGED <<jobs, node>>
    /\ UNCHANGED <<task, workflow, outputs, escrow, credits, settlements, cancel, crashes>>

(* The two commits before the settlement. *)
SetTask(w, status, stage) ==
    /\ task' = [task EXCEPT ![TaskOf(w)] = Write(@, session[w].task, status)]
    /\ session' = [session EXCEPT ![w] = [@ EXCEPT !.stage = stage, !.task = status]]
    /\ UNCHANGED <<workflow, node, outputs, jobs, escrow, credits, settlements, cancel, crashes>>

Verify(w) == At(w, "verify") /\ SetTask(w, "VERIFYING", "settling")
BeginSettling(w) == At(w, "settling") /\ SetTask(w, "SETTLING", "credit")

(* record_task_settlement: flushed, not committed.  It raises when an       *)
(* account exists twice, before or after the developer was credited, and    *)
(* fail_job then commits what had been credited.                            *)
RecordSettlement(w) ==
    /\ At(w, "credit")
    /\ \/ /\ session' = [session EXCEPT ![w] = [@ EXCEPT !.stage = "oracle", !.credited = TRUE]]
          /\ UNCHANGED <<jobs, node, credits>>
       \/ /\ LedgerFails
          /\ FailJob(w, FALSE)
          /\ \E credited \in {0, 1} : credits' = [credits EXCEPT ![TaskOf(w)] = @ + credited]
    /\ UNCHANGED <<task, workflow, outputs, escrow, settlements, cancel, crashes>>

(* authorize_and_submit_settlement: refused without a funded escrow in the   *)
(* snapshot; any failure is swallowed.  Success commits the credit too.      *)
SubmitSettlement(w) ==
    LET s == session[w]  t == TaskOf(w) IN
    /\ At(w, "oracle")
    /\ \/ /\ s.escrow = "FUNDED"
          /\ settlements' = [settlements EXCEPT ![t] = @ + 1]
          /\ escrow' = [escrow EXCEPT ![t] = "SETTLEMENT_PENDING"]
          /\ credits' = [credits EXCEPT ![t] = @ + 1]
          /\ session' = [session EXCEPT ![w] = [@ EXCEPT !.stage = "finish", !.credited = FALSE]]
       \/ /\ s.escrow = "FUNDED" => CallsFail
          /\ Go(w, "finish")
          /\ UNCHANGED <<settlements, escrow, credits>>
    /\ UNCHANGED <<task, workflow, node, outputs, jobs, cancel, crashes>>

FinishTask(w) ==
    LET s == session[w]  t == TaskOf(w) IN
    /\ At(w, "finish")
    /\ task' = [task EXCEPT ![t] = "COMPLETED"]
    /\ workflow' = [workflow EXCEPT ![t] = Write(@, s.workflow, "COMPLETED")]
    /\ credits' = [credits EXCEPT ![t] = @ + (IF s.credited THEN 1 ELSE 0)]
    /\ session' = [session EXCEPT ![w] = [@ EXCEPT !.stage = "finally", !.credited = FALSE]]
    /\ UNCHANGED <<node, outputs, jobs, escrow, settlements, cancel, crashes>>

(* The READY heartbeat in the finally block: its commit is what makes the   *)
(* child jobs durable.  Then the trigger's next iteration, a new session.   *)
Heartbeat(w) ==
    /\ At(w, "finally")
    /\ LET pending == session[w].pending IN
       \E order \in [1..Cardinality(pending) -> pending] :
          /\ \A i, k \in DOMAIN order : i < k => order[i] < order[k]
          /\ jobs' = jobs \o [i \in DOMAIN order |-> NewJob(TaskOf(w), order[i])]
    /\ session' = [session EXCEPT ![w] = Idle("claim", @.rounds - 1)]
    /\ UNCHANGED <<task, workflow, node, outputs, escrow, credits, settlements, cancel, crashes>>

(* cancel_task, its reads and then its commit. *)
OpenJobs(t) == {j \in DOMAIN jobs : jobs[j].task = t /\ jobs[j].status \in {"QUEUED", "RUNNING"}}

RequestCancel(t) ==
    /\ CanCancel
    /\ ~cancel[t].on
    /\ task[t] \notin {"ABSENT", "COMPLETED", "CANCELLED"}
    /\ cancel' = [cancel EXCEPT ![t] =
                                    [on |-> TRUE, workflow |-> workflow[t], jobs |-> OpenJobs(t)]]
    /\ UNCHANGED <<db, session, crashes>>

CommitCancel(t) ==
    /\ cancel[t].on
    /\ \A w \in Tasks : ~(RowLocks /\ At(w, "lease") /\ session[w].job \in cancel[t].jobs)
    /\ task' = [task EXCEPT ![t] = "CANCELLED"]
    /\ workflow' = [workflow EXCEPT ![t] = Write(@, cancel[t].workflow, "CANCELLED")]
    /\ jobs' = [j \in DOMAIN jobs |-> IF j \in cancel[t].jobs
                                      THEN [jobs[j] EXCEPT !.status = "FAILED"] ELSE jobs[j]]
    /\ cancel' = [cancel EXCEPT ![t] = NoCancel]
    /\ UNCHANGED <<node, outputs, escrow, credits, settlements, session, crashes>>

(* Thirty seconds pass without the job being completed: nothing renews it. *)
LeaseExpires(j) ==
    /\ LeasesExpire
    /\ jobs[j].status = "RUNNING" /\ ~jobs[j].expired
    /\ jobs' = [jobs EXCEPT ![j].expired = TRUE]
    /\ UNCHANGED <<task, workflow, node, outputs, escrow, credits, settlements,
                   session, cancel, crashes>>

(* The process exits, or an exception leaves process_next_job and ends the   *)
(* trigger; what was not committed is gone and nothing starts it again.      *)
TriggerDies(w) ==
    /\ crashes < MaxCrashes
    /\ session[w].stage \notin {"off", "end"}
    /\ session' = [session EXCEPT ![w] = Idle("end", 0)]
    /\ crashes' = crashes + 1
    /\ UNCHANGED <<db, cancel>>

(* The indexer sees the deposit of the task's escrow. *)
EscrowFunded(t) ==
    /\ escrow[t] = "CREATED"
    /\ escrow' = [escrow EXCEPT ![t] = "FUNDED"]
    /\ UNCHANGED <<task, workflow, node, outputs, jobs, credits, settlements,
                   session, cancel, crashes>>

TriggerStep(w) ==
    \/ SelectJob(w) \/ TakeLease(w) \/ CheckGuards(w) \/ CompleteJob(w) \/ CallFails(w)
    \/ Advance(w) \/ Verify(w) \/ BeginSettling(w) \/ RecordSettlement(w)
    \/ SubmitSettlement(w) \/ FinishTask(w) \/ Heartbeat(w)

Next ==
    \/ \E t \in Tasks : \/ Submit(t) \/ TriggerStep(t) \/ TriggerDies(t)
                        \/ RequestCancel(t) \/ CommitCancel(t) \/ EscrowFunded(t)
    \/ \E j \in DOMAIN jobs : LeaseExpires(j)

Spec == Init /\ [][Next]_vars

(* The event loop runs every coroutine that is ready, and a cancel request   *)
(* that has started finishes; submissions, crashes and deposits are not      *)
(* promised.                                                                 *)
FairSpec == Spec /\ \A t \in Tasks : WF_vars(TriggerStep(t)) /\ WF_vars(CommitCancel(t))
-----------------------------------------------------------------------------
(* Every row, every snapshot and every request in flight has its type.      *)
TypeOK ==
    /\ task \in [Tasks -> TaskStatus]
    /\ workflow \in [Tasks -> WorkflowStatus]
    /\ node \in [Tasks -> [Nodes -> NodeStatus]]
    /\ outputs \in [Tasks -> SUBSET Nodes]
    /\ jobs \in Seq(Job)
    /\ escrow \in [Tasks -> EscrowRow]
    /\ credits \in [Tasks -> Nat]
    /\ settlements \in [Tasks -> Nat]
    /\ session \in [Tasks -> Session]
    /\ \A w \in Tasks : session[w].job \in {0} \cup DOMAIN jobs
    /\ cancel \in [Tasks -> [on : BOOLEAN, workflow : WorkflowStatus, jobs : SUBSET DOMAIN jobs]]
    /\ crashes \in 0..MaxCrashes

(* A node is queued for execution only when the output of its predecessor is *)
(* stored, whoever else is working on the same workflow.                     *)
DependencyOrder ==
    \A j \in DOMAIN jobs : jobs[j].node > 1 => jobs[j].node - 1 \in outputs[jobs[j].task]

(* Nobody is paid, and no task reaches verification, for a workflow with a   *)
(* node whose output is missing.                                             *)
PaidForWholeWork ==
    \A t \in Tasks :
        (credits[t] > 0 \/ settlements[t] > 0 \/ task[t] \in {"VERIFYING", "SETTLING", "COMPLETED"})
        => outputs[t] = Nodes

(* A job is dead-lettered only after its last attempt, and a job that may    *)
(* still be retried has attempts left, whoever reports the failure.          *)
DeadLetterIsExhausted ==
    \A j \in DOMAIN jobs :
        /\ jobs[j].status = "DLQ" => jobs[j].attempts >= MaxAttempts
        /\ ~LeasesExpire /\ jobs[j].status = "QUEUED" => jobs[j].attempts < MaxAttempts

(* While its escrow is unfunded, a task has had no node executed.            *)
NoWorkBeforeFunding == \A t \in Tasks : escrow[t] = "CREATED" => outputs[t] = {}

(* Pay follows the work and work follows the deposit, although both are      *)
(* decided on snapshots (worker.py:75, 189).                                 *)
WorkMatchesPay == PaidForWholeWork /\ NoWorkBeforeFunding

(* A session between its claim and its last commit on the job, and one that  *)
(* is settling the job's task.                                               *)
Holding(w) == session[w].stage \notin {"off", "claim", "lease", "finally", "end"}
Settling(w) == session[w].stage \in {"verify", "settling", "credit", "oracle", "finish"}

(* A node gets one job, through every retry and whoever completes it.        *)
OneJobPerNode ==
    \A i, j \in DOMAIN jobs :
        jobs[i].task = jobs[j].task /\ jobs[i].node = jobs[j].node => i = j

(* One task triggers at most one settlement and one ledger credit. *)
AtMostOneSettlement == \A t \in Tasks : credits[t] <= 1 /\ settlements[t] <= 1

(* Moreover a settlement is sent exactly when the escrow row says so, and    *)
(* never without the credit it comes with.                                   *)
SettledOnce ==
    /\ AtMostOneSettlement
    /\ \A t \in Tasks :
        /\ settlements[t] = 1 <=> escrow[t] = "SETTLEMENT_PENDING"
        /\ settlements[t] <= credits[t]

(* Where leases hold, retries, late deposits and triggers that serve each    *)
(* other's tasks neither repeat a node nor a payment (worker.py:186,         *)
(* oracle.py:94).                                                            *)
ExactlyOnce == OneJobPerNode /\ SettledOnce

(* A task that is neither finished nor given up. *)
GivenUp(t) == \E j \in DOMAIN jobs : jobs[j].task = t /\ jobs[j].status \in {"DLQ", "FAILED"}
Resolved(t) == task[t] \in {"COMPLETED", "CANCELLED"} \/ GivenUp(t)

(* An unresolved task is in somebody's hands if one of its jobs can be       *)
(* claimed, at once or when its lease runs out, or a trigger works on it.    *)
InHand(t) ==
    \/ \E j \in DOMAIN jobs : jobs[j].task = t /\ jobs[j].status \in {"QUEUED", "RUNNING"}
    \/ \E w \in Tasks : (Holding(w) \/ session[w].pending # {}) /\ TaskOf(w) = t

Forgotten == {t \in Tasks : task[t] # "ABSENT" /\ ~Resolved(t) /\ ~InHand(t)}

(* Where leases hold, no task is forgotten, except that a trigger that dies  *)
(* may take one with it: the one it was working on (worker.py:183,           *)
(* queue.py:140).                                                            *)
NeverForgotten == ~LeasesExpire => Cardinality(Forgotten) <= crashes

(* As long as no trigger dies, every submitted task is eventually completed, *)
(* cancelled or given up.                                                    *)
EventuallyResolved ==
    \A t \in Tasks : task[t] = "QUEUED" ~> (Resolved(t) \/ crashes > 0)
-----------------------------------------------------------------------------
(* Said of the code, but not kept by it (README, "Deviations").              *)

(* A job whose escrow is not confirmed yet waits for it: it is not given up. *)
WaitsForFunding ==
    \A j \in DOMAIN jobs : jobs[j].status = "DLQ" => escrow[jobs[j].task] # "CREATED"

(* A leased job has one holder, and a task is settled by one session: no two  *)
(* sessions run the same job or the settlement of the same task at a time.    *)
ExclusiveLease ==
    \A v, w \in Tasks : v # w =>
        /\ Holding(v) /\ Holding(w) => session[v].job # session[w].job
        /\ Settling(v) /\ Settling(w) => TaskOf(v) # TaskOf(w)

(* No job runs more often than max_attempts. *)
AttemptsBounded == \A j \in DOMAIN jobs : jobs[j].attempts <= MaxAttempts

(* The job of a trigger that died is claimed again, whenever it died. *)
CrashesLoseNothing == Forgotten = {}

(* A cancelled task stays cancelled. *)
CancelledIsTerminal ==
    [][\A t \in Tasks : task[t] = "CANCELLED" => task'[t] = "CANCELLED"]_vars
=============================================================================
