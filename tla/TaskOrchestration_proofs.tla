---------------------- MODULE TaskOrchestration_proofs ----------------------
(***************************************************************************)
(* Task execution for any number of tasks, triggers, nodes, attempts and   *)
(* crashes, with or without row locks and with leases that run out: a node *)
(* is queued only behind the stored output of its predecessor              *)
(* (DependencyOrder), nobody is paid before every output is stored         *)
(* (PaidForWholeWork), and nothing is executed before the deposit is seen  *)
(* (NoWorkBeforeFunding).  With row locks, only exhausted jobs are         *)
(* dead-lettered (DeadLetterIsExhausted); where moreover leases do not run *)
(* out, no task is forgotten but through a dying trigger (NeverForgotten); *)
(* and where the ledger does not raise either, every node has one job and  *)
(* every task is paid once (ExactlyOnce).                                  *)
(***************************************************************************)
EXTENDS TaskOrchestration, SequenceTheorems, FiniteSetTheorems, TLAPS

RowsTyped ==
    /\ task \in [Tasks -> TaskStatus]
    /\ node \in [Tasks -> [Nodes -> NodeStatus]]
    /\ outputs \in [Tasks -> SUBSET Nodes]
    /\ escrow \in [Tasks -> EscrowRow]
    /\ workflow \in [Tasks -> WorkflowStatus]
    /\ credits \in [Tasks -> Nat]
    /\ settlements \in [Tasks -> Nat]

CancelTyped ==
    /\ cancel \in [Tasks -> [on : BOOLEAN, workflow : WorkflowStatus, jobs : SUBSET DOMAIN jobs]]
    /\ crashes \in 0..MaxCrashes

SessionsTyped == session \in [Tasks -> Session]

\* A session beyond its claim holds a job that exists.
Busy(w) == session[w].stage \notin {"off", "claim", "end"}
JobsHeld ==
    /\ \A w \in Tasks : session[w].job \in {0} \cup DOMAIN jobs
    /\ \A w \in Tasks : Busy(w) => session[w].job \in DOMAIN jobs /\ session[w].rounds > 0

Types == RowsTyped /\ jobs \in Seq(Job) /\ CancelTyped /\ SessionsTyped /\ JobsHeld

LEMMA TypesGiveTypeOK == Types => TypeOK
  BY DEF Types, RowsTyped, CancelTyped, SessionsTyped, JobsHeld, TypeOK

\* Jobs are added and their status changes; whose job it is never does.
JobsStay ==
    /\ jobs' \in Seq(Job)
    /\ DOMAIN jobs \subseteq DOMAIN jobs'
    /\ \A j \in DOMAIN jobs : jobs'[j].task = jobs[j].task /\ jobs'[j].node = jobs[j].node

LEMMA NodesAreNumbers == NodeCount \in Nat /\ 1 \in Nodes /\ Nodes \subseteq Nat /\ IsFiniteSet(Nodes)
  BY OrchestrationAssumption, FS_Interval DEF Nodes

LEMMA JobUpdate ==
    ASSUME jobs \in Seq(Job), NEW j \in DOMAIN jobs, NEW r \in Job, r.task = jobs[j].task,
           r.node = jobs[j].node, jobs' = [jobs EXCEPT ![j] = r]
    PROVE  JobsStay /\ DOMAIN jobs' = DOMAIN jobs /\ jobs'[j] = r
                    /\ \A i \in DOMAIN jobs : i # j => jobs'[i] = jobs[i]
  BY DEF JobsStay

\* The job of a session at work, and where it belongs.
LEMMA HeldJob ==
    ASSUME Types, NEW w \in Tasks, Busy(w)
    PROVE  /\ session[w].job \in DOMAIN jobs /\ JobOf(w) \in Job
           /\ TaskOf(w) \in Tasks /\ NodeOf(w) \in Nodes
           /\ session[w] \in Session
  <1>1. session[w].job \in DOMAIN jobs /\ jobs \in Seq(Job) /\ session[w] \in Session
    BY DEF Types, JobsHeld, SessionsTyped
  <1>2. jobs[session[w].job] \in Job
    BY <1>1
  <1> QED
    BY <1>1, <1>2 DEF JobOf, TaskOf, NodeOf, Job

-----------------------------------------------------------------------------
(* The jobs.                                                               *)

LEMMA FailJobStays ==
    ASSUME Types, NEW w \in Tasks, Busy(w), NEW terminal, FailJob(w, terminal)
    PROVE  JobsStay /\ DOMAIN jobs' = DOMAIN jobs
  <1> DEFINE j == session[w].job
             status == Write(jobs[j].status, session[w].status, FailedAs(session[w], terminal))
             r == [jobs[j] EXCEPT !.status = status, !.expired = FALSE]
  <1>1. j \in DOMAIN jobs /\ jobs[j] \in Job /\ jobs \in Seq(Job)
    BY HeldJob DEF Types, JobOf
  <1>2. status \in JobStatus
    BY <1>1 DEF FailedAs, JobStatus, Write, Job
  <1>3. jobs' = [jobs EXCEPT ![j].status = status, ![j].expired = FALSE]
    BY DEF FailJob
  <1> HIDE DEF j, status
  <1>4. r \in Job /\ r.task = jobs[j].task /\ r.node = jobs[j].node
    BY <1>1, <1>2 DEF Job
  <1>5. jobs' = [jobs EXCEPT ![j] = r]
    BY <1>1, <1>3 DEF Job
  <1> HIDE DEF r
  <1> QED
    BY <1>1, <1>4, <1>5, JobUpdate

LEMMA JobsAppended ==
    ASSUME jobs \in Seq(Job), NEW s \in Seq(Job), jobs' = jobs \o s, NEW count, Len(s) = count
    PROVE  /\ jobs' \in Seq(Job) /\ Len(jobs') = Len(jobs) + count
           /\ \A i \in 1..Len(jobs) + count :
                 jobs'[i] = IF i <= Len(jobs) THEN jobs[i] ELSE s[i - Len(jobs)]
  BY ConcatProperties

LEMMA AppendStays ==
    ASSUME jobs \in Seq(Job), NEW s \in Seq(Job), jobs' = jobs \o s
    PROVE  /\ JobsStay
           /\ \A j \in DOMAIN jobs' \ DOMAIN jobs : \E i \in DOMAIN s : jobs'[j] = s[i]
           /\ \A j \in DOMAIN jobs : jobs'[j] = jobs[j]
  <1>1. /\ Len(jobs) \in Nat /\ Len(s) \in Nat /\ DOMAIN jobs = 1..Len(jobs)
        /\ DOMAIN s = 1..Len(s)
    BY LenProperties
  <1>2. /\ jobs' \in Seq(Job) /\ Len(jobs') = Len(jobs) + Len(s) /\ DOMAIN jobs' = 1..Len(jobs')
        /\ \A i \in 1..Len(jobs) + Len(s) :
              jobs'[i] = IF i <= Len(jobs) THEN jobs[i] ELSE s[i - Len(jobs)]
    BY ConcatProperties, LenProperties
  <1>3. \A j \in DOMAIN jobs : j \in DOMAIN jobs' /\ jobs'[j] = jobs[j]
    BY <1>1, <1>2
  <1>4. ASSUME NEW j \in DOMAIN jobs' \ DOMAIN jobs PROVE \E i \in DOMAIN s : jobs'[j] = s[i]
    <2>1. j - Len(jobs) \in 1..Len(s) /\ ~(j <= Len(jobs)) /\ j \in 1..Len(jobs) + Len(s)
      BY <1>1, <1>2
    <2> QED
      BY <1>1, <1>2, <2>1
  <1> QED
    BY <1>2, <1>3, <1>4 DEF JobsStay

LEMMA NewJobTyped ==
    ASSUME NEW t \in Tasks, NEW n \in Nodes
    PROVE  NewJob(t, n) \in Job /\ NewJob(t, n).task = t /\ NewJob(t, n).node = n
  BY DEF NewJob, Job, JobStatus

\* The jobs a session inserts are those of its pending nodes.
LEMMA HeartbeatStays ==
    ASSUME Types, NEW w \in Tasks, Heartbeat(w)
    PROVE  /\ JobsStay
           /\ \A j \in DOMAIN jobs : jobs'[j] = jobs[j]
           /\ \A j \in DOMAIN jobs' \ DOMAIN jobs :
                 jobs'[j].task = TaskOf(w) /\ jobs'[j].node \in session[w].pending
  <1> DEFINE pending == session[w].pending
  <1>1. Busy(w)
    BY DEF Heartbeat, At, Busy
  <1>2. pending \subseteq Nodes /\ TaskOf(w) \in Tasks /\ jobs \in Seq(Job)
    BY <1>1, HeldJob DEF Types, Session
  <1>3. Cardinality(pending) \in Nat
    BY <1>2, NodesAreNumbers, FS_Subset, FS_CardinalityType
  <1>4. PICK order \in [1..Cardinality(pending) -> pending] :
           jobs' = jobs \o [i \in DOMAIN order |-> NewJob(TaskOf(w), order[i])]
    BY DEF Heartbeat
  <1> DEFINE s == [i \in DOMAIN order |-> NewJob(TaskOf(w), order[i])]
  <1>5. \A i \in DOMAIN order : order[i] \in pending
    BY <1>4
  <1>6. \A i \in DOMAIN order : s[i] \in Job /\ s[i].task = TaskOf(w) /\ s[i].node = order[i]
    BY <1>2, <1>5, NewJobTyped
  <1>7. s \in Seq(Job) /\ DOMAIN s = DOMAIN order
    <2>1. s \in [1..Cardinality(pending) -> Job]
      BY <1>4, <1>6
    <2> QED
      BY <1>3, <2>1, IsASeq
  <1> HIDE DEF s, pending
  <1>8. jobs' = jobs \o s
    BY <1>4 DEF s
  <1>9. JobsStay /\ (\A j \in DOMAIN jobs : jobs'[j] = jobs[j])
        /\ \A j \in DOMAIN jobs' \ DOMAIN jobs : \E i \in DOMAIN s : jobs'[j] = s[i]
    BY <1>2, <1>7, <1>8, AppendStays
  <1>10. \A j \in DOMAIN jobs' \ DOMAIN jobs :
            jobs'[j].task = TaskOf(w) /\ jobs'[j].node \in pending
    BY <1>5, <1>6, <1>7, <1>9
  <1> QED
    BY <1>9, <1>10 DEF pending

JobsGrow ==
    /\ JobsStay
    /\ \A j \in DOMAIN jobs' \ DOMAIN jobs :
          \/ jobs'[j].node = 1
          \/ \E w \in Tasks : /\ At(w, "finally") /\ jobs'[j].task = TaskOf(w)
                              /\ jobs'[j].node \in session[w].pending

\* The steps of one trigger, and what each leaves alone besides the jobs.
LEMMA TriggerKeepsJobs ==
    ASSUME Types, NEW w \in Tasks, TriggerStep(w)
    PROVE  JobsGrow
  <1>1. jobs \in Seq(Job)
    BY DEF Types
  <1>2. ASSUME UNCHANGED jobs PROVE JobsGrow
    BY <1>1, <1>2 DEF JobsGrow, JobsStay
  <1>3. ASSUME JobsStay, DOMAIN jobs' = DOMAIN jobs PROVE JobsGrow
    BY <1>3 DEF JobsGrow
  <1>4. ASSUME Busy(w), NEW terminal, FailJob(w, terminal) PROVE JobsGrow
    BY <1>3, <1>4, FailJobStays
  <1>5. CASE SelectJob(w) \/ Verify(w) \/ BeginSettling(w) \/ SubmitSettlement(w) \/ FinishTask(w)
    BY <1>2, <1>5 DEF SelectJob, Verify, BeginSettling, SetTask, SubmitSettlement, FinishTask, db
  <1>6. CASE TakeLease(w)
    <2> DEFINE j == session[w].job
               status == Write(jobs[j].status, session[w].status, "RUNNING")
               made == session[w].attempts + 1
               r == [jobs[j] EXCEPT !.status = status, !.attempts = made, !.expired = FALSE]
    <2>1. Busy(w)
      BY <1>6 DEF TakeLease, At, Busy
    <2>2. j \in DOMAIN jobs /\ jobs[j] \in Job /\ made \in Nat
      BY <2>1, HeldJob DEF JobOf, Session
    <2>3. status \in JobStatus
      BY <2>2 DEF Write, Job, JobStatus
    <2>4. jobs' = [jobs EXCEPT ![j].status = status, ![j].attempts = made,
                               ![j].expired = FALSE]
      BY <1>6 DEF TakeLease
    <2> HIDE DEF j, status, made
    <2>5. r \in Job /\ r.task = jobs[j].task /\ r.node = jobs[j].node
      BY <2>2, <2>3 DEF Job
    <2>6. jobs' = [jobs EXCEPT ![j] = r]
      BY <2>2, <2>4 DEF Job
    <2> HIDE DEF r
    <2> QED
      BY <1>1, <1>3, <2>2, <2>5, <2>6, JobUpdate
  <1>7. CASE CheckGuards(w)
    <2>1. Busy(w)
      BY <1>7 DEF CheckGuards, At, Busy
    <2>2. FailJob(w, TRUE) \/ FailJob(w, FALSE) \/ UNCHANGED jobs
      BY <1>7 DEF CheckGuards
    <2> QED
      BY <1>2, <1>4, <2>1, <2>2
  <1>8. CASE CompleteJob(w)
    <2> DEFINE j == session[w].job
               r == [jobs[j] EXCEPT !.status = "COMPLETED", !.expired = FALSE]
    <2>1. Busy(w)
      BY <1>8 DEF CompleteJob, At, Busy
    <2>2. j \in DOMAIN jobs /\ jobs[j] \in Job
      BY <2>1, HeldJob DEF JobOf
    <2>3. jobs' = [jobs EXCEPT ![j] = r]
      BY <1>8 DEF CompleteJob
    <2> HIDE DEF j
    <2>4. r \in Job /\ r.task = jobs[j].task /\ r.node = jobs[j].node
      BY <2>2 DEF Job, JobStatus
    <2> HIDE DEF r
    <2> QED
      BY <1>1, <1>3, <2>2, <2>3, <2>4, JobUpdate
  <1>9. CASE CallFails(w)
    BY <1>4, <1>9 DEF CallFails, At, Busy
  <1>10. CASE Advance(w)
    <2>1. Busy(w)
      BY <1>10 DEF Advance, At, Busy
    <2>2. FailJob(w, FALSE) \/ UNCHANGED jobs
      BY <1>10 DEF Advance
    <2> QED
      BY <1>2, <1>4, <2>1, <2>2
  <1>11. CASE RecordSettlement(w)
    <2>1. Busy(w)
      BY <1>11 DEF RecordSettlement, At, Busy
    <2>2. FailJob(w, FALSE) \/ UNCHANGED jobs
      BY <1>11 DEF RecordSettlement
    <2> QED
      BY <1>2, <1>4, <2>1, <2>2
  <1>12. CASE Heartbeat(w)
    <2>1. At(w, "finally")
      BY <1>12 DEF Heartbeat
    <2> QED
      BY <1>12, <2>1, HeartbeatStays DEF JobsGrow
  <1> QED
    BY <1>5, <1>6, <1>7, <1>8, <1>9, <1>10, <1>11, <1>12 DEF TriggerStep

LEMMA JobsAreKept == Types /\ [Next]_vars => JobsGrow
  <1> SUFFICES ASSUME Types, [Next]_vars PROVE JobsGrow
    OBVIOUS
  <1>1. jobs \in Seq(Job)
    BY DEF Types
  <1>2. ASSUME UNCHANGED jobs PROVE JobsGrow
    BY <1>1, <1>2 DEF JobsGrow, JobsStay
  <1>3. ASSUME NEW t \in Tasks, Submit(t) PROVE JobsGrow
    <2>1. NewJob(t, 1) \in Job /\ NewJob(t, 1).node = 1
      BY NewJobTyped, NodesAreNumbers
    <2>2. jobs' = Append(jobs, NewJob(t, 1))
      BY <1>3 DEF Submit
    <2>3. /\ jobs' \in Seq(Job) /\ Len(jobs') = Len(jobs) + 1 /\ Len(jobs) \in Nat
          /\ \A j \in 1..Len(jobs) : jobs'[j] = jobs[j]
          /\ jobs'[Len(jobs) + 1] = NewJob(t, 1)
      BY <1>1, <2>1, <2>2
    <2>4. DOMAIN jobs = 1..Len(jobs) /\ DOMAIN jobs' = 1..Len(jobs) + 1
      BY <1>1, <2>3
    <2> QED
      BY <2>1, <2>3, <2>4 DEF JobsGrow, JobsStay
  <1>4. ASSUME NEW w \in Tasks, TriggerStep(w) PROVE JobsGrow
    BY <1>4, TriggerKeepsJobs
  <1>5. ASSUME NEW t \in Tasks, TriggerDies(t) \/ RequestCancel(t) \/ EscrowFunded(t) PROVE JobsGrow
    BY <1>2, <1>5 DEF TriggerDies, RequestCancel, EscrowFunded, db
  <1>6. ASSUME NEW t \in Tasks, CommitCancel(t) PROVE JobsGrow
    <2>1. jobs' = [j \in DOMAIN jobs |-> IF j \in cancel[t].jobs
                                         THEN [jobs[j] EXCEPT !.status = "FAILED"] ELSE jobs[j]]
      BY <1>6 DEF CommitCancel
    <2>2. \A j \in DOMAIN jobs : jobs[j] \in Job
      BY <1>1
    <2>3. \A j \in DOMAIN jobs : /\ jobs'[j] \in Job /\ jobs'[j].task = jobs[j].task
                                 /\ jobs'[j].node = jobs[j].node
      BY <2>1, <2>2 DEF Job, JobStatus
    <2>4. DOMAIN jobs = 1..Len(jobs) /\ Len(jobs) \in Nat /\ DOMAIN jobs' = DOMAIN jobs
      BY <1>1, <2>1
    <2>5. jobs' \in Seq(Job)
      <3>1. jobs' \in [1..Len(jobs) -> Job]
        BY <2>1, <2>3, <2>4
      <3> QED
        BY <2>4, <3>1, IsASeq
    <2> QED
      BY <2>3, <2>4, <2>5 DEF JobsGrow, JobsStay
  <1>7. ASSUME NEW j \in DOMAIN jobs, LeaseExpires(j) PROVE JobsGrow
    <2> DEFINE r == [jobs[j] EXCEPT !.expired = TRUE]
    <2>1. jobs[j] \in Job
      BY <1>1
    <2>2. r \in Job /\ r.task = jobs[j].task /\ r.node = jobs[j].node
      BY <2>1 DEF Job
    <2>3. jobs' = [jobs EXCEPT ![j] = r]
      BY <1>7, <2>1 DEF LeaseExpires, Job
    <2> HIDE DEF r
    <2>4. JobsStay /\ DOMAIN jobs' = DOMAIN jobs
      BY <1>1, <2>2, <2>3, JobUpdate
    <2> QED
      BY <2>4 DEF JobsGrow
  <1>8. CASE UNCHANGED vars
    BY <1>2, <1>8 DEF vars, db
  <1> QED
    BY <1>3, <1>4, <1>5, <1>6, <1>7, <1>8 DEF Next

-----------------------------------------------------------------------------
(* The sessions.                                                           *)

LEMMA SessionUpdate ==
    ASSUME Types, JobsStay, NEW w \in Tasks, NEW r \in Session,
           session' = [session EXCEPT ![w] = r],
           r.job \in {0} \cup DOMAIN jobs,
           r.stage \notin {"off", "claim", "end"} => r.job \in DOMAIN jobs /\ r.rounds > 0
    PROVE  SessionsTyped' /\ JobsHeld'
  BY DEF Types, SessionsTyped, JobsHeld, Busy, JobsStay

LEMMA IdleIsTyped ==
    ASSUME NEW stage \in Stages, NEW rounds \in 0..TriggerRounds
    PROVE  Idle(stage, rounds) \in Session /\ Idle(stage, rounds).job = 0
           /\ Idle(stage, rounds).stage = stage /\ Idle(stage, rounds).pending = {}
  BY DEF Idle, Session, AllQueued, TaskStatus, WorkflowStatus, NodeStatus, JobStatus, EscrowRow

\* A busy session that goes on keeps its job and its rounds.
LEMMA SessionGoesOn ==
    ASSUME Types, JobsStay, NEW w \in Tasks, Busy(w), NEW r \in Session,
           session' = [session EXCEPT ![w] = r],
           r.job = session[w].job, r.rounds = session[w].rounds
    PROVE  SessionsTyped' /\ JobsHeld'
  <1>1. session[w].job \in DOMAIN jobs /\ session[w].rounds > 0
    BY DEF Types, JobsHeld
  <1> QED
    BY <1>1, SessionUpdate

LEMMA FailJobSession ==
    ASSUME Types, JobsStay, NEW w \in Tasks, Busy(w), NEW terminal, FailJob(w, terminal)
    PROVE  SessionsTyped' /\ JobsHeld'
  <1> DEFINE r == [session[w] EXCEPT !.stage = "finally", !.credited = FALSE]
  <1>1. session' = [session EXCEPT ![w] = r]
    BY DEF FailJob
  <1>2. r \in Session /\ r.job = session[w].job /\ r.rounds = session[w].rounds
    BY HeldJob DEF Session, Stages
  <1> HIDE DEF r
  <1> QED
    BY <1>1, <1>2, SessionGoesOn

LEMMA TriggerKeepsSessions ==
    ASSUME Types, JobsStay, NEW w \in Tasks, TriggerStep(w)
    PROVE  SessionsTyped' /\ JobsHeld'
  <1>1. session[w] \in Session /\ TriggerRounds \in Nat
    BY OrchestrationAssumption DEF Types, SessionsTyped
  <1>2. ASSUME Busy(w), NEW stage \in Stages, Go(w, stage) PROVE SessionsTyped' /\ JobsHeld'
    <2> DEFINE r == [session[w] EXCEPT !.stage = stage]
    <2>1. session' = [session EXCEPT ![w] = r]
      BY <1>2 DEF Go, Types, SessionsTyped, Session
    <2>2. r \in Session /\ r.job = session[w].job /\ r.rounds = session[w].rounds
      BY <1>1 DEF Session
    <2> HIDE DEF r
    <2> QED
      BY <1>2, <2>1, <2>2, SessionGoesOn
  <1>3. CASE SelectJob(w)
    <2>1. CASE session' = [session EXCEPT ![w] = Idle("end", 0)]
      <3>1. Idle("end", 0) \in Session /\ Idle("end", 0).job = 0 /\ Idle("end", 0).stage = "end"
        BY <1>1, IdleIsTyped DEF Stages
      <3> QED
        BY <2>1, <3>1, SessionUpdate
    <2>2. ASSUME RoundsLeft(w), NEW j \in Claimable(w),
                 LET t == jobs[j].task IN
                  session' = [session EXCEPT ![w] =
                    [@ EXCEPT !.stage = "lease", !.job = j, !.task = task[t],
                              !.workflow = workflow[t], !.nodes = node[t],
                              !.status = jobs[j].status, !.attempts = jobs[j].attempts,
                              !.escrow = escrow[t]]]
          PROVE  SessionsTyped' /\ JobsHeld'
      <3> DEFINE t == jobs[j].task
                 r == [session[w] EXCEPT !.stage = "lease", !.job = j, !.task = task[t],
                              !.workflow = workflow[t], !.nodes = node[t],
                              !.status = jobs[j].status, !.attempts = jobs[j].attempts,
                              !.escrow = escrow[t]]
      <3>1. j \in DOMAIN jobs /\ jobs[j] \in Job /\ j \in Nat
        BY <2>2 DEF Claimable, Types
      <3>2. t \in Tasks /\ jobs[j].status \in JobStatus /\ jobs[j].attempts \in Nat
        BY <3>1 DEF Job
      <3>3. /\ task[t] \in TaskStatus /\ workflow[t] \in WorkflowStatus
            /\ node[t] \in [Nodes -> NodeStatus] /\ escrow[t] \in EscrowRow
        BY <3>2 DEF Types, RowsTyped
      <3>4. session' = [session EXCEPT ![w] = r]
        BY <2>2
      <3>5. r \in Session /\ r.job = j /\ r.rounds = session[w].rounds
        BY <1>1, <3>1, <3>2, <3>3 DEF Session, Stages
      <3>6. session[w].rounds > 0
        BY <2>2 DEF RoundsLeft
      <3> HIDE DEF r
      <3> QED
        BY <3>1, <3>4, <3>5, <3>6, SessionUpdate
    <2> QED
      BY <1>3, <2>1, <2>2 DEF SelectJob
  <1>4. CASE TakeLease(w)
    <2> DEFINE n == NodeOf(w)
               made == session[w].attempts + 1
               r == [session[w] EXCEPT !.stage = "guard", !.status = "RUNNING",
                                       !.attempts = made, !.nodes[n] = "RUNNING"]
    <2>1. Busy(w) /\ made \in Nat
      BY <1>1, <1>4 DEF TakeLease, At, Busy, Session
    <2>2. session' = [session EXCEPT ![w] = r]
      BY <1>4 DEF TakeLease
    <2>3. n \in Nodes
      BY <2>1, HeldJob
    <2> HIDE DEF n, made
    <2>4. r \in Session /\ r.job = session[w].job /\ r.rounds = session[w].rounds
      BY <1>1, <2>1, <2>3 DEF Session, Stages, JobStatus, NodeStatus
    <2> HIDE DEF r
    <2> QED
      BY <2>1, <2>2, <2>4, SessionGoesOn
  <1>5. CASE CheckGuards(w)
    <2>1. Busy(w)
      BY <1>5 DEF CheckGuards, At, Busy
    <2>2. FailJob(w, TRUE) \/ FailJob(w, FALSE) \/ Go(w, "call")
      BY <1>5 DEF CheckGuards
    <2> QED
      BY <1>2, <2>1, <2>2, FailJobSession DEF Stages
  <1>6. CASE CompleteJob(w)
    <2> DEFINE n == NodeOf(w)
               r == [session[w] EXCEPT !.stage = "advance", !.status = "COMPLETED",
                                       !.nodes[n] = "COMPLETED"]
    <2>1. Busy(w)
      BY <1>6 DEF CompleteJob, At, Busy
    <2>2. session' = [session EXCEPT ![w] = r]
      BY <1>6 DEF CompleteJob
    <2>3. n \in Nodes
      BY <2>1, HeldJob
    <2> HIDE DEF n
    <2>4. r \in Session /\ r.job = session[w].job /\ r.rounds = session[w].rounds
      BY <1>1, <2>3 DEF Session, Stages, JobStatus, NodeStatus
    <2> HIDE DEF r
    <2> QED
      BY <2>1, <2>2, <2>4, SessionGoesOn
  <1>7. CASE CallFails(w)
    BY <1>7, FailJobSession DEF CallFails, At, Busy
  <1>8. CASE Advance(w)
    <2>1. Busy(w)
      BY <1>8 DEF Advance, At, Busy
    <2>2. CASE FailJob(w, FALSE)
      BY <2>1, <2>2, FailJobSession
    <2>3. CASE ~FailJob(w, FALSE)
      <3> DEFINE stage == IF Finished(session[w]) THEN "verify" ELSE "finally"
                 pending == ToEnqueue(w)
                 r == [session[w] EXCEPT !.stage = stage, !.pending = pending]
      <3>1. session' = [session EXCEPT ![w] = r]
        BY <1>8, <2>3 DEF Advance
      <3>2. stage \in Stages /\ pending \subseteq Nodes
        BY DEF Stages, ToEnqueue, Ready
      <3> HIDE DEF stage, pending
      <3>3. r \in Session /\ r.job = session[w].job /\ r.rounds = session[w].rounds
        BY <1>1, <3>2 DEF Session
      <3> HIDE DEF r
      <3> QED
        BY <2>1, <3>1, <3>3, SessionGoesOn
    <2> QED
      BY <2>2, <2>3
  <1>9. ASSUME Busy(w), NEW status \in TaskStatus, NEW stage \in Stages, SetTask(w, status, stage)
        PROVE  SessionsTyped' /\ JobsHeld'
    <2> DEFINE r == [session[w] EXCEPT !.stage = stage, !.task = status]
    <2>1. session' = [session EXCEPT ![w] = r]
      BY <1>9 DEF SetTask
    <2>2. r \in Session /\ r.job = session[w].job /\ r.rounds = session[w].rounds
      BY <1>1 DEF Session
    <2> HIDE DEF r
    <2> QED
      BY <1>9, <2>1, <2>2, SessionGoesOn
  <1>10. CASE Verify(w) \/ BeginSettling(w)
    <2>1. Busy(w)
      BY <1>10 DEF Verify, BeginSettling, At, Busy
    <2> QED
      BY <1>9, <1>10, <2>1 DEF Verify, BeginSettling, TaskStatus, Stages
  <1>11. CASE RecordSettlement(w)
    <2>1. Busy(w)
      BY <1>11 DEF RecordSettlement, At, Busy
    <2>2. CASE FailJob(w, FALSE)
      BY <2>1, <2>2, FailJobSession
    <2>3. CASE ~FailJob(w, FALSE)
      <3> DEFINE r == [session[w] EXCEPT !.stage = "oracle", !.credited = TRUE]
      <3>1. session' = [session EXCEPT ![w] = r]
        BY <1>11, <2>3 DEF RecordSettlement
      <3>2. r \in Session /\ r.job = session[w].job /\ r.rounds = session[w].rounds
        BY <1>1 DEF Session, Stages
      <3> HIDE DEF r
      <3> QED
        BY <2>1, <3>1, <3>2, SessionGoesOn
    <2> QED
      BY <2>2, <2>3
  <1>12. CASE SubmitSettlement(w)
    <2>1. Busy(w)
      BY <1>12 DEF SubmitSettlement, At, Busy
    <2>2. CASE Go(w, "finish")
      BY <1>2, <2>1, <2>2 DEF Stages
    <2>3. CASE ~Go(w, "finish")
      <3> DEFINE r == [session[w] EXCEPT !.stage = "finish", !.credited = FALSE]
      <3>1. session' = [session EXCEPT ![w] = r]
        BY <1>12, <2>3 DEF SubmitSettlement
      <3>2. r \in Session /\ r.job = session[w].job /\ r.rounds = session[w].rounds
        BY <1>1 DEF Session, Stages
      <3> HIDE DEF r
      <3> QED
        BY <2>1, <3>1, <3>2, SessionGoesOn
    <2> QED
      BY <2>2, <2>3
  <1>13. CASE FinishTask(w)
    <2> DEFINE r == [session[w] EXCEPT !.stage = "finally", !.credited = FALSE]
    <2>1. Busy(w) /\ session' = [session EXCEPT ![w] = r]
      BY <1>13 DEF FinishTask, At, Busy
    <2>2. r \in Session /\ r.job = session[w].job /\ r.rounds = session[w].rounds
      BY <1>1 DEF Session, Stages
    <2> HIDE DEF r
    <2> QED
      BY <2>1, <2>2, SessionGoesOn
  <1>14. CASE Heartbeat(w)
    <2> DEFINE rounds == session[w].rounds - 1
    <2>1. Busy(w) /\ session' = [session EXCEPT ![w] = Idle("claim", rounds)]
      BY <1>14 DEF Heartbeat, At, Busy
    <2>2. session[w].rounds > 0 /\ session[w].rounds \in 0..TriggerRounds
      BY <1>1, <2>1 DEF Types, JobsHeld, Session
    <2>3. rounds \in 0..TriggerRounds
      BY <1>1, <2>2
    <2> HIDE DEF rounds
    <2>4. /\ Idle("claim", rounds) \in Session /\ Idle("claim", rounds).job = 0
          /\ Idle("claim", rounds).stage = "claim"
      BY <2>3, IdleIsTyped DEF Stages
    <2> QED
      BY <2>1, <2>4, SessionUpdate
  <1> QED
    BY <1>3, <1>4, <1>5, <1>6, <1>7, <1>8, <1>10, <1>11, <1>12, <1>13, <1>14 DEF TriggerStep

LEMMA SessionsAreKept == Types /\ [Next]_vars => SessionsTyped' /\ JobsHeld'
  <1> SUFFICES ASSUME Types, [Next]_vars PROVE SessionsTyped' /\ JobsHeld'
    OBVIOUS
  <1>1. JobsStay
    BY JobsAreKept DEF JobsGrow
  <1>2. ASSUME UNCHANGED session PROVE SessionsTyped' /\ JobsHeld'
    BY <1>1, <1>2 DEF Types, SessionsTyped, JobsHeld, Busy, JobsStay
  <1>3. ASSUME NEW t \in Tasks, Submit(t) PROVE SessionsTyped' /\ JobsHeld'
    <2> DEFINE r == [session[t] EXCEPT !.stage = "claim"]
    <2>1. session[t] \in Session /\ session[t].job \in {0} \cup DOMAIN jobs
      BY DEF Types, SessionsTyped, JobsHeld
    <2>2. session' = [session EXCEPT ![t] = r]
      BY <1>3, <2>1 DEF Submit, Types, SessionsTyped, Session
    <2>3. r \in Session /\ r.job = session[t].job /\ r.stage = "claim"
      BY <2>1 DEF Session, Stages
    <2> HIDE DEF r
    <2> QED
      BY <1>1, <2>1, <2>2, <2>3, SessionUpdate
  <1>4. ASSUME NEW w \in Tasks, TriggerStep(w) PROVE SessionsTyped' /\ JobsHeld'
    BY <1>1, <1>4, TriggerKeepsSessions
  <1>5. ASSUME NEW w \in Tasks, TriggerDies(w) PROVE SessionsTyped' /\ JobsHeld'
    <2>1. session' = [session EXCEPT ![w] = Idle("end", 0)]
      BY <1>5 DEF TriggerDies
    <2>2. /\ Idle("end", 0) \in Session /\ Idle("end", 0).job = 0
          /\ Idle("end", 0).stage = "end"
      BY OrchestrationAssumption, IdleIsTyped DEF Stages
    <2> QED
      BY <1>1, <2>1, <2>2, SessionUpdate
  <1>6. ASSUME NEW t \in Tasks, RequestCancel(t) \/ CommitCancel(t) \/ EscrowFunded(t)
        PROVE  SessionsTyped' /\ JobsHeld'
    BY <1>2, <1>6 DEF RequestCancel, CommitCancel, EscrowFunded
  <1>7. ASSUME NEW j \in DOMAIN jobs, LeaseExpires(j) PROVE SessionsTyped' /\ JobsHeld'
    BY <1>2, <1>7 DEF LeaseExpires
  <1>8. CASE UNCHANGED vars
    BY <1>2, <1>8 DEF vars
  <1> QED
    BY <1>3, <1>4, <1>5, <1>6, <1>7, <1>8 DEF Next

-----------------------------------------------------------------------------
(* The rows and the requests in flight.                                    *)

LEMMA FailJobRows ==
    ASSUME Types, NEW w \in Tasks, Busy(w), NEW terminal, FailJob(w, terminal)
    PROVE  /\ node' \in [Tasks -> [Nodes -> NodeStatus]]
           /\ \A t \in Tasks, n \in Nodes :
                 node'[t][n] = "COMPLETED" => node[t][n] = "COMPLETED"
  <1> DEFINE t == TaskOf(w)
             n == NodeOf(w)
             verdict == IF FailedAs(session[w], terminal) = "QUEUED" THEN "QUEUED" ELSE "FAILED"
             status == Write(node[t][n], session[w].nodes[n], verdict)
  <1>1. t \in Tasks /\ n \in Nodes /\ node \in [Tasks -> [Nodes -> NodeStatus]]
    BY HeldJob DEF Types, RowsTyped
  <1>2. status \in NodeStatus /\ (status = "COMPLETED" => node[t][n] = "COMPLETED")
    BY <1>1 DEF Write, NodeStatus
  <1>3. node' = [node EXCEPT ![t][n] = status]
    BY DEF FailJob
  <1> HIDE DEF t, n, status
  <1> QED
    BY <1>1, <1>2, <1>3

LEMMA CountedUp ==
    ASSUME NEW f \in [Tasks -> Nat], NEW t \in Tasks, NEW k \in Nat
    PROVE  [f EXCEPT ![t] = @ + k] \in [Tasks -> Nat]
  OBVIOUS

LEMMA TriggerKeepsRows ==
    ASSUME Types, NEW w \in Tasks, TriggerStep(w)
    PROVE  RowsTyped'
  <1>1. /\ task \in [Tasks -> TaskStatus] /\ node \in [Tasks -> [Nodes -> NodeStatus]]
        /\ outputs \in [Tasks -> SUBSET Nodes] /\ escrow \in [Tasks -> EscrowRow]
        /\ workflow \in [Tasks -> WorkflowStatus]
        /\ credits \in [Tasks -> Nat] /\ settlements \in [Tasks -> Nat]
    BY DEF Types, RowsTyped
  <1>2. ASSUME UNCHANGED <<task, workflow, outputs, escrow, credits, settlements>>,
               node' \in [Tasks -> [Nodes -> NodeStatus]]
        PROVE  RowsTyped'
    BY <1>1, <1>2 DEF RowsTyped
  <1>3. CASE SelectJob(w) \/ Heartbeat(w)
    BY <1>1, <1>2, <1>3 DEF SelectJob, Heartbeat, db
  <1>4. CASE TakeLease(w)
    <2>1. Busy(w)
      BY <1>4 DEF TakeLease, At, Busy
    <2>2. TaskOf(w) \in Tasks /\ NodeOf(w) \in Nodes
      BY <2>1, HeldJob
    <2>3. node' \in [Tasks -> [Nodes -> NodeStatus]]
      BY <1>1, <1>4, <2>2 DEF TakeLease, Write, NodeStatus
    <2> QED
      BY <1>2, <1>4, <2>3 DEF TakeLease
  <1>5. CASE CheckGuards(w) \/ CallFails(w) \/ Advance(w)
    <2>1. Busy(w)
      BY <1>5 DEF CheckGuards, CallFails, Advance, At, Busy
    <2>2. FailJob(w, TRUE) \/ FailJob(w, FALSE) \/ UNCHANGED node
      BY <1>5 DEF CheckGuards, CallFails, Advance
    <2>3. node' \in [Tasks -> [Nodes -> NodeStatus]]
      BY <1>1, <2>1, <2>2, FailJobRows
    <2> QED
      BY <1>2, <1>5, <2>3 DEF CheckGuards, CallFails, Advance
  <1>6. CASE CompleteJob(w)
    <2>1. Busy(w)
      BY <1>6 DEF CompleteJob, At, Busy
    <2>2. TaskOf(w) \in Tasks /\ NodeOf(w) \in Nodes
      BY <2>1, HeldJob
    <2> QED
      BY <1>1, <1>6, <2>2 DEF CompleteJob, NodeStatus, RowsTyped
  <1>7. CASE Verify(w) \/ BeginSettling(w)
    BY <1>1, <1>7 DEF Verify, BeginSettling, SetTask, Write, TaskStatus, RowsTyped
  <1>8. CASE RecordSettlement(w)
    <2>1. Busy(w)
      BY <1>8 DEF RecordSettlement, At, Busy
    <2>2. FailJob(w, FALSE) \/ UNCHANGED node
      BY <1>8 DEF RecordSettlement
    <2>3. node' \in [Tasks -> [Nodes -> NodeStatus]]
      BY <1>1, <2>1, <2>2, FailJobRows
    <2>4. TaskOf(w) \in Tasks
      BY <2>1, HeldJob
    <2>5. credits' \in [Tasks -> Nat]
      <3>1. CASE UNCHANGED credits
        BY <1>1, <3>1
      <3>2. ASSUME NEW credited \in {0, 1},
                   credits' = [credits EXCEPT ![TaskOf(w)] = @ + credited]
            PROVE  credits' \in [Tasks -> Nat]
        BY <1>1, <2>4, <3>2, CountedUp
      <3> QED
        BY <1>8, <3>1, <3>2 DEF RecordSettlement
    <2> QED
      BY <1>1, <1>8, <2>3, <2>5 DEF RecordSettlement, RowsTyped
  <1>9. CASE SubmitSettlement(w)
    <2>1. Busy(w)
      BY <1>9 DEF SubmitSettlement, At, Busy
    <2>2. TaskOf(w) \in Tasks
      BY <2>1, HeldJob
    <2>3. credits' \in [Tasks -> Nat] /\ settlements' \in [Tasks -> Nat]
      <3>1. \/ UNCHANGED <<credits, settlements>>
            \/ /\ credits' = [credits EXCEPT ![TaskOf(w)] = @ + 1]
               /\ settlements' = [settlements EXCEPT ![TaskOf(w)] = @ + 1]
        BY <1>9 DEF SubmitSettlement
      <3>2. CASE UNCHANGED <<credits, settlements>>
        BY <1>1, <3>2
      <3>3. CASE ~UNCHANGED <<credits, settlements>>
        <4>1. credits' = [credits EXCEPT ![TaskOf(w)] = @ + 1]
          BY <3>1, <3>3
        <4>2. settlements' = [settlements EXCEPT ![TaskOf(w)] = @ + 1]
          BY <3>1, <3>3
        <4>3. credits' \in [Tasks -> Nat]
          BY <1>1, <2>2, <4>1
        <4>4. settlements' \in [Tasks -> Nat]
          BY <1>1, <2>2, <4>2
        <4> QED
          BY <4>3, <4>4
      <3> QED
        BY <3>2, <3>3
    <2> QED
      BY <1>1, <1>9, <2>3 DEF SubmitSettlement, EscrowRow, RowsTyped
  <1>10. CASE FinishTask(w)
    <2> DEFINE credited == IF session[w].credited THEN 1 ELSE 0
    <2>1. Busy(w) /\ credited \in Nat /\ credits' = [credits EXCEPT ![TaskOf(w)] = @ + credited]
      BY <1>10 DEF FinishTask, At, Busy
    <2> HIDE DEF credited
    <2>2. credits' \in [Tasks -> Nat]
      BY <1>1, <2>1, HeldJob, CountedUp
    <2> QED
      BY <1>1, <1>10, <2>2 DEF FinishTask, Write, TaskStatus, WorkflowStatus, RowsTyped
  <1> QED
    BY <1>3, <1>4, <1>5, <1>6, <1>7, <1>8, <1>9, <1>10 DEF TriggerStep

LEMMA RowsAreKept == Types /\ [Next]_vars => RowsTyped' /\ CancelTyped'
  <1> SUFFICES ASSUME Types, [Next]_vars PROVE RowsTyped' /\ CancelTyped'
    OBVIOUS
  <1>1. RowsTyped /\ CancelTyped /\ DOMAIN jobs \subseteq DOMAIN jobs'
    BY JobsAreKept DEF Types, JobsGrow, JobsStay
  <1>2. ASSUME UNCHANGED <<cancel, crashes>> PROVE CancelTyped'
    BY <1>1, <1>2 DEF CancelTyped
  <1>3. ASSUME UNCHANGED db PROVE RowsTyped'
    BY <1>1, <1>3 DEF RowsTyped, db
  <1>4. ASSUME NEW t \in Tasks, Submit(t) \/ EscrowFunded(t) PROVE RowsTyped' /\ CancelTyped'
    BY <1>1, <1>2, <1>4
       DEF Submit, EscrowFunded, RowsTyped, TaskStatus, WorkflowStatus, EscrowRow
  <1>5. ASSUME NEW w \in Tasks, TriggerStep(w) PROVE RowsTyped' /\ CancelTyped'
    <2>1. UNCHANGED <<cancel, crashes>>
      BY <1>5 DEF TriggerStep, SelectJob, TakeLease, CheckGuards, CompleteJob, CallFails, Advance,
                  Verify, BeginSettling, SetTask, RecordSettlement, SubmitSettlement, FinishTask,
                  Heartbeat
    <2> QED
      BY <1>2, <1>5, <2>1, TriggerKeepsRows
  <1>6. ASSUME NEW w \in Tasks, TriggerDies(w) PROVE RowsTyped' /\ CancelTyped'
    <2>1. crashes' \in 0..MaxCrashes
      BY <1>1, <1>6, OrchestrationAssumption DEF TriggerDies, CancelTyped
    <2> QED
      BY <1>1, <1>3, <1>6, <2>1 DEF TriggerDies, CancelTyped, db
  <1>7. ASSUME NEW t \in Tasks, RequestCancel(t) PROVE RowsTyped' /\ CancelTyped'
    <2>1. workflow[t] \in WorkflowStatus /\ OpenJobs(t) \subseteq DOMAIN jobs /\ jobs' = jobs
      BY <1>1, <1>7 DEF RowsTyped, OpenJobs, RequestCancel, db
    <2>2. [on |-> TRUE, workflow |-> workflow[t], jobs |-> OpenJobs(t)]
             \in [on : BOOLEAN, workflow : WorkflowStatus, jobs : SUBSET DOMAIN jobs]
      BY <2>1
    <2> QED
      BY <1>1, <1>3, <1>7, <2>1, <2>2 DEF RequestCancel, CancelTyped
  <1>8. ASSUME NEW t \in Tasks, CommitCancel(t) PROVE RowsTyped' /\ CancelTyped'
    <2>1. RowsTyped'
      BY <1>1, <1>8 DEF CommitCancel, RowsTyped, Write, TaskStatus, WorkflowStatus
    <2>2. NoCancel \in [on : BOOLEAN, workflow : WorkflowStatus, jobs : SUBSET DOMAIN jobs']
      BY DEF NoCancel, WorkflowStatus
    <2>3. cancel \in [Tasks -> [on : BOOLEAN, workflow : WorkflowStatus,
                                jobs : SUBSET DOMAIN jobs']]
      BY <1>1 DEF CancelTyped
    <2> QED
      BY <1>1, <1>8, <2>1, <2>2, <2>3 DEF CommitCancel, CancelTyped
  <1>9. ASSUME NEW j \in DOMAIN jobs, LeaseExpires(j) PROVE RowsTyped' /\ CancelTyped'
    BY <1>1, <1>2, <1>9 DEF LeaseExpires, RowsTyped
  <1>10. CASE UNCHANGED vars
    BY <1>2, <1>3, <1>10 DEF vars
  <1> QED
    BY <1>4, <1>5, <1>6, <1>7, <1>8, <1>9, <1>10 DEF Next

LEMMA TypesInit == Init => Types
  <1> SUFFICES ASSUME Init PROVE Types
    OBVIOUS
  <1>1. /\ Idle("off", TriggerRounds) \in Session /\ Idle("off", TriggerRounds).job = 0
        /\ Idle("off", TriggerRounds).stage = "off"
    BY OrchestrationAssumption, IdleIsTyped DEF Stages
  <1>2. SessionsTyped /\ JobsHeld
    BY <1>1 DEF Init, SessionsTyped, JobsHeld, Busy
  <1>3. RowsTyped
    BY OrchestrationAssumption
       DEF Init, RowsTyped, AllQueued, TaskStatus, WorkflowStatus, NodeStatus, EscrowRow
  <1>4. jobs \in Seq(Job) /\ CancelTyped
    BY OrchestrationAssumption DEF Init, CancelTyped, NoCancel, WorkflowStatus
  <1> QED
    BY <1>2, <1>3, <1>4 DEF Types

LEMMA TypesAreKept == Types /\ [Next]_vars => Types'
  BY JobsAreKept, SessionsAreKept, RowsAreKept DEF Types, JobsGrow, JobsStay

\* Every row, snapshot and cancel request keeps its type, and a session refers
\* to jobs that exist (TypeOK), for any number of tasks, nodes and crashes.
THEOREM OrchestrationTypes == Spec => []TypeOK
  <1>1. Spec => []Types
    BY TypesInit, TypesAreKept, PTL DEF Spec
  <1> QED
    BY <1>1, TypesGiveTypeOK, PTL

-----------------------------------------------------------------------------
(* Safety.  What a session believes about its task was true when it loaded  *)
(* it, and the rows it speaks of only move one way: outputs are never taken *)
(* back and a funded escrow never becomes unfunded.  So a stale snapshot is *)
(* still right about them, and that is the inductive invariant.             *)

Rewarded(t) == \/ credits[t] > 0 \/ settlements[t] > 0
               \/ task[t] \in {"VERIFYING", "SETTLING", "COMPLETED"}

Snap(w) ==
    Busy(w) =>
        /\ \A n \in Nodes : session[w].nodes[n] = "COMPLETED" => n \in outputs[TaskOf(w)]
        /\ \A n \in session[w].pending : n - 1 \in outputs[TaskOf(w)]
        /\ Settling(w) => outputs[TaskOf(w)] = Nodes
        /\ session[w].escrow # "CREATED" => escrow[TaskOf(w)] # "CREATED"
        /\ At(w, "call") => session[w].escrow # "CREATED"

Snaps == \A w \in Tasks : Snap(w) /\ (~Busy(w) => session[w].pending = {})
\* Only a submission starts the task's trigger.
Unstarted == \A t \in Tasks : task[t] = "ABSENT" => session[t].stage = "off"
WorkStored == \A t \in Tasks, n \in Nodes : node[t][n] = "COMPLETED" => n \in outputs[t]
Rows == Unstarted /\ WorkStored /\ DependencyOrder /\ PaidForWholeWork /\ NoWorkBeforeFunding

\* How one step may change the rows of a task.
RowsMove ==
    \A t \in Tasks :
        /\ outputs[t] \subseteq outputs'[t]
        /\ task'[t] = "ABSENT" => task[t] = "ABSENT"
        /\ escrow[t] # "CREATED" => escrow'[t] # "CREATED"
        /\ \A n \in Nodes : node'[t][n] = "COMPLETED" => node[t][n] = "COMPLETED" \/ n \in outputs'[t]
        /\ Rewarded(t)' => Rewarded(t) \/ \E w \in Tasks : Settling(w) /\ TaskOf(w) = t
        /\ outputs'[t] = outputs[t] \/ \E w \in Tasks : At(w, "call") /\ TaskOf(w) = t

LEMMA TriggerMovesRows ==
    ASSUME Types, NEW w \in Tasks, TriggerStep(w)
    PROVE  RowsMove
  <1>1. /\ task \in [Tasks -> TaskStatus] /\ node \in [Tasks -> [Nodes -> NodeStatus]]
        /\ outputs \in [Tasks -> SUBSET Nodes] /\ escrow \in [Tasks -> EscrowRow]
        /\ credits \in [Tasks -> Nat] /\ settlements \in [Tasks -> Nat]
    BY DEF Types, RowsTyped
  <1>2. ASSUME UNCHANGED <<task, outputs, escrow, credits, settlements>>,
               \A t \in Tasks, n \in Nodes : node'[t][n] = "COMPLETED" => node[t][n] = "COMPLETED"
        PROVE  RowsMove
    BY <1>2 DEF RowsMove, Rewarded
  <1>3. CASE SelectJob(w) \/ Heartbeat(w)
    BY <1>2, <1>3 DEF SelectJob, Heartbeat, db
  <1>4. CASE TakeLease(w)
    <2>1. Busy(w)
      BY <1>4 DEF TakeLease, At, Busy
    <2>2. TaskOf(w) \in Tasks /\ NodeOf(w) \in Nodes
      BY <2>1, HeldJob
    <2>3. \A t \in Tasks, n \in Nodes : node'[t][n] = "COMPLETED" => node[t][n] = "COMPLETED"
      BY <1>1, <1>4, <2>2 DEF TakeLease, Write
    <2> QED
      BY <1>2, <1>4, <2>3 DEF TakeLease
  <1>5. CASE CheckGuards(w) \/ CallFails(w) \/ Advance(w)
    <2>1. Busy(w)
      BY <1>5 DEF CheckGuards, CallFails, Advance, At, Busy
    <2>2. FailJob(w, TRUE) \/ FailJob(w, FALSE) \/ UNCHANGED node
      BY <1>5 DEF CheckGuards, CallFails, Advance
    <2>3. \A t \in Tasks, n \in Nodes : node'[t][n] = "COMPLETED" => node[t][n] = "COMPLETED"
      BY <2>1, <2>2, FailJobRows
    <2> QED
      BY <1>2, <1>5, <2>3 DEF CheckGuards, CallFails, Advance
  <1>6. CASE CompleteJob(w)
    <2>1. Busy(w) /\ At(w, "call")
      BY <1>6 DEF CompleteJob, At, Busy
    <2>2. TaskOf(w) \in Tasks /\ NodeOf(w) \in Nodes
      BY <2>1, HeldJob
    <2>3. /\ UNCHANGED <<task, escrow, credits, settlements>>
          /\ node' = [node EXCEPT ![TaskOf(w)][NodeOf(w)] = "COMPLETED"]
          /\ outputs' = [outputs EXCEPT ![TaskOf(w)] = @ \cup {NodeOf(w)}]
      BY <1>6 DEF CompleteJob
    <2>4. \A t \in Tasks, n \in Nodes :
             node'[t][n] = "COMPLETED" => node[t][n] = "COMPLETED" \/ n \in outputs'[t]
      BY <1>1, <2>2, <2>3
    <2>5. \A t \in Tasks : /\ outputs[t] \subseteq outputs'[t]
                           /\ t # TaskOf(w) => outputs'[t] = outputs[t]
      BY <1>1, <2>2, <2>3
    <2> QED
      BY <2>1, <2>2, <2>3, <2>4, <2>5 DEF RowsMove, Rewarded
  <1>7. ASSUME Settling(w), TaskOf(w) \in Tasks,
               UNCHANGED outputs,
               task'[TaskOf(w)] = "ABSENT" => task[TaskOf(w)] = "ABSENT",
               \A t \in Tasks, n \in Nodes : node'[t][n] = "COMPLETED" => node[t][n] = "COMPLETED",
               \A t \in Tasks : escrow[t] # "CREATED" => escrow'[t] # "CREATED",
               \A t \in Tasks \ {TaskOf(w)} : /\ task'[t] = task[t] /\ credits'[t] = credits[t]
                                              /\ settlements'[t] = settlements[t]
        PROVE  RowsMove
    BY <1>7 DEF RowsMove, Rewarded
  <1>8. ASSUME Settling(w)
        PROVE  Busy(w) /\ TaskOf(w) \in Tasks
    <2>1. Busy(w)
      BY <1>8 DEF Settling, Busy
    <2> QED
      BY <2>1, HeldJob
  <1>9. CASE Verify(w) \/ BeginSettling(w)
    <2>1. Settling(w)
      BY <1>9 DEF Verify, BeginSettling, At, Settling
    <2>2. /\ \A t \in Tasks \ {TaskOf(w)} : task'[t] = task[t]
          /\ task'[TaskOf(w)] = "ABSENT" => task[TaskOf(w)] = "ABSENT"
      BY <1>1, <1>8, <1>9, <2>1 DEF Verify, BeginSettling, SetTask, Write
    <2> QED
      BY <1>7, <1>8, <1>9, <2>1, <2>2 DEF Verify, BeginSettling, SetTask
  <1>10. CASE RecordSettlement(w)
    <2>1. Settling(w)
      BY <1>10 DEF RecordSettlement, At, Settling
    <2>2. FailJob(w, FALSE) \/ UNCHANGED node
      BY <1>10 DEF RecordSettlement
    <2>3. \A t \in Tasks, n \in Nodes : node'[t][n] = "COMPLETED" => node[t][n] = "COMPLETED"
      BY <1>8, <2>1, <2>2, FailJobRows
    <2>4. \A t \in Tasks \ {TaskOf(w)} : credits'[t] = credits[t]
      BY <1>1, <1>10 DEF RecordSettlement
    <2> QED
      BY <1>7, <1>8, <1>10, <2>1, <2>3, <2>4 DEF RecordSettlement
  <1>11. CASE SubmitSettlement(w)
    <2>1. Settling(w)
      BY <1>11 DEF SubmitSettlement, At, Settling
    <2>2. \A t \in Tasks \ {TaskOf(w)} :
             credits'[t] = credits[t] /\ settlements'[t] = settlements[t]
      BY <1>1, <1>11 DEF SubmitSettlement
    <2>3. \A t \in Tasks : escrow[t] # "CREATED" => escrow'[t] # "CREATED"
      BY <1>1, <1>11 DEF SubmitSettlement
    <2> QED
      BY <1>7, <1>8, <1>11, <2>1, <2>2, <2>3 DEF SubmitSettlement
  <1>12. CASE FinishTask(w)
    <2>1. Settling(w)
      BY <1>12 DEF FinishTask, At, Settling
    <2>2. /\ \A t \in Tasks \ {TaskOf(w)} : task'[t] = task[t] /\ credits'[t] = credits[t]
          /\ task'[TaskOf(w)] = "ABSENT" => task[TaskOf(w)] = "ABSENT"
      BY <1>1, <1>8, <1>12, <2>1 DEF FinishTask
    <2> QED
      BY <1>7, <1>8, <1>12, <2>1, <2>2 DEF FinishTask
  <1> QED
    BY <1>3, <1>4, <1>5, <1>6, <1>9, <1>10, <1>11, <1>12 DEF TriggerStep

LEMMA RowsAreMoved == Types /\ [Next]_vars => RowsMove
  <1> SUFFICES ASSUME Types, [Next]_vars PROVE RowsMove
    OBVIOUS
  <1>1. /\ task \in [Tasks -> TaskStatus] /\ escrow \in [Tasks -> EscrowRow]
    BY DEF Types, RowsTyped
  <1>2. ASSUME UNCHANGED <<node, outputs, credits, settlements>>,
               \A t \in Tasks : escrow[t] # "CREATED" => escrow'[t] # "CREATED",
               \A t \in Tasks : task'[t] = task[t] \/ task'[t] \in {"QUEUED", "CANCELLED"}
        PROVE  RowsMove
    BY <1>2 DEF RowsMove, Rewarded
  <1>3. ASSUME NEW t \in Tasks, Submit(t) \/ CommitCancel(t) \/ EscrowFunded(t) PROVE RowsMove
    <2>1. /\ UNCHANGED <<node, outputs, credits, settlements>>
          /\ \A u \in Tasks : escrow[u] # "CREATED" => escrow'[u] # "CREATED"
          /\ \A u \in Tasks : task'[u] = task[u] \/ task'[u] \in {"QUEUED", "CANCELLED"}
      BY <1>1, <1>3 DEF Submit, CommitCancel, EscrowFunded
    <2> QED
      BY <1>2, <2>1
  <1>4. ASSUME NEW t \in Tasks, TriggerStep(t) PROVE RowsMove
    BY <1>4, TriggerMovesRows
  <1>5. ASSUME NEW t \in Tasks, TriggerDies(t) \/ RequestCancel(t) PROVE RowsMove
    BY <1>2, <1>5 DEF TriggerDies, RequestCancel, db
  <1>6. ASSUME NEW j \in DOMAIN jobs, LeaseExpires(j) PROVE RowsMove
    BY <1>2, <1>6 DEF LeaseExpires
  <1>7. CASE UNCHANGED vars
    BY <1>2, <1>7 DEF vars, db
  <1> QED
    BY <1>3, <1>4, <1>5, <1>6, <1>7 DEF Next

-----------------------------------------------------------------------------
(* The snapshots.                                                          *)

\* A session that keeps its job stays right, when what it newly believes is so.
LEMMA SnapMoves ==
    ASSUME Types, JobsStay, RowsMove, RowsTyped', NEW w \in Tasks, Busy(w), Snap(w),
           session'[w].job = session[w].job,
           \A n \in Nodes : session'[w].nodes[n] = "COMPLETED" =>
               session[w].nodes[n] = "COMPLETED" \/ n \in outputs'[TaskOf(w)],
           \A n \in session'[w].pending :
               n \in session[w].pending \/ n - 1 \in outputs'[TaskOf(w)],
           Settling(w)' => Settling(w) \/ outputs'[TaskOf(w)] = Nodes,
           session'[w].escrow = session[w].escrow,
           At(w, "call")' => At(w, "call") \/ session[w].escrow # "CREATED"
    PROVE  Snap(w)'
  <1> DEFINE t == TaskOf(w)
  <1>1. t \in Tasks /\ session[w].job \in DOMAIN jobs
    BY HeldJob
  <1>2. TaskOf(w)' = t
    BY <1>1 DEF TaskOf, JobOf, JobsStay
  <1>3. /\ outputs[t] \subseteq outputs'[t] /\ outputs'[t] \subseteq Nodes
        /\ escrow[t] # "CREATED" => escrow'[t] # "CREATED"
    BY <1>1 DEF RowsMove, RowsTyped
  <1>4. /\ \A n \in Nodes : session[w].nodes[n] = "COMPLETED" => n \in outputs[t]
        /\ \A n \in session[w].pending : n - 1 \in outputs[t]
        /\ Settling(w) => outputs[t] = Nodes
        /\ session[w].escrow # "CREATED" => escrow[t] # "CREATED"
        /\ At(w, "call") => session[w].escrow # "CREATED"
    BY DEF Snap
  <1> HIDE DEF t
  <1>5. /\ \A n \in Nodes : session'[w].nodes[n] = "COMPLETED" => n \in outputs'[t]
        /\ \A n \in session'[w].pending : n - 1 \in outputs'[t]
    BY <1>3, <1>4 DEF t
  <1>6. /\ Settling(w)' => outputs'[t] = Nodes
        /\ session'[w].escrow # "CREATED" => escrow'[t] # "CREATED"
        /\ At(w, "call")' => session'[w].escrow # "CREATED"
    BY <1>3, <1>4 DEF t
  <1> QED
    BY <1>2, <1>5, <1>6 DEF Snap

LEMMA SnapStays ==
    ASSUME Types, JobsStay, RowsMove, RowsTyped', NEW w \in Tasks, Snap(w),
           session'[w] = session[w]
    PROVE  Snap(w)'
  <1>1. CASE Busy(w)
    BY <1>1, SnapMoves DEF Settling, At
  <1>2. CASE ~Busy(w)
    BY <1>2 DEF Busy, Snap
  <1> QED
    BY <1>1, <1>2

\* A session between two iterations believes nothing.
LEMMA NotBusy ==
    ASSUME NEW w, session'[w].stage \in {"off", "claim", "end"}, session'[w].pending = {}
    PROVE  Snap(w)' /\ (~Busy(w) => session[w].pending = {})'
  BY DEF Snap, Busy

LEMMA FailJobSnap ==
    ASSUME Types, JobsStay, RowsMove, RowsTyped', NEW w \in Tasks, Busy(w), Snap(w),
           NEW terminal, FailJob(w, terminal)
    PROVE  Snap(w)' /\ Busy(w)'
  <1> DEFINE r == [session[w] EXCEPT !.stage = "finally", !.credited = FALSE]
  <1>1. session' = [session EXCEPT ![w] = r]
    BY DEF FailJob
  <1>2. /\ session[w] \in Session /\ r.job = session[w].job /\ r.nodes = session[w].nodes
        /\ r.pending = session[w].pending /\ r.escrow = session[w].escrow /\ r.stage = "finally"
    BY HeldJob DEF Session
  <1> HIDE DEF r
  <1>3. session'[w] = r
    BY <1>1 DEF Types, SessionsTyped
  <1> QED
    BY <1>2, <1>3, SnapMoves DEF Settling, At, Busy

LEMMA TriggerKeepsSnap ==
    ASSUME Types, JobsStay, RowsMove, RowsTyped', WorkStored, NEW w \in Tasks, Snap(w),
           ~Busy(w) => session[w].pending = {}, TriggerStep(w)
    PROVE  Snap(w)' /\ (~Busy(w) => session[w].pending = {})'
  <1>1. session[w] \in Session /\ DOMAIN session = Tasks
    BY DEF Types, SessionsTyped
  <1>2. ASSUME Busy(w), NEW r, r = session'[w], r.job = session[w].job, r.nodes = session[w].nodes,
               r.pending = session[w].pending, r.escrow = session[w].escrow,
               r.stage \notin {"off", "claim", "end", "call"},
               r.stage \in {"settling", "credit", "oracle", "finish"} => Settling(w),
               r.stage # "verify"
        PROVE  Snap(w)' /\ (~Busy(w) => session[w].pending = {})'
    BY <1>2, SnapMoves DEF Settling, At, Busy
  <1>3. ASSUME Busy(w), NEW terminal, FailJob(w, terminal)
        PROVE  Snap(w)' /\ (~Busy(w) => session[w].pending = {})'
    BY <1>3, FailJobSnap
  <1>4. CASE SelectJob(w)
    <2>1. CASE session' = [session EXCEPT ![w] = Idle("end", 0)]
      BY <1>1, <2>1, NotBusy DEF Idle
    <2>2. ASSUME NEW j \in Claimable(w),
                 LET t == jobs[j].task IN
                  session' = [session EXCEPT ![w] =
                    [@ EXCEPT !.stage = "lease", !.job = j, !.task = task[t],
                              !.workflow = workflow[t], !.nodes = node[t],
                              !.status = jobs[j].status, !.attempts = jobs[j].attempts,
                              !.escrow = escrow[t]]]
          PROVE  Snap(w)' /\ (~Busy(w) => session[w].pending = {})'
      <3> DEFINE t == jobs[j].task
                 r == [session[w] EXCEPT !.stage = "lease", !.job = j, !.task = task[t],
                              !.workflow = workflow[t], !.nodes = node[t],
                              !.status = jobs[j].status, !.attempts = jobs[j].attempts,
                              !.escrow = escrow[t]]
      <3>1. j \in DOMAIN jobs /\ jobs[j] \in Job
        BY <2>2 DEF Claimable, Types
      <3>2. t \in Tasks
        BY <3>1 DEF Job
      <3>3. session'[w] = r
        BY <1>1, <2>2
      <3>4. /\ r.stage = "lease" /\ r.job = j /\ r.nodes = node[t] /\ r.escrow = escrow[t]
            /\ r.pending = session[w].pending
        BY <1>1 DEF Session
      <3>5. session[w].pending = {}
        BY <1>4 DEF SelectJob, At, Busy
      <3>6. TaskOf(w)' = t
        BY <3>1, <3>3, <3>4 DEF TaskOf, JobOf, JobsStay
      <3>7. outputs[t] \subseteq outputs'[t] /\ (escrow[t] # "CREATED" => escrow'[t] # "CREATED")
        BY <3>2 DEF RowsMove
      <3>8. \A n \in Nodes : node[t][n] = "COMPLETED" => n \in outputs'[t]
        BY <3>2, <3>7 DEF WorkStored
      <3> HIDE DEF t, r
      <3> QED
        BY <3>3, <3>4, <3>5, <3>6, <3>7, <3>8 DEF Snap, Settling, At, Busy
    <2> QED
      BY <1>4, <2>1, <2>2 DEF SelectJob
  <1>5. CASE TakeLease(w)
    <2> DEFINE n == NodeOf(w)
               made == session[w].attempts + 1
               r == [session[w] EXCEPT !.stage = "guard", !.status = "RUNNING",
                                       !.attempts = made, !.nodes[n] = "RUNNING"]
    <2>1. Busy(w)
      BY <1>5 DEF TakeLease, At, Busy
    <2>2. session' = [session EXCEPT ![w] = r]
      BY <1>5 DEF TakeLease
    <2> HIDE DEF n, made
    <2>3. /\ r.job = session[w].job /\ r.pending = session[w].pending /\ r.stage = "guard"
          /\ r.escrow = session[w].escrow
          /\ \A k \in Nodes : r.nodes[k] = "COMPLETED" => session[w].nodes[k] = "COMPLETED"
      BY <1>1 DEF Session
    <2> HIDE DEF r
    <2>4. session'[w] = r
      BY <1>1, <2>2
    <2> QED
      BY <2>1, <2>3, <2>4, SnapMoves DEF Settling, At, Busy
  <1>6. CASE CheckGuards(w)
    <2>1. Busy(w)
      BY <1>6 DEF CheckGuards, At, Busy
    <2>2. CASE FailJob(w, TRUE) \/ FailJob(w, FALSE)
      BY <1>3, <2>1, <2>2
    <2>3. CASE EscrowReady(session[w]) /\ Go(w, "call")
      <3> DEFINE r == [session[w] EXCEPT !.stage = "call"]
      <3>1. session'[w] = r
        BY <1>1, <2>3 DEF Go, Session
      <3>2. /\ r.job = session[w].job /\ r.pending = session[w].pending /\ r.stage = "call"
            /\ r.escrow = session[w].escrow /\ r.nodes = session[w].nodes
        BY <1>1 DEF Session
      <3>3. session[w].escrow # "CREATED"
        BY <2>3 DEF EscrowReady
      <3> HIDE DEF r
      <3> QED
        BY <2>1, <3>1, <3>2, <3>3, SnapMoves DEF Settling, At, Busy
    <2> QED
      BY <1>6, <2>2, <2>3 DEF CheckGuards
  <1>7. CASE CompleteJob(w)
    <2> DEFINE n == NodeOf(w)
               r == [session[w] EXCEPT !.stage = "advance", !.status = "COMPLETED",
                                       !.nodes[n] = "COMPLETED"]
    <2>1. Busy(w)
      BY <1>7 DEF CompleteJob, At, Busy
    <2>2. session' = [session EXCEPT ![w] = r]
          /\ outputs' = [outputs EXCEPT ![TaskOf(w)] = @ \cup {n}]
      BY <1>7 DEF CompleteJob
    <2>3. n \in Nodes /\ n \in outputs'[TaskOf(w)]
      BY <2>1, <2>2, HeldJob DEF Types, RowsTyped
    <2> HIDE DEF n
    <2>4. /\ r.job = session[w].job /\ r.pending = session[w].pending /\ r.stage = "advance"
          /\ r.escrow = session[w].escrow
          /\ \A k \in Nodes : r.nodes[k] = "COMPLETED" => session[w].nodes[k] = "COMPLETED" \/ k = n
      BY <1>1 DEF Session
    <2> HIDE DEF r
    <2>5. session'[w] = r
      BY <1>1, <2>2
    <2> QED
      BY <2>1, <2>3, <2>4, <2>5, SnapMoves DEF Settling, At, Busy
  <1>8. CASE CallFails(w)
    BY <1>3, <1>8 DEF CallFails, At, Busy
  <1>9. CASE Advance(w)
    <2>1. Busy(w) /\ UNCHANGED outputs
      BY <1>9 DEF Advance, At, Busy
    <2>2. CASE FailJob(w, FALSE)
      BY <1>3, <2>1, <2>2
    <2>3. CASE ~FailJob(w, FALSE)
      <3> DEFINE stage == IF Finished(session[w]) THEN "verify" ELSE "finally"
                 r == [session[w] EXCEPT !.stage = stage, !.pending = ToEnqueue(w)]
      <3>1. session'[w] = r
        BY <1>1, <1>9, <2>3 DEF Advance
      <3>2. /\ r.job = session[w].job /\ r.nodes = session[w].nodes /\ r.stage = stage
            /\ r.escrow = session[w].escrow /\ r.pending = ToEnqueue(w)
        BY <1>1 DEF Session
      <3>3. TaskOf(w) \in Tasks
        BY <2>1, HeldJob
      <3>4. \A n \in ToEnqueue(w) : n - 1 \in outputs'[TaskOf(w)]
        <4>1. ASSUME NEW n \in ToEnqueue(w) PROVE n - 1 \in Nodes
          BY <4>1, NodesAreNumbers DEF ToEnqueue, Ready, Nodes
        <4> QED
          BY <2>1, <4>1 DEF ToEnqueue, Ready, Snap
      <3>5. Finished(session[w]) => outputs'[TaskOf(w)] = Nodes
        <4>1. outputs[TaskOf(w)] \subseteq Nodes
          BY <3>3 DEF Types, RowsTyped
        <4> QED
          BY <2>1, <4>1 DEF Finished, AllComplete, Snap
      <3>6. /\ stage \in {"verify", "finally"}
            /\ stage = "verify" => Finished(session[w])
        OBVIOUS
      <3> HIDE DEF r, stage
      <3> QED
        BY <2>1, <3>1, <3>2, <3>4, <3>5, <3>6, SnapMoves DEF Settling, At, Busy
    <2> QED
      BY <2>2, <2>3
  <1>10. CASE Verify(w) \/ BeginSettling(w)
    <2>1. PICK status \in TaskStatus, stage \in {"settling", "credit"} :
              SetTask(w, status, stage)
      BY <1>10 DEF Verify, BeginSettling, TaskStatus
    <2> DEFINE r == [session[w] EXCEPT !.stage = stage, !.task = status]
    <2>2. session'[w] = r
      BY <1>1, <2>1 DEF SetTask
    <2>3. /\ r.job = session[w].job /\ r.nodes = session[w].nodes /\ r.stage = stage
          /\ r.escrow = session[w].escrow /\ r.pending = session[w].pending
      BY <1>1 DEF Session
    <2>4. Busy(w) /\ Settling(w)
      BY <1>10 DEF Verify, BeginSettling, At, Busy, Settling
    <2> HIDE DEF r
    <2> QED
      BY <1>2, <2>1, <2>2, <2>3, <2>4
  <1>11. CASE RecordSettlement(w)
    <2>1. Busy(w) /\ Settling(w)
      BY <1>11 DEF RecordSettlement, At, Busy, Settling
    <2>2. CASE FailJob(w, FALSE)
      BY <1>3, <2>1, <2>2
    <2>3. CASE ~FailJob(w, FALSE)
      <3> DEFINE r == [session[w] EXCEPT !.stage = "oracle", !.credited = TRUE]
      <3>1. session'[w] = r
        BY <1>1, <1>11, <2>3 DEF RecordSettlement
      <3>2. /\ r.job = session[w].job /\ r.nodes = session[w].nodes /\ r.stage = "oracle"
            /\ r.escrow = session[w].escrow /\ r.pending = session[w].pending
        BY <1>1 DEF Session
      <3> HIDE DEF r
      <3> QED
        BY <1>2, <2>1, <3>1, <3>2
    <2> QED
      BY <2>2, <2>3
  <1>12. CASE SubmitSettlement(w)
    <2>1. Busy(w) /\ Settling(w)
      BY <1>12 DEF SubmitSettlement, At, Busy, Settling
    <2>2. \/ session'[w] = [session[w] EXCEPT !.stage = "finish", !.credited = FALSE]
          \/ session'[w] = [session[w] EXCEPT !.stage = "finish"]
      BY <1>1, <1>12 DEF SubmitSettlement, Go, Session
    <2> DEFINE r == session'[w]
    <2>3. /\ r.job = session[w].job /\ r.nodes = session[w].nodes /\ r.stage = "finish"
          /\ r.escrow = session[w].escrow /\ r.pending = session[w].pending
      BY <1>1, <2>2 DEF Session
    <2> QED
      BY <1>2, <2>1, <2>3
  <1>13. CASE FinishTask(w)
    <2>1. Busy(w)
      BY <1>13 DEF FinishTask, At, Busy
    <2> DEFINE r == [session[w] EXCEPT !.stage = "finally", !.credited = FALSE]
    <2>2. session'[w] = r
      BY <1>1, <1>13 DEF FinishTask
    <2>3. /\ r.job = session[w].job /\ r.nodes = session[w].nodes /\ r.stage = "finally"
          /\ r.escrow = session[w].escrow /\ r.pending = session[w].pending
      BY <1>1 DEF Session
    <2> HIDE DEF r
    <2> QED
      BY <1>2, <2>1, <2>2, <2>3
  <1>14. CASE Heartbeat(w)
    BY <1>1, <1>14, NotBusy DEF Heartbeat, Idle
  <1> QED
    BY <1>4, <1>5, <1>6, <1>7, <1>8, <1>9, <1>10, <1>11, <1>12, <1>13, <1>14 DEF TriggerStep

LEMMA OthersUntouched ==
    ASSUME Types, NEW w \in Tasks, TriggerStep(w) \/ TriggerDies(w)
    PROVE  \A v \in Tasks \ {w} : session'[v] = session[v]
  <1>1. DOMAIN session = Tasks
    BY DEF Types, SessionsTyped
  <1>2. \/ \E r : session' = [session EXCEPT ![w] = r]
        \/ \E stage : Go(w, stage)
    BY DEF TriggerStep, SelectJob, TakeLease, CheckGuards, CompleteJob, CallFails, Advance,
           Verify, BeginSettling, SetTask, RecordSettlement, SubmitSettlement, FinishTask,
           Heartbeat, FailJob, TriggerDies
  <1> QED
    BY <1>1, <1>2 DEF Go

LEMMA SnapsAreKept == Types /\ Snaps /\ Rows /\ [Next]_vars => Snaps'
  <1> SUFFICES ASSUME Types, Snaps, Rows, [Next]_vars PROVE Snaps'
    OBVIOUS
  <1>1. JobsStay /\ RowsMove /\ RowsTyped' /\ WorkStored
    BY JobsAreKept, RowsAreMoved, RowsAreKept DEF JobsGrow, Rows
  <1>2. DOMAIN session = Tasks
    BY DEF Types, SessionsTyped
  <1>3. ASSUME NEW w \in Tasks, session'[w] = session[w]
        PROVE  Snap(w)' /\ (~Busy(w) => session[w].pending = {})'
    BY <1>1, <1>3, SnapStays DEF Snaps, Busy
  <1>4. ASSUME NEW w \in Tasks, Snap(w)' /\ (~Busy(w) => session[w].pending = {})',
               \A v \in Tasks \ {w} : session'[v] = session[v]
        PROVE  Snaps'
    BY <1>3, <1>4 DEF Snaps
  <1>5. ASSUME UNCHANGED session PROVE Snaps'
    BY <1>3, <1>5 DEF Snaps
  <1>6. ASSUME NEW t \in Tasks, Submit(t) PROVE Snaps'
    <2> DEFINE r == [session[t] EXCEPT !.stage = "claim"]
    <2>1. session[t] \in Session
      BY DEF Types, SessionsTyped
    <2>2. session' = [session EXCEPT ![t] = r]
      BY <1>6, <2>1 DEF Submit, Types, SessionsTyped, Session
    <2>3. r.stage = "claim" /\ r.pending = session[t].pending
      BY <2>1 DEF Session
    <2> HIDE DEF r
    <2>4. session[t].pending = {}
      <3>1. task[t] = "ABSENT"
        BY <1>6 DEF Submit
      <3> QED
        BY <3>1 DEF Snaps, Rows, Unstarted, Busy
    <2> QED
      BY <1>2, <1>4, <2>2, <2>3, <2>4, NotBusy
  <1>7. ASSUME NEW w \in Tasks, TriggerStep(w) PROVE Snaps'
    <2>1. \A v \in Tasks \ {w} : session'[v] = session[v]
      BY <1>7, OthersUntouched
    <2> QED
      BY <1>1, <1>4, <1>7, <2>1, TriggerKeepsSnap DEF Snaps
  <1>8. ASSUME NEW w \in Tasks, TriggerDies(w) PROVE Snaps'
    <2>1. session' = [session EXCEPT ![w] = Idle("end", 0)]
      BY <1>8 DEF TriggerDies
    <2> QED
      BY <1>2, <1>4, <2>1, NotBusy DEF Idle
  <1>9. ASSUME NEW t \in Tasks, RequestCancel(t) \/ CommitCancel(t) \/ EscrowFunded(t) PROVE Snaps'
    BY <1>5, <1>9 DEF RequestCancel, CommitCancel, EscrowFunded
  <1>10. ASSUME NEW j \in DOMAIN jobs, LeaseExpires(j) PROVE Snaps'
    BY <1>5, <1>10 DEF LeaseExpires
  <1>11. CASE UNCHANGED vars
    BY <1>5, <1>11 DEF vars
  <1> QED
    BY <1>6, <1>7, <1>8, <1>9, <1>10, <1>11 DEF Next

-----------------------------------------------------------------------------
(* The safety invariant.                                                   *)

LEMMA RowsStayRight == Types /\ Snaps /\ Rows /\ [Next]_vars => Rows'
  <1> SUFFICES ASSUME Types, Snaps, Rows, [Next]_vars PROVE Rows'
    OBVIOUS
  <1>1. JobsGrow /\ RowsMove /\ RowsTyped'
    BY JobsAreKept, RowsAreMoved, RowsAreKept
  <1>2. \A t \in Tasks : outputs[t] \subseteq outputs'[t] /\ outputs'[t] \subseteq Nodes
    BY <1>1 DEF RowsMove, RowsTyped
  <1>3. WorkStored'
    BY <1>1, <1>2 DEF WorkStored, RowsMove, Rows
  <1>4. DependencyOrder'
    <2> SUFFICES ASSUME NEW j \in DOMAIN jobs', jobs'[j].node > 1
                 PROVE  jobs'[j].node - 1 \in outputs'[jobs'[j].task]
      BY DEF DependencyOrder
    <2>1. CASE j \in DOMAIN jobs
      <3>1. /\ jobs'[j].task = jobs[j].task /\ jobs'[j].node = jobs[j].node
            /\ jobs[j].task \in Tasks
        <4>1. jobs[j] \in Job
          BY <2>1 DEF Types
        <4> QED
          BY <1>1, <2>1, <4>1 DEF JobsGrow, JobsStay, Job
      <3>2. jobs[j].node - 1 \in outputs[jobs[j].task]
        BY <2>1, <3>1 DEF Rows, DependencyOrder
      <3> QED
        BY <1>2, <3>1, <3>2
    <2>2. CASE j \notin DOMAIN jobs
      <3>1. PICK w \in Tasks : /\ At(w, "finally") /\ jobs'[j].task = TaskOf(w)
                               /\ jobs'[j].node \in session[w].pending
        BY <1>1, <2>2 DEF JobsGrow
      <3>2. Busy(w) /\ Snap(w)
        BY <3>1 DEF At, Busy, Snaps
      <3>3. TaskOf(w) \in Tasks
        BY <3>2, HeldJob
      <3>4. jobs'[j].node - 1 \in outputs[TaskOf(w)]
        BY <3>1, <3>2 DEF Snap
      <3> QED
        BY <1>2, <3>1, <3>3, <3>4
    <2> QED
      BY <2>1, <2>2
  <1>5. PaidForWholeWork'
    <2> SUFFICES ASSUME NEW t \in Tasks, Rewarded(t)' PROVE outputs'[t] = Nodes
      BY DEF PaidForWholeWork, Rewarded
    <2>1. CASE Rewarded(t)
      BY <1>2, <2>1 DEF Rows, PaidForWholeWork, Rewarded
    <2>2. CASE \E w \in Tasks : Settling(w) /\ TaskOf(w) = t
      BY <1>2, <2>2 DEF Snaps, Snap, Settling, Busy
    <2> QED
      BY <1>1, <2>1, <2>2 DEF RowsMove
  <1>6. NoWorkBeforeFunding'
    <2> SUFFICES ASSUME NEW t \in Tasks, escrow'[t] = "CREATED" PROVE outputs'[t] = {}
      BY DEF NoWorkBeforeFunding
    <2>1. escrow[t] = "CREATED"
      BY <1>1 DEF RowsMove
    <2>2. ~\E w \in Tasks : At(w, "call") /\ TaskOf(w) = t
      BY <2>1 DEF Snaps, Snap, At, Busy
    <2> QED
      BY <1>1, <2>1, <2>2 DEF RowsMove, Rows, NoWorkBeforeFunding
  <1>7. DOMAIN session = Tasks /\ task \in [Tasks -> TaskStatus]
    BY DEF Types, SessionsTyped, RowsTyped
  <1>8. Unstarted'
    <2> SUFFICES ASSUME NEW t \in Tasks, task'[t] = "ABSENT" PROVE session'[t].stage = "off"
      BY DEF Unstarted
    <2>1. session[t].stage = "off"
      BY <1>1 DEF RowsMove, Rows, Unstarted
    <2>2. CASE session'[t] = session[t]
      BY <2>1, <2>2
    <2>3. CASE session'[t] # session[t]
      <3>1. ~TriggerStep(t) /\ ~TriggerDies(t)
        BY <2>1 DEF TriggerStep, SelectJob, TakeLease, CheckGuards, CompleteJob, CallFails,
                    Advance, Verify, BeginSettling, RecordSettlement, SubmitSettlement,
                    FinishTask, Heartbeat, At, TriggerDies
      <3>2. \A w \in Tasks \ {t} : ~TriggerStep(w) /\ ~TriggerDies(w)
        BY <2>3, OthersUntouched
      <3>3. ~Submit(t)
        <4>1. ASSUME Submit(t) PROVE FALSE
          BY <1>7, <4>1 DEF Submit
        <4> QED
          BY <4>1
      <3> QED
        BY <1>7, <2>3, <3>1, <3>2, <3>3
           DEF Next, Submit, RequestCancel, CommitCancel, EscrowFunded, LeaseExpires, vars
    <2> QED
      BY <2>2, <2>3
  <1> QED
    BY <1>3, <1>4, <1>5, <1>6, <1>8 DEF Rows

Safe == Types /\ Snaps /\ Rows

LEMMA SafeInit == Init => Safe
  <1> SUFFICES ASSUME Init PROVE Safe
    OBVIOUS
  <1>1. Snaps
    BY DEF Init, Snaps, Snap, Busy, Idle
  <1>2. Rows
    BY DEF Init, Rows, Unstarted, Idle, WorkStored, DependencyOrder,
           PaidForWholeWork, NoWorkBeforeFunding, AllQueued
  <1> QED
    BY <1>1, <1>2, TypesInit DEF Safe

LEMMA SafeAlways == Spec => []Safe
  <1>1. Safe /\ [Next]_vars => Safe'
    BY TypesAreKept, SnapsAreKept, RowsStayRight DEF Safe
  <1> QED
    BY <1>1, SafeInit, PTL DEF Spec

\* A node is queued for execution only once the output of its predecessor is
\* stored (_check_and_finalize_workflow), however many triggers, with locks or
\* without, share the queue.
THEOREM QueuedInOrder == Spec => []DependencyOrder
  <1>1. Safe => DependencyOrder
    BY DEF Safe, Rows
  <1> QED
    BY <1>1, SafeAlways, PTL

\* No credit, no settlement and no task that claims to be verified for a
\* workflow with an output missing, and no output stored before the deposit is
\* seen, although process_next_job decides both on a snapshot.
THEOREM PayFollowsWork == Spec => []WorkMatchesPay
  <1>1. Safe => WorkMatchesPay
    BY DEF Safe, Rows, WorkMatchesPay
  <1> QED
    BY <1>1, SafeAlways, PTL
-----------------------------------------------------------------------------
(* The shapes of a step.  What the next two proofs need to know of an       *)
(* action: who moves, which job and which node it writes, and how the       *)
(* session's own copy of them changes.                                      *)

Alone(w) == \A v \in Tasks \ {w} : session'[v] = session[v]
OnlyJob(k) ==
    /\ DOMAIN jobs' = DOMAIN jobs
    /\ \A j \in DOMAIN jobs \ {k} : jobs'[j] = jobs[j]
    /\ jobs'[k].task = jobs[k].task /\ jobs'[k].node = jobs[k].node
    /\ ~jobs'[k].expired
OnlyNode(t, n) ==
    \A u \in Tasks, m \in Nodes : u # t \/ m # n => node'[u][m] = node[u][m]
SameJob(w) == session'[w].job = session[w].job
SamePending(w) == session'[w].pending = session[w].pending
Works(w) == Alone(w) /\ OnlyJob(session[w].job) /\ OnlyNode(TaskOf(w), NodeOf(w)) /\ SameJob(w)

\* The session is closed: no job was found, the task was just submitted, or
\* the trigger died.
Rests(w) ==
    /\ Alone(w) /\ UNCHANGED node
    /\ session'[w].stage \in {"claim", "end"} /\ session'[w].pending = {}

\* Without a job, unless the trigger died.
Ends(w) == Rests(w) /\ UNCHANGED jobs /\ (At(w, "claim") \/ crashes' = crashes + 1)

Claims(w) ==
    /\ Alone(w) /\ UNCHANGED <<jobs, node>> /\ At(w, "claim")
    /\ \E j \in Claimable(w) :
         /\ session'[w].stage = "lease" /\ session'[w].job = j /\ SamePending(w)
         /\ session'[w].nodes = node[jobs[j].task]
         /\ session'[w].status = jobs[j].status /\ session'[w].attempts = jobs[j].attempts

Takes(w) ==
    LET k == session[w].job IN
    /\ Works(w) /\ SamePending(w) /\ At(w, "lease")
    /\ session'[w].stage = "guard" /\ session'[w].attempts = session[w].attempts + 1
    /\ session'[w].nodes = [session[w].nodes EXCEPT ![NodeOf(w)] = "RUNNING"]
    /\ session'[w].status = "RUNNING"
    /\ jobs'[k].status = Write(jobs[k].status, session[w].status, "RUNNING")
    /\ jobs'[k].attempts = session[w].attempts + 1

Fails(w) ==
    LET k == session[w].job IN
    /\ Works(w) /\ SamePending(w)
    /\ session[w].stage \in {"guard", "call", "advance", "credit"}
    /\ At(w, "credit") => LedgerFails
    /\ session'[w].stage = "finally" /\ session'[w].nodes = session[w].nodes
    /\ k \notin Locked(w)
    /\ jobs'[k].attempts = jobs[k].attempts
    /\ \E terminal \in BOOLEAN :
         jobs'[k].status = Write(jobs[k].status, session[w].status, FailedAs(session[w], terminal))

Completes(w) ==
    LET k == session[w].job IN
    /\ Works(w) /\ SamePending(w) /\ At(w, "call")
    /\ session'[w].stage = "advance" /\ session'[w].attempts = session[w].attempts
    /\ session'[w].nodes = [session[w].nodes EXCEPT ![NodeOf(w)] = "COMPLETED"]
    /\ session'[w].status = "COMPLETED"
    /\ k \notin Locked(w)
    /\ jobs'[k].status = "COMPLETED" /\ jobs'[k].attempts = jobs[k].attempts
    /\ node'[TaskOf(w)][NodeOf(w)] = "COMPLETED"

GoesOn(w) ==
    /\ Alone(w) /\ SameJob(w) /\ UNCHANGED <<jobs, node>>
    /\ session'[w].nodes = session[w].nodes /\ session'[w].attempts = session[w].attempts
    /\ session'[w].status = session[w].status
    /\ \/ At(w, "guard") /\ session'[w].stage = "call" /\ SamePending(w)
       \/ /\ At(w, "advance")
          /\ session'[w].stage = IF AllComplete(session[w]) THEN "verify" ELSE "finally"
          /\ session'[w].pending = ToEnqueue(w)
       \/ /\ Settling(w) /\ SamePending(w)
          /\ session'[w].stage \in {"settling", "credit", "oracle", "finish", "finally"}
          /\ At(w, "finish") <=> session'[w].stage = "finally"
          /\ At(w, "finish") => task'[TaskOf(w)] = "COMPLETED"

\* New jobs come from a submission or from a heartbeat; never two for one node.
Adds(t, nodes) ==
    /\ UNCHANGED node /\ JobsStay
    /\ \A j \in DOMAIN jobs : jobs'[j] = jobs[j]
    /\ \A j \in DOMAIN jobs' \ DOMAIN jobs : \E n \in nodes : jobs'[j] = NewJob(t, n)
    /\ \A i, j \in DOMAIN jobs' \ DOMAIN jobs : jobs'[i].node = jobs'[j].node => i = j
    /\ nodes # {} => \E j \in DOMAIN jobs', n \in nodes : jobs'[j] = NewJob(t, n)
Beats(w) == Rests(w) /\ At(w, "finally") /\ Adds(TaskOf(w), session[w].pending)
Starts(t) ==
    Rests(t) /\ task[t] = "ABSENT" /\ task'[t] # "ABSENT" /\ Adds(t, {1})

\* A cancellation writes what no session is about to lease.
Cancels ==
    /\ UNCHANGED <<session, node>> /\ DOMAIN jobs' = DOMAIN jobs
    /\ \A j \in DOMAIN jobs :
         \/ jobs'[j] = jobs[j]
         \/ /\ jobs'[j] = [jobs[j] EXCEPT !.status = "FAILED"]
            /\ RowLocks => \A w \in Tasks : At(w, "lease") => session[w].job # j
\* Time passes.
Lapses ==
    /\ LeasesExpire /\ UNCHANGED <<session, node>> /\ DOMAIN jobs' = DOMAIN jobs
    /\ \A j \in DOMAIN jobs : jobs'[j] = jobs[j] \/ jobs'[j] = [jobs[j] EXCEPT !.expired = TRUE]

Shaped(w) ==
    \/ Ends(w) \/ Claims(w) \/ Takes(w) \/ Fails(w) \/ Completes(w)
    \/ GoesOn(w) \/ Beats(w)

LEMMA FailJobShape ==
    ASSUME Types, NEW w \in Tasks, Busy(w), NEW terminal \in BOOLEAN, FailJob(w, terminal),
           session[w].stage \in {"guard", "call", "advance", "credit"},
           At(w, "credit") => LedgerFails
    PROVE  Fails(w)
  <1> DEFINE k == session[w].job
             t == TaskOf(w)
             n == NodeOf(w)
             status == Write(jobs[k].status, session[w].status, FailedAs(session[w], terminal))
             verdict == Write(node[t][n], session[w].nodes[n],
                              IF FailedAs(session[w], terminal) = "QUEUED" THEN "QUEUED" ELSE "FAILED")
             r == [session[w] EXCEPT !.stage = "finally", !.credited = FALSE]
             job == [jobs[k] EXCEPT !.status = status, !.expired = FALSE]
  <1>1. /\ k \in DOMAIN jobs /\ jobs[k] \in Job /\ t \in Tasks /\ n \in Nodes
        /\ session[w] \in Session /\ jobs \in Seq(Job)
    BY HeldJob DEF Types, JobOf
  <1>2. DOMAIN session = Tasks /\ node \in [Tasks -> [Nodes -> NodeStatus]]
    BY DEF Types, SessionsTyped, RowsTyped
  <1>3. /\ jobs' = [jobs EXCEPT ![k].status = status, ![k].expired = FALSE]
        /\ node' = [node EXCEPT ![t][n] = verdict]
        /\ session' = [session EXCEPT ![w] = r]
        /\ k \notin Locked(w)
    BY <1>2 DEF FailJob
  <1>4. /\ r.stage = "finally" /\ r.job = k /\ r.nodes = session[w].nodes
        /\ r.pending = session[w].pending
    BY <1>1 DEF Session
  <1> HIDE DEF status, verdict, r
  <1>5. job.task = jobs[k].task /\ job.node = jobs[k].node /\ job.attempts = jobs[k].attempts
        /\ job.status = status /\ ~job.expired
    BY <1>1 DEF Job
  <1>6. jobs' = [jobs EXCEPT ![k] = job]
    BY <1>1, <1>3 DEF Job
  <1> HIDE DEF job, t, n
  <1>7. OnlyJob(k)
    BY <1>1, <1>5, <1>6 DEF OnlyJob
  <1>8. OnlyNode(t, n)
    BY <1>1, <1>2, <1>3 DEF OnlyNode
  <1>9. Alone(w) /\ session'[w] = r
    BY <1>2, <1>3 DEF Alone
  <1>10. jobs'[k] = job
    BY <1>1, <1>6
  <1>11. Works(w) /\ SamePending(w)
    BY <1>4, <1>7, <1>8, <1>9 DEF Works, SameJob, SamePending, t, n
  <1> QED
    BY <1>3, <1>4, <1>5, <1>9, <1>10, <1>11 DEF Fails, status

\* A job inserted behind the others.
LEMMA AddsShape ==
    ASSUME Types, NEW t \in Tasks, NEW nodes \in SUBSET Nodes, NEW count \in Nat,
           NEW order \in [1..count -> nodes],
           \A i, k \in 1..count : order[i] = order[k] => i = k,
           nodes # {} => count > 0,
           jobs' = jobs \o [i \in 1..count |-> NewJob(t, order[i])], UNCHANGED node
    PROVE  Adds(t, nodes)
  <1> DEFINE s == [i \in 1..count |-> NewJob(t, order[i])]
  <1>1. \A i \in 1..count : order[i] \in nodes /\ s[i] = NewJob(t, order[i])
    OBVIOUS
  <1>2. \A i \in 1..count : s[i] \in Job /\ s[i].node = order[i]
    BY <1>1, NewJobTyped
  <1>3. s \in Seq(Job) /\ DOMAIN s = 1..count /\ Len(s) = count
    <2>1. s \in [1..count -> Job]
      BY <1>2
    <2>2. s \in Seq(Job)
      BY <2>1, IsASeq
    <2> QED
      BY <2>1, <2>2, LenProperties
  <1> HIDE DEF s
  <1>4. jobs \in Seq(Job) /\ jobs' = jobs \o s
    BY DEF Types, s
  <1>5. JobsStay /\ \A j \in DOMAIN jobs : jobs'[j] = jobs[j]
    BY <1>3, <1>4, AppendStays
  <1> DEFINE L == Len(jobs)
  <1>6. /\ L \in Nat /\ DOMAIN jobs = 1..L /\ DOMAIN jobs' = 1..L + count
        /\ \A i \in 1..L + count : jobs'[i] = IF i <= L THEN jobs[i] ELSE s[i - L]
    <2>1. L \in Nat /\ DOMAIN jobs = 1..L
      BY <1>4, LenProperties
    <2>2. /\ jobs' \in Seq(Job) /\ Len(jobs') = L + count
          /\ \A i \in 1..L + count : jobs'[i] = IF i <= L THEN jobs[i] ELSE s[i - L]
      BY <1>3, <1>4, JobsAppended DEF L
    <2>3. DOMAIN jobs' = 1..L + count
      BY <2>2, LenProperties
    <2> QED
      BY <2>1, <2>2, <2>3
  <1> HIDE DEF L
  <1>7. ASSUME NEW j \in DOMAIN jobs' \ DOMAIN jobs
        PROVE  j \in Nat /\ j - L \in 1..count /\ jobs'[j] = s[j - L]
    <2>1. j \in 1..L + count /\ j \notin 1..L
      BY <1>6
    <2>2. j \in Nat /\ j - L \in 1..count /\ ~(j <= L)
      BY <1>6, <2>1
    <2>3. jobs'[j] = IF j <= L THEN jobs[j] ELSE s[j - L]
      BY <1>6, <2>1
    <2>4. jobs'[j] = s[j - L]
      BY <2>2, <2>3, Zenon
    <2> QED
      BY <2>2, <2>4
  <1>8. ASSUME NEW j \in DOMAIN jobs' \ DOMAIN jobs PROVE \E n \in nodes : jobs'[j] = NewJob(t, n)
    <2>1. j - L \in 1..count /\ jobs'[j] = s[j - L]
      BY <1>7
    <2>2. order[j - L] \in nodes /\ s[j - L] = NewJob(t, order[j - L])
      BY <1>1, <2>1, Zenon
    <2> QED
      BY <2>1, <2>2
  <1>9. ASSUME NEW i \in DOMAIN jobs' \ DOMAIN jobs, NEW j \in DOMAIN jobs' \ DOMAIN jobs,
               jobs'[i].node = jobs'[j].node
        PROVE  i = j
    <2>1. i - L \in 1..count /\ j - L \in 1..count /\ i \in Nat /\ j \in Nat
      BY <1>7
    <2>2. s[i - L].node = s[j - L].node
      BY <1>7, <1>9
    <2>3. order[i - L] = order[j - L]
      BY <1>2, <2>1, <2>2
    <2>4. i - L = j - L
      BY <2>1, <2>3
    <2> QED
      BY <1>6, <2>1, <2>4
  <1>10. ASSUME nodes # {}
         PROVE  \E j \in DOMAIN jobs', n \in nodes : jobs'[j] = NewJob(t, n)
    <2>1. L + 1 \in DOMAIN jobs' /\ L + 1 \notin DOMAIN jobs
      BY <1>6, <1>10
    <2> QED
      BY <1>8, <2>1
  <1> QED
    BY <1>5, <1>8, <1>9, <1>10 DEF Adds

LEMMA IdleShape ==
    ASSUME Types, NEW w \in Tasks, NEW stage \in {"claim", "end"}, NEW rounds,
           session' = [session EXCEPT ![w] = Idle(stage, rounds)], UNCHANGED node
    PROVE  Rests(w)
  BY DEF Rests, Alone, Idle, Types, SessionsTyped

LEMMA HeartbeatShape ==
    ASSUME Types, NEW w \in Tasks, Heartbeat(w)
    PROVE  Beats(w)
  <1> DEFINE pending == session[w].pending
  <1>1. At(w, "finally") /\ UNCHANGED node
    BY DEF Heartbeat
  <1>2. pending \subseteq Nodes /\ TaskOf(w) \in Tasks
    BY <1>1, HeldJob DEF Session, At, Busy
  <1>3. Cardinality(pending) \in Nat /\ (pending # {} => Cardinality(pending) > 0)
    <2>1. IsFiniteSet(pending)
      BY <1>2, NodesAreNumbers, FS_Subset
    <2> QED
      BY <2>1, FS_CardinalityType, FS_EmptySet
  <1>4. PICK order \in [1..Cardinality(pending) -> pending] :
           /\ \A i, k \in DOMAIN order : i < k => order[i] < order[k]
           /\ jobs' = jobs \o [i \in DOMAIN order |-> NewJob(TaskOf(w), order[i])]
    BY DEF Heartbeat
  <1>5. DOMAIN order = 1..Cardinality(pending)
    BY <1>4
  <1>6. ASSUME NEW i \in 1..Cardinality(pending), NEW k \in 1..Cardinality(pending),
               order[i] = order[k]
        PROVE  i = k
    <2>1. order[i] \in Nat /\ order[k] \in Nat
      BY <1>2, NodesAreNumbers
    <2>2. ~(i < k) /\ ~(k < i)
      BY <1>4, <1>5, <1>6, <2>1
    <2>3. i \in Int /\ k \in Int
      BY <1>3
    <2> QED
      BY <2>2, <2>3
  <1>7. \A i, k \in 1..Cardinality(pending) : order[i] = order[k] => i = k
    BY <1>6
  <1>8. jobs' = jobs \o [i \in 1..Cardinality(pending) |-> NewJob(TaskOf(w), order[i])]
    BY <1>4, <1>5
  <1> HIDE DEF pending
  <1>9. Adds(TaskOf(w), pending)
    BY <1>1, <1>2, <1>3, <1>4, <1>7, <1>8, AddsShape
  <1>10. Rests(w)
    BY <1>1, IdleShape DEF Heartbeat
  <1> QED
    BY <1>1, <1>9, <1>10 DEF Beats, pending

LEMMA SubmitShape ==
    ASSUME Types, Snaps, Rows, NEW t \in Tasks, Submit(t)
    PROVE  Starts(t)
  <1> DEFINE order == [i \in 1..1 |-> 1]
             s == [i \in 1..1 |-> NewJob(t, order[i])]
  <1>1. order \in [1..1 -> {1}] /\ {1} \subseteq Nodes
    BY NodesAreNumbers
  <1>2. s = <<NewJob(t, 1)>>
    BY DEF s
  <1>3. jobs' = jobs \o s
    <2>1. jobs \in Seq(Job) /\ NewJob(t, 1) \in Job
      BY <1>1, NewJobTyped DEF Types
    <2>2. jobs' = Append(jobs, NewJob(t, 1))
      BY DEF Submit
    <2> QED
      BY <1>2, <2>1, <2>2
  <1>4. Adds(t, {1})
    <2>1. \A i, k \in 1..1 : order[i] = order[k] => i = k
      OBVIOUS
    <2>2. jobs' = jobs \o [i \in 1..1 |-> NewJob(t, order[i])] /\ UNCHANGED node
      BY <1>3 DEF Submit
    <2> HIDE DEF order
    <2>3. 1 \in Nat /\ 1 > 0
      OBVIOUS
    <2> QED
      BY <1>1, <2>1, <2>2, <2>3, AddsShape
  <1>5. session[t].pending = {} /\ task[t] = "ABSENT" /\ task'[t] # "ABSENT"
    BY DEF Submit, Snaps, Rows, Unstarted, Busy, Types, RowsTyped
  <1>6. Rests(t)
    BY <1>5 DEF Submit, Rests, Alone, Types, SessionsTyped, Session
  <1> QED
    BY <1>4, <1>5, <1>6 DEF Starts

LEMMA SelectShape ==
    ASSUME Types, NEW w \in Tasks, SelectJob(w)
    PROVE  Ends(w) \/ Claims(w)
  <1>1. /\ At(w, "claim") /\ UNCHANGED <<jobs, node>>
        /\ session[w] \in Session /\ DOMAIN session = Tasks
    BY DEF SelectJob, db, Types, SessionsTyped
  <1>2. CASE session' = [session EXCEPT ![w] = Idle("end", 0)]
    BY <1>1, <1>2, IdleShape DEF Ends
  <1>3. ASSUME NEW j \in Claimable(w),
               LET t == jobs[j].task IN
               session' = [session EXCEPT ![w] =
                    [@ EXCEPT !.stage = "lease", !.job = j, !.task = task[t],
                              !.workflow = workflow[t], !.nodes = node[t],
                              !.status = jobs[j].status, !.attempts = jobs[j].attempts,
                              !.escrow = escrow[t]]]
        PROVE  Claims(w)
    <2> DEFINE t == jobs[j].task
               r == [session[w] EXCEPT !.stage = "lease", !.job = j, !.task = task[t],
                              !.workflow = workflow[t], !.nodes = node[t],
                              !.status = jobs[j].status, !.attempts = jobs[j].attempts,
                              !.escrow = escrow[t]]
    <2>1. session' = [session EXCEPT ![w] = r]
      BY <1>3
    <2>2. /\ r.stage = "lease" /\ r.job = j /\ r.pending = session[w].pending
          /\ r.nodes = node[t] /\ r.status = jobs[j].status /\ r.attempts = jobs[j].attempts
      BY <1>1 DEF Session
    <2> HIDE DEF r
    <2>3. Alone(w) /\ session'[w] = r
      BY <1>1, <2>1 DEF Alone
    <2> QED
      BY <1>1, <2>2, <2>3 DEF Claims, SamePending
  <1> QED
    BY <1>2, <1>3 DEF SelectJob

LEMMA TakeShape ==
    ASSUME Types, NEW w \in Tasks, TakeLease(w)
    PROVE  Takes(w)
  <1> DEFINE k == session[w].job
             t == TaskOf(w)
             n == NodeOf(w)
             status == Write(jobs[k].status, session[w].status, "RUNNING")
             made == session[w].attempts + 1
             stored == Write(node[t][n], session[w].nodes[n], "RUNNING")
             r == [session[w] EXCEPT !.stage = "guard", !.status = "RUNNING",
                                     !.attempts = made, !.nodes[n] = "RUNNING"]
             job == [jobs[k] EXCEPT !.status = status, !.attempts = made, !.expired = FALSE]
  <1>0. At(w, "lease") /\ Busy(w)
    BY DEF TakeLease, At, Busy
  <1>1. /\ k \in DOMAIN jobs /\ jobs[k] \in Job /\ t \in Tasks /\ n \in Nodes
        /\ session[w] \in Session /\ jobs \in Seq(Job)
    BY <1>0, HeldJob DEF Types, JobOf
  <1>2. DOMAIN session = Tasks /\ node \in [Tasks -> [Nodes -> NodeStatus]]
    BY DEF Types, SessionsTyped, RowsTyped
  <1>3. /\ jobs' = [jobs EXCEPT ![k].status = status, ![k].attempts = made,
                                ![k].expired = FALSE]
        /\ node' = [node EXCEPT ![t][n] = stored]
        /\ session' = [session EXCEPT ![w] = r]
    BY <1>2 DEF TakeLease
  <1>4. /\ r.stage = "guard" /\ r.job = k /\ r.attempts = made
        /\ r.nodes = [session[w].nodes EXCEPT ![n] = "RUNNING"] /\ r.status = "RUNNING"
        /\ r.pending = session[w].pending
    BY <1>1 DEF Session
  <1> HIDE DEF status, stored, r, made
  <1>5. job.task = jobs[k].task /\ job.node = jobs[k].node /\ job.attempts = made
        /\ job.status = status /\ ~job.expired
    BY <1>1 DEF Job
  <1>6. jobs' = [jobs EXCEPT ![k] = job]
    BY <1>1, <1>3 DEF Job
  <1> HIDE DEF job, t, n
  <1>7. OnlyJob(k) /\ OnlyNode(t, n)
    <2>1. OnlyJob(k)
      BY <1>1, <1>5, <1>6 DEF OnlyJob
    <2>2. OnlyNode(t, n)
      BY <1>1, <1>2, <1>3 DEF OnlyNode
    <2> QED
      BY <2>1, <2>2
  <1>8. Alone(w) /\ session'[w] = r /\ jobs'[k] = job
    BY <1>1, <1>2, <1>3, <1>6 DEF Alone
  <1>9. Works(w) /\ SamePending(w)
    BY <1>4, <1>7, <1>8 DEF Works, SameJob, SamePending, t, n
  <1> QED
    BY <1>0, <1>4, <1>5, <1>8, <1>9 DEF Takes, status, made, n

LEMMA CompleteShape ==
    ASSUME Types, NEW w \in Tasks, CompleteJob(w)
    PROVE  Completes(w)
  <1> DEFINE k == session[w].job
             t == TaskOf(w)
             n == NodeOf(w)
             r == [session[w] EXCEPT !.stage = "advance", !.status = "COMPLETED",
                                     !.nodes[n] = "COMPLETED"]
             job == [jobs[k] EXCEPT !.status = "COMPLETED", !.expired = FALSE]
  <1>0. At(w, "call") /\ Busy(w)
    BY DEF CompleteJob, At, Busy
  <1>1. /\ k \in DOMAIN jobs /\ jobs[k] \in Job /\ t \in Tasks /\ n \in Nodes
        /\ session[w] \in Session /\ jobs \in Seq(Job)
    BY <1>0, HeldJob DEF Types, JobOf
  <1>2. DOMAIN session = Tasks /\ node \in [Tasks -> [Nodes -> NodeStatus]]
    BY DEF Types, SessionsTyped, RowsTyped
  <1>3. /\ jobs' = [jobs EXCEPT ![k] = job]
        /\ node' = [node EXCEPT ![t][n] = "COMPLETED"]
        /\ session' = [session EXCEPT ![w] = r]
        /\ k \notin Locked(w)
    BY <1>2 DEF CompleteJob
  <1>4. /\ r.stage = "advance" /\ r.job = k /\ r.attempts = session[w].attempts
        /\ r.nodes = [session[w].nodes EXCEPT ![n] = "COMPLETED"] /\ r.status = "COMPLETED"
        /\ r.pending = session[w].pending
    BY <1>1 DEF Session
  <1> HIDE DEF r
  <1>5. job.task = jobs[k].task /\ job.node = jobs[k].node /\ job.attempts = jobs[k].attempts
        /\ job.status = "COMPLETED" /\ ~job.expired
    BY <1>1 DEF Job
  <1> HIDE DEF job, t, n
  <1>6. OnlyJob(k)
    BY <1>1, <1>3, <1>5 DEF OnlyJob
  <1>7. OnlyNode(t, n) /\ node'[t][n] = "COMPLETED"
    BY <1>1, <1>2, <1>3 DEF OnlyNode
  <1>8. Alone(w) /\ session'[w] = r /\ jobs'[k] = job
    BY <1>1, <1>2, <1>3 DEF Alone
  <1>9. Works(w) /\ SamePending(w)
    BY <1>4, <1>6, <1>7, <1>8 DEF Works, SameJob, SamePending, t, n
  <1> QED
    BY <1>0, <1>3, <1>4, <1>5, <1>7, <1>8, <1>9 DEF Completes, n, t

\* The steps of an iteration that touch neither its job nor its node.
LEMMA GoOnShape ==
    ASSUME Types, NEW w \in Tasks,
           \/ CheckGuards(w) /\ Go(w, "call") /\ UNCHANGED <<jobs, node>>
           \/ Advance(w) /\ UNCHANGED <<jobs, node>> /\
              session' = [session EXCEPT ![w] =
                [@ EXCEPT !.stage = IF Finished(session[w]) THEN "verify" ELSE "finally",
                          !.pending = ToEnqueue(w)]]
           \/ Verify(w) \/ BeginSettling(w) \/ SubmitSettlement(w) \/ FinishTask(w)
           \/ /\ RecordSettlement(w) /\ UNCHANGED <<jobs, node>>
              /\ session' = [session EXCEPT ![w] =
                               [@ EXCEPT !.stage = "oracle", !.credited = TRUE]]
    PROVE  GoesOn(w)
  <1>1. session[w] \in Session /\ DOMAIN session = Tasks
    BY DEF Types, SessionsTyped
  <1>2. ASSUME NEW r, session' = [session EXCEPT ![w] = r]
        PROVE  Alone(w) /\ session'[w] = r
    BY <1>1, <1>2 DEF Alone
  <1>3. ASSUME NEW r, session' = [session EXCEPT ![w] = r], UNCHANGED <<jobs, node>>,
               r.job = session[w].job, r.nodes = session[w].nodes,
               r.attempts = session[w].attempts, r.pending = session[w].pending,
               r.status = session[w].status,
               \/ At(w, "guard") /\ r.stage = "call"
               \/ /\ Settling(w)
                  /\ r.stage \in {"settling", "credit", "oracle", "finish", "finally"}
                  /\ At(w, "finish") <=> r.stage = "finally"
                  /\ At(w, "finish") => task'[TaskOf(w)] = "COMPLETED"
        PROVE  GoesOn(w)
    BY <1>2, <1>3 DEF GoesOn, SameJob, SamePending
  <1>4. CASE CheckGuards(w) /\ Go(w, "call") /\ UNCHANGED <<jobs, node>>
    <2> DEFINE r == [session[w] EXCEPT !.stage = "call"]
    <2>1. session' = [session EXCEPT ![w] = r] /\ At(w, "guard")
      BY <1>1, <1>4 DEF Go, CheckGuards
    <2>2. /\ r.job = session[w].job /\ r.nodes = session[w].nodes /\ r.stage = "call"
          /\ r.attempts = session[w].attempts /\ r.pending = session[w].pending
          /\ r.status = session[w].status
      BY <1>1 DEF Session
    <2> HIDE DEF r
    <2> QED
      BY <1>3, <1>4, <2>1, <2>2
  <1>5. ASSUME Advance(w), UNCHANGED <<jobs, node>>,
              session' = [session EXCEPT ![w] =
                [@ EXCEPT !.stage = IF Finished(session[w]) THEN "verify" ELSE "finally",
                          !.pending = ToEnqueue(w)]]
        PROVE GoesOn(w)
    <2> DEFINE r == [session[w] EXCEPT
                       !.stage = IF AllComplete(session[w]) THEN "verify" ELSE "finally",
                       !.pending = ToEnqueue(w)]
    <2>1. session' = [session EXCEPT ![w] = r] /\ At(w, "advance")
      BY <1>1, <1>5 DEF Advance, Finished
    <2>2. /\ r.job = session[w].job /\ r.nodes = session[w].nodes
          /\ r.attempts = session[w].attempts /\ r.pending = ToEnqueue(w)
          /\ r.status = session[w].status
          /\ r.stage = IF AllComplete(session[w]) THEN "verify" ELSE "finally"
      BY <1>1 DEF Session
    <2> HIDE DEF r
    <2>3. Alone(w) /\ session'[w] = r
      BY <1>2, <2>1
    <2> QED
      BY <1>5, <2>1, <2>2, <2>3 DEF GoesOn, SameJob
  <1>6. ASSUME NEW stage \in {"settling", "credit", "oracle", "finish", "finally"},
               NEW taskStatus, NEW credited, Settling(w), UNCHANGED <<jobs, node>>,
               At(w, "finish") <=> stage = "finally",
               At(w, "finish") => task'[TaskOf(w)] = "COMPLETED",
               session' = [session EXCEPT ![w] =
                   [session[w] EXCEPT !.stage = stage, !.task = taskStatus, !.credited = credited]]
        PROVE  GoesOn(w)
    <2> DEFINE r == [session[w] EXCEPT !.stage = stage, !.task = taskStatus,
                                       !.credited = credited]
    <2>1. /\ r.job = session[w].job /\ r.nodes = session[w].nodes /\ r.stage = stage
          /\ r.attempts = session[w].attempts /\ r.pending = session[w].pending
          /\ r.status = session[w].status
      BY <1>1 DEF Session
    <2> HIDE DEF r
    <2> QED
      BY <1>3, <1>6, <2>1 DEF r
  <1>7. ASSUME NEW stage, NEW credited
        PROVE  /\ [session[w] EXCEPT !.stage = stage, !.credited = credited] =
                    [session[w] EXCEPT !.stage = stage, !.task = session[w].task,
                                       !.credited = credited]
               /\ [session[w] EXCEPT !.stage = stage] =
                    [session[w] EXCEPT !.stage = stage, !.task = session[w].task,
                                       !.credited = session[w].credited]
               /\ session[w].credited \in BOOLEAN
    BY <1>1 DEF Session
  <1>8. CASE Verify(w) \/ BeginSettling(w)
    <2>1. PICK status \in TaskStatus, stage \in {"settling", "credit"} :
                SetTask(w, status, stage)
      BY <1>8 DEF Verify, BeginSettling, TaskStatus
    <2>2. session' = [session EXCEPT ![w] =
             [session[w] EXCEPT !.stage = stage, !.task = status,
                                !.credited = session[w].credited]]
      BY <1>1, <2>1 DEF SetTask, Session
    <2>3. Settling(w) /\ ~At(w, "finish")
      BY <1>8 DEF Verify, BeginSettling, At, Settling
    <2>4. UNCHANGED <<jobs, node>>
      BY <2>1 DEF SetTask
    <2>5. stage \in {"settling", "credit", "oracle", "finish", "finally"}
      OBVIOUS
    <2> QED
      BY <1>6, <2>2, <2>3, <2>4, <2>5
  <1>9. CASE SubmitSettlement(w) \/ FinishTask(w)
    <2>1. /\ Settling(w) /\ UNCHANGED <<jobs, node>>
          /\ \E credited \in BOOLEAN, stage \in {"finish", "finally"} :
               /\ At(w, "finish") <=> stage = "finally"
               /\ At(w, "finish") => task'[TaskOf(w)] = "COMPLETED"
               /\ session' = [session EXCEPT ![w] =
                    [session[w] EXCEPT !.stage = stage, !.task = session[w].task,
                                       !.credited = credited]]
      <3>1. CASE FinishTask(w)
        <4>1. session' = [session EXCEPT ![w] =
                 [session[w] EXCEPT !.stage = "finally", !.credited = FALSE]]
          BY <1>1, <3>1 DEF FinishTask
        <4>2. Settling(w) /\ At(w, "finish") /\ Busy(w) /\ UNCHANGED <<jobs, node>>
          BY <3>1 DEF FinishTask, At, Settling, Busy
        <4>3. task'[TaskOf(w)] = "COMPLETED"
          BY <3>1, <4>2, HeldJob DEF FinishTask, Types, RowsTyped
        <4> QED
          BY <1>7, <4>1, <4>2, <4>3
      <3>2. CASE SubmitSettlement(w)
        <4>1. \/ session' = [session EXCEPT ![w] =
                   [session[w] EXCEPT !.stage = "finish", !.credited = FALSE]]
              \/ session' = [session EXCEPT ![w] = [session[w] EXCEPT !.stage = "finish"]]
          BY <1>1, <3>2 DEF SubmitSettlement, Go
        <4>2. Settling(w) /\ ~At(w, "finish") /\ UNCHANGED <<jobs, node>>
          BY <3>2 DEF SubmitSettlement, At, Settling
        <4>3. CASE session' = [session EXCEPT ![w] =
                     [session[w] EXCEPT !.stage = "finish", !.credited = FALSE]]
          <5>1. session' = [session EXCEPT ![w] =
                  [session[w] EXCEPT !.stage = "finish", !.task = session[w].task,
                                     !.credited = FALSE]]
            BY <1>7, <4>3
          <5> QED
            BY <4>2, <5>1
        <4>4. CASE session' = [session EXCEPT ![w] = [session[w] EXCEPT !.stage = "finish"]]
          <5>1. session' = [session EXCEPT ![w] =
                  [session[w] EXCEPT !.stage = "finish", !.task = session[w].task,
                                     !.credited = session[w].credited]]
            BY <1>7, <4>4
          <5>2. session[w].credited \in BOOLEAN
            BY <1>7
          <5> QED
            BY <4>2, <5>1, <5>2
        <4> QED
          BY <4>1, <4>3, <4>4
      <3> QED
        BY <1>9, <3>1, <3>2
    <2> QED
      BY <1>6, <2>1
  <1>10. ASSUME RecordSettlement(w), UNCHANGED <<jobs, node>>,
                session' = [session EXCEPT ![w] =
                               [@ EXCEPT !.stage = "oracle", !.credited = TRUE]]
         PROVE  GoesOn(w)
    <2>1. /\ Settling(w) /\ ~At(w, "finish")
          /\ session' = [session EXCEPT ![w] =
               [session[w] EXCEPT !.stage = "oracle", !.task = session[w].task,
                                  !.credited = TRUE]]
      BY <1>1, <1>10 DEF RecordSettlement, At, Settling, Session
    <2> QED
      BY <1>6, <1>10, <2>1
  <1> QED
    BY <1>4, <1>5, <1>8, <1>9, <1>10

LEMMA TriggerShape ==
    ASSUME Types, NEW w \in Tasks, TriggerStep(w)
    PROVE  Shaped(w)
  <1>1. ASSUME NEW terminal \in BOOLEAN, FailJob(w, terminal),
               session[w].stage \in {"guard", "call", "advance", "credit"},
               At(w, "credit") => LedgerFails
        PROVE  Shaped(w)
    BY <1>1, FailJobShape DEF Shaped, Busy
  <1>2. CASE SelectJob(w) \/ TakeLease(w) \/ CompleteJob(w) \/ Heartbeat(w)
    BY <1>2, SelectShape, TakeShape, CompleteShape, HeartbeatShape DEF Shaped
  <1>3. CASE CheckGuards(w)
    <2>1. \/ FailJob(w, TRUE) \/ FailJob(w, FALSE)
          \/ Go(w, "call") /\ UNCHANGED <<jobs, node>>
      BY <1>3 DEF CheckGuards
    <2>2. At(w, "guard")
      BY <1>3 DEF CheckGuards
    <2> QED
      BY <1>1, <1>3, <2>1, <2>2, GoOnShape DEF At, Shaped
  <1>4. CASE CallFails(w)
    BY <1>1, <1>4 DEF CallFails, At
  <1>5. CASE Advance(w)
    <2>1. \/ FailJob(w, FALSE)
          \/ /\ UNCHANGED <<jobs, node>>
             /\ session' = [session EXCEPT ![w] =
                  [@ EXCEPT !.stage = IF Finished(session[w]) THEN "verify" ELSE "finally",
                            !.pending = ToEnqueue(w)]]
      BY <1>5 DEF Advance
    <2>2. At(w, "advance")
      BY <1>5 DEF Advance
    <2> QED
      BY <1>1, <1>5, <2>1, <2>2, GoOnShape DEF At, Shaped
  <1>6. CASE Verify(w) \/ BeginSettling(w) \/ SubmitSettlement(w) \/ FinishTask(w)
    BY <1>6, GoOnShape DEF Shaped
  <1>7. CASE RecordSettlement(w)
    <2>1. \/ FailJob(w, FALSE) /\ LedgerFails
          \/ /\ UNCHANGED <<jobs, node>>
             /\ session' = [session EXCEPT ![w] =
                               [@ EXCEPT !.stage = "oracle", !.credited = TRUE]]
      BY <1>7 DEF RecordSettlement
    <2>2. At(w, "credit")
      BY <1>7 DEF RecordSettlement
    <2> QED
      BY <1>1, <1>7, <2>1, <2>2, GoOnShape DEF At, Shaped
  <1> QED
    BY <1>2, <1>3, <1>4, <1>5, <1>6, <1>7 DEF TriggerStep

\* Every step has one of the shapes.
LEMMA StepShape ==
    ASSUME Types, Snaps, Rows, [Next]_vars
    PROVE  \/ \E w \in Tasks : Shaped(w) \/ Starts(w)
           \/ Cancels \/ Lapses
  <1>1. jobs \in Seq(Job)
    BY DEF Types
  <1>2. ASSUME NEW t \in Tasks, Submit(t) \/ TriggerStep(t)
        PROVE  \E w \in Tasks : Shaped(w) \/ Starts(w)
    BY <1>2, SubmitShape, TriggerShape
  <1>3. ASSUME NEW t \in Tasks, TriggerDies(t)
        PROVE  Shaped(t)
    <2>1. Rests(t) /\ UNCHANGED jobs /\ crashes' = crashes + 1
      BY <1>3, IdleShape DEF TriggerDies, db
    <2> QED
      BY <2>1 DEF Shaped, Ends
  <1>4. ASSUME UNCHANGED <<jobs, node, session>>
        PROVE  Cancels
    BY <1>4 DEF Cancels
  <1>5. ASSUME NEW t \in Tasks, CommitCancel(t)
        PROVE  Cancels
    <2>1. /\ UNCHANGED <<session, node>>
          /\ jobs' = [j \in DOMAIN jobs |-> IF j \in cancel[t].jobs
                                      THEN [jobs[j] EXCEPT !.status = "FAILED"] ELSE jobs[j]]
          /\ \A w \in Tasks : ~(RowLocks /\ At(w, "lease") /\ session[w].job \in cancel[t].jobs)
      BY <1>5 DEF CommitCancel
    <2>2. DOMAIN jobs' = DOMAIN jobs
      BY <2>1
    <2>3. ASSUME NEW j \in DOMAIN jobs
          PROVE  \/ jobs'[j] = jobs[j]
                 \/ /\ jobs'[j] = [jobs[j] EXCEPT !.status = "FAILED"]
                    /\ RowLocks => \A w \in Tasks : At(w, "lease") => session[w].job # j
      BY <2>1
    <2> QED
      BY <2>1, <2>2, <2>3 DEF Cancels
  <1>6. ASSUME NEW t \in Tasks, RequestCancel(t) \/ EscrowFunded(t)
        PROVE  Cancels
    BY <1>4, <1>6 DEF RequestCancel, EscrowFunded, db
  <1>7. ASSUME NEW k \in DOMAIN jobs, LeaseExpires(k)
        PROVE  Lapses
    <2>1. jobs' = [jobs EXCEPT ![k].expired = TRUE] /\ UNCHANGED <<session, node>> /\ LeasesExpire
      BY <1>7 DEF LeaseExpires
    <2> QED
      BY <1>1, <2>1 DEF Lapses
  <1>8. CASE UNCHANGED vars
    BY <1>4, <1>8 DEF vars, db
  <1> QED
    BY <1>2, <1>3, <1>4, <1>5, <1>6, <1>7, <1>8 DEF Next

-----------------------------------------------------------------------------
(* Row locks.  SELECT FOR UPDATE SKIP LOCKED makes the number of attempts a *)
(* session read the number the row has when the session writes it, so the   *)
(* attempts of a row only grow and are never fewer than a session believes. *)

LockHeld(w) ==
    /\ At(w, "lease") => session[w].attempts = JobOf(w).attempts
    /\ Holding(w) => session[w].attempts <= JobOf(w).attempts
Locks ==
    /\ \A v, w \in Tasks :
          v # w /\ At(v, "lease") /\ At(w, "lease") => session[v].job # session[w].job
    /\ \A w \in Tasks : LockHeld(w)
    /\ \A j \in DOMAIN jobs : jobs[j].status = "DLQ" => jobs[j].attempts >= MaxAttempts

LEMMA LocksAreKept ==
    ASSUME RowLocks, Types, Snaps, Rows, Locks, [Next]_vars
    PROVE  Locks'
  <1>1. MaxAttempts \in Nat
    BY OrchestrationAssumption
  <1>2. /\ \A w \in Tasks : session[w].attempts \in Nat
        /\ \A w \in Tasks : At(w, "lease") \/ Holding(w) =>
              Busy(w) /\ session[w].job \in DOMAIN jobs
        /\ \A j \in DOMAIN jobs : jobs[j].attempts \in Nat
    <2>1. \A w \in Tasks : session[w] \in Session
      BY DEF Types, SessionsTyped
    <2>2. \A j \in DOMAIN jobs : jobs[j] \in Job
      BY DEF Types
    <2> QED
      BY <2>1, <2>2 DEF Session, Job, Types, JobsHeld, At, Holding, Busy
  <1>3. Types'
    BY TypesAreKept
  <1>4. \A j \in DOMAIN jobs' : jobs'[j].attempts \in Nat
    <2>1. \A j \in DOMAIN jobs' : jobs'[j] \in Job
      BY <1>3 DEF Types
    <2> QED
      BY <2>1 DEF Job
  <1>5. ASSUME NEW w \in Tasks, Alone(w), LockHeld(w)',
               \A j \in DOMAIN jobs : j \in DOMAIN jobs' /\ jobs'[j].attempts >= jobs[j].attempts,
               \A v \in Tasks \ {w} : At(v, "lease") =>
                   /\ jobs'[session[v].job].attempts = jobs[session[v].job].attempts
                   /\ At(w, "lease")' => session'[w].job # session[v].job,
               \A j \in DOMAIN jobs' : jobs'[j].status = "DLQ" => jobs'[j].attempts >= MaxAttempts
        PROVE  Locks'
    <2>1. ASSUME NEW v \in Tasks \ {w} PROVE LockHeld(v)'
      <3>1. session'[v] = session[v] /\ LockHeld(v)
        BY <1>5 DEF Alone, Locks
      <3>2. CASE At(v, "lease")
        BY <1>5, <3>1, <3>2 DEF LockHeld, At, Holding, JobOf
      <3>3. CASE Holding(v)
        <4>1. /\ session[v].attempts \in Nat /\ session[v].job \in DOMAIN jobs
              /\ session[v].attempts <= jobs[session[v].job].attempts
          BY <1>2, <3>1, <3>3 DEF LockHeld, JobOf
        <4>2. /\ jobs'[session[v].job].attempts >= jobs[session[v].job].attempts
              /\ jobs'[session[v].job].attempts \in Nat /\ jobs[session[v].job].attempts \in Nat
          BY <1>2, <1>4, <1>5, <4>1
        <4>3. session[v].attempts <= jobs'[session[v].job].attempts
          BY <4>1, <4>2
        <4> QED
          BY <3>1, <3>3, <4>3 DEF LockHeld, At, Holding, JobOf
      <3>4. CASE ~At(v, "lease") /\ ~Holding(v)
        BY <3>1, <3>4 DEF LockHeld, At, Holding
      <3> QED
        BY <3>2, <3>3, <3>4
    <2>2. ASSUME NEW u \in Tasks, NEW v \in Tasks, u # v, At(u, "lease")', At(v, "lease")'
          PROVE  session'[u].job # session'[v].job
      BY <1>5, <2>2 DEF Alone, At, Locks
    <2> QED
      BY <1>5, <2>1, <2>2 DEF Locks
  <1>6. ASSUME NEW w \in Tasks, Alone(w),
               session'[w].stage \in {"claim", "end", "finally"},
               \A j \in DOMAIN jobs : j \in DOMAIN jobs' /\ jobs'[j].attempts = jobs[j].attempts,
               \A j \in DOMAIN jobs' : jobs'[j].status = "DLQ" => jobs'[j].attempts >= MaxAttempts
        PROVE  Locks'
    <2>1. LockHeld(w)' /\ ~At(w, "lease")'
      BY <1>6 DEF LockHeld, At, Holding
    <2> QED
      BY <1>2, <1>5, <1>6, <2>1
  <1>7. \A j \in DOMAIN jobs : jobs[j].status = "DLQ" => jobs[j].attempts >= MaxAttempts
    BY DEF Locks
  <1>8. ASSUME NEW w \in Tasks, Ends(w) PROVE Locks'
    BY <1>6, <1>7, <1>8 DEF Rests, Ends
  <1>9. ASSUME NEW w \in Tasks, Claims(w) PROVE Locks'
    <2>1. PICK j \in Claimable(w) :
             /\ session'[w].stage = "lease" /\ session'[w].job = j
             /\ session'[w].attempts = jobs[j].attempts
      BY <1>9 DEF Claims
    <2>2. LockHeld(w)' /\ Alone(w) /\ UNCHANGED jobs
      BY <1>9, <2>1 DEF Claims, LockHeld, At, Holding, JobOf
    <2>3. \A v \in Tasks \ {w} : At(v, "lease") => session'[w].job # session[v].job
      BY <2>1 DEF Claimable, Locked
    <2> QED
      BY <1>2, <1>5, <1>7, <2>2, <2>3
  <1>10. ASSUME NEW w \in Tasks, Works(w), Busy(w),
                jobs'[session[w].job].attempts \in {jobs[session[w].job].attempts,
                                                    jobs[session[w].job].attempts + 1}
         PROVE  /\ session[w].job \in DOMAIN jobs
                /\ \A j \in DOMAIN jobs :
                      j \in DOMAIN jobs' /\ jobs'[j].attempts >= jobs[j].attempts
    <2>1. session[w].job \in DOMAIN jobs
      BY <1>10, HeldJob
    <2> QED
      BY <1>2, <1>10, <2>1 DEF Works, OnlyJob
  <1>11. ASSUME NEW w \in Tasks, Takes(w) PROVE Locks'
    <2> DEFINE k == session[w].job
    <2>1. /\ Works(w) /\ Alone(w) /\ OnlyJob(k) /\ SameJob(w) /\ At(w, "lease") /\ Busy(w)
          /\ session'[w].stage = "guard" /\ session'[w].attempts = session[w].attempts + 1
          /\ jobs'[k].attempts = session[w].attempts + 1
          /\ jobs'[k].status = Write(jobs[k].status, session[w].status, "RUNNING")
      BY <1>11 DEF Takes, Works, At, Busy
    <2>2. session[w].attempts = jobs[k].attempts
      BY <2>1 DEF Locks, LockHeld, JobOf
    <2>3. /\ k \in DOMAIN jobs
          /\ \A j \in DOMAIN jobs : j \in DOMAIN jobs' /\ jobs'[j].attempts >= jobs[j].attempts
      BY <1>10, <2>1, <2>2
    <2>4. LockHeld(w)'
      BY <1>2, <2>1 DEF LockHeld, At, Holding, JobOf, SameJob
    <2>5. \A v \in Tasks \ {w} : At(v, "lease") =>
             /\ session[v].job # k /\ session[v].job \in DOMAIN jobs
             /\ jobs'[session[v].job] = jobs[session[v].job]
      BY <1>2, <2>1 DEF Locks, OnlyJob
    <2>6. ~At(w, "lease")'
      BY <2>1 DEF At
    <2>7. jobs'[k].status = "DLQ" => jobs[k].status = "DLQ"
      BY <2>1 DEF Write
    <2>8. ASSUME NEW j \in DOMAIN jobs', jobs'[j].status = "DLQ"
          PROVE  jobs'[j].attempts >= MaxAttempts
      <3>1. j \in DOMAIN jobs /\ jobs[j].status = "DLQ"
        BY <2>1, <2>7, <2>8 DEF OnlyJob
      <3> QED
        BY <1>1, <1>2, <1>4, <1>7, <2>3, <2>8, <3>1
    <2> HIDE DEF k
    <2> QED
      BY <1>5, <2>1, <2>3, <2>4, <2>5, <2>6, <2>8
  <1>12. ASSUME NEW w \in Tasks, Fails(w) PROVE Locks'
    <2> DEFINE k == session[w].job
    <2>1. /\ Works(w) /\ Alone(w) /\ OnlyJob(k) /\ Holding(w) /\ Busy(w)
          /\ session'[w].stage = "finally" /\ jobs'[k].attempts = jobs[k].attempts
      BY <1>12 DEF Fails, Works, Holding, Busy
    <2>2. k \in DOMAIN jobs
      BY <2>1, HeldJob
    <2>3. PICK terminal \in BOOLEAN :
             jobs'[k].status = Write(jobs[k].status, session[w].status,
                                     FailedAs(session[w], terminal))
      BY <1>12 DEF Fails
    <2>4. jobs'[k].status = "DLQ" => jobs[k].status = "DLQ" \/ session[w].attempts >= MaxAttempts
      BY <1>1, <1>2, <2>3 DEF Write, FailedAs
    <2>5. session[w].attempts <= jobs[k].attempts
      BY <2>1 DEF Locks, LockHeld, JobOf
    <2>6. jobs'[k].status = "DLQ" => jobs'[k].attempts >= MaxAttempts
      BY <1>1, <1>2, <1>7, <2>1, <2>2, <2>4, <2>5
    <2> HIDE DEF k
    <2>7. \A j \in DOMAIN jobs : j \in DOMAIN jobs' /\ jobs'[j].attempts = jobs[j].attempts
      BY <2>1, <2>2 DEF OnlyJob
    <2>8. \A j \in DOMAIN jobs' : jobs'[j].status = "DLQ" => jobs'[j].attempts >= MaxAttempts
      BY <1>7, <2>1, <2>2, <2>6 DEF OnlyJob
    <2> QED
      BY <1>6, <2>1, <2>7, <2>8
  <1>13. ASSUME NEW w \in Tasks, Completes(w) PROVE Locks'
    <2> DEFINE k == session[w].job
    <2>1. /\ Works(w) /\ Alone(w) /\ OnlyJob(k) /\ SameJob(w) /\ Holding(w) /\ Busy(w)
          /\ session'[w].stage = "advance" /\ jobs'[k].attempts = jobs[k].attempts
          /\ session'[w].attempts = session[w].attempts /\ jobs'[k].status = "COMPLETED"
      BY <1>13 DEF Completes, Works, Holding, Busy, At
    <2>2. k \in DOMAIN jobs
      BY <2>1, HeldJob
    <2>3. LockHeld(w)' /\ ~At(w, "lease")'
      BY <2>1 DEF Locks, LockHeld, At, Holding, JobOf, SameJob
    <2> HIDE DEF k
    <2>4. \A j \in DOMAIN jobs : j \in DOMAIN jobs' /\ jobs'[j].attempts = jobs[j].attempts
      BY <2>1, <2>2 DEF OnlyJob
    <2>5. \A j \in DOMAIN jobs' : jobs'[j].status = "DLQ" => jobs'[j].attempts >= MaxAttempts
      BY <1>7, <2>1, <2>2 DEF OnlyJob
    <2> QED
      BY <1>2, <1>5, <2>1, <2>3, <2>4, <2>5
  <1>14. ASSUME NEW w \in Tasks, GoesOn(w) PROVE Locks'
    <2>1. /\ Alone(w) /\ SameJob(w) /\ UNCHANGED jobs /\ Holding(w)
          /\ session'[w].attempts = session[w].attempts /\ session'[w].stage # "lease"
      BY <1>14 DEF GoesOn, Holding, At, Settling
    <2>2. LockHeld(w)' /\ ~At(w, "lease")'
      BY <2>1 DEF Locks, LockHeld, At, Holding, JobOf, SameJob
    <2> QED
      BY <1>2, <1>5, <1>7, <2>1, <2>2
  <1>15. ASSUME NEW w \in Tasks, NEW t, NEW nodes, Rests(w), Adds(t, nodes) PROVE Locks'
    <2>1. \A j \in DOMAIN jobs : j \in DOMAIN jobs' /\ jobs'[j] = jobs[j]
      BY <1>15 DEF Adds, JobsStay
    <2>2. \A j \in DOMAIN jobs' \ DOMAIN jobs : jobs'[j].status = "QUEUED"
      BY <1>15 DEF Adds, NewJob
    <2> QED
      BY <1>6, <1>7, <1>15, <2>1, <2>2 DEF Rests
  <1>16. CASE Cancels \/ Lapses
    <2>1. /\ UNCHANGED session /\ DOMAIN jobs' = DOMAIN jobs
          /\ \A j \in DOMAIN jobs : /\ jobs'[j].attempts = jobs[j].attempts
                                    /\ jobs'[j].status \in {jobs[j].status, "FAILED"}
      <3>1. \A j \in DOMAIN jobs : jobs[j] \in Job
        BY DEF Types
      <3>2. CASE Cancels
        <4>1. ASSUME NEW j \in DOMAIN jobs
              PROVE  /\ jobs'[j].attempts = jobs[j].attempts
                     /\ jobs'[j].status \in {jobs[j].status, "FAILED"}
          BY <3>1, <3>2 DEF Cancels, Job
        <4> QED
          BY <3>2, <4>1 DEF Cancels
      <3>3. CASE Lapses
        <4>1. ASSUME NEW j \in DOMAIN jobs
              PROVE  /\ jobs'[j].attempts = jobs[j].attempts
                     /\ jobs'[j].status \in {jobs[j].status, "FAILED"}
          BY <3>1, <3>3 DEF Lapses, Job
        <4> QED
          BY <3>3, <4>1 DEF Lapses
      <3> QED
        BY <1>16, <3>2, <3>3
    <2>2. \A w \in Tasks : LockHeld(w)'
      BY <1>2, <2>1 DEF Locks, LockHeld, At, Holding, JobOf
    <2> QED
      BY <2>1, <2>2 DEF Locks, At
  <1> QED
    BY <1>8, <1>9, <1>11, <1>12, <1>13, <1>14, <1>15, <1>16, StepShape
       DEF Shaped, Beats, Starts

-----------------------------------------------------------------------------
(* Leases that hold.  A job somebody works on, up to the heartbeat that      *)
(* queues its successor, is not queued and has no other session.            *)

AtWork(w) == At(w, "lease") \/ Holding(w) \/ session[w].pending # {}
Done(w) == At(w, "advance") \/ Settling(w) \/ session[w].pending # {}
LeaseHeld(w) ==
    /\ At(w, "lease") => JobOf(w).status = "QUEUED" /\ session[w].status = "QUEUED"
    /\ Holding(w) => /\ JobOf(w).status # "QUEUED" /\ session[w].attempts = JobOf(w).attempts
                     /\ session[w].status \in {"RUNNING", "COMPLETED"}
    /\ Done(w) => JobOf(w).status \in {"COMPLETED", "FAILED"}
    /\ session[w].pending # {} => At(w, "finally")
Leases ==
    /\ \A v, w \in Tasks : v # w /\ AtWork(v) /\ AtWork(w) => session[v].job # session[w].job
    /\ \A w \in Tasks : LeaseHeld(w)
    /\ \A j \in DOMAIN jobs : /\ ~jobs[j].expired
                              /\ jobs[j].status = "QUEUED" => jobs[j].attempts < MaxAttempts

LEMMA AtWorkIsBusy ==
    ASSUME Types, Leases, NEW w \in Tasks, AtWork(w)
    PROVE  Busy(w) /\ session[w].job \in DOMAIN jobs /\ TaskOf(w) \in Tasks /\ NodeOf(w) \in Nodes
  <1>1. Busy(w)
    BY DEF AtWork, Leases, LeaseHeld, At, Holding, Busy
  <1> QED
    BY <1>1, HeldJob

\* Nobody else works on the job of a session at work.
LEMMA WorksAlone ==
    ASSUME Types, Leases, NEW w \in Tasks, AtWork(w), Works(w)
    PROVE  /\ DOMAIN jobs' = DOMAIN jobs /\ session[w].job \in DOMAIN jobs
           /\ \A v \in Tasks \ {w} : AtWork(v) =>
                 /\ session[v].job # session[w].job
                 /\ jobs'[session[v].job] = jobs[session[v].job]
  <1>1. \A v \in Tasks : AtWork(v) => session[v].job \in DOMAIN jobs
    BY AtWorkIsBusy
  <1> QED
    BY <1>1 DEF Leases, Works, OnlyJob

LEMMA LeasesAreKept ==
    ASSUME RowLocks, ~LeasesExpire, Types, Snaps, Rows, Locks, Leases, [Next]_vars
    PROVE  Leases'
  <1>1. MaxAttempts \in Nat \ {0}
    BY OrchestrationAssumption
  <1>2. /\ \A w \in Tasks : session[w].attempts \in Nat
        /\ \A w \in Tasks : AtWork(w) => session[w].job \in DOMAIN jobs
        /\ \A j \in DOMAIN jobs : jobs[j].attempts \in Nat
    <2>1. \A w \in Tasks : session[w] \in Session
      BY DEF Types, SessionsTyped
    <2>2. \A j \in DOMAIN jobs : jobs[j] \in Job
      BY DEF Types
    <2> QED
      BY <2>1, <2>2, AtWorkIsBusy DEF Session, Job
  <1>3. \A j \in DOMAIN jobs : /\ ~jobs[j].expired
                               /\ jobs[j].status = "QUEUED" => jobs[j].attempts < MaxAttempts
    BY DEF Leases
  <1>4. \A w \in Tasks : Holding(w) \/ At(w, "lease") => session[w].pending = {}
    BY DEF Leases, LeaseHeld, At, Holding
  <1>5. ASSUME NEW w \in Tasks, Alone(w), LeaseHeld(w)',
               \A v \in Tasks \ {w} : AtWork(v) =>
                   /\ jobs'[session[v].job] = jobs[session[v].job]
                   /\ AtWork(w)' => session'[w].job # session[v].job,
               \A j \in DOMAIN jobs' :
                   /\ ~jobs'[j].expired
                   /\ jobs'[j].status = "QUEUED" => jobs'[j].attempts < MaxAttempts
        PROVE  Leases'
    <2>1. ASSUME NEW v \in Tasks \ {w} PROVE LeaseHeld(v)'
      <3>1. session'[v] = session[v] /\ LeaseHeld(v)
        BY <1>5 DEF Alone, Leases
      <3>2. CASE AtWork(v)
        BY <1>5, <3>1, <3>2 DEF LeaseHeld, At, Holding, Done, Settling, JobOf
      <3>3. CASE ~AtWork(v)
        BY <3>1, <3>3 DEF LeaseHeld, AtWork, At, Holding, Done, Settling
      <3> QED
        BY <3>2, <3>3
    <2>2. ASSUME NEW u \in Tasks, NEW v \in Tasks, u # v, AtWork(u)', AtWork(v)'
          PROVE  session'[u].job # session'[v].job
      BY <1>5, <2>2 DEF Alone, AtWork, At, Holding, Leases
    <2> QED
      BY <1>5, <2>1, <2>2 DEF Leases
  <1>6. ASSUME NEW w \in Tasks, Alone(w),
               session'[w].stage \in {"claim", "end", "finally"}, session'[w].pending = {},
               \A v \in Tasks \ {w} : AtWork(v) => jobs'[session[v].job] = jobs[session[v].job],
               \A j \in DOMAIN jobs' :
                   /\ ~jobs'[j].expired
                   /\ jobs'[j].status = "QUEUED" => jobs'[j].attempts < MaxAttempts
        PROVE  Leases'
    <2>1. LeaseHeld(w)' /\ ~AtWork(w)'
      BY <1>6 DEF LeaseHeld, At, Holding, Done, Settling, AtWork
    <2> QED
      BY <1>5, <1>6, <2>1
  <1>7. ASSUME NEW w \in Tasks, Ends(w) PROVE Leases'
    BY <1>3, <1>6, <1>7 DEF Rests, Ends
  <1>8. ASSUME NEW w \in Tasks, Claims(w) PROVE Leases'
    <2>1. PICK j \in Claimable(w) :
             /\ session'[w].stage = "lease" /\ session'[w].job = j
             /\ session'[w].status = jobs[j].status
      BY <1>8 DEF Claims
    <2>2. At(w, "claim") /\ SamePending(w) /\ Alone(w) /\ UNCHANGED jobs
      BY <1>8 DEF Claims
    <2>3. session'[w].pending = {}
      BY <2>2 DEF Leases, LeaseHeld, At, SamePending
    <2>4. j \in DOMAIN jobs /\ jobs[j].status = "QUEUED"
      BY <1>3 DEF Claimable
    <2>5. LeaseHeld(w)'
      BY <2>1, <2>2, <2>3, <2>4 DEF LeaseHeld, At, Holding, Done, Settling, JobOf
    <2>6. ASSUME NEW v \in Tasks \ {w}, AtWork(v) PROVE session[v].job # j
      <3>1. At(v, "lease") => session[v].job # j
        BY DEF Claimable, Locked
      <3>2. Holding(v) \/ session[v].pending # {} => JobOf(v).status # "QUEUED"
        BY DEF Leases, LeaseHeld, Done
      <3> QED
        BY <2>4, <2>6, <3>1, <3>2 DEF AtWork, JobOf
    <2> QED
      BY <1>3, <1>5, <2>1, <2>2, <2>5, <2>6
  <1>9. ASSUME NEW w \in Tasks, AtWork(w), Works(w), LeaseHeld(w)',
               LET k == session[w].job IN
                  jobs'[k].status = "QUEUED" => jobs'[k].attempts < MaxAttempts
        PROVE  Leases'
    <2> DEFINE k == session[w].job
    <2>1. /\ DOMAIN jobs' = DOMAIN jobs /\ k \in DOMAIN jobs
          /\ \A v \in Tasks \ {w} : AtWork(v) =>
                 session[v].job # k /\ jobs'[session[v].job] = jobs[session[v].job]
      BY <1>9, WorksAlone
    <2>2. Alone(w) /\ session'[w].job = k /\ ~jobs'[k].expired
          /\ \A j \in DOMAIN jobs \ {k} : jobs'[j] = jobs[j]
      BY <1>9 DEF Works, SameJob, OnlyJob
    <2>3. \A j \in DOMAIN jobs' : /\ ~jobs'[j].expired
                                  /\ jobs'[j].status = "QUEUED" => jobs'[j].attempts < MaxAttempts
      BY <1>3, <1>9, <2>1, <2>2
    <2> HIDE DEF k
    <2> QED
      BY <1>5, <1>9, <2>1, <2>2, <2>3
  <1>10. ASSUME NEW w \in Tasks, Takes(w) PROVE Leases'
    <2> DEFINE k == session[w].job
    <2>1. /\ Works(w) /\ SameJob(w) /\ SamePending(w) /\ At(w, "lease") /\ AtWork(w)
          /\ session'[w].stage = "guard" /\ session'[w].attempts = session[w].attempts + 1
          /\ session'[w].status = "RUNNING" /\ jobs'[k].attempts = session[w].attempts + 1
          /\ jobs'[k].status = Write(jobs[k].status, session[w].status, "RUNNING")
      BY <1>10 DEF Takes, Works, AtWork
    <2>2. jobs'[k].status = "RUNNING"
      BY <2>1 DEF Leases, LeaseHeld, Write
    <2>3. session'[w].pending = {}
      BY <1>4, <2>1 DEF SamePending
    <2>4. LeaseHeld(w)'
      BY <2>1, <2>2, <2>3 DEF LeaseHeld, At, Holding, Done, Settling, JobOf, SameJob
    <2> QED
      BY <1>9, <2>1, <2>2, <2>4
  <1>11. ASSUME NEW w \in Tasks, Fails(w) PROVE Leases'
    <2> DEFINE k == session[w].job
    <2>1. /\ Works(w) /\ SamePending(w) /\ Holding(w) /\ AtWork(w)
          /\ session'[w].stage = "finally" /\ jobs'[k].attempts = jobs[k].attempts
      BY <1>11 DEF Fails, Holding, AtWork
    <2>2. PICK terminal \in BOOLEAN :
             jobs'[k].status = Write(jobs[k].status, session[w].status,
                                     FailedAs(session[w], terminal))
      BY <1>11 DEF Fails
    <2>3. jobs[k].status # "QUEUED" /\ session[w].attempts = jobs[k].attempts
      BY <2>1 DEF Leases, LeaseHeld, JobOf
    <2>4. jobs'[k].status = "QUEUED" => session[w].attempts < MaxAttempts
      BY <1>1, <1>2, <2>2, <2>3 DEF Write, FailedAs
    <2>5. session'[w].pending = {}
      BY <1>4, <2>1 DEF SamePending
    <2>6. LeaseHeld(w)'
      BY <2>1, <2>5 DEF LeaseHeld, At, Holding, Done, Settling
    <2> QED
      BY <1>9, <2>1, <2>3, <2>4, <2>6
  <1>12. ASSUME NEW w \in Tasks, Completes(w) PROVE Leases'
    <2> DEFINE k == session[w].job
    <2>1. /\ Works(w) /\ SameJob(w) /\ SamePending(w) /\ Holding(w) /\ AtWork(w)
          /\ session'[w].stage = "advance" /\ jobs'[k].attempts = jobs[k].attempts
          /\ session'[w].attempts = session[w].attempts /\ jobs'[k].status = "COMPLETED"
          /\ session'[w].status = "COMPLETED"
      BY <1>12 DEF Completes, Works, Holding, AtWork, At
    <2>2. session'[w].pending = {} /\ session[w].attempts = jobs[k].attempts
      BY <1>4, <2>1 DEF SamePending, Leases, LeaseHeld, JobOf
    <2>3. LeaseHeld(w)'
      BY <2>1, <2>2 DEF LeaseHeld, At, Holding, JobOf, SameJob
    <2> QED
      BY <1>9, <2>1, <2>3
  <1>13. ASSUME NEW w \in Tasks, GoesOn(w) PROVE Leases'
    <2>1. /\ Alone(w) /\ SameJob(w) /\ UNCHANGED jobs /\ Holding(w) /\ AtWork(w)
          /\ session'[w].attempts = session[w].attempts
          /\ session'[w].status = session[w].status
      BY <1>13 DEF GoesOn, Holding, AtWork, At, Settling
    <2>2. LeaseHeld(w) /\ session[w].pending = {}
      BY <1>4, <2>1 DEF Leases
    <2>3. /\ session'[w].stage \in {"call", "verify", "settling", "credit", "oracle", "finish",
                                    "finally"}
          /\ session'[w].pending # {} => session'[w].stage = "finally"
          /\ session'[w].pending # {} \/ session'[w].stage # "call" => Done(w)
      BY <1>13, <2>2 DEF GoesOn, Done, SamePending, At, Settling, ToEnqueue, Ready, AllComplete
    <2>4. LeaseHeld(w)'
      BY <2>1, <2>2, <2>3 DEF LeaseHeld, At, Holding, Done, Settling, JobOf, SameJob
    <2>5. \A v \in Tasks \ {w} : AtWork(v) => session'[w].job # session[v].job
      BY <2>1 DEF Leases, SameJob
    <2> QED
      BY <1>3, <1>5, <2>1, <2>4, <2>5
  <1>14. ASSUME NEW w \in Tasks, NEW t, NEW nodes, Rests(w), Adds(t, nodes) PROVE Leases'
    <2>1. \A j \in DOMAIN jobs : j \in DOMAIN jobs' /\ jobs'[j] = jobs[j]
      BY <1>14 DEF Adds, JobsStay
    <2>2. \A j \in DOMAIN jobs' \ DOMAIN jobs : ~jobs'[j].expired /\ jobs'[j].attempts = 0
      BY <1>14 DEF Adds, NewJob
    <2>3. \A j \in DOMAIN jobs' :
             /\ ~jobs'[j].expired
             /\ jobs'[j].status = "QUEUED" => jobs'[j].attempts < MaxAttempts
      BY <1>1, <1>3, <2>1, <2>2
    <2> QED
      BY <1>2, <1>6, <1>14, <2>1, <2>3 DEF Rests
  <1>15. CASE Cancels
    <2>1. /\ UNCHANGED session /\ DOMAIN jobs' = DOMAIN jobs
          /\ \A j \in DOMAIN jobs : /\ jobs'[j].attempts = jobs[j].attempts
                                    /\ jobs'[j].expired = jobs[j].expired
                                    /\ jobs'[j].status \in {jobs[j].status, "FAILED"}
      <3>1. \A j \in DOMAIN jobs : jobs[j] \in Job
        BY DEF Types
      <3> QED
        BY <1>15, <3>1 DEF Cancels, Job
    <2>2. \A w \in Tasks : At(w, "lease") => jobs'[session[w].job] = jobs[session[w].job]
      BY <1>2, <1>15 DEF Cancels, AtWork
    <2>3. ASSUME NEW w \in Tasks PROVE LeaseHeld(w)'
      <3>1. LeaseHeld(w)
        BY DEF Leases
      <3>2. CASE AtWork(w)
        BY <1>2, <2>1, <2>2, <3>1, <3>2 DEF LeaseHeld, At, Holding, Done, Settling, JobOf
      <3>3. CASE ~AtWork(w)
        BY <2>1, <3>1, <3>3 DEF LeaseHeld, At, Holding, Done, Settling, AtWork
      <3> QED
        BY <3>2, <3>3
    <2> QED
      BY <1>3, <2>1, <2>3 DEF Leases, AtWork, At, Holding
  <1> QED
    BY <1>7, <1>8, <1>10, <1>11, <1>12, <1>13, <1>14, <1>15, StepShape
       DEF Shaped, Beats, Starts, Lapses

\* A job is dead-lettered only when its attempts are used up, and one that may
\* be retried has attempts left (fail_job, claim_job_lease), provided the row
\* locks of the claim work: without them a stale count of attempts is written
\* back.
THEOREM DeadLettersAreExhausted ==
    ASSUME RowLocks PROVE Spec => []DeadLetterIsExhausted
  <1> DEFINE Claim == Safe /\ Locks /\ (LeasesExpire \/ Leases)
  <1>1. Init => Claim
    <2>1. Init => Locks /\ Leases
      BY DEF Init, Locks, LockHeld, Leases, LeaseHeld, AtWork, Done, Settling, Holding, At, Idle
    <2> QED
      BY <2>1, SafeInit
  <1>2. Claim /\ [Next]_vars => Claim'
    BY TypesAreKept, SnapsAreKept, RowsStayRight, LocksAreKept, LeasesAreKept DEF Safe
  <1>3. Claim => DeadLetterIsExhausted
    BY DEF Locks, Leases, DeadLetterIsExhausted
  <1> QED
    BY <1>1, <1>2, <1>3, PTL DEF Spec

-----------------------------------------------------------------------------
(* The chain.  Of a workflow at most the job of its furthest node is open:  *)
(* waiting, running, or in the hands of a session that has not finished     *)
(* with its successor.  So a snapshot of the nodes taken at the claim is    *)
(* right about every node but the session's own, whatever happens meanwhile.*)

Open(j) ==
    \/ jobs[j].status \in {"QUEUED", "RUNNING"}
    \/ \E w \in Tasks : AtWork(w) /\ session[w].job = j

OpenIsLast ==
    \A i, j \in DOMAIN jobs : Open(j) /\ jobs[i].task = jobs[j].task => jobs[i].node <= jobs[j].node
TouchedHasJob ==
    \A t \in Tasks, n \in Nodes :
        node[t][n] # "QUEUED" => \E j \in DOMAIN jobs : jobs[j].task = t /\ jobs[j].node = n
DoneBefore ==
    \A j \in DOMAIN jobs : Open(j) =>
        \A m \in Nodes : m < jobs[j].node => node[jobs[j].task][m] = "COMPLETED"
NoJobYet == \A t \in Tasks : task[t] = "ABSENT" => \A j \in DOMAIN jobs : jobs[j].task # t

View(w) ==
    /\ AtWork(w) =>
          \A m \in Nodes : /\ m < NodeOf(w) => session[w].nodes[m] = "COMPLETED"
                           /\ m > NodeOf(w) => session[w].nodes[m] = "QUEUED"
    /\ At(w, "advance") \/ session[w].pending # {} =>
          /\ session[w].nodes[NodeOf(w)] = "COMPLETED"
          /\ node[TaskOf(w)][NodeOf(w)] = "COMPLETED"
    /\ Settling(w) => NodeOf(w) = NodeCount
    /\ session[w].pending \subseteq {NodeOf(w) + 1}

JobRows == OneJobPerNode /\ OpenIsLast /\ TouchedHasJob /\ DoneBefore /\ NoJobYet
Chain == JobRows /\ \A w \in Tasks : View(w)

\* A step that adds no job, opens none and writes at most the node of a
\* session whose job is open.
LEMMA JobRowsStay ==
    ASSUME Types, Leases, RowsMove, JobRows, DOMAIN jobs' = DOMAIN jobs,
           \A j \in DOMAIN jobs :
               /\ jobs'[j].task = jobs[j].task /\ jobs'[j].node = jobs[j].node
               /\ Open(j)' => Open(j),
           \/ UNCHANGED node
           \/ \E w \in Tasks : AtWork(w) /\ OnlyNode(TaskOf(w), NodeOf(w))
    PROVE  JobRows'
  <1>1. /\ \A j \in DOMAIN jobs : jobs[j].task \in Tasks /\ jobs[j].node \in Nodes
        /\ Nodes \subseteq Nat
    <2>1. \A j \in DOMAIN jobs : jobs[j] \in Job
      BY DEF Types
    <2> QED
      BY <2>1, NodesAreNumbers DEF Job
  <1>2. OneJobPerNode' /\ OpenIsLast'
    BY DEF OneJobPerNode, OpenIsLast, JobRows
  <1>3. NoJobYet'
    BY DEF NoJobYet, JobRows, RowsMove
  <1>4. ASSUME NEW t \in Tasks, NEW n \in Nodes, node'[t][n] # node[t][n]
        PROVE  \E j \in DOMAIN jobs : Open(j) /\ jobs[j].task = t /\ jobs[j].node = n
    <2>1. PICK w \in Tasks : AtWork(w) /\ OnlyNode(TaskOf(w), NodeOf(w))
      BY <1>4
    <2>2. TaskOf(w) = t /\ NodeOf(w) = n
      BY <1>4, <2>1 DEF OnlyNode
    <2>3. session[w].job \in DOMAIN jobs
      BY <2>1, AtWorkIsBusy
    <2> QED
      BY <2>1, <2>2, <2>3 DEF Open, TaskOf, NodeOf, JobOf
  <1>5. TouchedHasJob'
    <2> SUFFICES ASSUME NEW t \in Tasks, NEW n \in Nodes, node'[t][n] # "QUEUED"
                 PROVE  \E j \in DOMAIN jobs' : jobs'[j].task = t /\ jobs'[j].node = n
      BY DEF TouchedHasJob
    <2>1. \E j \in DOMAIN jobs : jobs[j].task = t /\ jobs[j].node = n
      BY <1>4 DEF JobRows, TouchedHasJob
    <2> QED
      BY <2>1
  <1>6. DoneBefore'
    <2> SUFFICES ASSUME NEW j \in DOMAIN jobs, Open(j)', NEW m \in Nodes, m < jobs[j].node
                 PROVE  node'[jobs[j].task][m] = "COMPLETED"
      BY DEF DoneBefore
    <2>1. Open(j) /\ jobs[j].task \in Tasks
      BY <1>1
    <2>2. node[jobs[j].task][m] = "COMPLETED"
      BY <2>1 DEF JobRows, DoneBefore
    <2>3. ASSUME node'[jobs[j].task][m] # node[jobs[j].task][m] PROVE FALSE
      <3>1. PICK i \in DOMAIN jobs : Open(i) /\ jobs[i].task = jobs[j].task /\ jobs[i].node = m
        BY <1>4, <2>1, <2>3
      <3>2. jobs[j].node <= jobs[i].node
        BY <3>1 DEF JobRows, OpenIsLast
      <3>3. jobs[j].node \in Nat /\ m \in Nat
        BY <1>1
      <3> QED
        BY <3>1, <3>2, <3>3
    <2> QED
      BY <2>2, <2>3
  <1> QED
    BY <1>2, <1>3, <1>5, <1>6 DEF JobRows

\* The job of the next node, behind all others of its task.
LEMMA JobRowsGrow ==
    ASSUME Types, JobRows, RowsMove, NEW w \in Tasks, Rests(w), NEW t \in Tasks, NEW n \in Nodes,
           Adds(t, {n}), task'[t] # "ABSENT",
           \A i \in DOMAIN jobs : jobs[i].task = t => jobs[i].node < n /\ ~Open(i)',
           \A m \in Nodes : m < n => node[t][m] = "COMPLETED"
    PROVE  JobRows'
  <1>1. /\ \A j \in DOMAIN jobs : jobs[j].task \in Tasks /\ jobs[j].node \in Nodes
        /\ Nodes \subseteq Nat
    <2>1. \A j \in DOMAIN jobs : jobs[j] \in Job
      BY DEF Types
    <2> QED
      BY <2>1, NodesAreNumbers DEF Job
  <1>2. /\ UNCHANGED node
        /\ \A j \in DOMAIN jobs : j \in DOMAIN jobs' /\ jobs'[j] = jobs[j]
        /\ \A j \in DOMAIN jobs' \ DOMAIN jobs : jobs'[j].task = t /\ jobs'[j].node = n
        /\ \A i, j \in DOMAIN jobs' \ DOMAIN jobs : i = j
    BY DEF Adds, JobsStay, NewJob
  <1>3. \A j \in DOMAIN jobs : Open(j)' => Open(j)
    <2>1. ~AtWork(w)'
      BY DEF Rests, AtWork, Holding, At
    <2>2. \A v \in Tasks \ {w} : AtWork(v)' => AtWork(v)
      BY DEF Rests, Alone, AtWork, Holding, At
    <2> QED
      BY <1>2, <2>1, <2>2 DEF Open, Rests, Alone
  <1>4. OneJobPerNode'
    <2> SUFFICES ASSUME NEW i \in DOMAIN jobs', NEW j \in DOMAIN jobs',
                        jobs'[i].task = jobs'[j].task, jobs'[i].node = jobs'[j].node
                 PROVE  i = j
      BY DEF OneJobPerNode
    <2>1. CASE i \in DOMAIN jobs /\ j \in DOMAIN jobs
      BY <1>2, <2>1 DEF JobRows, OneJobPerNode
    <2>2. CASE i \notin DOMAIN jobs /\ j \notin DOMAIN jobs
      BY <1>2, <2>2
    <2>3. CASE i \in DOMAIN jobs /\ j \notin DOMAIN jobs
      BY <1>1, <1>2, <2>3
    <2>4. CASE i \notin DOMAIN jobs /\ j \in DOMAIN jobs
      BY <1>1, <1>2, <2>4
    <2> QED
      BY <2>1, <2>2, <2>3, <2>4
  <1>5. OpenIsLast'
    <2> SUFFICES ASSUME NEW i \in DOMAIN jobs', NEW j \in DOMAIN jobs', Open(j)',
                        jobs'[i].task = jobs'[j].task
                 PROVE  jobs'[i].node <= jobs'[j].node
      BY DEF OpenIsLast
    <2>1. CASE j \in DOMAIN jobs
      <3>1. jobs[j].task # t /\ jobs'[j] = jobs[j] /\ Open(j)
        BY <1>2, <1>3, <2>1
      <3>2. i \in DOMAIN jobs /\ jobs'[i] = jobs[i]
        BY <1>2, <3>1
      <3> QED
        BY <2>1, <3>1, <3>2 DEF JobRows, OpenIsLast
    <2>2. CASE j \notin DOMAIN jobs
      <3>1. CASE i \in DOMAIN jobs
        <4>1. jobs'[j].task = t /\ jobs'[j].node = n /\ jobs'[i] = jobs[i]
          BY <1>2, <2>2, <3>1
        <4>2. jobs[i].node < n /\ jobs[i].node \in Nat /\ n \in Nat
          BY <1>1, <3>1, <4>1
        <4> QED
          BY <4>1, <4>2
      <3>2. CASE i \notin DOMAIN jobs
        BY <1>1, <1>2, <2>2, <3>2
      <3> QED
        BY <3>1, <3>2
    <2> QED
      BY <2>1, <2>2
  <1>6. TouchedHasJob'
    <2> SUFFICES ASSUME NEW u \in Tasks, NEW m \in Nodes, node'[u][m] # "QUEUED"
                 PROVE  \E j \in DOMAIN jobs' : jobs'[j].task = u /\ jobs'[j].node = m
      BY DEF TouchedHasJob
    <2>1. PICK j \in DOMAIN jobs : jobs[j].task = u /\ jobs[j].node = m
      BY <1>2 DEF JobRows, TouchedHasJob
    <2> QED
      BY <1>2, <2>1
  <1>7. DoneBefore'
    <2> SUFFICES ASSUME NEW j \in DOMAIN jobs', Open(j)', NEW m \in Nodes, m < jobs'[j].node
                 PROVE  node'[jobs'[j].task][m] = "COMPLETED"
      BY DEF DoneBefore
    <2>1. CASE j \in DOMAIN jobs
      BY <1>2, <1>3, <2>1 DEF JobRows, DoneBefore
    <2>2. CASE j \notin DOMAIN jobs
      BY <1>2, <2>2
    <2> QED
      BY <2>1, <2>2
  <1>8. NoJobYet'
    <2> SUFFICES ASSUME NEW u \in Tasks, task'[u] = "ABSENT", NEW j \in DOMAIN jobs'
                 PROVE  jobs'[j].task # u
      BY DEF NoJobYet
    <2>1. task[u] = "ABSENT"
      BY DEF RowsMove
    <2>2. CASE j \in DOMAIN jobs
      BY <1>2, <2>1, <2>2 DEF JobRows, NoJobYet
    <2>3. CASE j \notin DOMAIN jobs
      BY <1>2, <2>3
    <2> QED
      BY <2>2, <2>3
  <1> QED
    BY <1>4, <1>5, <1>6, <1>7, <1>8 DEF JobRows

\* What the others do leaves a session's view as it was.
LEMMA ViewStays ==
    ASSUME Types, Leases, JobsStay, OneJobPerNode, NEW v \in Tasks, View(v),
           session'[v] = session[v],
           \/ UNCHANGED node
           \/ \E w \in Tasks \ {v} : AtWork(w) /\ OnlyNode(TaskOf(w), NodeOf(w))
    PROVE  View(v)'
  <1>1. CASE AtWork(v)
    <2> DEFINE t == TaskOf(v)
               n == NodeOf(v)
    <2>1. session[v].job \in DOMAIN jobs /\ t \in Tasks /\ n \in Nodes
      BY <1>1, AtWorkIsBusy
    <2>2. TaskOf(v)' = t /\ NodeOf(v)' = n
      BY <2>1 DEF JobsStay, TaskOf, NodeOf, JobOf
    <2>3. ASSUME node'[t][n] # node[t][n] PROVE FALSE
      <3>1. PICK w \in Tasks \ {v} : AtWork(w) /\ OnlyNode(TaskOf(w), NodeOf(w))
        BY <2>3
      <3>2. TaskOf(w) = t /\ NodeOf(w) = n
        BY <2>1, <2>3, <3>1 DEF OnlyNode
      <3>3. AtWork(w) /\ session[w].job \in DOMAIN jobs
        BY <3>1, AtWorkIsBusy
      <3>4. session[w].job = session[v].job
        BY <2>1, <3>2, <3>3 DEF OneJobPerNode, TaskOf, NodeOf, JobOf
      <3> QED
        BY <1>1, <3>1, <3>3, <3>4 DEF Leases
    <2> HIDE DEF t, n
    <2> QED
      BY <2>2, <2>3 DEF View, AtWork, Holding, At, Settling, t, n
  <1>2. CASE ~AtWork(v)
    <2>1. ~AtWork(v) /\ ~At(v, "advance") /\ ~Settling(v) /\ session[v].pending = {}
      BY <1>2 DEF AtWork, At, Holding, Settling
    <2> QED
      BY <2>1 DEF View, AtWork, Holding, At, Settling
  <1> QED
    BY <1>1, <1>2

LEMMA NoView ==
    ASSUME NEW w, session'[w].stage \in {"claim", "end", "finally"}, session'[w].pending = {}
    PROVE  View(w)' /\ ~AtWork(w)'
  BY DEF View, AtWork, At, Holding, Settling

\* A claimed job is open, so the snapshot the claim takes is that of a chain
\* completed up to its node and untouched behind it.
LEMMA ClaimSees ==
    ASSUME Types, Leases, JobRows, NEW w \in Tasks, Claims(w), ~LeasesExpire
    PROVE  View(w)' /\ \A j \in DOMAIN jobs : Open(j)' => Open(j)
  <1>1. PICK k \in Claimable(w) :
           /\ session'[w].stage = "lease" /\ session'[w].job = k
           /\ session'[w].nodes = node[jobs[k].task]
    BY DEF Claims
  <1>2. Alone(w) /\ UNCHANGED <<jobs, node>> /\ At(w, "claim") /\ SamePending(w)
    BY DEF Claims
  <1>3. k \in DOMAIN jobs /\ jobs[k].status = "QUEUED" /\ Open(k)
    BY DEF Claimable, Leases, Open
  <1>4. session'[w].pending = {}
    BY <1>2 DEF Leases, LeaseHeld, At, SamePending
  <1>5. jobs[k].task \in Tasks /\ jobs[k].node \in Nat
    <2>1. jobs[k] \in Job
      BY <1>3 DEF Types
    <2> QED
      BY <2>1, NodesAreNumbers DEF Job
  <1>6. ASSUME NEW m \in Nodes
        PROVE  /\ m < jobs[k].node => node[jobs[k].task][m] = "COMPLETED"
               /\ m > jobs[k].node => node[jobs[k].task][m] = "QUEUED"
    <2>1. m < jobs[k].node => node[jobs[k].task][m] = "COMPLETED"
      BY <1>3 DEF JobRows, DoneBefore
    <2>2. ASSUME m > jobs[k].node, node[jobs[k].task][m] # "QUEUED" PROVE FALSE
      <3>1. PICK i \in DOMAIN jobs : jobs[i].task = jobs[k].task /\ jobs[i].node = m
        BY <1>5, <2>2 DEF JobRows, TouchedHasJob
      <3>2. jobs[i].node <= jobs[k].node
        BY <1>3, <3>1 DEF JobRows, OpenIsLast
      <3>3. m \in Nat
        BY NodesAreNumbers
      <3> QED
        BY <1>5, <2>2, <3>1, <3>2, <3>3
    <2> QED
      BY <2>1, <2>2
  <1>7. TaskOf(w)' = jobs[k].task /\ NodeOf(w)' = jobs[k].node
    BY <1>1, <1>2 DEF TaskOf, NodeOf, JobOf
  <1>8. View(w)'
    BY <1>1, <1>4, <1>6, <1>7 DEF View, At, Settling
  <1>9. ASSUME NEW j \in DOMAIN jobs, Open(j)' PROVE Open(j)
    <2>1. CASE \E v \in Tasks : AtWork(v)' /\ session'[v].job = j
      <3>1. PICK v \in Tasks : AtWork(v)' /\ session'[v].job = j
        BY <2>1
      <3>2. CASE v = w
        BY <1>1, <1>3, <3>1, <3>2
      <3>3. CASE v # w
        BY <1>2, <3>1, <3>3 DEF Alone, AtWork, Holding, At, Open
      <3> QED
        BY <3>2, <3>3
    <2>2. CASE jobs'[j].status \in {"QUEUED", "RUNNING"}
      BY <1>2, <2>2 DEF Open
    <2> QED
      BY <1>9, <2>1, <2>2 DEF Open
  <1> QED
    BY <1>8, <1>9

\* A session that completed its node and checks for children finds its
\* successor, or that the workflow is finished.
LEMMA ChildrenOf ==
    ASSUME Types, NEW w \in Tasks, At(w, "advance"), View(w)
    PROVE  /\ Ready(session[w]) \subseteq {NodeOf(w) + 1}
           /\ AllComplete(session[w]) => NodeOf(w) = NodeCount
  <1> DEFINE n == NodeOf(w)
             nodes == session[w].nodes
  <1>1. n \in Nodes /\ NodeCount \in Nodes /\ Nodes = 1..NodeCount /\ NodeCount \in Nat
    BY HeldJob, OrchestrationAssumption DEF At, Busy, Nodes
  <1>2. /\ \A m \in Nodes : m < n => nodes[m] = "COMPLETED"
        /\ \A m \in Nodes : m > n => nodes[m] = "QUEUED"
        /\ nodes[n] = "COMPLETED"
    <2>1. AtWork(w)
      BY DEF AtWork, Holding, At
    <2> QED
      BY <2>1 DEF View
  <1>3. Ready(session[w]) =
           {c \in Nodes \ {1} : nodes[c] = "QUEUED" /\ nodes[c - 1] = "COMPLETED"}
    BY DEF Ready
  <1>4. AllComplete(session[w]) => \A m \in Nodes : nodes[m] = "COMPLETED"
    BY DEF AllComplete
  <1> HIDE DEF n, nodes
  <1>5. ASSUME NEW c \in Ready(session[w]) PROVE c = n + 1
    <2>1. c \in Nodes /\ c - 1 \in Nodes /\ nodes[c] = "QUEUED" /\ nodes[c - 1] = "COMPLETED"
      BY <1>1, <1>3
    <2>2. ~(c < n) /\ c # n
      BY <1>2, <2>1
    <2>3. ~(c - 1 > n)
      BY <1>2, <2>1
    <2> QED
      BY <1>1, <2>1, <2>2, <2>3
  <1>6. AllComplete(session[w]) => ~(NodeCount > n)
    BY <1>1, <1>2, <1>4
  <1> QED
    BY <1>1, <1>5, <1>6 DEF n

LEMMA ChainIsKept ==
    ASSUME RowLocks, ~LeasesExpire, Types, Snaps, Rows, Leases, Chain, [Next]_vars
    PROVE  Chain'
  <1>0. \A m, n \in Nodes : (m < n => m # n) /\ (m > n => m # n)
    BY NodesAreNumbers
  <1>1. JobRows /\ OneJobPerNode /\ \A v \in Tasks : View(v)
    BY DEF Chain, JobRows
  <1>2. RowsMove /\ JobsStay
    BY RowsAreMoved, JobsAreKept DEF JobsGrow
  <1>3. \A w \in Tasks : Holding(w) \/ At(w, "lease") \/ At(w, "claim") => session[w].pending = {}
    BY DEF Leases, LeaseHeld, At, Holding
  <1>4. ASSUME NEW w \in Tasks, Alone(w), View(w)', JobRows',
               UNCHANGED node \/ (AtWork(w) /\ OnlyNode(TaskOf(w), NodeOf(w)))
        PROVE  Chain'
    <2>1. ASSUME NEW v \in Tasks \ {w} PROVE View(v)'
      <3>1. session'[v] = session[v] /\ View(v)
        BY <1>1, <1>4 DEF Alone
      <3>2. \/ UNCHANGED node
            \/ \E u \in Tasks \ {v} : AtWork(u) /\ OnlyNode(TaskOf(u), NodeOf(u))
        BY <1>4
      <3> QED
        BY <1>1, <1>2, <3>1, <3>2, ViewStays
    <2> QED
      BY <1>4, <2>1 DEF Chain
  <1>5. ASSUME NEW w \in Tasks, Alone(w),
               AtWork(w)' => AtWork(w) /\ session'[w].job = session[w].job,
               \A j \in DOMAIN jobs : jobs'[j].status \in {"QUEUED", "RUNNING"} => Open(j)
        PROVE  \A j \in DOMAIN jobs : Open(j)' => Open(j)
    <2> SUFFICES ASSUME NEW j \in DOMAIN jobs, NEW v \in Tasks, AtWork(v)', session'[v].job = j
                 PROVE  Open(j)
      BY <1>5 DEF Open
    <2>1. CASE v = w
      BY <1>5, <2>1 DEF Open
    <2>2. CASE v # w
      BY <1>5, <2>2 DEF Alone, AtWork, Holding, At, Open
    <2> QED
      BY <2>1, <2>2
  <1>6. \A j \in DOMAIN jobs : jobs[j].status \in {"QUEUED", "RUNNING"} => Open(j)
    BY DEF Open
  <1>7. ASSUME NEW w \in Tasks, Ends(w) PROVE Chain'
    <2>1. Alone(w) /\ UNCHANGED <<jobs, node>> /\ View(w)' /\ ~AtWork(w)'
      BY <1>7, NoView DEF Rests, Ends
    <2>2. \A j \in DOMAIN jobs : Open(j)' => Open(j)
      BY <1>5, <1>6, <2>1
    <2>3. JobRows'
      BY <1>1, <1>2, <2>1, <2>2, JobRowsStay
    <2> QED
      BY <1>4, <2>1, <2>3
  <1>8. ASSUME NEW w \in Tasks, Claims(w) PROVE Chain'
    <2>1. Alone(w) /\ UNCHANGED <<jobs, node>>
      BY <1>8 DEF Claims
    <2>2. View(w)' /\ \A j \in DOMAIN jobs : Open(j)' => Open(j)
      BY <1>1, <1>8, ClaimSees
    <2>3. JobRows'
      BY <1>1, <1>2, <2>1, <2>2, JobRowsStay
    <2> QED
      BY <1>4, <2>1, <2>2, <2>3
  \* A session at the front writes its own job, which is open.
  <1>9. ASSUME NEW w \in Tasks, AtWork(w), Works(w), View(w)',
               AtWork(w)' => session'[w].job = session[w].job
        PROVE  Chain'
    <2>1. /\ session[w].job \in DOMAIN jobs /\ DOMAIN jobs' = DOMAIN jobs
          /\ \A j \in DOMAIN jobs : jobs'[j].task = jobs[j].task /\ jobs'[j].node = jobs[j].node
          /\ \A j \in DOMAIN jobs \ {session[w].job} : jobs'[j] = jobs[j]
          /\ Alone(w) /\ OnlyNode(TaskOf(w), NodeOf(w))
      BY <1>9, AtWorkIsBusy DEF Works, OnlyJob
    <2>2. Open(session[w].job)
      BY <1>9 DEF Open
    <2>3. \A j \in DOMAIN jobs : jobs'[j].status \in {"QUEUED", "RUNNING"} => Open(j)
      BY <1>6, <2>1, <2>2
    <2>4. \A j \in DOMAIN jobs : Open(j)' => Open(j)
      BY <1>5, <1>9, <2>1, <2>3
    <2>5. JobRows'
      BY <1>1, <1>2, <1>9, <2>1, <2>4, JobRowsStay
    <2> QED
      BY <1>4, <1>9, <2>1, <2>5
  <1>10. ASSUME NEW w \in Tasks, AtWork(w), SameJob(w)
         PROVE  /\ TaskOf(w)' = TaskOf(w) /\ NodeOf(w)' = NodeOf(w)
                /\ NodeOf(w) \in Nodes /\ TaskOf(w) \in Tasks
                /\ session[w].nodes \in [Nodes -> NodeStatus]
    <2>1. session[w].job \in DOMAIN jobs /\ NodeOf(w) \in Nodes /\ TaskOf(w) \in Tasks
      BY <1>10, AtWorkIsBusy
    <2>2. session[w] \in Session
      BY DEF Types, SessionsTyped
    <2> QED
      BY <1>2, <1>10, <2>1, <2>2 DEF SameJob, JobsStay, TaskOf, NodeOf, JobOf, Session
  <1>11. ASSUME NEW w \in Tasks, Takes(w) PROVE Chain'
    <2>1. /\ AtWork(w) /\ Works(w) /\ SameJob(w) /\ SamePending(w) /\ At(w, "lease")
          /\ session'[w].stage = "guard"
          /\ session'[w].nodes = [session[w].nodes EXCEPT ![NodeOf(w)] = "RUNNING"]
      BY <1>11 DEF Takes, Works, AtWork, Holding, At
    <2>2. session'[w].pending = {}
      BY <1>3, <2>1 DEF SamePending
    <2>3. \A m \in Nodes \ {NodeOf(w)} : session'[w].nodes[m] = session[w].nodes[m]
      BY <1>10, <2>1
    <2>4. \A m \in Nodes : /\ m < NodeOf(w) => m # NodeOf(w)
                           /\ m > NodeOf(w) => m # NodeOf(w)
      BY <1>0, <1>10, <2>1
    <2>5. View(w)'
      BY <1>1, <1>10, <2>1, <2>2, <2>3, <2>4 DEF View, At, Settling
    <2> QED
      BY <1>9, <2>1, <2>5 DEF SameJob
  <1>12. ASSUME NEW w \in Tasks, Fails(w) PROVE Chain'
    <2>1. /\ AtWork(w) /\ Works(w) /\ SamePending(w) /\ Holding(w)
          /\ session'[w].stage = "finally"
      BY <1>12 DEF Fails, AtWork, At, Holding
    <2>2. session'[w].pending = {}
      BY <1>3, <2>1 DEF SamePending
    <2>3. View(w)' /\ ~AtWork(w)'
      BY <2>1, <2>2, NoView
    <2> QED
      BY <1>9, <2>1, <2>3
  <1>13. ASSUME NEW w \in Tasks, Completes(w) PROVE Chain'
    <2>1. /\ AtWork(w) /\ Works(w) /\ SameJob(w) /\ SamePending(w) /\ Holding(w)
          /\ session'[w].stage = "advance"
          /\ session'[w].nodes = [session[w].nodes EXCEPT ![NodeOf(w)] = "COMPLETED"]
          /\ node'[TaskOf(w)][NodeOf(w)] = "COMPLETED"
      BY <1>13 DEF Completes, Works, AtWork, At, Holding
    <2>2. session'[w].pending = {}
      BY <1>3, <2>1 DEF SamePending
    <2>3. /\ \A m \in Nodes \ {NodeOf(w)} : session'[w].nodes[m] = session[w].nodes[m]
          /\ session'[w].nodes[NodeOf(w)] = "COMPLETED"
      BY <1>10, <2>1
    <2>4. \A m \in Nodes : /\ m < NodeOf(w) => m # NodeOf(w)
                           /\ m > NodeOf(w) => m # NodeOf(w)
      BY <1>0, <1>10, <2>1
    <2>5. View(w)'
      BY <1>1, <1>10, <2>1, <2>2, <2>3, <2>4 DEF View, At, Settling
    <2> QED
      BY <1>9, <2>1, <2>5 DEF SameJob
  <1>14. ASSUME NEW w \in Tasks, GoesOn(w) PROVE Chain'
    <2>1. /\ Alone(w) /\ SameJob(w) /\ UNCHANGED <<jobs, node>> /\ Holding(w) /\ AtWork(w)
          /\ session'[w].nodes = session[w].nodes
      BY <1>14 DEF GoesOn, Holding, AtWork, At, Settling
    <2>2. View(w) /\ session[w].pending = {} /\ TaskOf(w)' = TaskOf(w) /\ NodeOf(w)' = NodeOf(w)
      BY <1>1, <1>3, <1>10, <2>1
    <2>3. View(w)' /\ (AtWork(w)' => AtWork(w))
      <3>1. CASE At(w, "guard")
        BY <1>14, <2>1, <2>2, <3>1 DEF GoesOn, View, AtWork, Holding, At, Settling, SamePending
      <3>2. CASE At(w, "advance")
        <4>1. /\ session'[w].stage = IF AllComplete(session[w]) THEN "verify" ELSE "finally"
              /\ session'[w].pending \subseteq Ready(session[w])
          BY <1>14, <3>2 DEF GoesOn, At, Settling, ToEnqueue
        <4>2. /\ Ready(session[w]) \subseteq {NodeOf(w) + 1}
              /\ AllComplete(session[w]) => NodeOf(w) = NodeCount
          BY <2>2, <3>2, ChildrenOf
        <4> QED
          BY <2>1, <2>2, <3>2, <4>1, <4>2 DEF View, AtWork, Holding, At, Settling
      <3>3. CASE Settling(w)
        BY <1>14, <2>1, <2>2, <3>3 DEF GoesOn, View, AtWork, Holding, At, Settling, SamePending
      <3> QED
        BY <1>14, <3>1, <3>2, <3>3 DEF GoesOn
    <2>4. \A j \in DOMAIN jobs : Open(j)' => Open(j)
      BY <1>5, <1>6, <2>1, <2>3 DEF SameJob
    <2>5. JobRows'
      BY <1>1, <1>2, <2>1, <2>4, JobRowsStay
    <2> QED
      BY <1>4, <2>1, <2>3, <2>5
  <1>15. ASSUME NEW w \in Tasks, Beats(w) PROVE Chain'
    <2>1. /\ Rests(w) /\ At(w, "finally") /\ Adds(TaskOf(w), session[w].pending)
          /\ Alone(w) /\ UNCHANGED node /\ View(w)' /\ ~AtWork(w)'
      BY <1>15, NoView DEF Beats, Rests
    <2>2. CASE session[w].pending = {}
      <3>1. DOMAIN jobs' = DOMAIN jobs /\ \A j \in DOMAIN jobs : jobs'[j] = jobs[j]
        BY <2>1, <2>2 DEF Adds, JobsStay
      <3>2. \A j \in DOMAIN jobs : Open(j)' => Open(j)
        BY <1>5, <1>6, <2>1, <3>1
      <3>3. JobRows'
        BY <1>1, <1>2, <2>1, <3>1, <3>2, JobRowsStay
      <3> QED
        BY <1>4, <2>1, <3>3
    <2>3. CASE session[w].pending # {}
      <3>1. /\ AtWork(w) /\ Done(w) /\ session[w].pending = {NodeOf(w) + 1}
        BY <1>1, <2>3 DEF AtWork, Holding, At, Done, View
      <3>2. PICK k \in DOMAIN jobs, t \in Tasks, n \in Nodes :
                k = session[w].job /\ t = TaskOf(w) /\ n = NodeOf(w)
        BY <3>1, AtWorkIsBusy
      <3>3. jobs[k].task = t /\ jobs[k].node = n /\ Open(k)
        BY <3>1, <3>2 DEF TaskOf, NodeOf, JobOf, Open
      <3>4. jobs[k].status \in {"COMPLETED", "FAILED"}
        BY <3>1, <3>2 DEF Leases, LeaseHeld, JobOf
      <3>5. /\ \A m \in Nodes : m < n => node[t][m] = "COMPLETED"
            /\ node[t][n] = "COMPLETED"
        BY <1>1, <2>3, <3>2, <3>3 DEF JobRows, DoneBefore, View
      <3>6. n \in Nat /\ n + 1 \in Nodes
        <4>1. session[w].pending \subseteq Nodes
          BY DEF Types, SessionsTyped, Session
        <4> QED
          BY <3>1, <3>2, <4>1, NodesAreNumbers
      <3>7. task'[t] # "ABSENT"
        <4>1. task[t] # "ABSENT"
          BY <1>1, <3>2, <3>3 DEF JobRows, NoJobYet
        <4> QED
          BY <1>2, <3>2, <4>1 DEF RowsMove
      <3>8. \A m \in Nodes : m < n + 1 => node[t][m] = "COMPLETED"
        <4>1. \A m \in Nodes : m < n + 1 => m < n \/ m = n
          BY <3>6, NodesAreNumbers
        <4> QED
          BY <3>5, <4>1
      <3>9. ASSUME NEW i \in DOMAIN jobs, jobs[i].task = t
            PROVE  jobs[i].node < n + 1 /\ ~Open(i)'
        <4>1. jobs[i].node <= n
          BY <1>1, <3>2, <3>3, <3>9 DEF JobRows, OpenIsLast
        <4>2. jobs[i].node \in Nat
          <5>1. jobs[i] \in Job
            BY DEF Types
          <5> QED
            BY <5>1, NodesAreNumbers DEF Job
        <4>3. ASSUME Open(i) PROVE i = k
          <5>1. n <= jobs[i].node
            BY <1>1, <3>2, <3>3, <3>9, <4>3 DEF JobRows, OpenIsLast
          <5>2. jobs[i].node = n
            BY <3>6, <4>1, <4>2, <5>1
          <5> QED
            BY <1>1, <3>2, <3>3, <3>9, <5>2 DEF OneJobPerNode
        <4>4. ~Open(k)'
          <5>1. jobs'[k] = jobs[k]
            BY <2>1, <3>2 DEF Adds
          <5>2. ASSUME NEW v \in Tasks, AtWork(v)', session'[v].job = k PROVE FALSE
            <6>1. v # w /\ session'[v] = session[v]
              BY <2>1, <5>2 DEF Alone
            <6>2. AtWork(v) /\ session[v].job = k
              BY <5>2, <6>1 DEF AtWork, Holding, At
            <6> QED
              BY <3>1, <3>2, <6>1, <6>2 DEF Leases
          <5> QED
            BY <3>4, <5>1, <5>2 DEF Open
        <4>5. \A j \in DOMAIN jobs : Open(j)' => Open(j)
          <5>1. \A j \in DOMAIN jobs : jobs'[j] = jobs[j]
            BY <2>1 DEF Adds
          <5> QED
            BY <1>5, <1>6, <2>1, <5>1
        <4> QED
          BY <3>6, <4>1, <4>2, <4>3, <4>4, <4>5
      <3>10. Adds(t, {n + 1})
        BY <2>1, <3>1, <3>2
      <3>11. JobRows'
        BY <1>1, <1>2, <2>1, <3>2, <3>6, <3>7, <3>8, <3>9, <3>10, JobRowsGrow
      <3> QED
        BY <1>4, <2>1, <3>11
    <2> QED
      BY <2>2, <2>3
  <1>16. ASSUME NEW t \in Tasks, Starts(t) PROVE Chain'
    <2>1. /\ Rests(t) /\ Alone(t) /\ UNCHANGED node /\ View(t)'
          /\ task'[t] # "ABSENT" /\ Adds(t, {1})
      BY <1>16, NoView DEF Starts, Rests
    <2>2. \A i \in DOMAIN jobs : jobs[i].task # t
      BY <1>1, <1>16 DEF Starts, JobRows, NoJobYet
    <2>3. 1 \in Nodes /\ \A m \in Nodes : ~(m < 1)
      BY OrchestrationAssumption DEF Nodes
    <2>4. JobRows'
      BY <1>1, <1>2, <2>1, <2>2, <2>3, JobRowsGrow
    <2> QED
      BY <1>4, <2>1, <2>4
  <1>17. CASE Cancels
    <2>1. /\ UNCHANGED <<session, node>> /\ DOMAIN jobs' = DOMAIN jobs
          /\ \A j \in DOMAIN jobs : /\ jobs'[j].task = jobs[j].task /\ jobs'[j].node = jobs[j].node
                                    /\ jobs'[j].status \in {jobs[j].status, "FAILED"}
      <3>1. \A j \in DOMAIN jobs : jobs[j] \in Job
        BY DEF Types
      <3> QED
        BY <1>17, <3>1 DEF Cancels, Job
    <2>2. \A j \in DOMAIN jobs : Open(j)' => Open(j)
      BY <2>1 DEF Open, AtWork, Holding, At
    <2>3. JobRows'
      BY <1>1, <1>2, <2>1, <2>2, JobRowsStay
    <2>4. \A v \in Tasks : View(v)'
      BY <1>1, <1>2, <2>1, ViewStays
    <2> QED
      BY <2>3, <2>4 DEF Chain
  <1> QED
    BY <1>7, <1>8, <1>11, <1>12, <1>13, <1>14, <1>15, <1>16, <1>17, StepShape
       DEF Shaped, Lapses

LEMMA ClaimsInit ==
    ASSUME Init
    PROVE  Locks /\ Leases /\ Chain
  <1>1. Locks /\ Leases
    BY DEF Init, Locks, LockHeld, Leases, LeaseHeld, AtWork, Done, Settling, Holding, At, Idle
  <1>2. JobRows
    BY DEF Init, JobRows, OneJobPerNode, OpenIsLast, TouchedHasJob, DoneBefore, NoJobYet,
           AllQueued
  <1>3. \A w \in Tasks : View(w)
    BY DEF Init, View, AtWork, Holding, At, Settling, Idle
  <1> QED
    BY <1>1, <1>2, <1>3 DEF Chain

-----------------------------------------------------------------------------
(* The payments.  A task that has been paid has its last job closed, and no *)
(* session is left on it that could pay again.                              *)

PaidBy(j, t) ==
    /\ jobs[j].task = t /\ jobs[j].node = NodeCount /\ jobs[j].status \in {"COMPLETED", "FAILED"}
    /\ \A w \in Tasks : session[w].job = j /\ AtWork(w) => At(w, "finish") /\ ~session[w].credited
Unpaid(t) == credits[t] = 0 /\ settlements[t] = 0 /\ escrow[t] # "SETTLEMENT_PENDING"
Paid(t) ==
    /\ credits[t] = 1 /\ settlements[t] \in {0, 1}
    /\ settlements[t] = 1 <=> escrow[t] = "SETTLEMENT_PENDING"
    /\ \E j \in DOMAIN jobs : PaidBy(j, t)
PaidOnce == \A t \in Tasks : Unpaid(t) \/ Paid(t)

\* The two steps that pay: the settlement that is sent, with the credit in its
\* commit, and the final commit of a credit whose settlement was not.
Sends(w) ==
    /\ At(w, "oracle") /\ Alone(w) /\ SameJob(w) /\ UNCHANGED jobs
    /\ session'[w].stage = "finish" /\ ~session'[w].credited
    /\ credits'[TaskOf(w)] = credits[TaskOf(w)] + 1
    /\ settlements'[TaskOf(w)] = settlements[TaskOf(w)] + 1
    /\ escrow'[TaskOf(w)] = "SETTLEMENT_PENDING"
Credits(w) ==
    /\ At(w, "finish") /\ session[w].credited /\ Alone(w) /\ SameJob(w) /\ UNCHANGED jobs
    /\ session'[w].stage = "finally"
    /\ SamePending(w)
    /\ credits'[TaskOf(w)] = credits[TaskOf(w)] + 1
    /\ settlements'[TaskOf(w)] = settlements[TaskOf(w)]
    /\ escrow'[TaskOf(w)] = escrow[TaskOf(w)]
NotPaidNow(t) ==
    /\ credits'[t] = credits[t] /\ settlements'[t] = settlements[t]
    /\ escrow'[t] = "SETTLEMENT_PENDING" <=> escrow[t] = "SETTLEMENT_PENDING"
MoneyMoves ==
    \A t \in Tasks : NotPaidNow(t) \/ \E w \in Tasks : TaskOf(w) = t /\ (Sends(w) \/ Credits(w))

LEMMA MoneyIsMoved ==
    ASSUME Types, ~LedgerFails, [Next]_vars
    PROVE  MoneyMoves
  <1>1. /\ escrow \in [Tasks -> EscrowRow] /\ credits \in [Tasks -> Nat]
        /\ settlements \in [Tasks -> Nat] /\ DOMAIN session = Tasks
    BY DEF Types, RowsTyped, SessionsTyped
  <1>2. ASSUME UNCHANGED <<escrow, credits, settlements>> PROVE MoneyMoves
    BY <1>2 DEF MoneyMoves, NotPaidNow
  <1>3. ASSUME NEW w \in Tasks, SubmitSettlement(w) PROVE MoneyMoves
    <2> DEFINE t == TaskOf(w)
    <2>1. /\ At(w, "oracle") /\ UNCHANGED jobs /\ Busy(w) /\ session[w] \in Session
      BY <1>3, HeldJob DEF SubmitSettlement, At, Busy
    <2>2. t \in Tasks
      BY <2>1, HeldJob
    <2>3. CASE UNCHANGED <<settlements, escrow, credits>>
      BY <1>2, <2>3
    <2>4. CASE /\ settlements' = [settlements EXCEPT ![t] = @ + 1]
               /\ escrow' = [escrow EXCEPT ![t] = "SETTLEMENT_PENDING"]
               /\ credits' = [credits EXCEPT ![t] = @ + 1]
               /\ session' = [session EXCEPT ![w] =
                                [@ EXCEPT !.stage = "finish", !.credited = FALSE]]
      <3>1. /\ settlements'[t] = settlements[t] + 1 /\ escrow'[t] = "SETTLEMENT_PENDING"
            /\ credits'[t] = credits[t] + 1
            /\ \A u \in Tasks \ {t} : NotPaidNow(u)
        BY <1>1, <2>2, <2>4 DEF NotPaidNow
      <3>2. /\ Alone(w) /\ SameJob(w) /\ session'[w].stage = "finish" /\ ~session'[w].credited
        BY <1>1, <2>1, <2>4 DEF Alone, SameJob, Session
      <3>3. Sends(w)
        BY <2>1, <3>1, <3>2 DEF Sends
      <3> QED
        BY <3>1, <3>3 DEF MoneyMoves
    <2> QED
      BY <1>3, <2>3, <2>4 DEF SubmitSettlement
  <1>4. ASSUME NEW w \in Tasks, FinishTask(w) PROVE MoneyMoves
    <2> DEFINE t == TaskOf(w)
    <2>1. /\ At(w, "finish") /\ UNCHANGED <<jobs, escrow, settlements>> /\ Busy(w)
          /\ session[w] \in Session
      BY <1>4, HeldJob DEF FinishTask, At, Busy
    <2>2. t \in Tasks
      BY <2>1, HeldJob
    <2>3. /\ credits' = [credits EXCEPT ![t] = @ + (IF session[w].credited THEN 1 ELSE 0)]
          /\ session' = [session EXCEPT ![w] =
                           [@ EXCEPT !.stage = "finally", !.credited = FALSE]]
      BY <1>4 DEF FinishTask
    <2>4. CASE ~session[w].credited
      <3>1. \A u \in Tasks : credits'[u] = credits[u]
        BY <1>1, <2>2, <2>3, <2>4
      <3> QED
        BY <2>1, <3>1 DEF MoneyMoves, NotPaidNow
    <2>5. CASE session[w].credited
      <3>1. credits'[t] = credits[t] + 1 /\ \A u \in Tasks \ {t} : NotPaidNow(u)
        BY <1>1, <2>1, <2>2, <2>3, <2>5 DEF NotPaidNow
      <3>2. /\ Alone(w) /\ SameJob(w) /\ SamePending(w) /\ session'[w].stage = "finally"
        BY <1>1, <2>1, <2>3 DEF Alone, SameJob, SamePending, Session
      <3>3. Credits(w)
        BY <2>1, <2>5, <3>1, <3>2 DEF Credits
      <3> QED
        BY <3>1, <3>3 DEF MoneyMoves
    <2> QED
      BY <2>4, <2>5
  <1>5. ASSUME NEW w \in Tasks, TriggerStep(w) PROVE MoneyMoves
    BY <1>2, <1>3, <1>4, <1>5
       DEF TriggerStep, SelectJob, TakeLease, CheckGuards, CompleteJob, CallFails, Advance,
           Verify, BeginSettling, SetTask, RecordSettlement, Heartbeat, db
  <1>6. ASSUME NEW t \in Tasks, EscrowFunded(t) PROVE MoneyMoves
    <2>1. UNCHANGED <<credits, settlements>> /\ escrow[t] = "CREATED"
          /\ escrow' = [escrow EXCEPT ![t] = "FUNDED"]
      BY <1>6 DEF EscrowFunded
    <2> QED
      BY <1>1, <2>1 DEF MoneyMoves, NotPaidNow
  <1>7. ASSUME NEW t \in Tasks, Submit(t) \/ TriggerDies(t) \/ RequestCancel(t) \/ CommitCancel(t)
        PROVE  MoneyMoves
    BY <1>2, <1>7 DEF Submit, TriggerDies, RequestCancel, CommitCancel, db
  <1>8. ASSUME NEW j \in DOMAIN jobs, LeaseExpires(j) PROVE MoneyMoves
    BY <1>2, <1>8 DEF LeaseExpires
  <1>9. CASE UNCHANGED vars
    BY <1>2, <1>9 DEF vars, db
  <1> QED
    BY <1>5, <1>6, <1>7, <1>8, <1>9 DEF Next

\* What closed the last job of a paid task stays closed to other sessions.
LEMMA PaidStaysClosed ==
    ASSUME RowLocks, ~LeasesExpire, Types, Snaps, Rows, Leases, [Next]_vars,
           NEW j \in DOMAIN jobs, NEW t \in Tasks, PaidBy(j, t)
    PROVE  j \in DOMAIN jobs' /\ PaidBy(j, t)'
  <1>1. JobsStay
    BY JobsAreKept DEF JobsGrow
  <1>2. \A w \in Tasks : At(w, "finish") \/ At(w, "claim") => session[w].pending = {}
    BY DEF Leases, LeaseHeld, At
  <1>3. ASSUME NEW w \in Tasks, Alone(w), jobs'[j].status \in {"COMPLETED", "FAILED"},
               session'[w].job = j => ~AtWork(w)'
        PROVE  j \in DOMAIN jobs' /\ PaidBy(j, t)'
    BY <1>1, <1>3 DEF PaidBy, JobsStay, Alone, AtWork, At, Holding
  <1>4. ASSUME NEW w \in Tasks, Rests(w), jobs'[j] = jobs[j]
        PROVE  j \in DOMAIN jobs' /\ PaidBy(j, t)'
    BY <1>3, <1>4 DEF PaidBy, Rests, AtWork, At, Holding
  <1>5. ASSUME NEW w \in Tasks, Claims(w) PROVE j \in DOMAIN jobs' /\ PaidBy(j, t)'
    <2>1. Alone(w) /\ UNCHANGED jobs /\ session'[w].job # j
      BY <1>5 DEF Claims, Claimable, Leases, PaidBy
    <2> QED
      BY <1>3, <2>1 DEF PaidBy
  <1>6. ASSUME NEW w \in Tasks, Takes(w) \/ Fails(w) \/ Completes(w)
        PROVE  j \in DOMAIN jobs' /\ PaidBy(j, t)'
    <2>1. AtWork(w) /\ Works(w) /\ ~At(w, "finish")
      BY <1>6 DEF Takes, Fails, Completes, AtWork, At, Holding
    <2>2. session[w].job # j
      BY <2>1 DEF PaidBy
    <2>3. Alone(w) /\ jobs'[j] = jobs[j] /\ session'[w].job # j
      BY <2>1, <2>2 DEF Works, OnlyJob, SameJob
    <2> QED
      BY <1>3, <2>3 DEF PaidBy
  <1>7. ASSUME NEW w \in Tasks, GoesOn(w) PROVE j \in DOMAIN jobs' /\ PaidBy(j, t)'
    <2>1. Alone(w) /\ UNCHANGED jobs /\ SameJob(w) /\ AtWork(w)
      BY <1>7 DEF GoesOn, AtWork, Holding, At, Settling
    <2>2. ASSUME session'[w].job = j PROVE ~AtWork(w)'
      <3>1. At(w, "finish")
        BY <2>1, <2>2 DEF PaidBy, SameJob
      <3>2. session'[w].stage = "finally" /\ session'[w].pending = {}
        BY <1>2, <1>7, <3>1 DEF GoesOn, SamePending, At
      <3> QED
        BY <3>2 DEF AtWork, At, Holding
    <2> QED
      BY <1>3, <2>1, <2>2 DEF PaidBy
  <1>8. ASSUME NEW w \in Tasks, NEW u, NEW nodes, Rests(w), Adds(u, nodes)
        PROVE  j \in DOMAIN jobs' /\ PaidBy(j, t)'
    BY <1>4, <1>8 DEF Adds
  <1>9. CASE Cancels
    <2>1. jobs'[j].status \in {"COMPLETED", "FAILED"} /\ UNCHANGED session
      <3>1. jobs[j] \in Job
        BY DEF Types
      <3> QED
        BY <1>9, <3>1 DEF Cancels, PaidBy, Job
    <2> QED
      BY <1>1, <2>1 DEF PaidBy, JobsStay, AtWork, At, Holding
  <1> QED
    BY <1>4, <1>5, <1>6, <1>7, <1>8, <1>9, StepShape DEF Shaped, Ends, Beats, Starts, Lapses

LEMMA PaidOnceIsKept ==
    ASSUME RowLocks, ~LeasesExpire, ~LedgerFails, Types, Snaps, Rows, Leases, Chain, PaidOnce,
           [Next]_vars
    PROVE  PaidOnce'
  <1> SUFFICES ASSUME NEW t \in Tasks PROVE Unpaid(t)' \/ Paid(t)'
    BY DEF PaidOnce
  <1>1. Unpaid(t) \/ Paid(t)
    BY DEF PaidOnce
  <1>2. CASE NotPaidNow(t)
    <2>1. CASE Unpaid(t)
      BY <1>2, <2>1 DEF NotPaidNow, Unpaid
    <2>2. CASE Paid(t)
      <3>1. PICK j \in DOMAIN jobs : PaidBy(j, t)
        BY <2>2 DEF Paid
      <3>2. j \in DOMAIN jobs' /\ PaidBy(j, t)'
        BY <3>1, PaidStaysClosed
      <3> QED
        BY <1>2, <2>2, <3>2 DEF NotPaidNow, Paid
    <2> QED
      BY <1>1, <2>1, <2>2
  <1>3. ASSUME NEW w \in Tasks, TaskOf(w) = t, Sends(w) \/ Credits(w)
        PROVE  Paid(t)'
    <2>1. /\ Alone(w) /\ SameJob(w) /\ UNCHANGED jobs
          /\ AtWork(w) /\ Settling(w) /\ Done(w)
      BY <1>3 DEF Sends, Credits, AtWork, Holding, Settling, Done, At
    <2>2. PICK k \in DOMAIN jobs : k = session[w].job
      BY <2>1, AtWorkIsBusy
    <2>3. jobs[k].task = t /\ jobs[k].node = NodeCount /\ jobs[k].status \in {"COMPLETED", "FAILED"}
      BY <1>3, <2>1, <2>2 DEF TaskOf, NodeOf, JobOf, Chain, View, Leases, LeaseHeld
    <2>4. At(w, "oracle") \/ session[w].credited
      BY <1>3 DEF Sends, Credits
    <2>5. ~Paid(t)
      <3>1. ASSUME NEW j \in DOMAIN jobs, PaidBy(j, t) PROVE FALSE
        <4>1. j = k
          BY <2>3, <3>1 DEF PaidBy, Chain, JobRows, OneJobPerNode
        <4> QED
          BY <2>1, <2>2, <2>4, <3>1, <4>1 DEF PaidBy, At
      <3> QED
        BY <3>1 DEF Paid
    <2>6. Unpaid(t)
      BY <1>1, <2>5
    <2>7. session[w].pending = {}
      BY <2>1 DEF Leases, LeaseHeld, Settling, At
    <2>8. PaidBy(k, t)'
      <3>1. ASSUME NEW v \in Tasks, session'[v].job = k, AtWork(v)'
            PROVE  At(v, "finish")' /\ ~session'[v].credited
        <4>1. CASE v = w
          BY <1>3, <2>7, <3>1, <4>1 DEF Sends, Credits, AtWork, At, Holding, SamePending
        <4>2. CASE v # w
          <5>1. AtWork(v) /\ session[v].job = k
            BY <2>1, <3>1, <4>2 DEF Alone, AtWork, At, Holding
          <5> QED
            BY <2>1, <2>2, <4>2, <5>1 DEF Leases
        <4> QED
          BY <4>1, <4>2
      <3> QED
        BY <2>1, <2>3, <3>1 DEF PaidBy
    <2>9. /\ credits'[t] = 1 /\ settlements'[t] \in {0, 1}
          /\ settlements'[t] = 1 <=> escrow'[t] = "SETTLEMENT_PENDING"
      BY <1>3, <2>6 DEF Sends, Credits, Unpaid
    <2>10. k \in DOMAIN jobs'
      BY <2>1
    <2> QED
      BY <2>8, <2>9, <2>10 DEF Paid
  <1>4. MoneyMoves
    BY MoneyIsMoved
  <1> QED
    BY <1>2, <1>3, <1>4 DEF MoneyMoves

\* Where leases hold, each node of a workflow gets one job and each task one
\* credit and at most one settlement, which the escrow row then shows, although
\* triggers serve each other's tasks, calls fail and are retried, deposits come
\* late, users cancel and triggers die (_check_and_finalize_workflow,
\* record_task_settlement, authorize_and_submit_settlement).
THEOREM WorkIsDoneAndPaidOnce ==
    ASSUME RowLocks, ~LeasesExpire, ~LedgerFails PROVE Spec => []ExactlyOnce
  <1> DEFINE Once == Safe /\ Locks /\ Leases /\ Chain /\ PaidOnce
  <1>1. Init => Once
    <2> SUFFICES ASSUME Init PROVE Once
      OBVIOUS
    <2>1. Locks /\ Leases /\ Chain
      BY ClaimsInit
    <2>2. PaidOnce
      BY OrchestrationAssumption DEF Init, PaidOnce, Unpaid
    <2> QED
      BY <2>1, <2>2, SafeInit
  <1>2. Once /\ [Next]_vars => Once'
    BY TypesAreKept, SnapsAreKept, RowsStayRight, LocksAreKept, LeasesAreKept, ChainIsKept,
       PaidOnceIsKept DEF Safe
  <1>3. Once => ExactlyOnce
    <2> SUFFICES ASSUME Once PROVE ExactlyOnce
      OBVIOUS
    <2>1. OneJobPerNode
      BY DEF Chain, JobRows
    <2>2. SettledOnce
      BY DEF PaidOnce, Unpaid, Paid, SettledOnce, AtMostOneSettlement
    <2> QED
      BY <2>1, <2>2 DEF ExactlyOnce
  <1> QED
    BY <1>1, <1>2, <1>3, PTL DEF Spec
-----------------------------------------------------------------------------
(* Nobody is forgotten.  A task that is not finished has a job that is not   *)
(* completed, or a session that has completed one and will queue the next    *)
(* or finish the task.  Only a trigger that dies breaks this, for one task.  *)

InFlight(w) == Holding(w) \/ session[w].pending # {}
Borne(t) ==
    \/ \E j \in DOMAIN jobs : jobs[j].task = t /\ jobs[j].status # "COMPLETED"
    \/ \E w \in Tasks : InFlight(w) /\ TaskOf(w) = t
Kept(t) == task[t] \in {"ABSENT", "COMPLETED", "CANCELLED"} \/ Borne(t)
Remembered ==
    \E lost \in SUBSET Tasks :
        /\ IsFiniteSet(lost) /\ Cardinality(lost) <= crashes
        /\ \A t \in Tasks \ lost : Kept(t)

\* A session that has completed a node, but not the workflow, finds the next
\* node without a job.
LEMMA NextNodeIsQueued ==
    ASSUME Types, Chain, NEW w \in Tasks, At(w, "advance"), ~AllComplete(session[w])
    PROVE  ToEnqueue(w) # {}
  <1>1. View(w) /\ JobRows
    BY DEF Chain
  <1>2. AtWork(w) /\ Busy(w)
    BY DEF AtWork, Holding, At, Busy
  <1>3. PICK k \in DOMAIN jobs, t \in Tasks, n \in Nodes :
           k = session[w].job /\ t = TaskOf(w) /\ n = NodeOf(w)
    BY <1>2, HeldJob
  <1>4. jobs[k].task = t /\ jobs[k].node = n /\ Open(k)
    BY <1>2, <1>3 DEF TaskOf, NodeOf, JobOf, Open
  <1>5. /\ \A m \in Nodes : m < n => session[w].nodes[m] = "COMPLETED"
        /\ \A m \in Nodes : m > n => session[w].nodes[m] = "QUEUED"
        /\ session[w].nodes[n] = "COMPLETED"
    BY <1>1, <1>2, <1>3 DEF View
  <1>6. PICK m \in Nodes : session[w].nodes[m] # "COMPLETED"
    BY DEF AllComplete
  <1>7. /\ n \in Nat \ {0} /\ m \in Nat /\ m > n
        /\ n + 1 \in Nodes /\ n + 1 # 1 /\ n + 1 > n /\ (n + 1) - 1 = n
    <2>1. NodeCount \in Nat /\ n \in 1..NodeCount /\ m \in 1..NodeCount
      BY OrchestrationAssumption DEF Nodes
    <2>2. m # n /\ ~(m < n)
      BY <1>5, <1>6
    <2> QED
      BY <2>1, <2>2 DEF Nodes
  <1>8. n + 1 \in Ready(session[w])
    BY <1>5, <1>7 DEF Ready
  <1>9. ASSUME NEW j \in JobsFor(t, n + 1) PROVE FALSE
    <2>1. j \in DOMAIN jobs /\ jobs[j].task = jobs[k].task /\ jobs[j].node = n + 1
      BY <1>4 DEF JobsFor
    <2>2. jobs[j].node <= jobs[k].node
      BY <1>1, <1>4, <2>1 DEF JobRows, OpenIsLast
    <2> QED
      BY <1>4, <1>7, <2>1, <2>2
  <1> QED
    BY <1>3, <1>8, <1>9 DEF ToEnqueue

\* A status of a task that still needs somebody is written by a submission, or
\* by a session that is settling the task.
LEMMA TaskMoves ==
    ASSUME Types, Snaps, Rows, [Next]_vars, NEW t \in Tasks
    PROVE  \/ task'[t] = task[t] \/ task'[t] \in {"COMPLETED", "CANCELLED"} \/ Starts(t)
           \/ \E w \in Tasks : /\ TaskOf(w) = t /\ Settling(w) /\ UNCHANGED jobs /\ SameJob(w)
                               /\ session'[w].stage \in {"settling", "credit"}
  <1>1. task \in [Tasks -> TaskStatus] /\ DOMAIN session = Tasks
        /\ \A w \in Tasks : session[w] \in Session
    BY DEF Types, RowsTyped, SessionsTyped
  <1>2. ASSUME NEW w \in Tasks, Verify(w) \/ BeginSettling(w)
        PROVE  \/ task'[t] = task[t]
               \/ /\ TaskOf(w) = t /\ Settling(w) /\ UNCHANGED jobs /\ SameJob(w)
                  /\ session'[w].stage \in {"settling", "credit"}
    <2>1. PICK status \in TaskStatus, stage \in {"settling", "credit"} :
                SetTask(w, status, stage)
      BY <1>2 DEF Verify, BeginSettling, TaskStatus
    <2>2. CASE TaskOf(w) = t
      <3>1. Settling(w) /\ UNCHANGED jobs
        BY <1>2, <2>1 DEF Verify, BeginSettling, SetTask, At, Settling
      <3>2. session'[w] = [session[w] EXCEPT !.stage = stage, !.task = status]
        BY <1>1, <2>1 DEF SetTask
      <3>3. SameJob(w) /\ session'[w].stage = stage
        BY <1>1, <3>2 DEF SameJob, Session
      <3> QED
        BY <2>2, <3>1, <3>3
    <2>3. CASE TaskOf(w) # t
      BY <1>1, <2>1, <2>3 DEF SetTask
    <2> QED
      BY <2>2, <2>3
  <1>3. ASSUME NEW w \in Tasks, FinishTask(w)
        PROVE  task'[t] = task[t] \/ task'[t] = "COMPLETED"
    BY <1>1, <1>3 DEF FinishTask
  <1>4. ASSUME NEW w \in Tasks, TriggerStep(w), ~Verify(w), ~BeginSettling(w), ~FinishTask(w)
        PROVE  task'[t] = task[t]
    BY <1>4 DEF TriggerStep, SelectJob, TakeLease, CheckGuards, CompleteJob, CallFails, Advance,
           RecordSettlement, SubmitSettlement, Heartbeat, db
  <1>5. ASSUME NEW u \in Tasks, Submit(u) PROVE task'[t] = task[t] \/ Starts(t)
    <2>1. CASE u = t
      BY <1>5, <2>1, SubmitShape
    <2>2. CASE u # t
      BY <1>1, <1>5, <2>2 DEF Submit
    <2> QED
      BY <2>1, <2>2
  <1>6. ASSUME NEW u \in Tasks, CommitCancel(u)
        PROVE  task'[t] = task[t] \/ task'[t] = "CANCELLED"
    BY <1>1, <1>6 DEF CommitCancel
  <1>7. ASSUME NEW u \in Tasks, TriggerDies(u) \/ RequestCancel(u) \/ EscrowFunded(u)
        PROVE  task'[t] = task[t]
    BY <1>7 DEF TriggerDies, RequestCancel, EscrowFunded, db
  <1>8. ASSUME NEW j \in DOMAIN jobs, LeaseExpires(j) PROVE task'[t] = task[t]
    BY <1>8 DEF LeaseExpires
  <1>9. CASE UNCHANGED vars
    BY <1>9 DEF vars, db
  <1> QED
    BY <1>2, <1>3, <1>4, <1>5, <1>6, <1>7, <1>8, <1>9 DEF Next

\* Whatever is done for a task leaves something to be done for it, unless it is
\* finished or the trigger at work on it dies.
LEMMA BorneOn ==
    ASSUME RowLocks, ~LeasesExpire, Types, Snaps, Rows, Leases, Chain, [Next]_vars,
           NEW t \in Tasks, Borne(t)
    PROVE  \/ Borne(t)' \/ task'[t] = "COMPLETED"
           \/ /\ crashes' = crashes + 1
              /\ \E w \in Tasks : Ends(w) /\ InFlight(w) /\ TaskOf(w) = t
  <1>1. JobsStay
    BY JobsAreKept DEF JobsGrow
  <1>2. \A w \in Tasks : InFlight(w) => AtWork(w) /\ session[w].job \in DOMAIN jobs
    BY AtWorkIsBusy DEF InFlight, AtWork
  <1>3. /\ \A w \in Tasks : Holding(w) \/ At(w, "lease") \/ At(w, "claim") =>
                               session[w].pending = {}
        /\ \A w \in Tasks : session[w].stage = "off" => ~InFlight(w)
    BY DEF Leases, LeaseHeld, At, Holding, InFlight
  <1>4. ASSUME NEW w \in Tasks, InFlight(w)', session'[w].job \in DOMAIN jobs,
               jobs[session'[w].job].task = t
        PROVE  Borne(t)'
    BY <1>1, <1>4 DEF Borne, JobsStay, TaskOf, JobOf
  \* One session moves; its own task is accounted for.
  <1>5. ASSUME NEW w \in Tasks, Alone(w),
               InFlight(w) /\ TaskOf(w) = t => Borne(t)' \/ task'[t] = "COMPLETED",
               \A j \in DOMAIN jobs : jobs[j].task = t /\ jobs[j].status # "COMPLETED" =>
                  jobs'[j].status # "COMPLETED" \/ Borne(t)'
        PROVE  Borne(t)' \/ task'[t] = "COMPLETED"
    <2>1. ASSUME NEW j \in DOMAIN jobs, jobs[j].task = t, jobs[j].status # "COMPLETED"
          PROVE  Borne(t)'
      BY <1>1, <1>5, <2>1 DEF Borne, JobsStay
    <2>2. ASSUME NEW v \in Tasks \ {w}, InFlight(v), TaskOf(v) = t PROVE Borne(t)'
      <3>1. session'[v] = session[v] /\ session[v].job \in DOMAIN jobs
        BY <1>2, <1>5, <2>2 DEF Alone
      <3>2. InFlight(v)' /\ jobs[session'[v].job].task = t
        BY <2>2, <3>1 DEF InFlight, Holding, TaskOf, JobOf
      <3> QED
        BY <1>4, <3>1, <3>2
    <2> QED
      BY <1>5, <2>1, <2>2 DEF Borne
  <1>6. ASSUME NEW w \in Tasks, Ends(w)
        PROVE  \/ Borne(t)' \/ task'[t] = "COMPLETED"
               \/ crashes' = crashes + 1 /\ InFlight(w) /\ TaskOf(w) = t
    <2>1. Alone(w) /\ UNCHANGED jobs /\ (At(w, "claim") \/ crashes' = crashes + 1)
      BY <1>6 DEF Ends, Rests
    <2>2. At(w, "claim") => ~InFlight(w)
      BY <1>3 DEF InFlight, Holding, At
    <2> QED
      BY <1>5, <2>1, <2>2
  <1>7. ASSUME NEW w \in Tasks, Claims(w) PROVE Borne(t)' \/ task'[t] = "COMPLETED"
    <2>1. Alone(w) /\ UNCHANGED jobs /\ ~InFlight(w)
      BY <1>3, <1>7 DEF Claims, InFlight, Holding, At
    <2> QED
      BY <1>5, <2>1
  \* The session writes its own job, and something else than COMPLETED.
  <1>8. ASSUME NEW w \in Tasks, AtWork(w), Works(w), jobs'[session[w].job].status # "COMPLETED"
        PROVE  Borne(t)' \/ task'[t] = "COMPLETED"
    <2>1. PICK k \in DOMAIN jobs : k = session[w].job
      BY <1>8, AtWorkIsBusy
    <2>2. Alone(w) /\ \A j \in DOMAIN jobs \ {k} : jobs'[j] = jobs[j]
      BY <1>8, <2>1 DEF Works, OnlyJob
    <2>3. TaskOf(w) = t => Borne(t)'
      BY <1>1, <1>8, <2>1 DEF Borne, JobsStay, TaskOf, JobOf
    <2> QED
      BY <1>5, <1>8, <2>1, <2>2, <2>3
  <1>9. ASSUME NEW w \in Tasks, Takes(w) PROVE Borne(t)' \/ task'[t] = "COMPLETED"
    <2>1. /\ AtWork(w) /\ Works(w) /\ At(w, "lease")
          /\ jobs'[session[w].job].status =
                Write(jobs[session[w].job].status, session[w].status, "RUNNING")
      BY <1>9 DEF Takes, AtWork
    <2>2. jobs'[session[w].job].status = "RUNNING"
      BY <2>1 DEF Leases, LeaseHeld, Write
    <2> QED
      BY <1>8, <2>1, <2>2
  <1>10. ASSUME NEW w \in Tasks, Fails(w) PROVE Borne(t)' \/ task'[t] = "COMPLETED"
    <2>1. AtWork(w) /\ Works(w) /\ Holding(w)
      BY <1>10 DEF Fails, AtWork, Holding
    <2>2. PICK terminal \in BOOLEAN :
             jobs'[session[w].job].status =
                Write(jobs[session[w].job].status, session[w].status,
                      FailedAs(session[w], terminal))
      BY <1>10 DEF Fails
    <2>3. session[w].status \in {"RUNNING", "COMPLETED"}
      BY <2>1 DEF Leases, LeaseHeld
    <2>4. jobs'[session[w].job].status # "COMPLETED"
      BY <2>2, <2>3 DEF Write, FailedAs
    <2> QED
      BY <1>8, <2>1, <2>4
  <1>11. ASSUME NEW w \in Tasks, Completes(w) PROVE Borne(t)' \/ task'[t] = "COMPLETED"
    <2>1. AtWork(w) /\ Works(w) /\ SameJob(w) /\ InFlight(w)'
      BY <1>11 DEF Completes, Works, AtWork, At, Holding, InFlight
    <2>2. PICK k \in DOMAIN jobs : k = session[w].job
      BY <2>1, AtWorkIsBusy
    <2>3. jobs[k].task = t => Borne(t)'
      BY <1>4, <2>1, <2>2 DEF SameJob
    <2>4. Alone(w) /\ \A j \in DOMAIN jobs \ {k} : jobs'[j] = jobs[j]
      BY <2>1, <2>2 DEF Works, OnlyJob
    <2> QED
      BY <1>5, <2>2, <2>3, <2>4 DEF TaskOf, JobOf
  <1>12. ASSUME NEW w \in Tasks, GoesOn(w) PROVE Borne(t)' \/ task'[t] = "COMPLETED"
    <2>1. Alone(w) /\ SameJob(w) /\ UNCHANGED jobs /\ Holding(w) /\ InFlight(w)
      BY <1>12 DEF GoesOn, At, Holding, Settling, InFlight
    <2>2. InFlight(w)' \/ task'[TaskOf(w)] = "COMPLETED"
      <3>1. CASE At(w, "guard")
        BY <1>12, <3>1 DEF GoesOn, At, Settling, Holding, InFlight
      <3>2. CASE At(w, "advance")
        BY <1>12, <3>2, NextNodeIsQueued DEF GoesOn, At, Settling, Holding, InFlight
      <3>3. CASE Settling(w)
        BY <1>12, <3>3 DEF GoesOn, At, Settling, Holding, InFlight
      <3> QED
        BY <1>12, <3>1, <3>2, <3>3 DEF GoesOn
    <2>3. TaskOf(w) = t => Borne(t)' \/ task'[t] = "COMPLETED"
      BY <1>2, <1>4, <2>1, <2>2 DEF SameJob, TaskOf, JobOf
    <2> QED
      BY <1>5, <2>1, <2>3
  <1>13. ASSUME NEW w \in Tasks, NEW u, NEW nodes, Rests(w), Adds(u, nodes),
                InFlight(w) => u = TaskOf(w) /\ nodes # {}
         PROVE  Borne(t)' \/ task'[t] = "COMPLETED"
    <2>1. Alone(w) /\ \A j \in DOMAIN jobs : jobs'[j] = jobs[j]
      BY <1>13 DEF Rests, Adds
    <2>2. nodes # {} /\ u = t => Borne(t)'
      BY <1>13 DEF Adds, NewJob, Borne
    <2> QED
      BY <1>5, <1>13, <2>1, <2>2
  <1>14. ASSUME NEW w \in Tasks, Beats(w) PROVE Borne(t)' \/ task'[t] = "COMPLETED"
    BY <1>13, <1>14 DEF Beats, InFlight, Holding, At
  <1>15. ASSUME NEW w \in Tasks, Starts(w) PROVE Borne(t)' \/ task'[t] = "COMPLETED"
    <2>1. ~InFlight(w)
      BY <1>3, <1>15 DEF Starts, Rows, Unstarted
    <2> QED
      BY <1>13, <1>15, <2>1 DEF Starts
  <1>16. CASE Cancels
    <2>1. UNCHANGED session /\ \A j \in DOMAIN jobs : jobs[j].status # "COMPLETED" =>
                                  jobs'[j].status # "COMPLETED"
      <3>1. \A j \in DOMAIN jobs : jobs[j] \in Job
        BY DEF Types
      <3> QED
        BY <1>16, <3>1 DEF Cancels, Job
    <2>2. ASSUME NEW v \in Tasks, InFlight(v), TaskOf(v) = t PROVE Borne(t)'
      <3>1. InFlight(v)' /\ session'[v].job \in DOMAIN jobs /\ jobs[session'[v].job].task = t
        BY <1>2, <2>1, <2>2 DEF InFlight, Holding, TaskOf, JobOf
      <3> QED
        BY <1>4, <3>1
    <2>3. ASSUME NEW j \in DOMAIN jobs, jobs[j].task = t, jobs[j].status # "COMPLETED"
          PROVE  Borne(t)'
      BY <1>1, <2>1, <2>3 DEF Borne, JobsStay
    <2> QED
      BY <2>2, <2>3 DEF Borne
  <1> QED
    BY <1>6, <1>7, <1>9, <1>10, <1>11, <1>12, <1>14, <1>15, <1>16, StepShape
       DEF Shaped, Lapses

LEMMA CrashesCount ==
    ASSUME [Next]_vars
    PROVE  crashes' \in {crashes, crashes + 1}
  <1>1. ASSUME NEW w \in Tasks, TriggerStep(w) PROVE crashes' = crashes
    BY <1>1 DEF TriggerStep, SelectJob, TakeLease, CheckGuards, CompleteJob, CallFails, Advance,
           Verify, BeginSettling, SetTask, RecordSettlement, SubmitSettlement, FinishTask,
           Heartbeat
  <1> QED
    BY <1>1 DEF Next, Submit, TriggerDies, RequestCancel, CommitCancel, EscrowFunded,
           LeaseExpires, vars

LEMMA RememberedIsKept ==
    ASSUME RowLocks, ~LeasesExpire, Types, Snaps, Rows, Leases, Chain, Remembered, [Next]_vars
    PROVE  Remembered'
  <1>1. crashes \in Nat /\ crashes' \in {crashes, crashes + 1} /\ JobsStay
    BY CrashesCount, JobsAreKept, OrchestrationAssumption DEF Types, CancelTyped, JobsGrow
  <1>2. PICK lost \in SUBSET Tasks :
           /\ IsFiniteSet(lost) /\ Cardinality(lost) <= crashes
           /\ \A t \in Tasks \ lost : Kept(t)
    BY DEF Remembered
  <1>3. Cardinality(lost) \in Nat
    BY <1>2, FS_CardinalityType
  <1>4. ASSUME NEW t \in Tasks, Kept(t)
        PROVE  \/ Kept(t)'
               \/ /\ crashes' = crashes + 1
                  /\ \E w \in Tasks : Ends(w) /\ InFlight(w) /\ TaskOf(w) = t
    <2>1. CASE Borne(t)
      BY <2>1, BorneOn DEF Kept
    <2>2. CASE task[t] \in {"ABSENT", "COMPLETED", "CANCELLED"}
      <3>1. CASE task'[t] = task[t] \/ task'[t] \in {"COMPLETED", "CANCELLED"}
        BY <2>2, <3>1 DEF Kept
      <3>2. CASE Starts(t)
        BY <3>2 DEF Starts, Adds, NewJob, Kept, Borne
      <3>3. ASSUME NEW w \in Tasks, TaskOf(w) = t, Settling(w), UNCHANGED jobs, SameJob(w),
                   session'[w].stage \in {"settling", "credit"}
            PROVE  Kept(t)'
        <4>1. InFlight(w)' /\ TaskOf(w)' = t
          BY <3>3 DEF InFlight, Holding, TaskOf, JobOf, SameJob
        <4> QED
          BY <4>1 DEF Kept, Borne
      <3> QED
        BY <3>1, <3>2, <3>3, TaskMoves
    <2> QED
      BY <1>4, <2>1, <2>2 DEF Kept
  <1>5. CASE \E w \in Tasks : Ends(w) /\ InFlight(w) /\ crashes' = crashes + 1
    <2>1. PICK w \in Tasks : Ends(w) /\ InFlight(w) /\ crashes' = crashes + 1
      BY <1>5
    <2>2. PICK u \in Tasks : u = TaskOf(w)
      BY <2>1, AtWorkIsBusy DEF InFlight, AtWork
    <2> DEFINE more == lost \cup {u}
    <2>3. IsFiniteSet(more) /\ Cardinality(more) <= crashes + 1
      BY <1>1, <1>2, <1>3, FS_AddElement, SMTT(30)
    <2>4. ASSUME NEW v \in Tasks, Ends(v), InFlight(v) PROVE v = w
      BY <2>1, <2>4 DEF Ends, Rests, Alone, InFlight, Holding
    <2>5. ASSUME NEW t \in Tasks \ more PROVE Kept(t)'
      BY <1>2, <1>4, <2>2, <2>4
    <2> HIDE DEF more
    <2>6. more \in SUBSET Tasks
      BY DEF more
    <2> QED
      BY <2>1, <2>3, <2>5, <2>6 DEF Remembered
  <1>6. CASE ~ \E w \in Tasks : Ends(w) /\ InFlight(w) /\ crashes' = crashes + 1
    <2>1. \A t \in Tasks \ lost : Kept(t)'
      BY <1>2, <1>4, <1>6
    <2>2. Cardinality(lost) <= crashes'
      BY <1>1, <1>2, <1>3
    <2> QED
      BY <1>2, <2>1, <2>2 DEF Remembered
  <1> QED
    BY <1>5, <1>6

LEMMA RememberedIsEnough ==
    ASSUME Types, Remembered
    PROVE  NeverForgotten
  <1>1. PICK lost \in SUBSET Tasks :
           /\ IsFiniteSet(lost) /\ Cardinality(lost) <= crashes
           /\ \A t \in Tasks \ lost : Kept(t)
    BY DEF Remembered
  <1>2. ASSUME NEW t \in Tasks \ lost PROVE t \notin Forgotten
    <2>1. Kept(t)
      BY <1>1
    <2>2. CASE task[t] \in {"ABSENT", "COMPLETED", "CANCELLED"}
      BY <2>2 DEF Forgotten, Resolved
    <2>3. ASSUME NEW j \in DOMAIN jobs, jobs[j].task = t, jobs[j].status # "COMPLETED"
          PROVE  Resolved(t) \/ InHand(t)
      <3>1. jobs[j] \in Job
        BY DEF Types
      <3>2. jobs[j].status \in {"DLQ", "FAILED"} \/ jobs[j].status \in {"QUEUED", "RUNNING"}
        BY <2>3, <3>1 DEF Job, JobStatus
      <3> QED
        BY <2>3, <3>2 DEF Resolved, GivenUp, InHand
    <2>4. ASSUME NEW w \in Tasks, InFlight(w), TaskOf(w) = t PROVE InHand(t)
      BY <2>4 DEF InHand, InFlight
    <2> QED
      BY <2>1, <2>2, <2>3, <2>4 DEF Kept, Borne, Forgotten
  <1>3. Forgotten \subseteq lost
    BY <1>2 DEF Forgotten
  <1>4. /\ Cardinality(Forgotten) <= Cardinality(lost)
        /\ Cardinality(Forgotten) \in Nat /\ Cardinality(lost) \in Nat /\ crashes \in Nat
    BY <1>1, <1>3, FS_Subset, FS_CardinalityType, OrchestrationAssumption DEF Types, CancelTyped
  <1> QED
    BY <1>1, <1>4 DEF NeverForgotten

\* Where leases hold, every unfinished task has a job that can be claimed or a
\* session at work on it, although the successor of a completed job is stored
\* by a later commit, calls and the ledger fail, and cancelled tasks are
\* written over; only the tasks of triggers that died are forgotten, one each
\* (complete_job, _check_and_finalize_workflow, fail_job).
THEOREM OnlyCrashesForget ==
    ASSUME RowLocks, ~LeasesExpire PROVE Spec => []NeverForgotten
  <1> DEFINE Held == Safe /\ Locks /\ Leases /\ Chain /\ Remembered
  <1>1. Init => Held
    <2> SUFFICES ASSUME Init PROVE Held
      OBVIOUS
    <2>1. Locks /\ Leases /\ Chain
      BY ClaimsInit
    <2>2. IsFiniteSet({}) /\ Cardinality({}) = 0
      BY FS_EmptySet
    <2>3. \A t \in Tasks : Kept(t)
      BY DEF Init, Kept
    <2>4. crashes = 0
      BY DEF Init
    <2> QED
      BY <2>1, <2>2, <2>3, <2>4, SafeInit DEF Remembered
  <1>2. Held /\ [Next]_vars => Held'
    BY TypesAreKept, SnapsAreKept, RowsStayRight, LocksAreKept, LeasesAreKept, ChainIsKept,
       RememberedIsKept DEF Safe
  <1>3. Held => NeverForgotten
    BY RememberedIsEnough DEF Safe
  <1> QED
    BY <1>1, <1>2, <1>3, PTL DEF Spec
=============================================================================
