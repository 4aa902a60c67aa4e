----------------------------- MODULE Workspaces -----------------------------
(***************************************************************************)
(* Workspaces and the builds they wait for: the handlers of                *)
(* backend/api/v1/workspaces.py, the build queue and its workers           *)
(* (backend/build_engine), the poller that reconciles rows with Docker     *)
(* (backend/workspaces), and Docker itself.  All builds are of one agent   *)
(* version; rows of different agents do not meet.                          *)
(*                                                                         *)
(* A handler reads a row, calls Docker without giving up the event loop,   *)
(* and commits: the read, the call and the commit are steps of their own,  *)
(* and other handlers run in between.  A container is named after its      *)
(* workspace, so Docker holds at most one of each; its id is the number of *)
(* launches the workspace has seen.                                        *)
(*                                                                         *)
(* An operator placed before a definition and named after a fault is that  *)
(* definition with a plausible bug; Next uses none of them.                *)
(***************************************************************************)
EXTENDS Integers, FiniteSets

CONSTANTS
    Workspaces,   \* ids of workspace_containers rows
    NumJobs,      \* build jobs, numbered in the order of created_at
    Builders,     \* build workers
    Poller,       \* the poller,
    Readers,      \* and the requests that show a workspace
    SlowBuilds,   \* may the lease of 300 s run out under a live worker?
    MaxFaults,    \* bound on failures of Docker, of commits and of processes
    MaxLaunches,  \* bound on launches of one workspace
    MaxReports    \* bound on progress reports of one build

ASSUME WorkspacesAssumption ==
    /\ NumJobs \in Nat /\ SlowBuilds \in BOOLEAN
    /\ MaxFaults \in Nat /\ MaxLaunches \in Nat /\ MaxReports \in Nat

Jobs == 1 .. NumJobs
Checkers == {Poller} \cup Readers

VARIABLES
    row,        \* [Workspaces -> status and docker_container_id]
    docker,     \* [Workspaces -> id and state of the container of that name]
    due,        \* workspaces whose flat duration is over
    job,        \* [Jobs -> status of the build_jobs row and whether its lease is valid]
    records,    \* [Jobs -> number of agent_builds rows]
    maker,      \* [Workspaces -> the request that creates it]
    stopper,    \* [Workspaces -> the request that stops it]
    checker,    \* [Checkers -> [Workspaces -> the reconciliation of its row]]
    builder,    \* [Builders -> the build a worker is on]
    faults,     \* number of faults so far
    contested,  \* history: rows on which two handlers worked at a time
    retaken,    \* history: jobs taken again under a live worker
    astray      \* history: workspaces whose container a fault left out of its row's sight

vars == <<row, docker, due, job, records, maker, stopper, checker, builder,
          faults, contested, astray, retaken>>
actors == <<maker, stopper, checker, builder>>
builds == <<job, records>>

NoContainer == 0
Mock == -1           \* "mock-container-...", "lease-runtime-..."
Ids == 1 .. MaxLaunches

RowStatus == {"NONE", "PROVISIONING", "RUNNING", "STOPPED", "ERROR"}
NoRow == [status |-> "NONE", cid |-> NoContainer]

Finished == {"SUCCEEDED", "FAILED", "BLOCKED_SECRET"}
Active == {"QUEUED", "BUILDING"}

(* A session writes a column only when it differs from what the session read. *)
Written(now, saw, status) == IF status = saw THEN now ELSE status

Made == [stage |-> "done", cid |-> NoContainer]
NoStop == [stage |-> "idle", cid |-> NoContainer, saw |-> "NONE"]
NoCheck == [stage |-> "idle", cid |-> NoContainer, status |-> "NONE"]
NoBuild == [stage |-> "idle", job |-> 0, outcome |-> "none", pending |-> {}, reports |-> 0,
            saw |-> [status |-> "NONE", records |-> 0],
            made |-> [w \in Workspaces |-> NoContainer]]

-----------------------------------------------------------------------------
(* Docker *)

Alive(w) == docker[w].state = "running"

(* What inspect_container may find: an unknown id is a stopped container; of *)
(* one that exited the exit code decides.                                    *)
Found(w, cid) ==
    IF cid # docker[w].id \/ docker[w].state = "absent" THEN {"STOPPED"}
    ELSE IF Alive(w) THEN {"RUNNING"} ELSE {"STOPPED", "ERROR"}

(* provision_container removes a container of that name before it runs one.  *)
Launched(w) == [id |-> docker[w].id + 1, state |-> "running"]
Removed(w) == [docker[w] EXCEPT !.state = "absent"]

Fault == faults < MaxFaults /\ faults' = faults + 1

StopLeavesIt(w, cid) == docker
Stopped(w, cid) == IF cid = docker[w].id THEN [docker EXCEPT ![w].state = "absent"] ELSE docker

(* stop_container: it stops and removes, or cannot and says so to callers    *)
(* who do not listen.                                                        *)
StopContainer(w, cid) ==
    \/ /\ docker' = Stopped(w, cid)
       /\ UNCHANGED <<faults, astray>>
    \/ /\ cid = docker[w].id /\ Alive(w)
       /\ Fault
       /\ astray' = astray \cup {w}
       /\ UNCHANGED docker

ContainerExits(w) ==
    /\ Alive(w)
    /\ docker' = [docker EXCEPT ![w].state = "exited"]
    /\ UNCHANGED <<row, due, builds, actors, faults, contested, astray, retaken>>

-----------------------------------------------------------------------------
(* Who works on a workspace: the request that launches it, one that stops it *)
(* and a build that took it for waiting.                                     *)
Launching(w) == maker[w].stage \in {"launching", "launched"}
Stopping(w) == stopper[w].stage # "idle"
Taken(w) == \E b \in Builders : w \in builder[b].pending
Contend(S) == contested' = contested \cup {w \in S : Launching(w) \/ Stopping(w) \/ Taken(w)}

(* A build that has not looked for waiting workspaces yet. *)
ActiveJobs == {j \in Jobs : job[j].status \in Active}
BuildAhead == \E j \in ActiveJobs :
    \/ \A b \in Builders : builder[b].job # j
    \/ \E b \in Builders : builder[b].job = j /\ builder[b].stage \in {"building", "progress"}

Init ==
    /\ row = [w \in Workspaces |-> NoRow]
    /\ docker = [w \in Workspaces |-> [id |-> 0, state |-> "absent"]]
    /\ due = {}
    /\ job = [j \in Jobs |-> [status |-> "NONE", leased |-> FALSE]]
    /\ records = [j \in Jobs |-> 0]
    /\ maker = [w \in Workspaces |-> [stage |-> "none", cid |-> NoContainer]]
    /\ stopper = [w \in Workspaces |-> NoStop]
    /\ checker = [c \in Checkers |-> [w \in Workspaces |-> NoCheck]]
    /\ builder = [b \in Builders |-> NoBuild]
    /\ faults = 0 /\ contested = {} /\ astray = {} /\ retaken = {}

-----------------------------------------------------------------------------
(* create_workspace: it launches the container itself unless a build is on   *)
(* its way.  Two builds on their way raise, as do two builds that succeeded. *)
Succeeded == {j \in Jobs : job[j].status = "SUCCEEDED"}

HasActiveBuild == ActiveJobs # {}

CheckForBuild(w) ==
    /\ maker[w].stage = "none"
    /\ Cardinality(ActiveJobs) <= 1 /\ Cardinality(Succeeded) <= 1
    /\ maker' = [maker EXCEPT ![w].stage = IF HasActiveBuild THEN "waits" ELSE "launches"]
    /\ UNCHANGED <<row, docker, due, builds, stopper, checker, builder, faults, contested,
                   astray, retaken>>

CommitRow(w) ==
    /\ maker[w].stage \in {"waits", "launches"}
    /\ row' = [row EXCEPT ![w].status = "PROVISIONING"]
    /\ maker' = [maker EXCEPT ![w].stage = IF @ = "waits" THEN "done" ELSE "launching"]
    /\ UNCHANGED <<docker, due, builds, stopper, checker, builder, faults, contested, astray,
                   retaken>>

(* A launch that raises may leave a container that runs. *)
Launch(w) ==
    /\ maker[w].stage = "launching" /\ docker[w].id < MaxLaunches
    /\ \/ /\ docker' = [docker EXCEPT ![w] = Launched(w)]
          /\ maker' = [maker EXCEPT ![w] = [stage |-> "launched", cid |-> docker[w].id + 1]]
          /\ UNCHANGED <<faults, astray>>
       \/ /\ Fault
          /\ maker' = [maker EXCEPT ![w] = [stage |-> "launched", cid |-> Mock]]
          /\ \/ docker' = [docker EXCEPT ![w] = Removed(w)] /\ UNCHANGED astray
             \/ docker' = [docker EXCEPT ![w] = Launched(w)] /\ astray' = astray \cup {w}
    /\ UNCHANGED <<row, due, builds, stopper, checker, builder, contested, retaken>>

CommitLaunch(w) ==
    /\ maker[w].stage = "launched"
    /\ row' = [row EXCEPT ![w] = [status |-> "RUNNING", cid |-> maker[w].cid]]
    /\ maker' = [maker EXCEPT ![w] = Made]
    /\ UNCHANGED <<docker, due, builds, stopper, checker, builder, faults, contested, astray,
                   retaken>>

(* The process ends under the request. *)
MakerDies(w) ==
    /\ maker[w].stage \in {"waits", "launches", "launching", "launched"}
    /\ Fault
    /\ maker' = [maker EXCEPT ![w] = [Made EXCEPT !.stage = "died"]]
    /\ astray' = IF maker[w].stage = "launched" THEN astray \cup {w} ELSE astray
    /\ UNCHANGED <<row, docker, due, builds, stopper, checker, builder, contested, retaken>>

(* deploy_from_github commits the build job before the workspace. *)
Enqueue(j) ==
    /\ job[j].status = "NONE" /\ \A i \in Jobs : i < j => job[i].status # "NONE"
    /\ job' = [job EXCEPT ![j] = [status |-> "QUEUED", leased |-> FALSE]]
    /\ UNCHANGED records

DeployFromGitHub(w, j) ==
    /\ maker[w].stage = "none"
    /\ Enqueue(j)
    /\ maker' = [maker EXCEPT ![w].stage = "waits"]
    /\ UNCHANGED <<row, docker, due, stopper, checker, builder, faults, contested, astray,
                   retaken>>

Rebuild(j) ==
    /\ Enqueue(j)
    /\ UNCHANGED <<row, docker, due, actors, faults, contested, astray, retaken>>

(* rent_workspace for an agent that has no workspace makes up a running one. *)
RentWithoutWorkspace(w) ==
    /\ \A v \in Workspaces : row[v] = NoRow
    /\ maker[w].stage = "none"
    /\ row' = [row EXCEPT ![w] = [status |-> "RUNNING", cid |-> Mock]]
    /\ maker' = [maker EXCEPT ![w] = Made]
    /\ UNCHANGED <<docker, due, builds, stopper, checker, builder, faults, contested, astray,
                   retaken>>

-----------------------------------------------------------------------------
(* stop_workspace *)

StopRead(w) ==
    /\ row[w] # NoRow /\ stopper[w].stage = "idle"
    /\ stopper' = [stopper EXCEPT ![w] = [stage |-> "read", cid |-> row[w].cid, saw |-> row[w].status]]
    /\ Contend({w})
    /\ UNCHANGED <<row, docker, due, builds, maker, checker, builder, faults, astray, retaken>>

StopCall(w) ==
    /\ stopper[w].stage = "read"
    /\ StopContainer(w, stopper[w].cid)
    /\ stopper' = [stopper EXCEPT ![w].stage = "stopped", ![w].cid = NoContainer]
    /\ UNCHANGED <<row, due, builds, maker, checker, builder, contested, retaken>>

StopCommit(w) ==
    /\ stopper[w].stage = "stopped"
    /\ row' = [row EXCEPT ![w].status = Written(@, stopper[w].saw, "STOPPED")]
    /\ stopper' = [stopper EXCEPT ![w] = NoStop]
    /\ UNCHANGED <<docker, due, builds, maker, checker, builder, faults, contested, astray,
                   retaken>>

(* Docker cannot be reached: the request raises. *)
StopRaises(w) ==
    /\ stopper[w].stage = "read"
    /\ Fault
    /\ stopper' = [stopper EXCEPT ![w] = NoStop]
    /\ UNCHANGED <<row, docker, due, builds, maker, checker, builder, contested, astray, retaken>>

-----------------------------------------------------------------------------
(* The poller and the two handlers that show a workspace compare a RUNNING   *)
(* row with Docker; the poller also stops what has run its time.             *)

ShouldRun(w) == row[w].status = "RUNNING" /\ row[w].cid # NoContainer

CheckRead(c, w) ==
    /\ ShouldRun(w) /\ checker[c][w].stage = "idle"
    /\ checker' = [checker EXCEPT ![c][w] =
                     [stage |-> "read", cid |-> row[w].cid, status |-> "NONE"]]
    /\ UNCHANGED <<row, docker, due, builds, maker, stopper, builder, faults, contested, astray,
                   retaken>>

(* The lease branch of the poller asks for status ACTIVE, which nothing sets.*)
NeverExpired(w) == FALSE
Expired(w) == w \in due

Note(c, w, status) ==
    checker' = [checker EXCEPT ![c][w] =
        CASE status # "RUNNING" -> [stage |-> "found", cid |-> NoContainer, status |-> status]
          [] status = "RUNNING" /\ c = Poller /\ Expired(w) -> [@ EXCEPT !.stage = "expired"]
          [] OTHER -> NoCheck]

CheckInspect(c, w) ==
    /\ checker[c][w].stage = "read"
    /\ \/ /\ \E status \in Found(w, checker[c][w].cid) : Note(c, w, status)
          /\ UNCHANGED <<faults, astray>>
       \/ /\ Fault
          /\ Note(c, w, "ERROR")
          /\ astray' = astray \cup {w}
    /\ UNCHANGED <<row, docker, due, builds, maker, stopper, builder, contested, retaken>>

StopExpired(w) ==
    /\ checker[Poller][w].stage = "expired"
    /\ StopContainer(w, checker[Poller][w].cid)
    /\ checker' = [checker EXCEPT ![Poller][w] =
                     [stage |-> "found", cid |-> NoContainer, status |-> "STOPPED"]]
    /\ UNCHANGED <<row, due, builds, maker, stopper, builder, contested, retaken>>

(* Docker cannot be reached, or the commit raises: this poll is over. *)
CheckRaises(c, w) ==
    /\ checker[c][w].stage # "idle"
    /\ Fault
    /\ checker' = [checker EXCEPT ![c][w] = NoCheck]
    /\ UNCHANGED <<row, docker, due, builds, maker, stopper, builder, contested, astray, retaken>>

CheckCommit(c, w) ==
    /\ checker[c][w].stage = "found"
    /\ row' = [row EXCEPT ![w].status = checker[c][w].status]
    /\ checker' = [checker EXCEPT ![c][w] = NoCheck]
    /\ UNCHANGED <<docker, due, builds, maker, stopper, builder, faults, contested, astray,
                   retaken>>

DurationEnds(w) ==
    /\ row[w].status = "RUNNING"
    /\ due' = due \cup {w}
    /\ UNCHANGED <<row, docker, builds, actors, faults, contested, astray, retaken>>

-----------------------------------------------------------------------------
(* The build queue and its workers *)

RetryFailed(j) ==
    \/ job[j].status \in {"QUEUED", "FAILED"}
    \/ job[j].status = "BUILDING" /\ ~job[j].leased
Claimable(j) ==
    \/ job[j].status = "QUEUED"
    \/ job[j].status = "BUILDING" /\ ~job[j].leased

AcquireJob(b, j) ==
    /\ builder[b].stage = "idle"
    /\ Claimable(j) /\ \A i \in Jobs : i < j => ~Claimable(i)
    /\ job' = [job EXCEPT ![j] = [status |-> "BUILDING", leased |-> TRUE]]
    /\ builder' = [builder EXCEPT ![b] = [NoBuild EXCEPT !.stage = "building", !.job = j]]
    /\ retaken' = retaken \cup (IF \E o \in Builders : builder[o].job = j THEN {j} ELSE {})
    /\ UNCHANGED <<row, docker, due, records, maker, stopper, checker, faults, contested, astray>>

(* Under a live worker only until the job was taken again once: a bound.     *)
LeaseExpires(j) ==
    /\ job[j].status = "BUILDING" /\ job[j].leased
    /\ (SlowBuilds /\ j \notin retaken) \/ \A b \in Builders : builder[b].job # j
    /\ job' = [job EXCEPT ![j].leased = FALSE]
    /\ UNCHANGED <<row, docker, due, records, actors, faults, contested, astray, retaken>>

Seen(b) == [status |-> job[builder[b].job].status, records |-> records[builder[b].job]]

(* update_progress: BUILDING over whatever else it read.  A build record     *)
(* found twice raises, and the exception is swallowed.                       *)
ProgressRead(b) ==
    /\ builder[b].stage = "building"
    /\ records[builder[b].job] <= 1 /\ builder[b].reports < MaxReports
    /\ builder' = [builder EXCEPT ![b].stage = "progress", ![b].saw = Seen(b),
                                  ![b].reports = @ + 1]
    /\ UNCHANGED <<row, docker, due, builds, maker, stopper, checker, faults, contested, astray,
                   retaken>>

AlwaysInserted(b) == [records EXCEPT ![builder[b].job] = @ + 1]
Recorded(b) == [records EXCEPT ![builder[b].job] = IF builder[b].saw.records = 0 THEN @ + 1 ELSE @]

ProgressCommit(b) ==
    /\ builder[b].stage = "progress"
    /\ job' = [job EXCEPT ![builder[b].job].status = Written(@, builder[b].saw.status, "BUILDING")]
    /\ records' = Recorded(b)
    /\ builder' = [builder EXCEPT ![b].stage = "building", ![b].saw = NoBuild.saw]
    /\ UNCHANGED <<row, docker, due, maker, stopper, checker, faults, contested, astray, retaken>>

(* record_build_result: what it reads, the launches, its one commit. *)
WaitingIgnored == {}
WaitingOrStopped == {w \in Workspaces : row[w].status \in {"PROVISIONING", "STOPPED"}}
Waiting == {w \in Workspaces : row[w].status = "PROVISIONING"}

ResultRead(b, outcome) ==
    /\ builder[b].stage = "building"
    /\ records[builder[b].job] <= 1
    /\ builder' = [builder EXCEPT ![b].stage = IF outcome = "SUCCEEDED" THEN "launching" ELSE "recording",
                                  ![b].outcome = outcome, ![b].pending = Waiting, ![b].reports = 0,
                                  ![b].saw = Seen(b)]
    /\ Contend(Waiting)
    /\ UNCHANGED <<row, docker, due, builds, maker, stopper, checker, faults, astray, retaken>>

(* Both the result and the failure it turns into raise: the loop goes on.    *)
ResultRaises(b) ==
    /\ builder[b].stage = "building" /\ records[builder[b].job] > 1
    /\ builder' = [builder EXCEPT ![b] = NoBuild]
    /\ UNCHANGED <<row, docker, due, builds, maker, stopper, checker, faults, contested, astray,
                   retaken>>

(* All waiting workspaces are launched without an await.  One that cannot be *)
(* is given a made-up id, and runs all the same.                             *)
LaunchWaiting(b) ==
    /\ builder[b].stage = "launching"
    /\ \A w \in builder[b].pending : docker[w].id < MaxLaunches
    /\ \E failed \in SUBSET builder[b].pending :
         /\ failed # {} => Fault
         /\ failed = {} => UNCHANGED faults
         /\ docker' = [w \in Workspaces |->
              CASE w \in failed -> Removed(w)
                [] w \in builder[b].pending \ failed -> Launched(w)
                [] OTHER -> docker[w]]
         /\ builder' = [builder EXCEPT ![b].stage = "recording",
              ![b].made = [w \in Workspaces |->
                 CASE w \in failed -> Mock
                   [] w \in builder[b].pending \ failed -> docker[w].id + 1
                   [] OTHER -> NoContainer]]
    /\ UNCHANGED <<row, due, builds, maker, stopper, checker, contested, astray, retaken>>

Settled(b, w) ==
    IF builder[b].outcome = "SUCCEEDED" THEN [status |-> "RUNNING", cid |-> builder[b].made[w]]
    ELSE [row[w] EXCEPT !.status = "ERROR"]

ResultCommit(b) ==
    /\ builder[b].stage = "recording"
    /\ job' = [job EXCEPT ![builder[b].job].status = Written(@, builder[b].saw.status, builder[b].outcome)]
    /\ records' = Recorded(b)
    /\ row' = [w \in Workspaces |-> IF w \in builder[b].pending THEN Settled(b, w) ELSE row[w]]
    /\ builder' = [builder EXCEPT ![b] = NoBuild]
    /\ UNCHANGED <<docker, due, maker, stopper, checker, faults, contested, astray, retaken>>

(* The commit raises, after the launches if there were any: a failure is     *)
(* recorded instead, for the workspaces that wait, and containers run on.    *)
RecordsFailure(b) == builder[b].outcome # "FAILED" /\ records[builder[b].job] <= 1

ResultCommitRaises(b) ==
    /\ builder[b].stage = "recording"
    /\ Fault
    /\ astray' = astray \cup {w \in builder[b].pending : builder[b].made[w] \in Ids}
    /\ builder' = [builder EXCEPT ![b] =
         IF RecordsFailure(b)
         THEN [NoBuild EXCEPT !.stage = "recording", !.job = builder[b].job, !.saw = Seen(b),
                              !.outcome = "FAILED", !.pending = Waiting]
         ELSE NoBuild]
    /\ contested' = contested \cup
         {w \in Waiting : /\ RecordsFailure(b)
                          /\ \/ Launching(w) \/ Stopping(w)
                             \/ \E o \in Builders \ {b} : w \in builder[o].pending}
    /\ UNCHANGED <<row, docker, due, builds, maker, stopper, checker, retaken>>

BuilderDies(b) ==
    /\ builder[b].stage # "idle"
    /\ Fault
    /\ astray' = astray \cup {w \in builder[b].pending : builder[b].made[w] \in Ids}
    /\ builder' = [builder EXCEPT ![b] = NoBuild]
    /\ UNCHANGED <<row, docker, due, builds, maker, stopper, checker, contested, retaken>>

-----------------------------------------------------------------------------
MakerStep(w) == CommitRow(w) \/ Launch(w) \/ CommitLaunch(w)
StopperStep(w) == StopCall(w) \/ StopCommit(w)
CheckerStep(c, w) ==
    \/ CheckRead(c, w) \/ CheckInspect(c, w) \/ CheckCommit(c, w)
    \/ c = Poller /\ StopExpired(w)
BuilderStep(b) ==
    \/ \E j \in Jobs : AcquireJob(b, j)
    \/ \E outcome \in Finished : ResultRead(b, outcome)
    \/ ProgressRead(b) \/ ProgressCommit(b)
    \/ ResultRaises(b) \/ LaunchWaiting(b) \/ ResultCommit(b)

Request(w) ==
    \/ CheckForBuild(w) \/ RentWithoutWorkspace(w) \/ StopRead(w)
    \/ \E j \in Jobs : DeployFromGitHub(w, j)

Failure ==
    \/ \E w \in Workspaces : ContainerExits(w) \/ MakerDies(w) \/ StopRaises(w)
    \/ \E c \in Checkers, w \in Workspaces : CheckRaises(c, w)
    \/ \E b \in Builders : ResultCommitRaises(b) \/ BuilderDies(b)

Next ==
    \/ \E w \in Workspaces : Request(w) \/ MakerStep(w) \/ StopperStep(w) \/ DurationEnds(w)
    \/ \E c \in Checkers, w \in Workspaces : CheckerStep(c, w)
    \/ \E b \in Builders : BuilderStep(b)
    \/ \E j \in Jobs : Rebuild(j) \/ LeaseExpires(j)
    \/ Failure

Fairness ==
    /\ \A w \in Workspaces : WF_vars(MakerStep(w)) /\ WF_vars(StopperStep(w))
                             /\ WF_vars(CheckerStep(Poller, w))
    /\ \A b \in Builders : WF_vars(BuilderStep(b))
    /\ \A j \in Jobs : WF_vars(LeaseExpires(j))

Spec == Init /\ [][Next]_vars /\ Fairness
-----------------------------------------------------------------------------
(* Properties *)

TypeOK ==
    /\ row \in [Workspaces -> [status : RowStatus, cid : Ids \cup {NoContainer, Mock}]]
    /\ docker \in [Workspaces -> [id : 0 .. MaxLaunches,
                                  state : {"absent", "running", "exited"}]]
    /\ due \subseteq Workspaces
    /\ job \in [Jobs -> [status : {"NONE"} \cup Active \cup Finished, leased : BOOLEAN]]
    /\ records \in [Jobs -> 0 .. 2]
    /\ maker \in [Workspaces ->
         [stage : {"none", "waits", "launches", "launching", "launched", "done", "died"},
          cid : Ids \cup {NoContainer, Mock}]]
    /\ stopper \in [Workspaces ->
         [stage : {"idle", "read", "stopped"}, cid : Ids \cup {NoContainer, Mock}, saw : RowStatus]]
    /\ checker \in [Checkers -> [Workspaces ->
         [stage : {"idle", "read", "expired", "found"}, cid : Ids \cup {NoContainer, Mock},
          status : RowStatus]]]
    /\ builder \in [Builders ->
         [stage : {"idle", "building", "progress", "launching", "recording"},
          job : Jobs \cup {0}, outcome : Finished \cup {"none"}, pending : SUBSET Workspaces,
          saw : [status : {"NONE"} \cup Active \cup Finished, records : 0 .. 1], reports : 0 .. MaxReports,
          made : [Workspaces -> Ids \cup {NoContainer, Mock}]]]
    /\ faults \in 0 .. MaxFaults
    /\ contested \subseteq Workspaces
    /\ astray \subseteq Workspaces /\ retaken \subseteq Jobs

(* A container that runs is the one its RUNNING row names, unless a handler  *)
(* is at work on it, two were at a time, or Docker or a process failed:      *)
(* nobody pays for a container nobody sees.                                  *)
Accounted(w) ==
    Alive(w) => \/ row[w].status = "RUNNING" /\ row[w].cid = docker[w].id
                \/ Launching(w) \/ Stopping(w) \/ Taken(w)

NoOrphan == \A w \in Workspaces \ (contested \cup astray) : Accounted(w)

(* A workspace that was stopped or failed does not come back, whatever the   *)
(* builds and checks under way still write, unless two handlers overlapped.  *)
Down == {"STOPPED", "ERROR"}
DownForGood ==
    [][\A w \in Workspaces \ contested' : row[w].status \in Down => row'[w].status \in Down]_vars

(* What a build came to stands, with one record of it, unless the job was    *)
(* taken again under a worker that was still alive.                          *)
ResultsStand ==
    [][\A j \in Jobs \ retaken :
         /\ records'[j] <= 1
         /\ job[j].status \in Finished => job'[j] = job[j]]_vars

(* A workspace that waits for a build that is going to look, or for the      *)
(* request that launches it, gets its container or its error, unless the     *)
(* request dies or a build was taken twice.                                  *)
Waits(w) == row[w].status = "PROVISIONING"
Promised(w) == Waits(w) /\ (BuildAhead \/ Taken(w) \/ Launching(w)) /\ retaken = {}
Excused(w) == retaken # {} \/ (maker[w].stage = "died" /\ ~BuildAhead /\ ~Taken(w))
WaitingEnds == \A w \in Workspaces : Promised(w) ~> ~Waits(w) \/ Excused(w)

(* A row that says RUNNING without a container, or beyond its time, is       *)
(* corrected, however often Docker fails in between.                         *)
Overdue(w) == row[w].status = "RUNNING" /\ (w \in due \/ ~Alive(w))
RowsCorrected == \A w \in Workspaces : Overdue(w) ~> ~Overdue(w)
-----------------------------------------------------------------------------
(* Said of the code, but not kept by it (README, deviations).                *)

(* build_engine/worker.py:239, a build that succeeds launches any pending    *)
(* workspaces: no row waits when all builds are over.                        *)
NobodyLeftWaiting ==
    ActiveJobs = {} => \A w \in Workspaces : row[w].status = "PROVISIONING" => Launching(w)

(* workspaces.py:486, stopping a workspace stops and removes its container.  *)
StoppedMeansRemoved ==
    \A w \in Workspaces : row[w].status = "STOPPED" => ~Alive(w) \/ Launching(w) \/ Taken(w) \/ Stopping(w)

(* workspaces.py:99, a workspace is a container  deployed with Docker: a row *)
(* that says RUNNING names one.                                              *)
RunningMeansLaunched == \A w \in Workspaces : row[w].status = "RUNNING" => row[w].cid \in Ids
=============================================================================
