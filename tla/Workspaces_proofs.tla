-------------------------- MODULE Workspaces_proofs --------------------------
(***************************************************************************)
(* Workspaces and builds for any number of workspaces, jobs, workers and   *)
(* faults: types, no container nobody sees (NoOrphan), nothing stopped     *)
(* that comes back (DownForGood), one lasting result for a build that was  *)
(* not taken twice (ResultsStand).                                         *)
(***************************************************************************)
EXTENDS Workspaces, TLAPS

Cids == Ids \cup {NoContainer, Mock}
JobStatus == {"NONE"} \cup Active \cup Finished

RowType == [status : RowStatus, cid : Cids]
DockerType == [id : 0 .. MaxLaunches, state : {"absent", "running", "exited"}]
MakerType ==
    [stage : {"none", "waits", "launches", "launching", "launched", "done", "died"}, cid : Cids]
StopType == [stage : {"idle", "read", "stopped"}, cid : Cids, saw : RowStatus]
CheckType == [stage : {"idle", "read", "expired", "found"}, cid : Cids, status : RowStatus]
JobType == [status : JobStatus, leased : BOOLEAN]
SawType == [status : JobStatus, records : 0 .. 1]
BuildType ==
    [stage : {"idle", "building", "progress", "launching", "recording"},
     job : Jobs \cup {0}, outcome : Finished \cup {"none"}, pending : SUBSET Workspaces,
     saw : SawType, reports : 0 .. MaxReports, made : [Workspaces -> Cids]]

\* The rows, Docker and the requests that work on a workspace.
PlaceTypes ==
    /\ row \in [Workspaces -> RowType]
    /\ docker \in [Workspaces -> DockerType]
    /\ due \subseteq Workspaces
    /\ maker \in [Workspaces -> MakerType]
    /\ stopper \in [Workspaces -> StopType]
    /\ checker \in [Checkers -> [Workspaces -> CheckType]]
    /\ faults \in 0 .. MaxFaults
    /\ contested \subseteq Workspaces
    /\ astray \subseteq Workspaces

\* The queue and its workers.
BuildTypes ==
    /\ job \in [Jobs -> JobType]
    /\ builder \in [Builders -> BuildType]
    /\ retaken \subseteq Jobs

-----------------------------------------------------------------------------
(* Builds: two workers at most are on one job, and only if it was retaken;   *)
(* one that read no record will insert one.                                  *)

On(b, j) == builder[b].job = j
Owes(x) == x.stage \in {"progress", "launching", "recording"} /\ x.saw.records = 0

Alone(j) == \A b, c \in Builders : On(b, j) /\ On(c, j) => b = c

JobHolds(j) ==
    /\ job[j].status \in {"NONE", "QUEUED"} => \A b \in Builders : ~On(b, j)
    /\ ~job[j].leased => Alone(j)
    /\ \A a, b, c \in Builders : On(a, j) /\ On(b, j) /\ On(c, j) => a = b \/ b = c \/ a = c
    /\ records[j] = 1 =>
         \A b, c \in Builders : On(b, j) /\ On(c, j) /\ Owes(builder[b]) /\ Owes(builder[c]) => b = c
    /\ records[j] = 2 => \A b \in Builders : On(b, j) => ~Owes(builder[b])
    /\ j \notin retaken =>
         /\ Alone(j) /\ records[j] <= 1
         /\ \A b \in Builders : On(b, j) =>
              /\ job[j].status = "BUILDING"
              /\ records[j] = 1 => ~Owes(builder[b])

Tidy(x) ==
    /\ x.stage = "idle" <=> x.job = 0
    /\ x.stage \in {"idle", "building", "progress"} => x.pending = {}
    /\ x.stage = "launching" => x.outcome = "SUCCEEDED"
    /\ x.stage = "recording" => x.outcome \in Finished

JobsHold ==
    /\ BuildTypes
    /\ records \in [Jobs -> 0 .. 2]
    /\ \A j \in Jobs : JobHolds(j)
    /\ \A b \in Builders : Tidy(builder[b])

-----------------------------------------------------------------------------
(* Workspaces: who works on one that two never worked on at a time, and      *)
(* where its container is as long as no fault lost it.                       *)

SoleTaker(w) ==
    \A b, c \in Builders : w \in builder[b].pending /\ w \in builder[c].pending => b = c

\* A build has launched the container, and has yet to say so.
MadeByBuild(w) ==
    \E b \in Builders : /\ w \in builder[b].pending /\ builder[b].stage = "recording"
                        /\ builder[b].outcome = "SUCCEEDED" /\ builder[b].made[w] = docker[w].id

Unchecked(w) == \A c \in Checkers : checker[c][w].stage = "idle"

RowHolds(w) ==
    /\ row[w].status = "NONE" => row[w] = NoRow /\ ~Stopping(w) /\ ~Taken(w)
    /\ row[w].status \in {"NONE", "PROVISIONING"} => Unchecked(w)
    /\ maker[w].stage \in {"none", "waits", "launches"} => row[w].status = "NONE"
    /\ Alive(w) => docker[w].id \in Ids
    /\ \A c \in Checkers : checker[c][w].stage = "found" => checker[c][w].status \in Down

WorkHolds(w) ==
    /\ Launching(w) \/ Taken(w) => row[w].status = "PROVISIONING" /\ ~Stopping(w)
    /\ ~(Launching(w) /\ Taken(w))
    /\ SoleTaker(w)

PlaceHolds(w) ==
    /\ row[w].status \in {"NONE"} \cup Down => ~Alive(w)
    /\ row[w].status = "RUNNING" /\ Alive(w) => row[w].cid = docker[w].id
    /\ row[w].status = "PROVISIONING" /\ Alive(w) =>
         (maker[w].stage = "launched" /\ maker[w].cid = docker[w].id) \/ MadeByBuild(w)
    /\ stopper[w].stage = "read" /\ Alive(w) => stopper[w].cid = docker[w].id
    /\ stopper[w].stage = "stopped" => ~Alive(w)
    /\ \A c \in Checkers :
         /\ checker[c][w].stage \in {"read", "expired"} /\ Alive(w) => checker[c][w].cid = docker[w].id
         /\ checker[c][w].stage = "found" => ~Alive(w)

Holds(w) ==
    /\ RowHolds(w)
    /\ w \notin contested => WorkHolds(w)
    /\ w \notin contested \cup astray => PlaceHolds(w)

Inv == PlaceTypes /\ JobsHold /\ \A w \in Workspaces : Holds(w)

-----------------------------------------------------------------------------
LEMMA TypesInParts == PlaceTypes /\ BuildTypes /\ records \in [Jobs -> 0 .. 2] <=> TypeOK
  BY DEF PlaceTypes, BuildTypes, TypeOK, Cids, JobStatus, RowType, DockerType, MakerType, StopType,
     CheckType, JobType, SawType, BuildType

LEMMA Constants ==
    /\ NoContainer \in Cids /\ Mock \in Cids /\ Ids \subseteq Cids
    /\ Made \in MakerType /\ [Made EXCEPT !.stage = "died"] \in MakerType
    /\ NoStop \in StopType /\ NoStop.stage = "idle"
    /\ NoCheck \in CheckType /\ NoCheck.stage = "idle"
    /\ NoBuild \in BuildType /\ NoBuild.job = 0 /\ NoBuild.stage = "idle" /\ NoBuild.pending = {}
    /\ NoBuild.saw \in SawType
    /\ Poller \in Checkers
  <1>1. NoContainer \in Cids /\ Mock \in Cids /\ Ids \subseteq Cids
    BY DEF Cids
  <1>2. Made \in MakerType /\ [Made EXCEPT !.stage = "died"] \in MakerType
    BY <1>1 DEF Made, MakerType
  <1>3. NoStop \in StopType /\ NoStop.stage = "idle"
    BY <1>1 DEF NoStop, StopType, RowStatus
  <1>4. NoCheck \in CheckType /\ NoCheck.stage = "idle"
    BY <1>1 DEF NoCheck, CheckType, RowStatus
  <1>5. [status |-> "NONE", records |-> 0] \in SawType
    BY DEF SawType, JobStatus
  <1>6. [w \in Workspaces |-> NoContainer] \in [Workspaces -> Cids] /\ 0 \in 0 .. MaxReports
    BY <1>1, WorkspacesAssumption
  <1>7. NoBuild \in BuildType /\ NoBuild.job = 0 /\ NoBuild.stage = "idle" /\ NoBuild.pending = {}
        /\ NoBuild.saw \in SawType
    BY <1>5, <1>6 DEF NoBuild, BuildType
  <1> QED
    BY <1>1, <1>2, <1>3, <1>4, <1>7 DEF Checkers

LEMMA InvHoldsInitially == Init => Inv
  <1> SUFFICES ASSUME Init PROVE Inv
    OBVIOUS
  <1>1. PlaceTypes
    <2>1. NoRow \in RowType /\ [id |-> 0, state |-> "absent"] \in DockerType
          /\ [stage |-> "none", cid |-> NoContainer] \in MakerType
      BY Constants, WorkspacesAssumption DEF NoRow, RowType, RowStatus, DockerType, MakerType
    <2>2. 0 \in 0 .. MaxFaults
      BY WorkspacesAssumption
    <2> QED
      BY <2>1, <2>2, Constants DEF Init, PlaceTypes
  <1>2. BuildTypes
    <2>1. [status |-> "NONE", leased |-> FALSE] \in JobType
      BY DEF JobType, JobStatus
    <2> QED
      BY <2>1, Constants DEF Init, BuildTypes
  <1>3. records \in [Jobs -> 0 .. 2] /\ \A j \in Jobs : records[j] = 0
    BY DEF Init
  <1>4. \A b \in Builders : builder[b] = NoBuild
    BY DEF Init
  <1>5. \A b \in Builders : Tidy(builder[b])
    BY <1>4, Constants DEF Tidy
  <1>6. ASSUME NEW j \in Jobs PROVE JobHolds(j)
    <2>1. \A b \in Builders : ~On(b, j)
      BY <1>4, Constants DEF On, Jobs
    <2> QED
      BY <1>3, <2>1 DEF JobHolds, Alone
  <1>7. ASSUME NEW w \in Workspaces PROVE Holds(w)
    <2>1. row[w] = NoRow /\ ~Alive(w) /\ maker[w].stage = "none" /\ stopper[w].stage = "idle"
      BY Constants DEF Init, Alive
    <2>2. \A c \in Checkers : checker[c][w].stage = "idle"
      BY Constants DEF Init
    <2>3. \A b \in Builders : w \notin builder[b].pending
      BY <1>4, Constants
    <2>4. RowHolds(w)
      BY <2>1, <2>2, <2>3 DEF RowHolds, NoRow, Taken, Stopping, Unchecked
    <2>5. WorkHolds(w)
      BY <2>1, <2>2, <2>3 DEF WorkHolds, Launching, Taken, Stopping, SoleTaker, Unchecked, NoRow
    <2>6. PlaceHolds(w)
      BY <2>1, <2>2 DEF PlaceHolds, NoRow
    <2> QED
      BY <2>4, <2>5, <2>6 DEF Holds
  <1> QED
    BY <1>1, <1>2, <1>3, <1>5, <1>6, <1>7 DEF Inv, JobsHold

-----------------------------------------------------------------------------
(* What a step leaves alone. *)

LEMMA OthersHold ==
    ASSUME NEW w \in Workspaces, Holds(w),
           row'[w] = row[w], docker'[w] = docker[w], maker'[w] = maker[w], stopper'[w] = stopper[w],
           \A c \in Checkers : checker'[c][w] = checker[c][w],
           builder' = builder, contested \subseteq contested', astray \subseteq astray'
    PROVE  Holds(w)'
  <1>1. /\ Alive(w)' <=> Alive(w)
        /\ Launching(w)' <=> Launching(w)
        /\ Stopping(w)' <=> Stopping(w)
        /\ Taken(w)' <=> Taken(w)
        /\ SoleTaker(w)' <=> SoleTaker(w)
        /\ Unchecked(w)' <=> Unchecked(w)
        /\ MadeByBuild(w)' <=> MadeByBuild(w)
    BY DEF Alive, Launching, Stopping, Taken, SoleTaker, Unchecked, MadeByBuild
  <1>2. RowHolds(w)'
    BY <1>1 DEF Holds, RowHolds
  <1>3. WorkHolds(w) => WorkHolds(w)'
    BY <1>1 DEF WorkHolds
  <1>4. PlaceHolds(w) => PlaceHolds(w)'
    BY <1>1 DEF PlaceHolds
  <1> QED
    BY <1>2, <1>3, <1>4 DEF Holds

LEMMA QueueHolds ==
    ASSUME JobsHold, UNCHANGED <<job, records, builder, retaken>>
    PROVE  JobsHold'
  BY DEF JobsHold, BuildTypes, JobHolds, Alone, On

\* A step at one workspace: the invariant is kept when it is kept there.
LEMMA StepAtOne ==
    ASSUME Inv, NEW w \in Workspaces, PlaceTypes', Holds(w)',
           UNCHANGED <<job, records, builder, retaken>>,
           \A v \in Workspaces \ {w} :
               /\ row'[v] = row[v] /\ docker'[v] = docker[v] /\ maker'[v] = maker[v]
               /\ stopper'[v] = stopper[v]
               /\ \A c \in Checkers : checker'[c][v] = checker[c][v],
           contested \subseteq contested', astray \subseteq astray'
    PROVE  Inv'
  <1>1. JobsHold'
    BY QueueHolds DEF Inv
  <1>2. ASSUME NEW v \in Workspaces \ {w} PROVE Holds(v)'
    BY OthersHold DEF Inv
  <1> QED
    BY <1>1, <1>2 DEF Inv

LEMMA FaultIsTyped == ASSUME PlaceTypes, Fault PROVE faults' \in 0 .. MaxFaults
  BY WorkspacesAssumption DEF PlaceTypes, Fault

-----------------------------------------------------------------------------
(* Creating a workspace *)

\* The request that creates a workspace goes on without a container.
LEMMA MakerMoves ==
    ASSUME Inv, NEW w \in Workspaces, NEW new \in MakerType,
           maker' = [maker EXCEPT ![w] = new],
           new.stage \notin {"launching", "launched"},
           new.stage \in {"none", "waits", "launches"} => row[w].status = "NONE",
           PlaceTypes',
           UNCHANGED <<row, docker, stopper, checker, contested>>,
           UNCHANGED <<job, records, builder, retaken>>,
           astray' = astray \/ astray' = astray \cup {w},
           maker[w].stage = "launched" => w \in astray'
    PROVE  Inv'
  <1>1. \A v \in Workspaces : maker'[v] = IF v = w THEN new ELSE maker[v]
    BY DEF Inv, PlaceTypes
  <1>2. /\ ~Launching(w)'
        /\ Alive(w)' <=> Alive(w)
        /\ Stopping(w)' <=> Stopping(w)
        /\ Taken(w)' <=> Taken(w)
        /\ SoleTaker(w)' <=> SoleTaker(w)
        /\ Unchecked(w)' <=> Unchecked(w)
        /\ MadeByBuild(w)' <=> MadeByBuild(w)
    BY <1>1 DEF Alive, Launching, Stopping, Taken, SoleTaker, Unchecked, MadeByBuild
  <1>3. RowHolds(w)'
    BY <1>1, <1>2 DEF Inv, Holds, RowHolds
  <1>4. WorkHolds(w) => WorkHolds(w)'
    BY <1>2 DEF WorkHolds
  <1>5. w \notin astray' /\ PlaceHolds(w) => PlaceHolds(w)'
    BY <1>1, <1>2 DEF PlaceHolds
  <1>6. Holds(w)'
    BY <1>3, <1>4, <1>5 DEF Inv, Holds
  <1> QED
    BY <1>1, <1>6, StepAtOne

LEMMA CheckForBuildKeeps == ASSUME Inv, NEW w \in Workspaces, CheckForBuild(w) PROVE Inv'
  <1> DEFINE new == [maker[w] EXCEPT !.stage = IF HasActiveBuild THEN "waits" ELSE "launches"]
  <1>1. maker[w] \in MakerType /\ maker[w].stage = "none"
    BY DEF Inv, PlaceTypes, CheckForBuild
  <1>2. new \in MakerType /\ new.stage \in {"waits", "launches"}
    BY <1>1 DEF MakerType
  <1> HIDE DEF new
  <1>3. maker' = [maker EXCEPT ![w] = new]
    BY DEF CheckForBuild, new
  <1>4. row[w].status = "NONE"
    BY <1>1 DEF Inv, Holds, RowHolds
  <1>5. PlaceTypes'
    BY <1>2, <1>3 DEF Inv, PlaceTypes, CheckForBuild
  <1> QED
    BY <1>1, <1>2, <1>3, <1>4, <1>5, MakerMoves DEF CheckForBuild, builds

LEMMA MakerDiesKeeps == ASSUME Inv, NEW w \in Workspaces, MakerDies(w) PROVE Inv'
  <1> DEFINE new == [Made EXCEPT !.stage = "died"]
  <1>1. new \in MakerType /\ new.stage = "died"
    BY Constants DEF Made
  <1> HIDE DEF new
  <1>2. maker' = [maker EXCEPT ![w] = new]
    BY DEF MakerDies, new
  <1>3. PlaceTypes'
    BY <1>1, <1>2, FaultIsTyped DEF Inv, PlaceTypes, MakerDies
  <1> QED
    BY <1>1, <1>2, <1>3, MakerMoves DEF MakerDies, builds

LEMMA CommitRowKeeps == ASSUME Inv, NEW w \in Workspaces, CommitRow(w) PROVE Inv'
  <1> DEFINE new == [row[w] EXCEPT !.status = "PROVISIONING"]
             then == [maker[w] EXCEPT !.stage = IF @ = "waits" THEN "done" ELSE "launching"]
  <1>1. /\ row[w] \in RowType /\ maker[w] \in MakerType
        /\ maker[w].stage \in {"waits", "launches"} /\ row[w].status = "NONE"
        /\ ~Stopping(w) /\ ~Taken(w) /\ Unchecked(w)
    BY DEF Inv, PlaceTypes, CommitRow, Holds, RowHolds
  <1>2. /\ new \in RowType /\ new.status = "PROVISIONING"
        /\ then \in MakerType /\ then.stage \in {"done", "launching"}
    BY <1>1 DEF RowType, RowStatus, MakerType
  <1> HIDE DEF new, then
  <1>3. row' = [row EXCEPT ![w] = new] /\ maker' = [maker EXCEPT ![w] = then]
    BY DEF CommitRow, new, then
  <1>4. PlaceTypes'
    <2>1. UNCHANGED <<docker, due, stopper, checker, faults, contested, astray>>
      BY DEF CommitRow
    <2> QED
      BY <1>2, <1>3, <2>1 DEF Inv, PlaceTypes
  <1>5. \A v \in Workspaces :
          /\ row'[v] = IF v = w THEN new ELSE row[v]
          /\ maker'[v] = IF v = w THEN then ELSE maker[v]
    BY <1>3 DEF Inv, PlaceTypes
  <1>6. /\ Alive(w)' <=> Alive(w)
        /\ Stopping(w)' <=> Stopping(w)
        /\ Taken(w)' <=> Taken(w)
        /\ SoleTaker(w)' <=> SoleTaker(w)
        /\ Unchecked(w)' <=> Unchecked(w)
    BY DEF CommitRow, Alive, Stopping, Taken, SoleTaker, Unchecked
  <1>7. RowHolds(w)'
    BY <1>2, <1>5, <1>6 DEF Inv, Holds, RowHolds, CommitRow
  <1>8. WorkHolds(w) => WorkHolds(w)'
    BY <1>1, <1>2, <1>5, <1>6 DEF WorkHolds
  <1>9. WorkHolds(w) /\ PlaceHolds(w) => PlaceHolds(w)'
    BY <1>1, <1>2, <1>5, <1>6 DEF PlaceHolds, WorkHolds, Down, CommitRow
  <1>10. Holds(w)'
    BY <1>7, <1>8, <1>9 DEF Inv, Holds, CommitRow
  <1> QED
    BY <1>4, <1>5, <1>10, StepAtOne DEF CommitRow, builds

LEMMA LaunchKeeps == ASSUME Inv, NEW w \in Workspaces, Launch(w) PROVE Inv'
  <1>1. /\ docker[w] \in DockerType /\ maker[w].stage = "launching"
        /\ docker[w].id < MaxLaunches /\ docker[w].id \in 0 .. MaxLaunches
    BY DEF Inv, PlaceTypes, Launch, DockerType
  <1> DEFINE id == docker[w].id + 1
  <1>2. id \in Ids /\ id \in Cids /\ Mock \in Cids
    BY <1>1, WorkspacesAssumption, Constants DEF Ids, Cids
  <1>3. /\ Launched(w) \in DockerType /\ Launched(w).id = id /\ Launched(w).state = "running"
    <2>1. id \in 0 .. MaxLaunches
      BY <1>2 DEF Ids
    <2> QED
      BY <2>1 DEF Launched, DockerType
  <1>4. Removed(w) \in DockerType /\ Removed(w).state = "absent"
    BY <1>1 DEF Removed, DockerType
  <1> HIDE DEF id
  <1>5. PICK new \in DockerType, made \in MakerType :
            /\ docker' = [docker EXCEPT ![w] = new] /\ maker' = [maker EXCEPT ![w] = made]
            /\ made.stage = "launched"
            /\ \/ new.state = "absent" /\ astray' = astray
               \/ new.state = "running" /\ new.id \in Ids /\ astray' = astray \cup {w}
               \/ new.state = "running" /\ new.id \in Ids /\ made.cid = new.id /\ astray' = astray
    <2>1. /\ [stage |-> "launched", cid |-> id] \in MakerType
          /\ [stage |-> "launched", cid |-> Mock] \in MakerType
      BY <1>2 DEF MakerType
    <2> QED
      BY <1>2, <1>3, <1>4, <2>1 DEF Launch, id
  <1>6. faults' \in 0 .. MaxFaults
    BY FaultIsTyped DEF Inv, PlaceTypes, Launch
  <1>7. PlaceTypes'
    BY <1>5, <1>6 DEF Inv, PlaceTypes, Launch
  <1>8. \A v \in Workspaces :
          /\ docker'[v] = IF v = w THEN new ELSE docker[v]
          /\ maker'[v] = IF v = w THEN made ELSE maker[v]
    BY <1>5 DEF Inv, PlaceTypes
  <1>9. /\ Launching(w) /\ Launching(w)'
        /\ Alive(w)' <=> new.state = "running"
        /\ Stopping(w)' <=> Stopping(w)
        /\ Taken(w)' <=> Taken(w)
        /\ SoleTaker(w)' <=> SoleTaker(w)
        /\ Unchecked(w)' <=> Unchecked(w)
    BY <1>1, <1>5, <1>8 DEF Launch, Alive, Launching, Stopping, Taken, SoleTaker, Unchecked
  <1>10. RowHolds(w)'
    BY <1>1, <1>5, <1>8, <1>9 DEF Inv, Holds, RowHolds, Launch
  <1>11. WorkHolds(w) => WorkHolds(w)'
    BY <1>9 DEF WorkHolds, Launch
  <1>12. WorkHolds(w) /\ w \notin astray' => PlaceHolds(w)'
    <2> SUFFICES ASSUME WorkHolds(w), w \notin astray' PROVE PlaceHolds(w)'
      OBVIOUS
    <2>1. row[w].status = "PROVISIONING" /\ stopper[w].stage = "idle"
      BY <1>9 DEF WorkHolds, Stopping
    <2>2. \A c \in Checkers : checker[c][w].stage = "idle"
      BY <2>1 DEF Inv, Holds, RowHolds, Unchecked
    <2>3. Alive(w)' => made.cid = new.id
      BY <1>5, <1>9
    <2> QED
      BY <1>5, <1>8, <2>1, <2>2, <2>3 DEF PlaceHolds, Launch, Down
  <1>13. Holds(w)'
    BY <1>10, <1>11, <1>12 DEF Inv, Holds, Launch
  <1> QED
    BY <1>5, <1>7, <1>8, <1>13, StepAtOne DEF Launch, builds

LEMMA CommitLaunchKeeps == ASSUME Inv, NEW w \in Workspaces, CommitLaunch(w) PROVE Inv'
  <1> DEFINE new == [status |-> "RUNNING", cid |-> maker[w].cid]
  <1>1. maker[w].stage = "launched" /\ maker[w].cid \in Cids /\ new \in RowType
    BY DEF Inv, PlaceTypes, CommitLaunch, MakerType, RowType, RowStatus
  <1>2. new.status = "RUNNING" /\ new.cid = maker[w].cid /\ Made \in MakerType /\ Made.stage = "done"
    BY Constants DEF Made
  <1>3. row' = [row EXCEPT ![w] = new] /\ maker' = [maker EXCEPT ![w] = Made]
    BY DEF CommitLaunch
  <1> HIDE DEF new
  <1>4. PlaceTypes'
    BY <1>1, <1>2, <1>3 DEF Inv, PlaceTypes, CommitLaunch
  <1>5. \A v \in Workspaces :
          /\ row'[v] = IF v = w THEN new ELSE row[v]
          /\ maker'[v] = IF v = w THEN Made ELSE maker[v]
    BY <1>3 DEF Inv, PlaceTypes
  <1>6. /\ Launching(w) /\ ~Launching(w)'
        /\ Alive(w)' <=> Alive(w)
        /\ Stopping(w)' <=> Stopping(w)
        /\ Taken(w)' <=> Taken(w)
        /\ SoleTaker(w)' <=> SoleTaker(w)
        /\ Unchecked(w)' <=> Unchecked(w)
    BY <1>1, <1>2, <1>5 DEF CommitLaunch, Alive, Launching, Stopping, Taken, SoleTaker, Unchecked
  <1>7. RowHolds(w)'
    BY <1>2, <1>5, <1>6 DEF Inv, Holds, RowHolds, CommitLaunch
  <1>8. WorkHolds(w) => WorkHolds(w)'
    BY <1>2, <1>5, <1>6 DEF WorkHolds
  <1>9. WorkHolds(w) /\ PlaceHolds(w) => PlaceHolds(w)'
    <2> SUFFICES ASSUME WorkHolds(w), PlaceHolds(w) PROVE PlaceHolds(w)'
      OBVIOUS
    <2>1. row[w].status = "PROVISIONING" /\ stopper[w].stage = "idle" /\ ~Taken(w)
      BY <1>6 DEF WorkHolds, Stopping
    <2>2. ~MadeByBuild(w)
      BY <2>1 DEF MadeByBuild, Taken
    <2>3. Alive(w) => maker[w].cid = docker[w].id
      BY <2>1, <2>2 DEF PlaceHolds
    <2>4. \A c \in Checkers : checker[c][w].stage = "idle"
      BY <2>1 DEF Inv, Holds, RowHolds, Unchecked
    <2> QED
      BY <1>2, <1>5, <1>6, <2>1, <2>3, <2>4 DEF PlaceHolds, CommitLaunch, Down
  <1>10. Holds(w)'
    BY <1>7, <1>8, <1>9 DEF Inv, Holds, CommitLaunch
  <1> QED
    BY <1>4, <1>5, <1>10, StepAtOne DEF CommitLaunch, builds

LEMMA RentKeeps == ASSUME Inv, NEW w \in Workspaces, RentWithoutWorkspace(w) PROVE Inv'
  <1> DEFINE new == [status |-> "RUNNING", cid |-> Mock]
  <1>1. /\ row[w] = NoRow /\ row[w].status = "NONE" /\ maker[w].stage = "none" /\ new \in RowType
    BY Constants DEF RentWithoutWorkspace, RowType, RowStatus, NoRow
  <1>2. new.status = "RUNNING" /\ Made \in MakerType /\ Made.stage = "done"
    BY Constants DEF Made
  <1>3. row' = [row EXCEPT ![w] = new] /\ maker' = [maker EXCEPT ![w] = Made]
    BY DEF RentWithoutWorkspace
  <1> HIDE DEF new
  <1>4. PlaceTypes'
    BY <1>1, <1>2, <1>3 DEF Inv, PlaceTypes, RentWithoutWorkspace
  <1>5. \A v \in Workspaces :
          /\ row'[v] = IF v = w THEN new ELSE row[v]
          /\ maker'[v] = IF v = w THEN Made ELSE maker[v]
    BY <1>3 DEF Inv, PlaceTypes
  <1>6. /\ ~Launching(w)'
        /\ Alive(w)' <=> Alive(w)
        /\ Stopping(w)' <=> Stopping(w)
        /\ Taken(w)' <=> Taken(w)
        /\ SoleTaker(w)' <=> SoleTaker(w)
        /\ Unchecked(w)' <=> Unchecked(w)
    BY <1>2, <1>5 DEF RentWithoutWorkspace, Alive, Launching, Stopping, Taken, SoleTaker, Unchecked
  <1>7. RowHolds(w)'
    BY <1>2, <1>5, <1>6 DEF Inv, Holds, RowHolds, RentWithoutWorkspace
  <1>8. WorkHolds(w) => WorkHolds(w)'
    BY <1>1, <1>2, <1>5, <1>6 DEF WorkHolds
  <1>9. WorkHolds(w) /\ PlaceHolds(w) => PlaceHolds(w)'
    <2> SUFFICES ASSUME WorkHolds(w), PlaceHolds(w) PROVE PlaceHolds(w)'
      OBVIOUS
    <2>1. stopper[w].stage = "idle" /\ ~Alive(w)
      BY <1>1 DEF Inv, Holds, RowHolds, PlaceHolds, Stopping
    <2>2. \A c \in Checkers : checker[c][w].stage = "idle"
      BY <1>1 DEF Inv, Holds, RowHolds, Unchecked
    <2> QED
      BY <1>2, <1>5, <1>6, <2>1, <2>2 DEF PlaceHolds, RentWithoutWorkspace, Down
  <1>10. Holds(w)'
    BY <1>7, <1>8, <1>9 DEF Inv, Holds, RentWithoutWorkspace
  <1> QED
    BY <1>4, <1>5, <1>10, StepAtOne DEF RentWithoutWorkspace, builds

-----------------------------------------------------------------------------
(* Stopping a workspace *)

LEMMA StopReadKeeps == ASSUME Inv, NEW w \in Workspaces, StopRead(w) PROVE Inv'
  <1> DEFINE new == [stage |-> "read", cid |-> row[w].cid, saw |-> row[w].status]
  <1>1. row[w] \in RowType /\ row[w] # NoRow /\ stopper[w].stage = "idle"
    BY DEF Inv, PlaceTypes, StopRead
  <1>2. new \in StopType /\ new.stage = "read" /\ new.cid = row[w].cid
    BY <1>1 DEF StopType, RowType
  <1>3. stopper' = [stopper EXCEPT ![w] = new]
    BY DEF StopRead
  <1> HIDE DEF new
  <1>4. PlaceTypes'
    BY <1>2, <1>3 DEF Inv, PlaceTypes, StopRead, Contend
  <1>5. \A v \in Workspaces : stopper'[v] = IF v = w THEN new ELSE stopper[v]
    BY <1>3 DEF Inv, PlaceTypes
  <1>6. /\ Alive(w)' <=> Alive(w)
        /\ Launching(w)' <=> Launching(w)
        /\ Taken(w)' <=> Taken(w)
        /\ SoleTaker(w)' <=> SoleTaker(w)
        /\ Unchecked(w)' <=> Unchecked(w)
    BY DEF StopRead, Alive, Launching, Taken, SoleTaker, Unchecked
  <1>7. RowHolds(w)'
    BY <1>6 DEF Inv, Holds, RowHolds, StopRead
  <1>8. w \notin contested' => w \notin contested /\ ~Launching(w) /\ ~Taken(w)
    BY DEF StopRead, Contend
  <1>9. WorkHolds(w) /\ ~Launching(w) /\ ~Taken(w) => WorkHolds(w)'
    <2>1. row[w].status # "NONE"
      BY <1>1 DEF Inv, Holds, RowHolds
    <2> QED
      BY <1>6, <2>1 DEF WorkHolds, StopRead
  <1>10. PlaceHolds(w) /\ ~Launching(w) /\ ~Taken(w) => PlaceHolds(w)'
    <2> SUFFICES ASSUME PlaceHolds(w), ~Launching(w), ~Taken(w) PROVE PlaceHolds(w)'
      OBVIOUS
    <2>1. ~MadeByBuild(w) /\ maker[w].stage # "launched"
      BY DEF MadeByBuild, Taken, Launching
    <2>2. Alive(w) => row[w].status = "RUNNING" /\ row[w].cid = docker[w].id
      BY <1>1, <2>1 DEF PlaceHolds, RowType, RowStatus, Down
    <2> QED
      BY <1>2, <1>5, <1>6, <2>2 DEF PlaceHolds, StopRead, Down
  <1>11. Holds(w)'
    BY <1>7, <1>8, <1>9, <1>10 DEF Inv, Holds, StopRead
  <1>12. contested \subseteq contested' /\ UNCHANGED <<job, records, builder, retaken>>
    BY DEF StopRead, Contend, builds
  <1> QED
    BY <1>4, <1>5, <1>11, <1>12, StepAtOne DEF StopRead

\* After stop_container the container is gone, or a fault left it astray.
LEMMA StopContainerStops ==
    ASSUME PlaceTypes, NEW w \in Workspaces, NEW cid, StopContainer(w, cid)
    PROVE  /\ docker' \in [Workspaces -> DockerType] /\ faults' \in 0 .. MaxFaults
           /\ astray \subseteq astray' /\ astray' \subseteq Workspaces
           /\ \A v \in Workspaces \ {w} : docker'[v] = docker[v]
           /\ Alive(w)' => Alive(w) /\ docker'[w] = docker[w]
           /\ w \notin astray' /\ (Alive(w) => cid = docker[w].id) => ~Alive(w)'
  <1> DEFINE gone == [docker[w] EXCEPT !.state = "absent"]
  <1>1. gone \in DockerType /\ gone.state = "absent"
    BY DEF PlaceTypes, DockerType
  <1> HIDE DEF gone
  <1>2. CASE docker' = Stopped(w, cid) /\ UNCHANGED <<faults, astray>>
    <2>1. docker' = IF cid = docker[w].id THEN [docker EXCEPT ![w] = gone] ELSE docker
      BY <1>2 DEF Stopped, gone
    <2>2. docker' \in [Workspaces -> DockerType] /\ faults' \in 0 .. MaxFaults
      BY <1>1, <1>2, <2>1 DEF PlaceTypes
    <2>3. \A v \in Workspaces \ {w} : docker'[v] = docker[v]
      BY <2>1 DEF PlaceTypes
    <2>4. docker'[w] = IF cid = docker[w].id THEN gone ELSE docker[w]
      BY <2>1 DEF PlaceTypes
    <2> QED
      BY <1>1, <1>2, <2>2, <2>3, <2>4 DEF PlaceTypes, Alive
  <1>3. CASE Fault /\ astray' = astray \cup {w} /\ UNCHANGED docker
    BY <1>3, FaultIsTyped DEF PlaceTypes, Alive
  <1> QED
    BY <1>2, <1>3 DEF StopContainer

LEMMA StopCallKeeps == ASSUME Inv, NEW w \in Workspaces, StopCall(w) PROVE Inv'
  <1> DEFINE new == [stopper[w] EXCEPT !.stage = "stopped", !.cid = NoContainer]
             cid == stopper[w].cid
  <1>1. stopper[w] \in StopType /\ stopper[w].stage = "read" /\ StopContainer(w, cid)
    BY DEF Inv, PlaceTypes, StopCall
  <1>2. new \in StopType /\ new.stage = "stopped"
    BY <1>1, Constants DEF StopType
  <1>3. stopper' = [stopper EXCEPT ![w] = new]
    BY DEF Inv, PlaceTypes, StopCall
  <1> HIDE DEF new, cid
  <1>4. /\ docker' \in [Workspaces -> DockerType] /\ faults' \in 0 .. MaxFaults
        /\ astray \subseteq astray' /\ astray' \subseteq Workspaces
        /\ \A v \in Workspaces \ {w} : docker'[v] = docker[v]
        /\ Alive(w)' => Alive(w) /\ docker'[w] = docker[w]
        /\ w \notin astray' /\ (Alive(w) => cid = docker[w].id) => ~Alive(w)'
    BY <1>1, StopContainerStops DEF Inv
  <1>5. PlaceTypes'
    <2>1. UNCHANGED <<row, due, maker, checker, contested>>
      BY DEF StopCall
    <2> QED
      BY <1>2, <1>3, <1>4, <2>1 DEF Inv, PlaceTypes
  <1>6. \A v \in Workspaces : stopper'[v] = IF v = w THEN new ELSE stopper[v]
    BY <1>3 DEF Inv, PlaceTypes
  <1>7. /\ Launching(w)' <=> Launching(w)
        /\ Taken(w)' <=> Taken(w)
        /\ Stopping(w) /\ Stopping(w)'
        /\ SoleTaker(w)' <=> SoleTaker(w)
        /\ Unchecked(w)' <=> Unchecked(w)
    BY <1>1, <1>2, <1>6 DEF StopCall, Launching, Taken, Stopping, SoleTaker, Unchecked
  <1>8. RowHolds(w)'
    BY <1>4, <1>7 DEF Inv, Holds, RowHolds, StopCall
  <1>9. WorkHolds(w) => WorkHolds(w)'
    BY <1>7 DEF WorkHolds, StopCall
  <1>10. PlaceHolds(w) /\ w \notin astray' => PlaceHolds(w)'
    <2> SUFFICES ASSUME PlaceHolds(w), w \notin astray' PROVE PlaceHolds(w)'
      OBVIOUS
    <2>1. ~Alive(w)'
      BY <1>1, <1>4 DEF PlaceHolds, cid
    <2> QED
      BY <1>2, <1>6, <2>1 DEF PlaceHolds, StopCall
  <1>11. Holds(w)'
    BY <1>4, <1>8, <1>9, <1>10 DEF Inv, Holds, StopCall
  <1> QED
    BY <1>4, <1>5, <1>6, <1>11, StepAtOne DEF StopCall, builds

LEMMA StopCommitKeeps == ASSUME Inv, NEW w \in Workspaces, StopCommit(w) PROVE Inv'
  <1> DEFINE status == Written(row[w].status, stopper[w].saw, "STOPPED")
             new == [row[w] EXCEPT !.status = status]
  <1>1. row[w] \in RowType /\ stopper[w] \in StopType /\ stopper[w].stage = "stopped"
    BY DEF Inv, PlaceTypes, StopCommit
  <1>2. status \in RowStatus /\ status \in {row[w].status, "STOPPED"}
    BY <1>1 DEF Written, RowType, RowStatus
  <1> HIDE DEF status
  <1>3. new \in RowType /\ new.status = status /\ new.cid = row[w].cid
    BY <1>1, <1>2 DEF RowType
  <1>4. row' = [row EXCEPT ![w] = new] /\ stopper' = [stopper EXCEPT ![w] = NoStop]
    BY DEF StopCommit, status
  <1>5. NoStop \in StopType /\ NoStop.stage = "idle"
    BY Constants
  <1> HIDE DEF new
  <1>6. PlaceTypes'
    <2>1. UNCHANGED <<docker, due, maker, checker, faults, contested, astray>>
      BY DEF StopCommit
    <2> QED
      BY <1>3, <1>4, <1>5, <2>1 DEF Inv, PlaceTypes
  <1>7. \A v \in Workspaces :
          /\ row'[v] = IF v = w THEN new ELSE row[v]
          /\ stopper'[v] = IF v = w THEN NoStop ELSE stopper[v]
    BY <1>4 DEF Inv, PlaceTypes
  <1>8. /\ Alive(w)' <=> Alive(w)
        /\ Launching(w)' <=> Launching(w)
        /\ Stopping(w) /\ ~Stopping(w)'
        /\ Taken(w)' <=> Taken(w)
        /\ SoleTaker(w)' <=> SoleTaker(w)
        /\ Unchecked(w)' <=> Unchecked(w)
    BY <1>1, <1>5, <1>7 DEF StopCommit, Alive, Launching, Stopping, Taken, SoleTaker, Unchecked
  <1>9. WorkHolds(w) => ~Launching(w) /\ ~Taken(w)
    BY <1>8 DEF WorkHolds
  <1>10. RowHolds(w)'
    <2>1. row[w].status # "NONE"
      BY <1>8 DEF Inv, Holds, RowHolds
    <2>2. status # "NONE"
      BY <1>2, <2>1
    <2> QED
      BY <1>2, <1>3, <1>7, <1>8, <2>1, <2>2 DEF Inv, Holds, RowHolds, StopCommit
  <1>11. WorkHolds(w) => WorkHolds(w)'
    BY <1>2, <1>3, <1>7, <1>8, <1>9 DEF WorkHolds
  <1>12. PlaceHolds(w) => PlaceHolds(w)'
    <2> SUFFICES ASSUME PlaceHolds(w) PROVE PlaceHolds(w)'
      OBVIOUS
    <2>1. ~Alive(w)'
      BY <1>1, <1>8 DEF PlaceHolds
    <2> QED
      BY <1>5, <1>7, <2>1 DEF PlaceHolds, StopCommit
  <1>13. Holds(w)'
    BY <1>10, <1>11, <1>12 DEF Inv, Holds, StopCommit
  <1> QED
    BY <1>6, <1>7, <1>13, StepAtOne DEF StopCommit, builds

LEMMA StopRaisesKeeps == ASSUME Inv, NEW w \in Workspaces, StopRaises(w) PROVE Inv'
  <1>1. /\ stopper[w].stage = "read" /\ stopper' = [stopper EXCEPT ![w] = NoStop]
        /\ NoStop \in StopType /\ NoStop.stage = "idle"
    BY Constants DEF StopRaises
  <1>2. PlaceTypes'
    BY <1>1, FaultIsTyped DEF Inv, PlaceTypes, StopRaises
  <1>3. \A v \in Workspaces : stopper'[v] = IF v = w THEN NoStop ELSE stopper[v]
    BY <1>1 DEF Inv, PlaceTypes
  <1>4. /\ Alive(w)' <=> Alive(w)
        /\ Launching(w)' <=> Launching(w)
        /\ ~Stopping(w)'
        /\ Taken(w)' <=> Taken(w)
        /\ SoleTaker(w)' <=> SoleTaker(w)
        /\ Unchecked(w)' <=> Unchecked(w)
        /\ MadeByBuild(w)' <=> MadeByBuild(w)
    BY <1>1, <1>3 DEF StopRaises, Alive, Launching, Stopping, Taken, SoleTaker, Unchecked, MadeByBuild
  <1>5. RowHolds(w)'
    BY <1>4 DEF Inv, Holds, RowHolds, StopRaises
  <1>6. WorkHolds(w) => WorkHolds(w)'
    BY <1>4 DEF WorkHolds, StopRaises
  <1>7. PlaceHolds(w) => PlaceHolds(w)'
    BY <1>1, <1>3, <1>4 DEF PlaceHolds, StopRaises
  <1>8. Holds(w)'
    BY <1>5, <1>6, <1>7 DEF Inv, Holds, StopRaises
  <1> QED
    BY <1>2, <1>3, <1>8, StepAtOne DEF StopRaises, builds

-----------------------------------------------------------------------------
(* Reconciling a row with Docker *)

\* A reconciliation moves on over what Docker still holds or has lost.
LEMMA CheckMoves ==
    ASSUME Inv, NEW w \in Workspaces, NEW c \in Checkers, NEW new \in CheckType,
           checker' = [checker EXCEPT ![c][w] = new],
           PlaceTypes',
           UNCHANGED <<row, maker, stopper, contested>>,
           UNCHANGED <<job, records, builder, retaken>>,
           astray \subseteq astray',
           \A v \in Workspaces \ {w} : docker'[v] = docker[v],
           docker'[w] = docker[w] \/ ~Alive(w)',
           new.stage # "idle" => row[w].status \notin {"NONE", "PROVISIONING"},
           new.stage = "found" => new.status \in Down,
           w \notin astray' /\ PlaceHolds(w) =>
             /\ new.stage \in {"read", "expired"} /\ Alive(w)' => new.cid = docker'[w].id
             /\ new.stage = "found" => ~Alive(w)'
    PROVE  Inv'
  <1>1. \A d \in Checkers, v \in Workspaces :
            checker'[d][v] = IF d = c /\ v = w THEN new ELSE checker[d][v]
    BY DEF Inv, PlaceTypes
  <1>2. /\ Alive(w)' => Alive(w) /\ docker'[w] = docker[w]
        /\ Launching(w)' <=> Launching(w)
        /\ Stopping(w)' <=> Stopping(w)
        /\ Taken(w)' <=> Taken(w)
        /\ SoleTaker(w)' <=> SoleTaker(w)
    BY DEF Alive, Launching, Stopping, Taken, SoleTaker
  <1>3. Unchecked(w) /\ row[w].status \in {"NONE", "PROVISIONING"} => Unchecked(w)'
    BY <1>1 DEF Unchecked
  <1>4. RowHolds(w)'
    BY <1>1, <1>2, <1>3 DEF Inv, Holds, RowHolds
  <1>5. WorkHolds(w) => WorkHolds(w)'
    BY <1>2, <1>3 DEF WorkHolds
  <1>6. w \notin astray' /\ PlaceHolds(w) => PlaceHolds(w)'
    <2>1. Alive(w)' => (MadeByBuild(w)' <=> MadeByBuild(w))
      BY <1>2 DEF MadeByBuild
    <2> QED
      BY <1>1, <1>2, <2>1 DEF PlaceHolds
  <1>7. Holds(w)'
    BY <1>4, <1>5, <1>6 DEF Inv, Holds
  <1>8. \A v \in Workspaces \ {w}, d \in Checkers : checker'[d][v] = checker[d][v]
    BY <1>1
  <1> QED
    BY <1>7, <1>8, StepAtOne

LEMMA CheckIsTyped ==
    ASSUME PlaceTypes, NEW w \in Workspaces, NEW c \in Checkers, NEW new \in CheckType,
           checker' = [checker EXCEPT ![c][w] = new]
    PROVE  checker' \in [Checkers -> [Workspaces -> CheckType]]
  <1>1. checker[c] \in [Workspaces -> CheckType]
    BY DEF PlaceTypes
  <1>2. [checker[c] EXCEPT ![w] = new] \in [Workspaces -> CheckType]
    BY <1>1
  <1>3. checker' = [checker EXCEPT ![c] = [checker[c] EXCEPT ![w] = new]]
    OBVIOUS
  <1> QED
    BY <1>2, <1>3 DEF PlaceTypes

\* A row under reconciliation was RUNNING, and is not launched again.
LEMMA CheckedHasRun ==
    ASSUME Inv, NEW w \in Workspaces, NEW c \in Checkers, checker[c][w].stage # "idle"
    PROVE  row[w].status \notin {"NONE", "PROVISIONING"}
  BY DEF Inv, Holds, RowHolds, Unchecked

LEMMA CheckReadKeeps ==
    ASSUME Inv, NEW c \in Checkers, NEW w \in Workspaces, CheckRead(c, w) PROVE Inv'
  <1> DEFINE new == [stage |-> "read", cid |-> row[w].cid, status |-> "NONE"]
  <1>1. row[w].cid \in Cids /\ row[w].status = "RUNNING"
    BY DEF Inv, PlaceTypes, RowType, CheckRead, ShouldRun
  <1>2. new \in CheckType /\ new.stage = "read" /\ new.cid = row[w].cid
    BY <1>1 DEF CheckType, RowStatus
  <1>3. checker' = [checker EXCEPT ![c][w] = new]
    BY DEF CheckRead
  <1> HIDE DEF new
  <1>4. PlaceTypes'
    BY <1>2, <1>3, CheckIsTyped DEF Inv, PlaceTypes, CheckRead
  <1>5. /\ UNCHANGED <<row, docker, maker, stopper, contested, astray>>
        /\ UNCHANGED <<job, records, builder, retaken>>
    BY DEF CheckRead, builds
  <1>6. PlaceHolds(w) => (Alive(w)' => new.cid = docker'[w].id)
    BY <1>1, <1>2, <1>5 DEF PlaceHolds, Alive
  <1> QED
    BY <1>1, <1>2, <1>3, <1>4, <1>5, <1>6, CheckMoves

LEMMA CheckInspectKeeps ==
    ASSUME Inv, NEW c \in Checkers, NEW w \in Workspaces, CheckInspect(c, w) PROVE Inv'
  <1> DEFINE old == checker[c][w]
  <1>1. old \in CheckType /\ old.stage = "read" /\ row[w].status \notin {"NONE", "PROVISIONING"}
    BY CheckedHasRun DEF Inv, PlaceTypes, CheckInspect
  <1>2. ASSUME NEW status, Note(c, w, status)
        PROVE  \E new \in {[stage |-> "found", cid |-> NoContainer, status |-> status],
                           [old EXCEPT !.stage = "expired"], NoCheck} :
                 /\ checker' = [checker EXCEPT ![c][w] = new]
                 /\ new = [stage |-> "found", cid |-> NoContainer, status |-> status]
                      => status # "RUNNING"
    <2>1. CASE status # "RUNNING"
      BY <1>2, <2>1 DEF Note
    <2>2. CASE status = "RUNNING" /\ c = Poller /\ Expired(w)
      <3>1. checker' = [checker EXCEPT ![c][w] = [old EXCEPT !.stage = "expired"]]
        BY <1>2, <2>2 DEF Note
      <3>2. [old EXCEPT !.stage = "expired"].stage # "found"
        BY <1>1 DEF CheckType
      <3> QED
        BY <3>1, <3>2
    <2>3. CASE status = "RUNNING" /\ ~(c = Poller /\ Expired(w))
      <3>1. checker' = [checker EXCEPT ![c][w] = NoCheck]
        BY <1>2, <2>3 DEF Note
      <3>2. NoCheck.stage # "found"
        BY Constants
      <3> QED
        BY <3>1, <3>2
    <2> QED
      BY <2>1, <2>2, <2>3
  <1>3. /\ UNCHANGED <<row, docker, maker, stopper, contested>>
        /\ UNCHANGED <<job, records, builder, retaken>>
        /\ UNCHANGED due
    BY DEF CheckInspect, builds
  <1> HIDE DEF old
  <1>4. ASSUME NEW status \in Down \cup {"RUNNING"}, Note(c, w, status),
               faults' \in 0 .. MaxFaults, astray \subseteq astray', astray' \subseteq Workspaces,
               w \notin astray' /\ Alive(w) /\ old.cid = docker[w].id => status = "RUNNING",
               w \notin astray' /\ PlaceHolds(w) /\ Alive(w) => old.cid = docker[w].id
        PROVE  Inv'
    <2>1. PICK new \in {[stage |-> "found", cid |-> NoContainer, status |-> status],
                        [old EXCEPT !.stage = "expired"], NoCheck} :
            /\ checker' = [checker EXCEPT ![c][w] = new]
            /\ new = [stage |-> "found", cid |-> NoContainer, status |-> status]
                 => status # "RUNNING"
      BY <1>2, <1>4 DEF old
    <2>2. new \in CheckType
      BY <1>1, <1>4, Constants DEF CheckType, RowStatus, Down
    <2>3. /\ new.stage = "found" => new.status = status /\ status # "RUNNING"
          /\ new.stage \in {"read", "expired"} => new.cid = old.cid
      BY <1>1, <2>1, Constants DEF CheckType
    <2>4. PlaceTypes'
      BY <1>3, <1>4, <2>1, <2>2, CheckIsTyped DEF Inv, PlaceTypes
    <2>5. new.stage = "found" => new.status \in Down
      BY <1>4, <2>3
    <2>6. w \notin astray' /\ PlaceHolds(w) =>
            /\ new.stage \in {"read", "expired"} /\ Alive(w)' => new.cid = docker'[w].id
            /\ new.stage = "found" => ~Alive(w)'
      BY <1>3, <1>4, <2>3 DEF Alive
    <2> QED
      BY <1>1, <1>3, <1>4, <2>1, <2>2, <2>4, <2>5, <2>6, CheckMoves
  <1>5. PlaceHolds(w) /\ Alive(w) => old.cid = docker[w].id
    BY <1>1 DEF PlaceHolds, old
  <1>6. CASE (\E status \in Found(w, old.cid) : Note(c, w, status)) /\ UNCHANGED <<faults, astray>>
    <2>1. PICK status \in Found(w, old.cid) : Note(c, w, status)
      BY <1>6
    <2>2. status \in Down \cup {"RUNNING"}
      BY <2>1 DEF Found, Down
    <2>3. Alive(w) /\ old.cid = docker[w].id => status = "RUNNING"
      BY <2>1 DEF Found, Alive
    <2>4. faults' \in 0 .. MaxFaults /\ astray \subseteq astray' /\ astray' \subseteq Workspaces
      BY <1>6 DEF Inv, PlaceTypes
    <2> QED
      BY <1>4, <1>5, <2>1, <2>2, <2>3, <2>4
  <1>7. CASE Fault /\ Note(c, w, "ERROR") /\ astray' = astray \cup {w}
    <2>1. faults' \in 0 .. MaxFaults /\ astray \subseteq astray' /\ astray' \subseteq Workspaces
      BY <1>7, FaultIsTyped DEF Inv, PlaceTypes
    <2>2. "ERROR" \in Down \cup {"RUNNING"} /\ w \in astray'
      BY <1>7 DEF Down
    <2> QED
      BY <1>4, <1>7, <2>1, <2>2
  <1> QED
    BY <1>6, <1>7 DEF CheckInspect, old

LEMMA StopExpiredKeeps == ASSUME Inv, NEW w \in Workspaces, StopExpired(w) PROVE Inv'
  <1> DEFINE new == [stage |-> "found", cid |-> NoContainer, status |-> "STOPPED"]
             cid == checker[Poller][w].cid
  <1>1. /\ checker[Poller][w].stage = "expired" /\ Poller \in Checkers
        /\ StopContainer(w, cid) /\ row[w].status \notin {"NONE", "PROVISIONING"}
    BY CheckedHasRun, Constants DEF StopExpired
  <1>2. new \in CheckType /\ new.stage = "found" /\ new.status \in Down
    BY Constants DEF CheckType, RowStatus, Down
  <1>3. checker' = [checker EXCEPT ![Poller][w] = new]
    BY DEF StopExpired
  <1> HIDE DEF new, cid
  <1>4. /\ docker' \in [Workspaces -> DockerType] /\ faults' \in 0 .. MaxFaults
        /\ astray \subseteq astray' /\ astray' \subseteq Workspaces
        /\ \A v \in Workspaces \ {w} : docker'[v] = docker[v]
        /\ Alive(w)' => Alive(w) /\ docker'[w] = docker[w]
        /\ w \notin astray' /\ (Alive(w) => cid = docker[w].id) => ~Alive(w)'
    BY <1>1, StopContainerStops DEF Inv
  <1>5. PlaceTypes'
    BY <1>1, <1>2, <1>3, <1>4, CheckIsTyped DEF Inv, PlaceTypes, StopExpired
  <1>6. /\ UNCHANGED <<row, maker, stopper, contested>>
        /\ UNCHANGED <<job, records, builder, retaken>>
    BY DEF StopExpired, builds
  <1>7. w \notin astray' /\ PlaceHolds(w) => ~Alive(w)'
    BY <1>1, <1>4 DEF PlaceHolds, cid
  <1>8. docker'[w] = docker[w] \/ ~Alive(w)'
    BY <1>4
  <1> QED
    BY <1>1, <1>2, <1>3, <1>4, <1>5, <1>6, <1>7, <1>8, CheckMoves

LEMMA CheckRaisesKeeps ==
    ASSUME Inv, NEW c \in Checkers, NEW w \in Workspaces, CheckRaises(c, w) PROVE Inv'
  <1>1. /\ NoCheck \in CheckType /\ NoCheck.stage = "idle"
        /\ checker' = [checker EXCEPT ![c][w] = NoCheck]
    BY Constants DEF CheckRaises
  <1>2. PlaceTypes'
    BY <1>1, FaultIsTyped, CheckIsTyped DEF Inv, PlaceTypes, CheckRaises
  <1>3. /\ UNCHANGED <<row, docker, maker, stopper, contested, astray>>
        /\ UNCHANGED <<job, records, builder, retaken>>
    BY DEF CheckRaises, builds
  <1> QED
    BY <1>1, <1>2, <1>3, CheckMoves

LEMMA CheckCommitKeeps ==
    ASSUME Inv, NEW c \in Checkers, NEW w \in Workspaces, CheckCommit(c, w) PROVE Inv'
  <1> DEFINE status == checker[c][w].status
             new == [row[w] EXCEPT !.status = status]
  <1>1. /\ row[w] \in RowType /\ checker[c][w].stage = "found" /\ status \in Down
        /\ row[w].status \notin {"NONE", "PROVISIONING"}
    BY CheckedHasRun DEF Inv, PlaceTypes, CheckCommit, Holds, RowHolds
  <1> HIDE DEF status
  <1>2. new \in RowType /\ new.status = status
    BY <1>1 DEF RowType, RowStatus, Down
  <1>3. row' = [row EXCEPT ![w] = new] /\ checker' = [checker EXCEPT ![c][w] = NoCheck]
    BY DEF CheckCommit, status
  <1> HIDE DEF new
  <1>4. NoCheck \in CheckType /\ NoCheck.stage = "idle"
    BY Constants
  <1>5. PlaceTypes'
    <2>1. UNCHANGED <<docker, due, maker, stopper, faults, contested, astray>>
      BY DEF CheckCommit
    <2> QED
      BY <1>2, <1>3, <1>4, <2>1, CheckIsTyped DEF Inv, PlaceTypes
  <1>6. \A v \in Workspaces : row'[v] = IF v = w THEN new ELSE row[v]
    BY <1>3 DEF Inv, PlaceTypes
  <1>7. \A d \in Checkers, v \in Workspaces :
            checker'[d][v] = IF d = c /\ v = w THEN NoCheck ELSE checker[d][v]
    BY <1>3 DEF Inv, PlaceTypes
  <1>8. /\ Alive(w)' <=> Alive(w)
        /\ Launching(w)' <=> Launching(w)
        /\ Stopping(w)' <=> Stopping(w)
        /\ Taken(w)' <=> Taken(w)
        /\ SoleTaker(w)' <=> SoleTaker(w)
    BY DEF CheckCommit, Alive, Launching, Stopping, Taken, SoleTaker
  <1>9. RowHolds(w)'
    BY <1>1, <1>2, <1>4, <1>6, <1>7, <1>8 DEF Inv, Holds, RowHolds, CheckCommit, Down
  <1>10. WorkHolds(w) => WorkHolds(w)'
    BY <1>1, <1>8 DEF WorkHolds
  <1>11. PlaceHolds(w) => PlaceHolds(w)'
    <2> SUFFICES ASSUME PlaceHolds(w) PROVE PlaceHolds(w)'
      OBVIOUS
    <2>1. ~Alive(w)'
      BY <1>1, <1>8 DEF PlaceHolds
    <2> QED
      BY <1>4, <1>7, <2>1 DEF PlaceHolds, CheckCommit
  <1>12. Holds(w)'
    BY <1>9, <1>10, <1>11 DEF Inv, Holds, CheckCommit
  <1>13. \A v \in Workspaces \ {w}, d \in Checkers : checker'[d][v] = checker[d][v]
    BY <1>7
  <1> QED
    BY <1>5, <1>6, <1>12, <1>13, StepAtOne DEF CheckCommit, builds

LEMMA ContainerExitsKeeps == ASSUME Inv, NEW w \in Workspaces, ContainerExits(w) PROVE Inv'
  <1> DEFINE new == [docker[w] EXCEPT !.state = "exited"]
  <1>1. docker[w] \in DockerType
    BY DEF Inv, PlaceTypes
  <1>2. new \in DockerType /\ new.state = "exited" /\ docker' = [docker EXCEPT ![w] = new]
    BY <1>1 DEF DockerType, ContainerExits
  <1> HIDE DEF new
  <1>3. PlaceTypes'
    <2>1. UNCHANGED <<row, due, maker, stopper, checker, faults, contested, astray>>
      BY DEF ContainerExits, actors
    <2> QED
      BY <1>2, <2>1 DEF Inv, PlaceTypes
  <1>4. \A v \in Workspaces : docker'[v] = IF v = w THEN new ELSE docker[v]
    BY <1>2 DEF Inv, PlaceTypes
  <1>5. /\ ~Alive(w)'
        /\ Launching(w)' <=> Launching(w)
        /\ Stopping(w)' <=> Stopping(w)
        /\ Taken(w)' <=> Taken(w)
        /\ SoleTaker(w)' <=> SoleTaker(w)
        /\ Unchecked(w)' <=> Unchecked(w)
    BY <1>2, <1>4 DEF ContainerExits, actors, Alive, Launching, Stopping, Taken, SoleTaker, Unchecked
  <1>6. RowHolds(w)'
    BY <1>5 DEF Inv, Holds, RowHolds, ContainerExits, actors
  <1>7. WorkHolds(w) => WorkHolds(w)'
    BY <1>5 DEF WorkHolds, ContainerExits
  <1>8. PlaceHolds(w)'
    BY <1>5 DEF PlaceHolds
  <1>9. Holds(w)'
    BY <1>6, <1>7, <1>8 DEF Inv, Holds, ContainerExits
  <1> QED
    BY <1>3, <1>4, <1>9, StepAtOne DEF ContainerExits, actors, builds

LEMMA DurationEndsKeeps == ASSUME Inv, NEW w \in Workspaces, DurationEnds(w) PROVE Inv'
  <1>1. PlaceTypes'
    BY DEF Inv, PlaceTypes, DurationEnds, actors
  <1>2. /\ UNCHANGED <<row, docker, maker, stopper, checker, builder, contested, astray>>
        /\ UNCHANGED <<job, records, builder, retaken>>
    BY DEF DurationEnds, actors, builds
  <1>3. \A v \in Workspaces : Holds(v)'
    BY <1>2, OthersHold DEF Inv
  <1>4. JobsHold'
    BY <1>2, QueueHolds DEF Inv
  <1> QED
    BY <1>1, <1>3, <1>4 DEF Inv

-----------------------------------------------------------------------------
(* The build queue and its workers *)

\* A step of one worker that inserts no record: it owes one only if it did, or read none.
LEMMA WorkerGoesOn ==
    ASSUME JobsHold, NEW b \in Builders, NEW new \in BuildType, Tidy(new),
           builder' = [builder EXCEPT ![b] = new],
           new.job \in {builder[b].job, 0},
           Owes(new) => Owes(builder[b]) \/ new.saw.records = records[new.job],
           UNCHANGED <<job, records, retaken>>
    PROVE  JobsHold'
  <1>1. \A c \in Builders : builder'[c] = IF c = b THEN new ELSE builder[c]
    BY DEF JobsHold, BuildTypes
  <1>2. BuildTypes' /\ \A c \in Builders : Tidy(builder'[c])
    BY <1>1 DEF JobsHold, BuildTypes
  <1>3. ASSUME NEW j \in Jobs PROVE JobHolds(j)'
    <2>1. j # 0 /\ records[j] \in 0 .. 2
      BY DEF Jobs, JobsHold
    <2>2. \A c \in Builders : On(c, j)' => On(c, j)
      BY <1>1, <2>1 DEF On
    <2>3. \A c \in Builders : On(c, j)' /\ Owes(builder'[c]) /\ records[j] # 0 => Owes(builder[c])
      BY <1>1, <2>1 DEF On, Owes
    <2>4. JobHolds(j)
      BY DEF JobsHold
    <2>5. Alone(j) => Alone(j)'
      BY <2>2 DEF Alone
    <2> QED
      BY <2>1, <2>2, <2>3, <2>4, <2>5 DEF JobHolds
  <1> QED
    BY <1>2, <1>3 DEF JobsHold

\* A worker commits a status and, if it read none, a record; then it owes none.
LEMMA WorkerCommits ==
    ASSUME JobsHold, NEW b \in Builders, builder[b].stage \in {"progress", "recording"},
           NEW new \in BuildType, Tidy(new), builder' = [builder EXCEPT ![b] = new],
           new.job \in {builder[b].job, 0}, ~Owes(new),
           NEW status \in {"BUILDING"} \cup Finished, status # "BUILDING" => new.job = 0,
           job' = [job EXCEPT ![builder[b].job].status = Written(@, builder[b].saw.status, status)],
           records' = Recorded(b), UNCHANGED retaken
    PROVE  /\ JobsHold'
           /\ \A j \in Jobs : j \notin retaken =>
                records'[j] <= 1 /\ (job[j].status \in Finished => job'[j] = job[j])
  <1>0. PICK i \in Jobs : i = builder[b].job /\ i # 0
    BY DEF JobsHold, BuildTypes, BuildType, Tidy, Jobs
  <1> DEFINE write == Written(job[i].status, builder[b].saw.status, status)
             after == [job[i] EXCEPT !.status = write]
  <1>1. i \in Jobs /\ i # 0 /\ On(b, i)
    BY <1>0 DEF On
  <1>2. job[i] \in JobType /\ write \in {job[i].status, status}
    BY <1>1 DEF JobsHold, BuildTypes, Written
  <1>3. /\ after \in JobType /\ after.status \in {job[i].status, status}
        /\ after.leased = job[i].leased
    <2> HIDE DEF write
    <2> QED
      BY <1>2 DEF JobType, JobStatus, Active
  <1>4. job' = [job EXCEPT ![i] = after]
    BY <1>0
  <1> HIDE DEF after, write
  <1>5. \A j \in Jobs : job'[j] = IF j = i THEN after ELSE job[j]
    BY <1>4 DEF JobsHold, BuildTypes
  <1>6. \A c \in Builders : builder'[c] = IF c = b THEN new ELSE builder[c]
    BY DEF JobsHold, BuildTypes
  <1>7. BuildTypes' /\ \A c \in Builders : Tidy(builder'[c])
    BY <1>1, <1>3, <1>4, <1>6 DEF JobsHold, BuildTypes
  <1>8. \A c \in Builders, j \in Jobs :
          /\ On(c, j)' => On(c, j)
          /\ On(c, j)' /\ Owes(builder'[c]) => c # b /\ Owes(builder[c])
    BY <1>1, <1>6 DEF On, Owes, Jobs
  <1>9. JobHolds(i) /\ records[i] \in 0 .. 2
    BY <1>1 DEF JobsHold
  <1>10. Owes(builder[b]) <=> builder[b].saw.records = 0
    BY DEF Owes
  <1>11. \A j \in Jobs :
            records'[j] = IF j = i /\ Owes(builder[b]) THEN records[j] + 1 ELSE records[j]
    BY <1>0, <1>10 DEF JobsHold, Recorded
  <1>12. Owes(builder[b]) => records[i] # 2 /\ (i \notin retaken => records[i] = 0)
    BY <1>1, <1>9 DEF JobHolds
  <1>13. records' \in [Jobs -> 0 .. 2]
    <2>1. records' \in [Jobs -> Int]
      BY <1>0 DEF JobsHold, Recorded
    <2>2. \A j \in Jobs : records'[j] \in 0 .. 2
      BY <1>9, <1>11, <1>12 DEF JobsHold
    <2> QED
      BY <2>1, <2>2 DEF JobsHold, Recorded
  <1>14. ASSUME NEW j \in Jobs, j # i PROVE JobHolds(j)'
    <2>1. job'[j] = job[j] /\ records'[j] = records[j] /\ JobHolds(j)
      BY <1>5, <1>11, <1>14 DEF JobsHold
    <2> QED
      BY <1>8, <2>1 DEF JobHolds, Alone
  <1>15. JobHolds(i)'
    <2>1. after.status \notin {"NONE", "QUEUED"}
      BY <1>1, <1>3, <1>9 DEF JobHolds, Finished
    <2>2. Alone(i) => Alone(i)'
      BY <1>1, <1>8 DEF Alone
    <2>3. records'[i] = 1 =>
            \A c, d \in Builders :
                On(c, i)' /\ On(d, i)' /\ Owes(builder'[c]) /\ Owes(builder'[d]) => c = d
      <3>1. CASE Owes(builder[b])
        <4>1. \A c, d \in Builders : On(c, i) /\ On(d, i) /\ c # b /\ d # b => c = d
          BY <1>1, <1>9 DEF JobHolds
        <4> QED
          BY <1>1, <1>8, <4>1
      <3>2. CASE ~Owes(builder[b])
        BY <1>1, <1>8, <1>9, <1>11, <3>2 DEF JobHolds
      <3> QED
        BY <3>1, <3>2
    <2>4. records'[i] = 2 => \A c \in Builders : On(c, i)' => ~Owes(builder'[c])
      <3>1. CASE Owes(builder[b])
        <4>1. records'[i] = 2 => records[i] = 1
          BY <1>1, <1>9, <1>11, <3>1
        <4>2. records[i] = 1 => \A c \in Builders : On(c, i) /\ c # b => ~Owes(builder[c])
          BY <1>1, <1>9, <3>1 DEF JobHolds
        <4> QED
          BY <1>1, <1>8, <4>1, <4>2
      <3>2. CASE ~Owes(builder[b])
        BY <1>1, <1>8, <1>9, <1>11, <3>2 DEF JobHolds
      <3> QED
        BY <3>1, <3>2
    <2>5. i \notin retaken =>
            /\ Alone(i)' /\ records'[i] <= 1
            /\ \A c \in Builders : On(c, i)' =>
                 after.status = "BUILDING" /\ ~Owes(builder'[c])
      <3> SUFFICES ASSUME i \notin retaken
                   PROVE  /\ Alone(i)' /\ records'[i] <= 1
                          /\ \A c \in Builders : On(c, i)' =>
                               after.status = "BUILDING" /\ ~Owes(builder'[c])
        OBVIOUS
      <3>1. Alone(i) /\ records[i] <= 1 /\ job[i].status = "BUILDING"
        BY <1>1, <1>9 DEF JobHolds
      <3>2. records'[i] <= 1
        BY <1>1, <1>9, <1>11, <1>12, <3>1
      <3>3. \A c \in Builders : On(c, i)' => c = b
        BY <1>1, <1>8, <3>1 DEF Alone
      <3>4. On(b, i)' => new.job # 0
        BY <1>1, <1>6 DEF On
      <3>5. On(b, i)' => after.status = "BUILDING"
        BY <1>3, <3>1, <3>4
      <3> QED
        BY <1>1, <1>8, <2>2, <3>1, <3>2, <3>3, <3>5
    <2>6. /\ ~after.leased => Alone(i)'
          /\ \A a, c, d \in Builders :
                On(a, i)' /\ On(c, i)' /\ On(d, i)' => a = c \/ c = d \/ a = d
      BY <1>1, <1>3, <1>8, <1>9, <2>2 DEF JobHolds
    <2>7. job'[i] = after
      BY <1>1, <1>5
    <2> QED
      BY <2>1, <2>3, <2>4, <2>5, <2>6, <2>7 DEF JobHolds
  <1>16. JobsHold'
    BY <1>7, <1>13, <1>14, <1>15 DEF JobsHold
  <1>17. ASSUME NEW j \in Jobs, j \notin retaken
         PROVE  records'[j] <= 1 /\ (job[j].status \in Finished => job'[j] = job[j])
    <2>1. records'[j] <= 1
      BY <1>16, <1>17 DEF JobsHold, JobHolds
    <2>2. job[i].status # "BUILDING" => i \in retaken
      BY <1>1, <1>9 DEF JobHolds
    <2>3. job[j].status \in Finished => job'[j] = job[j]
      BY <1>5, <1>17, <2>2 DEF Finished
    <2> QED
      BY <2>1, <2>3
  <1> QED
    BY <1>16, <1>17

\* A worker drops what it had taken, and takes only what waits and nobody works on.
LEMMA WorkerTakes ==
    ASSUME Inv, NEW b \in Builders, NEW new, builder' = [builder EXCEPT ![b] = new],
           UNCHANGED <<row, docker, maker, stopper, checker>>,
           contested \subseteq contested', astray \subseteq astray',
           \A w \in builder[b].pending : builder[b].made[w] \in Ids => w \in astray',
           new.pending \subseteq Waiting,
           ~(new.stage = "recording" /\ new.outcome = "SUCCEEDED"),
           \A w \in new.pending \ contested' :
               /\ ~Launching(w) /\ ~Stopping(w)
               /\ \A c \in Builders \ {b} : w \notin builder[c].pending
    PROVE  \A w \in Workspaces : Holds(w)'
  <1> SUFFICES ASSUME NEW w \in Workspaces PROVE Holds(w)'
    OBVIOUS
  <1>1. \A c \in Builders : builder'[c] = IF c = b THEN new ELSE builder[c]
    BY DEF Inv, JobsHold, BuildTypes
  <1>2. /\ Alive(w)' <=> Alive(w)
        /\ Launching(w)' <=> Launching(w)
        /\ Stopping(w)' <=> Stopping(w)
        /\ Unchecked(w)' <=> Unchecked(w)
    BY DEF Alive, Launching, Stopping, Unchecked
  <1>3. Taken(w)' => Taken(w) \/ w \in new.pending
    BY <1>1 DEF Taken
  <1>4. w \in new.pending => row[w].status = "PROVISIONING"
    BY DEF Waiting
  <1>5. RowHolds(w)'
    BY <1>2, <1>3, <1>4 DEF Inv, Holds, RowHolds
  <1>6. w \notin contested' /\ WorkHolds(w) => WorkHolds(w)'
    <2> SUFFICES ASSUME w \notin contested', WorkHolds(w) PROVE WorkHolds(w)'
      OBVIOUS
    <2>1. CASE w \in new.pending
      <3>1. ~Launching(w) /\ ~Stopping(w) /\ row[w].status = "PROVISIONING"
        BY <1>4, <2>1
      <3>2. SoleTaker(w)'
        BY <1>1, <2>1 DEF SoleTaker
      <3> QED
        BY <1>2, <3>1, <3>2 DEF WorkHolds
    <2>2. CASE w \notin new.pending
      <3>1. SoleTaker(w)'
        BY <1>1, <2>2 DEF SoleTaker, WorkHolds
      <3> QED
        BY <1>2, <1>3, <2>2, <3>1 DEF WorkHolds
    <2> QED
      BY <2>1, <2>2
  <1>7. w \notin contested' \cup astray' /\ PlaceHolds(w) => PlaceHolds(w)'
    <2> SUFFICES ASSUME w \notin contested', w \notin astray', PlaceHolds(w) PROVE PlaceHolds(w)'
      OBVIOUS
    <2>1. Alive(w) /\ MadeByBuild(w) => MadeByBuild(w)'
      <3> SUFFICES ASSUME Alive(w), MadeByBuild(w) PROVE MadeByBuild(w)'
        OBVIOUS
      <3>1. PICK c \in Builders :
              /\ w \in builder[c].pending /\ builder[c].stage = "recording"
              /\ builder[c].outcome = "SUCCEEDED" /\ builder[c].made[w] = docker[w].id
        BY DEF MadeByBuild
      <3>2. docker[w].id \in Ids
        BY DEF Inv, Holds, RowHolds
      <3>3. c # b
        BY <3>1, <3>2
      <3>4. builder'[c] = builder[c]
        BY <1>1, <3>3
      <3> QED
        BY <3>1, <3>4 DEF MadeByBuild
    <2> QED
      BY <1>2, <2>1 DEF PlaceHolds
  <1> QED
    BY <1>5, <1>6, <1>7 DEF Inv, Holds

\* A worker that has taken nothing takes nothing.
LEMMA HandsStayFree ==
    ASSUME Inv, NEW b \in Builders, NEW new, builder' = [builder EXCEPT ![b] = new],
           UNCHANGED <<row, docker, maker, stopper, checker, contested, astray>>,
           builder[b].stage \in {"idle", "building", "progress"},
           new.pending = {}, new.stage # "recording"
    PROVE  \A w \in Workspaces : Holds(w)'
  <1>1. builder[b].pending = {}
    BY DEF Inv, JobsHold, Tidy
  <1> QED
    BY <1>1, WorkerTakes

LEMMA EnqueueKeepsJobs ==
    ASSUME JobsHold, NEW j \in Jobs, Enqueue(j), UNCHANGED <<builder, retaken>>
    PROVE  JobsHold'
  <1> DEFINE new == [status |-> "QUEUED", leased |-> FALSE]
  <1>1. new \in JobType /\ new.status = "QUEUED"
    BY DEF JobType, JobStatus, Active
  <1> HIDE DEF new
  <1>2. job' = [job EXCEPT ![j] = new] /\ records' = records /\ job[j].status = "NONE"
    BY DEF Enqueue, new
  <1>3. \A i \in Jobs : job'[i] = IF i = j THEN new ELSE job[i]
    BY <1>2 DEF JobsHold, BuildTypes
  <1>4. BuildTypes'
    BY <1>1, <1>2 DEF JobsHold, BuildTypes
  <1>5. \A c \in Builders : ~On(c, j)
    BY <1>2 DEF JobsHold, JobHolds
  <1>6. ASSUME NEW i \in Jobs PROVE JobHolds(i)'
    <2>1. JobHolds(i)
      BY DEF JobsHold
    <2>2. CASE i = j
      <3>1. \A c \in Builders : ~On(c, i)'
        BY <1>5, <2>2 DEF On
      <3>2. records[i] <= 1 \/ i \in retaken
        BY <2>1 DEF JobHolds
      <3> QED
        BY <1>2, <3>1, <3>2 DEF JobHolds, Alone
    <2>3. CASE i # j
      BY <1>2, <1>3, <2>1, <2>3 DEF JobHolds, Alone, On
    <2> QED
      BY <2>2, <2>3
  <1> QED
    BY <1>2, <1>4, <1>6 DEF JobsHold

LEMMA RebuildKeeps == ASSUME Inv, NEW j \in Jobs, Rebuild(j) PROVE Inv'
  <1>1. /\ UNCHANGED <<row, docker, due, maker, stopper, checker, faults, contested, astray>>
        /\ UNCHANGED <<builder, retaken>> /\ Enqueue(j)
    BY DEF Rebuild, actors
  <1>2. JobsHold'
    BY <1>1, EnqueueKeepsJobs DEF Inv
  <1>3. PlaceTypes'
    BY <1>1 DEF Inv, PlaceTypes
  <1>4. \A w \in Workspaces : Holds(w)'
    BY <1>1, OthersHold DEF Inv
  <1> QED
    BY <1>2, <1>3, <1>4 DEF Inv

LEMMA DeployKeeps ==
    ASSUME Inv, NEW w \in Workspaces, NEW j \in Jobs, DeployFromGitHub(w, j) PROVE Inv'
  <1> DEFINE new == [maker[w] EXCEPT !.stage = "waits"]
  <1>1. maker[w] \in MakerType /\ maker[w].stage = "none"
    BY DEF Inv, PlaceTypes, DeployFromGitHub
  <1>2. new \in MakerType /\ new.stage = "waits" /\ maker' = [maker EXCEPT ![w] = new]
    BY <1>1 DEF MakerType, DeployFromGitHub
  <1> HIDE DEF new
  <1>3. UNCHANGED <<row, docker, due, stopper, checker, builder, faults, contested, astray, retaken>>
    BY DEF DeployFromGitHub
  <1>4. JobsHold'
    BY <1>3, EnqueueKeepsJobs DEF Inv, DeployFromGitHub
  <1>5. PlaceTypes'
    BY <1>2, <1>3 DEF Inv, PlaceTypes
  <1>6. \A v \in Workspaces : maker'[v] = IF v = w THEN new ELSE maker[v]
    BY <1>2 DEF Inv, PlaceTypes
  <1>7. ASSUME NEW v \in Workspaces, v # w PROVE Holds(v)'
    BY <1>3, <1>6, <1>7, OthersHold DEF Inv
  <1>8. Holds(w)'
    <2>1. /\ Alive(w)' <=> Alive(w)
          /\ Launching(w)' <=> Launching(w)
          /\ Stopping(w)' <=> Stopping(w)
          /\ Taken(w)' <=> Taken(w)
          /\ SoleTaker(w)' <=> SoleTaker(w)
          /\ Unchecked(w)' <=> Unchecked(w)
      BY <1>1, <1>2, <1>3, <1>6 DEF Alive, Launching, Stopping, Taken, SoleTaker, Unchecked
    <2>2. row[w].status = "NONE"
      BY <1>1 DEF Inv, Holds, RowHolds
    <2>3. RowHolds(w)'
      BY <1>3, <2>1, <2>2 DEF Inv, Holds, RowHolds
    <2>4. WorkHolds(w) => WorkHolds(w)'
      BY <1>3, <2>1 DEF WorkHolds
    <2>5. PlaceHolds(w) => PlaceHolds(w)'
      BY <1>3, <2>1, <2>2 DEF PlaceHolds
    <2> QED
      BY <1>3, <2>3, <2>4, <2>5 DEF Inv, Holds
  <1> QED
    BY <1>4, <1>5, <1>7, <1>8 DEF Inv

LEMMA LeaseExpiresKeeps == ASSUME Inv, NEW j \in Jobs, LeaseExpires(j) PROVE Inv'
  <1> DEFINE new == [job[j] EXCEPT !.leased = FALSE]
  <1>1. job[j] \in JobType
    BY DEF Inv, JobsHold, BuildTypes
  <1>2. new \in JobType /\ new.status = job[j].status /\ job' = [job EXCEPT ![j] = new]
    BY <1>1 DEF JobType, LeaseExpires
  <1> HIDE DEF new
  <1>3. /\ UNCHANGED <<row, docker, due, records, maker, stopper, checker, faults>>
        /\ UNCHANGED <<builder, contested, astray, retaken>>
    BY DEF LeaseExpires, actors
  <1>4. \A i \in Jobs : job'[i] = IF i = j THEN new ELSE job[i]
    BY <1>2 DEF Inv, JobsHold, BuildTypes
  <1>5. Alone(j)
    BY DEF LeaseExpires, Inv, JobsHold, JobHolds, Alone, On
  <1>6. ASSUME NEW i \in Jobs PROVE JobHolds(i)'
    <2>1. JobHolds(i) /\ job'[i].status = job[i].status /\ (i # j => job'[i] = job[i])
      BY <1>2, <1>4 DEF Inv, JobsHold
    <2> QED
      BY <1>3, <1>5, <2>1 DEF JobHolds, Alone, On
  <1>7. JobsHold'
    BY <1>2, <1>3, <1>6 DEF Inv, JobsHold, BuildTypes
  <1>8. PlaceTypes'
    BY <1>3 DEF Inv, PlaceTypes
  <1>9. \A w \in Workspaces : Holds(w)'
    BY <1>3, OthersHold DEF Inv
  <1> QED
    BY <1>7, <1>8, <1>9 DEF Inv

LEMMA AcquireJobKeeps ==
    ASSUME Inv, NEW b \in Builders, NEW j \in Jobs, AcquireJob(b, j) PROVE Inv'
  <1> DEFINE new == [NoBuild EXCEPT !.stage = "building", !.job = j]
             claim == [status |-> "BUILDING", leased |-> TRUE]
  <1>1. new \in BuildType /\ new.stage = "building" /\ new.job = j /\ new.pending = {} /\ j # 0
    <2>1. j # 0
      BY DEF Jobs
    <2>2. new \in BuildType /\ new.stage = "building" /\ new.job = j /\ new.pending = NoBuild.pending
      BY Constants DEF BuildType
    <2> QED
      BY <2>1, <2>2, Constants
  <1>2. claim \in JobType /\ claim.status = "BUILDING" /\ claim.leased
    BY DEF JobType, JobStatus, Active
  <1> HIDE DEF new, claim
  <1>3. /\ builder' = [builder EXCEPT ![b] = new] /\ job' = [job EXCEPT ![j] = claim]
        /\ builder[b].stage = "idle" /\ builder[b].job = 0
    BY DEF AcquireJob, new, claim, Inv, JobsHold, Tidy
  <1>4. UNCHANGED <<row, docker, due, records, maker, stopper, checker, faults, contested, astray>>
    BY DEF AcquireJob
  <1>5. /\ retaken \subseteq retaken' /\ retaken' \subseteq Jobs
        /\ \A i \in Jobs \ {j} : i \in retaken' => i \in retaken
        /\ j \notin retaken' => \A c \in Builders : ~On(c, j)
    BY DEF AcquireJob, Inv, JobsHold, BuildTypes, On
  <1>6. \A i \in Jobs : job'[i] = IF i = j THEN claim ELSE job[i]
    BY <1>3 DEF Inv, JobsHold, BuildTypes
  <1>7. \A c \in Builders : builder'[c] = IF c = b THEN new ELSE builder[c]
    BY <1>3 DEF Inv, JobsHold, BuildTypes
  <1>8. Alone(j)
    BY DEF AcquireJob, Claimable, Inv, JobsHold, JobHolds, Alone
  <1>9. /\ \A c \in Builders, i \in Jobs : i # j => (On(c, i)' => On(c, i))
        /\ \A c \in Builders : On(c, j)' => c = b \/ On(c, j)
        /\ \A c \in Builders : Owes(builder'[c]) => c # b /\ Owes(builder[c])
    BY <1>1, <1>7 DEF On, Owes
  <1>10. ASSUME NEW i \in Jobs PROVE JobHolds(i)'
    <2>1. JobHolds(i) /\ records'[i] = records[i]
      BY <1>4 DEF Inv, JobsHold
    <2>2. CASE i = j
      <3>1. /\ job'[i].status = "BUILDING" /\ job'[i].leased
        BY <1>2, <1>6, <2>2
      <3>2. \A a, c, d \in Builders : On(a, i)' /\ On(c, i)' /\ On(d, i)' => a = c \/ c = d \/ a = d
        BY <1>8, <1>9, <2>2 DEF Alone
      <3>3. records[i] = 1 => \A c, d \in Builders :
              On(c, i)' /\ On(d, i)' /\ Owes(builder'[c]) /\ Owes(builder'[d]) => c = d
        BY <1>9, <2>1, <2>2 DEF JobHolds
      <3>4. records[i] = 2 => \A c \in Builders : On(c, i)' => ~Owes(builder'[c])
        BY <1>9, <2>1, <2>2 DEF JobHolds
      <3>5. i \notin retaken' =>
              /\ Alone(i)' /\ records[i] <= 1
              /\ \A c \in Builders : On(c, i)' => ~Owes(builder'[c])
        <4> SUFFICES ASSUME i \notin retaken'
                     PROVE  /\ Alone(i)' /\ records[i] <= 1
                            /\ \A c \in Builders : On(c, i)' => ~Owes(builder'[c])
          OBVIOUS
        <4>1. \A c \in Builders : On(c, i)' => c = b
          BY <1>5, <1>9, <2>2
        <4>2. records[i] <= 1
          BY <1>5, <2>1 DEF JobHolds
        <4> QED
          BY <1>9, <4>1, <4>2 DEF Alone
      <3> QED
        BY <2>1, <3>1, <3>2, <3>3, <3>4, <3>5 DEF JobHolds
    <2>3. CASE i # j
      <3>1. job'[i] = job[i] /\ (i \notin retaken' => i \notin retaken)
        BY <1>5, <1>6, <2>3
      <3> QED
        BY <1>9, <2>1, <2>3, <3>1 DEF JobHolds, Alone
    <2> QED
      BY <2>2, <2>3
  <1>11. JobsHold'
    <2>1. \A c \in Builders : Tidy(builder'[c])
      BY <1>1, <1>7 DEF Inv, JobsHold, Tidy
    <2> QED
      BY <1>1, <1>2, <1>3, <1>4, <1>5, <1>10, <2>1 DEF Inv, JobsHold, BuildTypes
  <1>12. \A w \in Workspaces : Holds(w)'
    BY <1>1, <1>3, <1>4, HandsStayFree
  <1>13. PlaceTypes'
    BY <1>4 DEF Inv, PlaceTypes
  <1> QED
    BY <1>11, <1>12, <1>13 DEF Inv

\* What a worker reads of its job, when a record is not found twice.
LEMMA SeenIsTyped ==
    ASSUME JobsHold, NEW b \in Builders, builder[b].stage # "idle",
           records[builder[b].job] <= 1
    PROVE  /\ Seen(b) \in SawType /\ Seen(b).records = records[builder[b].job]
           /\ builder[b].job \in Jobs
  <1>1. builder[b].job \in Jobs
    BY DEF JobsHold, BuildTypes, BuildType, Tidy
  <1>2. job[builder[b].job].status \in JobStatus /\ records[builder[b].job] \in 0 .. 1
    BY <1>1 DEF JobsHold, BuildTypes, JobType
  <1> QED
    BY <1>1, <1>2 DEF Seen, SawType

LEMMA ProgressReadKeeps == ASSUME Inv, NEW b \in Builders, ProgressRead(b) PROVE Inv'
  <1> DEFINE old == builder[b]
             new == [old EXCEPT !.stage = "progress", !.saw = Seen(b), !.reports = @ + 1]
  <1>1. /\ old \in BuildType /\ old.stage = "building" /\ Tidy(old)
        /\ old.reports < MaxReports /\ old.reports \in 0 .. MaxReports
    BY DEF Inv, JobsHold, BuildTypes, BuildType, ProgressRead
  <1>2. Seen(b) \in SawType /\ Seen(b).records = records[old.job] /\ old.job \in Jobs
    BY <1>1, SeenIsTyped DEF Inv, ProgressRead
  <1>3. old.reports + 1 \in 0 .. MaxReports
    BY <1>1, WorkspacesAssumption
  <1>4. builder' = [builder EXCEPT ![b] = new]
    BY DEF Inv, JobsHold, BuildTypes, ProgressRead
  <1>5. /\ new \in BuildType /\ new.stage = "progress" /\ new.job = old.job
        /\ new.pending = old.pending /\ new.saw = Seen(b)
    <2> HIDE DEF old
    <2> QED
      BY <1>1, <1>2, <1>3 DEF BuildType
  <1> HIDE DEF new, old
  <1>6. Tidy(new) /\ new.pending = {}
    BY <1>1, <1>5 DEF Tidy
  <1>7. /\ UNCHANGED <<row, docker, due, maker, stopper, checker, faults, contested, astray>>
        /\ UNCHANGED <<job, records, retaken>>
    BY DEF ProgressRead, builds
  <1>8. JobsHold'
    <2>1. new.job \in {builder[b].job, 0} /\ new.saw.records = records[new.job]
      BY <1>2, <1>5 DEF old
    <2> QED
      BY <1>4, <1>5, <1>6, <1>7, <2>1, WorkerGoesOn DEF Inv
  <1>9. \A w \in Workspaces : Holds(w)'
    BY <1>1, <1>4, <1>5, <1>6, <1>7, HandsStayFree DEF old
  <1>10. PlaceTypes'
    BY <1>7 DEF Inv, PlaceTypes
  <1> QED
    BY <1>8, <1>9, <1>10 DEF Inv

LEMMA ProgressCommitKeeps ==
    ASSUME Inv, NEW b \in Builders, ProgressCommit(b)
    PROVE  /\ Inv'
           /\ \A j \in Jobs : j \notin retaken =>
                records'[j] <= 1 /\ (job[j].status \in Finished => job'[j] = job[j])
  <1> DEFINE old == builder[b]
             new == [old EXCEPT !.stage = "building", !.saw = NoBuild.saw]
  <1>1. old \in BuildType /\ old.stage = "progress" /\ Tidy(old)
    BY DEF Inv, JobsHold, BuildTypes, ProgressCommit
  <1>2. builder' = [builder EXCEPT ![b] = new]
    BY DEF Inv, JobsHold, BuildTypes, ProgressCommit
  <1>3. /\ new \in BuildType /\ new.stage = "building" /\ new.job = old.job
        /\ new.pending = old.pending
    <2> HIDE DEF old
    <2> QED
      BY <1>1, Constants DEF BuildType
  <1> HIDE DEF new, old
  <1>4. Tidy(new) /\ new.pending = {} /\ ~Owes(new)
    BY <1>1, <1>3 DEF Tidy, Owes
  <1>5. UNCHANGED <<row, docker, due, maker, stopper, checker, faults, contested, astray, retaken>>
    BY DEF ProgressCommit
  <1>6. /\ job' = [job EXCEPT ![builder[b].job].status = Written(@, builder[b].saw.status, "BUILDING")]
        /\ records' = Recorded(b)
    BY DEF ProgressCommit
  <1>7. new.job \in {builder[b].job, 0} /\ builder[b].stage \in {"progress", "recording"}
    BY <1>1, <1>3 DEF old
  <1>8. JobsHold' /\ \A j \in Jobs : j \notin retaken =>
            records'[j] <= 1 /\ (job[j].status \in Finished => job'[j] = job[j])
    BY <1>2, <1>3, <1>4, <1>5, <1>6, <1>7, WorkerCommits DEF Inv
  <1>9. \A w \in Workspaces : Holds(w)'
    BY <1>1, <1>2, <1>3, <1>4, <1>5, HandsStayFree DEF old
  <1>10. PlaceTypes'
    BY <1>5 DEF Inv, PlaceTypes
  <1> QED
    BY <1>8, <1>9, <1>10 DEF Inv

LEMMA ResultReadKeeps ==
    ASSUME Inv, NEW b \in Builders, NEW outcome \in Finished, ResultRead(b, outcome)
    PROVE  Inv'
  <1> DEFINE old == builder[b]
             stage == IF outcome = "SUCCEEDED" THEN "launching" ELSE "recording"
             new == [old EXCEPT !.stage = stage, !.outcome = outcome, !.pending = Waiting,
                                !.reports = 0, !.saw = Seen(b)]
  <1>1. old \in BuildType /\ old.stage = "building" /\ Tidy(old)
    BY DEF Inv, JobsHold, BuildTypes, ResultRead
  <1>2. Seen(b) \in SawType /\ Seen(b).records = records[old.job] /\ old.job \in Jobs
    BY <1>1, SeenIsTyped DEF Inv, ResultRead
  <1>3. builder' = [builder EXCEPT ![b] = new]
    BY DEF Inv, JobsHold, BuildTypes, ResultRead
  <1>4. /\ stage \in {"launching", "recording"} /\ (stage = "launching" <=> outcome = "SUCCEEDED")
        /\ Waiting \subseteq Workspaces /\ 0 \in 0 .. MaxReports
    BY WorkspacesAssumption DEF Waiting
  <1>5. /\ new \in BuildType /\ new.stage = stage /\ new.job = old.job /\ new.outcome = outcome
        /\ new.pending = Waiting /\ new.saw = Seen(b)
    <2> HIDE DEF old, stage
    <2> QED
      BY <1>1, <1>2, <1>4 DEF BuildType
  <1> HIDE DEF new, old, stage
  <1>6. Tidy(new)
    BY <1>1, <1>4, <1>5 DEF Tidy
  <1>7. /\ UNCHANGED <<row, docker, due, maker, stopper, checker, faults, astray>>
        /\ UNCHANGED <<job, records, retaken>>
    BY DEF ResultRead, builds
  <1>8. JobsHold'
    <2>1. new.job \in {builder[b].job, 0} /\ new.saw.records = records[new.job]
      BY <1>2, <1>5 DEF old
    <2> QED
      BY <1>3, <1>5, <1>6, <1>7, <2>1, WorkerGoesOn DEF Inv
  <1>9. contested \subseteq contested' /\ contested' \subseteq Workspaces
    BY <1>4 DEF ResultRead, Contend, Inv, PlaceTypes
  <1>10. \A w \in Workspaces : Holds(w)'
    <2>1. builder[b].pending = {}
      BY <1>1 DEF Tidy, old
    <2>2. \A w \in new.pending \ contested' :
            /\ ~Launching(w) /\ ~Stopping(w)
            /\ \A c \in Builders \ {b} : w \notin builder[c].pending
      BY <1>5 DEF ResultRead, Contend, Taken
    <2>3. ~(new.stage = "recording" /\ new.outcome = "SUCCEEDED") /\ new.pending \subseteq Waiting
      BY <1>4, <1>5
    <2> QED
      BY <1>3, <1>7, <1>9, <2>1, <2>2, <2>3, WorkerTakes
  <1>11. PlaceTypes'
    BY <1>7, <1>9 DEF Inv, PlaceTypes
  <1> QED
    BY <1>8, <1>10, <1>11 DEF Inv

LEMMA ResultRaisesKeeps == ASSUME Inv, NEW b \in Builders, ResultRaises(b) PROVE Inv'
  <1>1. /\ builder' = [builder EXCEPT ![b] = NoBuild] /\ builder[b].stage = "building"
        /\ UNCHANGED <<row, docker, due, maker, stopper, checker, faults, contested, astray>>
        /\ UNCHANGED <<job, records, retaken>>
    BY DEF ResultRaises, builds
  <1>2. Tidy(NoBuild) /\ ~Owes(NoBuild)
    BY Constants DEF Tidy, Owes
  <1>3. JobsHold'
    BY <1>1, <1>2, Constants, WorkerGoesOn DEF Inv
  <1>4. \A w \in Workspaces : Holds(w)'
    BY <1>1, Constants, HandsStayFree
  <1>5. PlaceTypes'
    BY <1>1 DEF Inv, PlaceTypes
  <1> QED
    BY <1>3, <1>4, <1>5 DEF Inv

LEMMA BuilderDiesKeeps == ASSUME Inv, NEW b \in Builders, BuilderDies(b) PROVE Inv'
  <1>1. /\ builder' = [builder EXCEPT ![b] = NoBuild]
        /\ UNCHANGED <<row, docker, due, maker, stopper, checker, contested>>
        /\ UNCHANGED <<job, records, retaken>> /\ faults' \in 0 .. MaxFaults
        /\ astray' = astray \cup {w \in builder[b].pending : builder[b].made[w] \in Ids}
    BY FaultIsTyped DEF BuilderDies, builds, Inv
  <1>2. Tidy(NoBuild) /\ ~Owes(NoBuild)
    BY Constants DEF Tidy, Owes
  <1>3. JobsHold'
    BY <1>1, <1>2, Constants, WorkerGoesOn DEF Inv
  <1>4. \A w \in Workspaces : Holds(w)'
    BY <1>1, Constants, WorkerTakes
  <1>5. PlaceTypes'
    <2>1. builder[b].pending \subseteq Workspaces
      BY DEF Inv, JobsHold, BuildTypes, BuildType
    <2> QED
      BY <1>1, <2>1 DEF Inv, PlaceTypes
  <1> QED
    BY <1>3, <1>4, <1>5 DEF Inv

LEMMA ResultCommitRaisesKeeps ==
    ASSUME Inv, NEW b \in Builders, ResultCommitRaises(b) PROVE Inv'
  <1> DEFINE failure == [NoBuild EXCEPT !.stage = "recording", !.job = builder[b].job,
                                        !.saw = Seen(b), !.outcome = "FAILED", !.pending = Waiting]
  <1>1. /\ builder[b].stage = "recording" /\ builder[b].job # 0 /\ faults' \in 0 .. MaxFaults
        /\ UNCHANGED <<row, docker, due, maker, stopper, checker>>
        /\ UNCHANGED <<job, records, retaken>>
        /\ astray' = astray \cup {w \in builder[b].pending : builder[b].made[w] \in Ids}
        /\ contested \subseteq contested' /\ contested' \subseteq Workspaces
    BY FaultIsTyped DEF ResultCommitRaises, builds, Waiting, Inv, PlaceTypes, JobsHold, Tidy
  <1>2. PICK new \in BuildType :
          /\ builder' = [builder EXCEPT ![b] = new] /\ Tidy(new) /\ new.outcome # "SUCCEEDED"
          /\ new.job \in {builder[b].job, 0} /\ new.pending \subseteq Waiting
          /\ Owes(new) => new.saw.records = records[new.job]
          /\ new.pending # {} => RecordsFailure(b)
    <2>1. CASE RecordsFailure(b)
      <3>1. Seen(b) \in SawType /\ Seen(b).records = records[builder[b].job] /\ builder[b].job \in Jobs
        BY <1>1, <2>1, SeenIsTyped DEF RecordsFailure, Inv
      <3>2. Waiting \in SUBSET Workspaces /\ "FAILED" \in Finished
        BY DEF Waiting, Finished
      <3>3. /\ failure \in BuildType /\ failure.stage = "recording" /\ failure.outcome = "FAILED"
            /\ failure.job = builder[b].job /\ failure.pending = Waiting /\ failure.saw = Seen(b)
        BY <3>1, <3>2, Constants DEF BuildType
      <3>4. builder' = [builder EXCEPT ![b] = failure]
        BY <2>1 DEF ResultCommitRaises
      <3> HIDE DEF failure
      <3>5. Tidy(failure)
        BY <1>1, <3>3 DEF Tidy, Finished
      <3> QED
        BY <2>1, <3>1, <3>3, <3>4, <3>5
    <2>2. CASE ~RecordsFailure(b)
      <3>1. builder' = [builder EXCEPT ![b] = NoBuild]
        BY <2>2 DEF ResultCommitRaises
      <3>2. NoBuild.outcome = "none"
        BY DEF NoBuild
      <3> QED
        BY <3>1, <3>2, Constants DEF Tidy, Owes
    <2> QED
      BY <2>1, <2>2
  <1>3. JobsHold'
    BY <1>1, <1>2, WorkerGoesOn DEF Inv
  <1>4. \A w \in new.pending \ contested' :
          /\ ~Launching(w) /\ ~Stopping(w)
          /\ \A c \in Builders \ {b} : w \notin builder[c].pending
    BY <1>2 DEF ResultCommitRaises
  <1>5. \A w \in Workspaces : Holds(w)'
    BY <1>1, <1>2, <1>4, WorkerTakes
  <1>6. PlaceTypes'
    <2>1. builder[b].pending \subseteq Workspaces
      BY DEF Inv, JobsHold, BuildTypes, BuildType
    <2> QED
      BY <1>1, <2>1 DEF Inv, PlaceTypes
  <1> QED
    BY <1>3, <1>5, <1>6 DEF Inv

LEMMA LaunchWaitingKeeps == ASSUME Inv, NEW b \in Builders, LaunchWaiting(b) PROVE Inv'
  <1> DEFINE old == builder[b]
  <1>1. /\ old \in BuildType /\ old.stage = "launching" /\ old.outcome = "SUCCEEDED" /\ Tidy(old)
        /\ old.pending \subseteq Workspaces
        /\ \A w \in old.pending : docker[w].id < MaxLaunches
    BY DEF Inv, JobsHold, BuildTypes, BuildType, LaunchWaiting, Tidy
  <1>2. PICK failed \in SUBSET old.pending :
         /\ failed # {} => Fault
         /\ failed = {} => UNCHANGED faults
         /\ docker' = [w \in Workspaces |->
              CASE w \in failed -> Removed(w)
                [] w \in old.pending \ failed -> Launched(w)
                [] OTHER -> docker[w]]
         /\ builder' = [builder EXCEPT ![b].stage = "recording",
              ![b].made = [w \in Workspaces |->
                 CASE w \in failed -> Mock
                   [] w \in old.pending \ failed -> docker[w].id + 1
                   [] OTHER -> NoContainer]]
    BY DEF LaunchWaiting
  <1> DEFINE made == [w \in Workspaces |->
                 CASE w \in failed -> Mock
                   [] w \in old.pending \ failed -> docker[w].id + 1
                   [] OTHER -> NoContainer]
             new == [old EXCEPT !.stage = "recording", !.made = made]
  <1>3. \A w \in Workspaces : docker[w] \in DockerType /\ docker[w].id \in 0 .. MaxLaunches
    BY DEF Inv, PlaceTypes, DockerType
  <1>4. \A w \in old.pending :
          /\ docker[w].id + 1 \in Ids /\ docker[w].id + 1 \in Cids
          /\ Launched(w) \in DockerType /\ Launched(w).state = "running"
          /\ Launched(w).id = docker[w].id + 1
    <2> TAKE w \in old.pending
    <2>1. docker[w].id + 1 \in Ids /\ docker[w].id + 1 \in 0 .. MaxLaunches
      BY <1>1, <1>3, WorkspacesAssumption DEF Ids
    <2>2. docker[w].id + 1 \in Cids
      BY <2>1, Constants
    <2> DEFINE id == docker[w].id + 1
    <2> HIDE DEF id
    <2>3. [id |-> id, state |-> "running"] \in DockerType
      BY <2>1 DEF DockerType, id
    <2> QED
      BY <2>1, <2>2, <2>3 DEF Launched, id
  <1>5. \A w \in Workspaces : Removed(w) \in DockerType /\ Removed(w).state = "absent"
    BY <1>3 DEF Removed, DockerType
  <1> HIDE DEF old
  <1>6. made \in [Workspaces -> Cids]
    BY <1>1, <1>2, <1>4, Constants
  <1>7. \A w \in old.pending \ failed : made[w] = docker[w].id + 1
    BY <1>1, <1>2
  <1>8. builder' = [builder EXCEPT ![b] = new]
    BY <1>2 DEF old, Inv, JobsHold, BuildTypes
  <1> HIDE DEF made
  <1>9. /\ new \in BuildType /\ new.stage = "recording" /\ new.outcome = "SUCCEEDED"
        /\ new.job = old.job /\ new.pending = old.pending /\ new.made = made /\ new.saw = old.saw
    BY <1>1, <1>6 DEF BuildType
  <1> HIDE DEF new
  <1>10. /\ UNCHANGED <<row, due, maker, stopper, checker, contested, astray>>
         /\ UNCHANGED <<job, records, retaken>>
    BY DEF LaunchWaiting, builds
  <1>11. JobsHold'
    <2>1. Tidy(new)
      BY <1>1, <1>9 DEF Tidy, Finished
    <2>2. new.job \in {builder[b].job, 0} /\ (Owes(new) => Owes(builder[b]))
      BY <1>1, <1>9 DEF Owes, old
    <2> QED
      BY <1>8, <1>9, <1>10, <2>1, <2>2, WorkerGoesOn DEF Inv
  <1>12. PlaceTypes'
    <2>1. faults' \in 0 .. MaxFaults
      BY <1>2, FaultIsTyped DEF Inv, PlaceTypes
    <2>2. docker' \in [Workspaces -> DockerType]
      BY <1>1, <1>2, <1>3, <1>4, <1>5
    <2> QED
      BY <1>10, <2>1, <2>2 DEF Inv, PlaceTypes
  <1>13. \A c \in Builders : builder'[c] = IF c = b THEN new ELSE builder[c]
    BY <1>8 DEF Inv, JobsHold, BuildTypes
  <1>14. ASSUME NEW w \in Workspaces PROVE Holds(w)'
    <2>1. /\ Launching(w)' <=> Launching(w)
          /\ Stopping(w)' <=> Stopping(w)
          /\ Taken(w)' <=> Taken(w)
          /\ SoleTaker(w)' <=> SoleTaker(w)
          /\ Unchecked(w)' <=> Unchecked(w)
      BY <1>9, <1>10, <1>13 DEF Launching, Stopping, Taken, SoleTaker, Unchecked, old
    <2>2. CASE w \notin old.pending
      <3>1. docker'[w] = docker[w]
        BY <1>2, <2>2
      <3>2. Alive(w)' <=> Alive(w)
        BY <3>1 DEF Alive
      <3>3. MadeByBuild(w) => MadeByBuild(w)'
        BY <1>13, <2>2, <3>1 DEF MadeByBuild, old
      <3>4. RowHolds(w)'
        BY <1>10, <2>1, <3>1, <3>2 DEF Inv, Holds, RowHolds
      <3>5. WorkHolds(w) => WorkHolds(w)'
        BY <1>10, <2>1 DEF WorkHolds
      <3>6. PlaceHolds(w) => PlaceHolds(w)'
        BY <1>10, <3>1, <3>2, <3>3 DEF PlaceHolds
      <3> QED
        BY <1>10, <3>4, <3>5, <3>6 DEF Inv, Holds
    <2>3. CASE w \in old.pending
      <3>1. docker'[w] = IF w \in failed THEN Removed(w) ELSE Launched(w)
        BY <1>2, <2>3
      <3>2. /\ Alive(w)' => w \notin failed /\ docker'[w].id = docker[w].id + 1
            /\ Alive(w)' => docker'[w].id \in Ids
        BY <1>4, <1>5, <2>3, <3>1 DEF Alive
      <3>3. Alive(w)' => MadeByBuild(w)'
        <4> HAVE Alive(w)'
        <4>1. new.made[w] = docker'[w].id /\ w \in new.pending
          BY <1>7, <1>9, <2>3, <3>2
        <4> QED
          BY <1>9, <1>13, <4>1 DEF MadeByBuild
      <3>4. RowHolds(w)'
        BY <1>10, <2>1, <3>2 DEF Inv, Holds, RowHolds
      <3>5. WorkHolds(w) => WorkHolds(w)'
        BY <1>10, <2>1 DEF WorkHolds
      <3>6. WorkHolds(w) => PlaceHolds(w)'
        <4> SUFFICES ASSUME WorkHolds(w) PROVE PlaceHolds(w)'
          OBVIOUS
        <4>1. row[w].status = "PROVISIONING" /\ ~Stopping(w)
          BY <2>3 DEF WorkHolds, Taken, old
        <4>2. stopper[w].stage = "idle" /\ \A c \in Checkers : checker[c][w].stage = "idle"
          BY <4>1 DEF Stopping, Inv, Holds, RowHolds, Unchecked
        <4> QED
          BY <1>10, <3>3, <4>1, <4>2 DEF PlaceHolds, Down
      <3> QED
        BY <1>10, <3>4, <3>5, <3>6 DEF Inv, Holds
    <2> QED
      BY <2>2, <2>3
  <1> QED
    BY <1>11, <1>12, <1>14 DEF Inv

LEMMA ResultCommitKeeps ==
    ASSUME Inv, NEW b \in Builders, ResultCommit(b)
    PROVE  /\ Inv'
           /\ \A j \in Jobs : j \notin retaken =>
                records'[j] <= 1 /\ (job[j].status \in Finished => job'[j] = job[j])
           /\ \A w \in Workspaces : w \notin contested /\ row[w].status \in Down => row'[w] = row[w]
  <1> DEFINE old == builder[b]
  <1>1. old \in BuildType /\ old.stage = "recording" /\ Tidy(old)
    BY DEF Inv, JobsHold, BuildTypes, ResultCommit
  <1>2. /\ old.pending \subseteq Workspaces /\ \A w \in Workspaces : old.made[w] \in Cids
        /\ old.outcome \in Finished \cup {"none"}
    <2> HIDE DEF old
    <2> QED
      BY <1>1 DEF BuildType
  <1>3. Tidy(NoBuild) /\ ~Owes(NoBuild)
    BY Constants DEF Tidy, Owes
  <1>4. /\ builder' = [builder EXCEPT ![b] = NoBuild]
        /\ UNCHANGED <<docker, due, maker, stopper, checker, faults, contested, astray, retaken>>
        /\ records' = Recorded(b)
        /\ job' = [job EXCEPT ![old.job].status = Written(@, old.saw.status, old.outcome)]
    BY DEF ResultCommit
  <1>5. JobsHold' /\ \A j \in Jobs : j \notin retaken =>
            records'[j] <= 1 /\ (job[j].status \in Finished => job'[j] = job[j])
    <2>1. old.outcome \in Finished
      BY <1>1, <1>2 DEF Tidy
    <2> QED
      BY <1>1, <1>3, <1>4, <2>1, Constants, WorkerCommits DEF Inv
  <1> HIDE DEF old
  <1>6. \A w \in Workspaces :
            row'[w] = IF w \in old.pending THEN Settled(b, w) ELSE row[w]
    BY DEF ResultCommit, old
  <1>7. \A w \in Workspaces :
          /\ Settled(b, w) \in RowType
          /\ IF old.outcome = "SUCCEEDED"
             THEN Settled(b, w).status = "RUNNING" /\ Settled(b, w).cid = old.made[w]
             ELSE Settled(b, w).status = "ERROR"
    <2> TAKE w \in Workspaces
    <2>1. row[w] \in RowType
      BY DEF Inv, PlaceTypes
    <2>2. CASE old.outcome = "SUCCEEDED"
      <3>1. Settled(b, w) = [status |-> "RUNNING", cid |-> old.made[w]]
        BY <2>2 DEF Settled, old
      <3> QED
        BY <1>2, <2>2, <3>1 DEF RowType, RowStatus
    <2>3. CASE old.outcome # "SUCCEEDED"
      <3>1. Settled(b, w) = [row[w] EXCEPT !.status = "ERROR"]
        BY <2>3 DEF Settled, old
      <3> QED
        BY <2>1, <2>3, <3>1 DEF RowType, RowStatus
    <2> QED
      BY <2>2, <2>3
  <1>8. PlaceTypes'
    <2>1. row' \in [Workspaces -> RowType]
      <3>1. \A w \in Workspaces : row[w] \in RowType
        BY DEF Inv, PlaceTypes
      <3> QED
        BY <1>7, <3>1 DEF ResultCommit
    <2> QED
      BY <1>4, <2>1 DEF Inv, PlaceTypes
  <1>9. \A c \in Builders : builder'[c] = IF c = b THEN NoBuild ELSE builder[c]
    BY <1>4 DEF Inv, JobsHold, BuildTypes
  <1>10. ASSUME NEW w \in Workspaces
         PROVE  Holds(w)' /\ (w \notin contested /\ row[w].status \in Down => row'[w] = row[w])
    <2>1. /\ Alive(w)' <=> Alive(w)
          /\ Launching(w)' <=> Launching(w)
          /\ Stopping(w)' <=> Stopping(w)
          /\ Unchecked(w)' <=> Unchecked(w)
      BY <1>4 DEF Alive, Launching, Stopping, Unchecked
    <2>2. /\ Taken(w)' => Taken(w)
          /\ SoleTaker(w) => SoleTaker(w)'
      BY <1>9, Constants DEF Taken, SoleTaker
    <2>3. CASE w \notin old.pending
      <3>1. row'[w] = row[w]
        BY <1>6, <2>3
      <3>2. MadeByBuild(w) => MadeByBuild(w)'
        BY <1>4, <1>9, <2>3 DEF MadeByBuild, old
      <3>3. Taken(w)' <=> Taken(w)
        BY <1>9, <2>3, Constants DEF Taken, old
      <3>4. RowHolds(w)'
        BY <1>4, <2>1, <2>2, <3>1 DEF Inv, Holds, RowHolds
      <3>5. WorkHolds(w) => WorkHolds(w)'
        BY <2>1, <2>2, <3>1, <3>3 DEF WorkHolds
      <3>6. PlaceHolds(w) => PlaceHolds(w)'
        BY <1>4, <2>1, <3>1, <3>2 DEF PlaceHolds
      <3> QED
        BY <1>4, <3>1, <3>4, <3>5, <3>6 DEF Inv, Holds
    <2>4. CASE w \in old.pending
      <3>1. Taken(w) /\ row[w].status # "NONE"
        BY <2>4 DEF Taken, old, Inv, Holds, RowHolds
      <3>2. /\ row'[w].status \in {"RUNNING", "ERROR"}
            /\ row'[w].status = "RUNNING" => old.outcome = "SUCCEEDED" /\ row'[w].cid = old.made[w]
            /\ row'[w].status = "ERROR" => old.outcome # "SUCCEEDED"
        BY <1>6, <1>7, <2>4
      <3>3. RowHolds(w)'
        BY <1>4, <2>1, <3>1, <3>2 DEF Inv, Holds, RowHolds
      <3>4. WorkHolds(w) =>
              /\ row[w].status = "PROVISIONING" /\ ~Stopping(w) /\ ~Launching(w) /\ ~Taken(w)'
              /\ SoleTaker(w)'
        BY <1>9, <2>2, <2>4, <3>1, Constants DEF WorkHolds, SoleTaker, Taken, old
      <3>5. WorkHolds(w) => WorkHolds(w)'
        BY <2>1, <3>4 DEF WorkHolds
      <3>6. WorkHolds(w) /\ PlaceHolds(w) => PlaceHolds(w)'
        <4> SUFFICES ASSUME WorkHolds(w), PlaceHolds(w) PROVE PlaceHolds(w)'
          OBVIOUS
        <4>1. Alive(w) => MadeByBuild(w)
          BY <3>4 DEF PlaceHolds, Launching
        <4>2. Alive(w) => old.outcome = "SUCCEEDED" /\ old.made[w] = docker[w].id
          BY <2>4, <4>1 DEF MadeByBuild, WorkHolds, SoleTaker, old
        <4>3. stopper[w].stage = "idle" /\ \A c \in Checkers : checker[c][w].stage = "idle"
          BY <3>4 DEF Stopping, Inv, Holds, RowHolds, Unchecked
        <4> QED
          BY <1>4, <2>1, <3>2, <4>2, <4>3 DEF PlaceHolds, Down
      <3>7. w \notin contested => row[w].status = "PROVISIONING"
        BY <3>4 DEF Inv, Holds
      <3> QED
        BY <1>4, <3>3, <3>5, <3>6, <3>7 DEF Inv, Holds, Down
    <2> QED
      BY <2>3, <2>4
  <1> QED
    BY <1>5, <1>8, <1>10 DEF Inv

-----------------------------------------------------------------------------
(* The step that changes the row of a workspace that is down keeps it down.  *)
LEMMA RowsStayDown ==
    ASSUME Inv, [Next]_vars, NEW w \in Workspaces \ contested', row[w].status \in Down
    PROVE  row'[w].status \in Down
  <1>1. /\ row[w].status \in {"STOPPED", "ERROR"} /\ row[w].status # "PROVISIONING"
        /\ row[w] # NoRow
    BY DEF Down, NoRow
  <1>2. row \in [Workspaces -> RowType]
    BY DEF Inv, PlaceTypes
  <1>3. row' = row => row'[w].status \in Down
    OBVIOUS
  <1>4. ASSUME NEW v \in Workspaces, CommitRow(v) PROVE row'[w].status \in Down
    <2>1. row[v].status = "NONE"
      BY <1>4 DEF CommitRow, Inv, Holds, RowHolds
    <2> QED
      BY <1>1, <1>2, <1>4, <2>1 DEF CommitRow
  <1>5. ASSUME NEW v \in Workspaces, CommitLaunch(v) PROVE row'[w].status \in Down
    <2>1. v \notin contested => row[v].status = "PROVISIONING"
      BY <1>5 DEF CommitLaunch, Launching, Inv, Holds, WorkHolds
    <2>2. contested' = contested /\ \A u \in Workspaces \ {v} : row'[u] = row[u]
      BY <1>2, <1>5 DEF CommitLaunch
    <2> QED
      BY <1>1, <2>1, <2>2
  <1>6. ASSUME NEW v \in Workspaces, RentWithoutWorkspace(v) PROVE row'[w].status \in Down
    BY <1>1, <1>6 DEF RentWithoutWorkspace
  <1>7. ASSUME NEW v \in Workspaces, StopCommit(v) PROVE row'[w].status \in Down
    <2>1. row' = [row EXCEPT ![v].status = Written(@, stopper[v].saw, "STOPPED")]
      BY <1>7 DEF StopCommit
    <2> QED
      BY <1>1, <1>2, <2>1 DEF Written, Down, RowType
  <1>8. ASSUME NEW c \in Checkers, NEW v \in Workspaces, CheckCommit(c, v)
        PROVE  row'[w].status \in Down
    <2>1. /\ row' = [row EXCEPT ![v].status = checker[c][v].status]
          /\ checker[c][v].status \in Down
      BY <1>8 DEF CheckCommit, Inv, Holds, RowHolds
    <2> QED
      BY <1>2, <2>1 DEF RowType
  <1>9. ASSUME NEW b \in Builders, ResultCommit(b) PROVE row'[w].status \in Down
    BY <1>9, ResultCommitKeeps DEF ResultCommit
  <1>10. ASSUME NEW v \in Workspaces, Request(v) \/ MakerStep(v) \/ StopperStep(v) \/ DurationEnds(v)
         PROVE  row'[w].status \in Down
    BY <1>3, <1>4, <1>5, <1>6, <1>7, <1>10
       DEF Request, MakerStep, StopperStep, DurationEnds, CheckForBuild, StopRead,
           DeployFromGitHub, Launch, StopCall
  <1>11. ASSUME NEW c \in Checkers, NEW v \in Workspaces, CheckerStep(c, v)
         PROVE  row'[w].status \in Down
    BY <1>3, <1>8, <1>11 DEF CheckerStep, CheckRead, CheckInspect, StopExpired
  <1>12. ASSUME NEW b \in Builders, BuilderStep(b) PROVE row'[w].status \in Down
    BY <1>3, <1>9, <1>12
       DEF BuilderStep, AcquireJob, ResultRead, ProgressRead, ProgressCommit, ResultRaises,
           LaunchWaiting
  <1>13. ASSUME NEW j \in Jobs, Rebuild(j) \/ LeaseExpires(j) PROVE row'[w].status \in Down
    BY <1>3, <1>13 DEF Rebuild, LeaseExpires
  <1>14. CASE Failure
    BY <1>3, <1>14
       DEF Failure, ContainerExits, MakerDies, StopRaises, CheckRaises, ResultCommitRaises,
           BuilderDies
  <1>15. CASE UNCHANGED vars
    BY <1>3, <1>15 DEF vars
  <1> QED
    BY <1>10, <1>11, <1>12, <1>13, <1>14, <1>15 DEF Next

(* Whoever changes a job that was never taken twice under a live worker does *)
(* not touch one that is over, and leaves one record of it at most.          *)
LEMMA JobsStayOver ==
    ASSUME Inv, [Next]_vars, NEW j \in Jobs \ retaken
    PROVE  records'[j] <= 1 /\ (job[j].status \in Finished => job'[j] = job[j])
  <1> DEFINE Stands == records'[j] <= 1 /\ (job[j].status \in Finished => job'[j] = job[j])
  <1>1. records[j] <= 1 /\ job \in [Jobs -> JobType]
    BY DEF Inv, JobsHold, JobHolds, BuildTypes
  <1>2. UNCHANGED <<job, records>> => Stands
    BY <1>1
  <1>3. ASSUME NEW i \in Jobs, Enqueue(i) PROVE Stands
    BY <1>1, <1>3 DEF Enqueue, Finished
  <1>4. ASSUME NEW i \in Jobs, LeaseExpires(i) PROVE Stands
    BY <1>1, <1>4 DEF LeaseExpires, Finished
  <1>5. ASSUME NEW b \in Builders, NEW i \in Jobs, AcquireJob(b, i) PROVE Stands
    BY <1>1, <1>5 DEF AcquireJob, Claimable, Finished
  <1>6. ASSUME NEW b \in Builders, ProgressCommit(b) \/ ResultCommit(b) PROVE Stands
    BY <1>6, ProgressCommitKeeps, ResultCommitKeeps
  <1> HIDE DEF Stands
  <1>7. ASSUME NEW w \in Workspaces, Request(w) \/ MakerStep(w) \/ StopperStep(w) \/ DurationEnds(w)
        PROVE  Stands
    BY <1>2, <1>3, <1>7
       DEF Request, MakerStep, StopperStep, DurationEnds, CheckForBuild, RentWithoutWorkspace,
           StopRead, DeployFromGitHub, CommitRow, Launch, CommitLaunch, StopCall, StopCommit, builds
  <1>8. ASSUME NEW c \in Checkers, NEW w \in Workspaces, CheckerStep(c, w) PROVE Stands
    BY <1>2, <1>8 DEF CheckerStep, CheckRead, CheckInspect, CheckCommit, StopExpired, builds
  <1>9. ASSUME NEW b \in Builders, BuilderStep(b) PROVE Stands
    BY <1>2, <1>5, <1>6, <1>9
       DEF BuilderStep, ResultRead, ProgressRead, ResultRaises, LaunchWaiting, builds
  <1>10. ASSUME NEW i \in Jobs, Rebuild(i) \/ LeaseExpires(i) PROVE Stands
    BY <1>3, <1>4, <1>10 DEF Rebuild
  <1>11. ASSUME Failure PROVE Stands
    BY <1>2, <1>11
       DEF Failure, ContainerExits, MakerDies, StopRaises, CheckRaises, ResultCommitRaises,
           BuilderDies, builds
  <1>12. ASSUME UNCHANGED vars PROVE Stands
    BY <1>2, <1>12 DEF vars
  <1>13. Stands
    BY <1>7, <1>8, <1>9, <1>10, <1>11, <1>12 DEF Next
  <1> QED
    BY <1>13 DEF Stands

-----------------------------------------------------------------------------
LEMMA InvIsKept == Inv /\ [Next]_vars => Inv'
  <1> SUFFICES ASSUME Inv, [Next]_vars PROVE Inv'
    OBVIOUS
  <1>1. ASSUME NEW w \in Workspaces, Request(w) PROVE Inv'
    BY <1>1, CheckForBuildKeeps, RentKeeps, StopReadKeeps, DeployKeeps DEF Request
  <1>2. ASSUME NEW w \in Workspaces, MakerStep(w) \/ StopperStep(w) \/ DurationEnds(w) PROVE Inv'
    BY <1>2, CommitRowKeeps, LaunchKeeps, CommitLaunchKeeps, StopCallKeeps, StopCommitKeeps,
       DurationEndsKeeps DEF MakerStep, StopperStep
  <1>3. ASSUME NEW c \in Checkers, NEW w \in Workspaces, CheckerStep(c, w) PROVE Inv'
    BY <1>3, CheckReadKeeps, CheckInspectKeeps, CheckCommitKeeps, StopExpiredKeeps DEF CheckerStep
  <1>4. ASSUME NEW b \in Builders, BuilderStep(b) PROVE Inv'
    BY <1>4, AcquireJobKeeps, ResultReadKeeps, ProgressReadKeeps, ProgressCommitKeeps,
       ResultRaisesKeeps, LaunchWaitingKeeps, ResultCommitKeeps DEF BuilderStep
  <1>5. ASSUME NEW j \in Jobs, Rebuild(j) \/ LeaseExpires(j) PROVE Inv'
    BY <1>5, RebuildKeeps, LeaseExpiresKeeps
  <1>6. ASSUME Failure PROVE Inv'
    BY <1>6, ContainerExitsKeeps, MakerDiesKeeps, StopRaisesKeeps, CheckRaisesKeeps,
       ResultCommitRaisesKeeps, BuilderDiesKeeps DEF Failure
  <1>7. CASE UNCHANGED vars
    <2>1. /\ UNCHANGED <<row, docker, due, maker, stopper, checker, faults, contested, astray>>
          /\ UNCHANGED <<job, records, builder, retaken>>
      BY <1>7 DEF vars
    <2>2. PlaceTypes'
      BY <2>1 DEF Inv, PlaceTypes
    <2>3. \A w \in Workspaces : Holds(w)'
      BY <2>1, OthersHold DEF Inv
    <2> QED
      BY <2>1, <2>2, <2>3, QueueHolds DEF Inv
  <1> QED
    BY <1>1, <1>2, <1>3, <1>4, <1>5, <1>6, <1>7 DEF Next

LEMMA InvAlways == Spec => []Inv
  BY InvHoldsInitially, InvIsKept, PTL DEF Spec

-----------------------------------------------------------------------------
(* Rows, containers, jobs and workers keep their types: above all a job has  *)
(* no more than the two agent_builds rows that make every later reader       *)
(* raise (build_engine/worker.py:75), because nobody who saw one inserts.    *)
THEOREM WorkspaceTypes == Spec => []TypeOK
  <1>1. Inv => TypeOK
    BY TypesInParts DEF Inv, JobsHold
  <1> QED
    BY <1>1, InvAlways, PTL

(* Whatever the requests, builds, pollers and readers do between each        *)
(* other's reads and commits, a container that runs is the one its RUNNING   *)
(* row names or somebody is at work on it, as long as no two were at a time  *)
(* and no fault hid it (workspaces.py:160, worker.py:256, poller.py:118).    *)
THEOREM NobodyOrphaned == Spec => []NoOrphan
  <1>1. Inv => NoOrphan
    <2> SUFFICES ASSUME Inv, NEW w \in Workspaces \ (contested \cup astray), Alive(w)
                 PROVE  \/ row[w].status = "RUNNING" /\ row[w].cid = docker[w].id
                        \/ Launching(w) \/ Stopping(w) \/ Taken(w)
      BY DEF NoOrphan, Accounted
    <2>1. PlaceHolds(w) /\ row[w].status \in RowStatus
      BY DEF Inv, Holds, PlaceTypes, RowType
    <2>2. row[w].status \in {"RUNNING", "PROVISIONING"}
      BY <2>1 DEF PlaceHolds, RowStatus, Down
    <2>3. MadeByBuild(w) => Taken(w)
      BY DEF MadeByBuild, Taken
    <2> QED
      BY <2>1, <2>2, <2>3 DEF PlaceHolds, Launching
  <1> QED
    BY <1>1, InvAlways, PTL

(* A workspace that was stopped or failed stays so, though handlers that     *)
(* read its row before still commit what they found (workspaces.py:498,      *)
(* poller.py:74, worker.py:269), unless two of them worked on it at a time.  *)
THEOREM DownStaysDown == Spec => DownForGood
  <1>1. Inv /\ [Next]_vars =>
          [\A w \in Workspaces \ contested' : row[w].status \in Down => row'[w].status \in Down]_vars
    BY RowsStayDown
  <1> QED
    BY <1>1, InvAlways, PTL DEF Spec, DownForGood

(* However leases run out and workers die, a job that no worker took while   *)
(* another was still on it keeps what it came to and gets one record, though *)
(* progress and result are written from what their sessions read             *)
(* (build_engine/worker.py:69, worker.py:212).                               *)
THEOREM ResultsLast == Spec => ResultsStand
  <1>1. Inv /\ [Next]_vars =>
          [\A j \in Jobs \ retaken : /\ records'[j] <= 1
                                     /\ job[j].status \in Finished => job'[j] = job[j]]_vars
    BY JobsStayOver
  <1> QED
    BY <1>1, InvAlways, PTL DEF Spec, ResultsStand
=============================================================================
