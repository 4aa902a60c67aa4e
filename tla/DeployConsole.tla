---------------------------- MODULE DeployConsole ----------------------------
(***************************************************************************)
(* The deploy page (DeployForm.tsx): a GitHub tab and an existing-agent    *)
(* tab share one console.  A GitHub deployment posts to the API, asks for  *)
(* the agent's version and then follows it over two channels, a WebSocket  *)
(* with the build's status and a poll of the new workspace.  The function  *)
(* that would close both channels is returned and never called, so every   *)
(* deployment of the page keeps writing to the one console.                *)
(*                                                                         *)
(* The build worker, the workspace rows and the build socket are modelled  *)
(* as far as the page observes them; Workspaces.tla has them in full.      *)
(***************************************************************************)
EXTENDS Naturals, Sequences

CONSTANTS Repos,        \* repositories of the user; one agent version each
          NoRepo,
          EarlierBuilds, \* status of the one build a repository may have had, or "none"
          Settings,     \* contents of the settings form
          MaxDeploys,   \* bound: deployments started from the page
          MaxConnects   \* bound: clicks on Quick Connect

ASSUME DeployAssumption ==
    /\ NoRepo \notin Repos /\ {MaxDeploys, MaxConnects} \subseteq Nat
    /\ EarlierBuilds \subseteq {"none", "SUCCEEDED", "FAILED", "BLOCKED_SECRET"}

Requests == 1..MaxDeploys

VARIABLES
    tab, settings, repo, access, connecting, agentsLoaded,   \* the forms
    deploying, live, failed, stepNo,                         \* the console
    loads,       \* answers of GET /github/repos on the way
    connects,    \* clicks on Quick Connect so far
    requests,    \* the deployments this page started, by number
    streams,     \* the channels connectLiveStream opened
    linked,      \* the API: is a GitHub installation linked
    rows,        \* the API: workspaces, in order of creation
    jobs, builds \* the API: queued build jobs and AgentBuild rows per version

deployVars == <<tab, settings, repo, access, connecting, agentsLoaded, deploying,
                live, failed, stepNo, loads, connects, requests, streams, linked,
                rows, jobs, builds>>
forms == <<tab, settings, repo, agentsLoaded>>
hub == <<access, connecting, loads, connects, linked>>
console == <<deploying, live, failed, stepNo>>
api == <<rows, jobs, builds>>

BuildStatus == {"BUILDING", "SUCCEEDED", "FAILED", "BLOCKED_SECRET"}
RowStatus == {"PROVISIONING", "RUNNING", "ERROR"}
Stages == {"posted", "detail", "done"}

DeployTypeOK ==
    /\ tab \in {"GITHUB", "EXISTING"} /\ settings \in Settings
    /\ repo \in Repos \cup {NoRepo}
    /\ {access, connecting, agentsLoaded, deploying, live, failed, linked} \subseteq BOOLEAN
    /\ stepNo \in 0..5 /\ connects \in 0..MaxConnects
    /\ loads \subseteq [by : {"mount", "connect"}, linked : BOOLEAN]
    /\ requests \in Seq([kind : {"github", "existing"}, stage : Stages,
                         of : Repos \cup {NoRepo}, as : Settings, ws : 0..Len(rows)])
    /\ Len(requests) <= MaxDeploys
    /\ streams \in Seq([of : Repos, ws : 1..Len(rows), open : BOOLEAN,
                          last : BuildStatus \cup {"none"},
                        mail : Seq(BuildStatus), polling : BOOLEAN, seen : BOOLEAN])
    /\ rows \in Seq([of : Repos \cup {NoRepo}, as : Settings, status : RowStatus])
    /\ jobs \in [Repos -> Nat]
    /\ builds \in [Repos -> Seq(BuildStatus)]

DeployInit ==
    /\ tab = "GITHUB" /\ settings \in Settings /\ repo = NoRepo
    /\ access = FALSE /\ connecting = FALSE /\ agentsLoaded = FALSE
    /\ deploying = FALSE /\ live = FALSE /\ failed = FALSE /\ stepNo = 0
    /\ linked \in BOOLEAN /\ loads = {[by |-> "mount", linked |-> linked]}
    /\ connects = 0 /\ requests = <<>> /\ streams = <<>> /\ rows = <<>>
    /\ jobs = [r \in Repos |-> 0]
    /\ builds \in [Repos -> {IF s = "none" THEN <<>> ELSE <<s>> : s \in EarlierBuilds}]

-----------------------------------------------------------------------------
(* Forms and buttons.                                                      *)

ConsoleShown == deploying \/ live
TabShown(t) == tab = t /\ ~ConsoleShown
ConnectOffered == TabShown("GITHUB") /\ ~access /\ ~connecting
RepoListShown == TabShown("GITHUB") /\ access
DeployOffered == RepoListShown /\ repo # NoRepo
LaunchOffered == TabShown("EXISTING") /\ agentsLoaded

SwitchTab ==
    /\ tab' = IF tab = "GITHUB" THEN "EXISTING" ELSE "GITHUB"
    /\ UNCHANGED <<settings, repo, agentsLoaded, hub, console, requests, streams, api>>

PickRepo(r) ==
    /\ RepoListShown /\ repo # r /\ repo' = r
    /\ UNCHANGED <<tab, settings, agentsLoaded, hub, console, requests, streams, api>>

EditSettings(s) ==
    /\ DeployOffered \/ LaunchOffered
    /\ settings # s /\ settings' = s
    /\ UNCHANGED <<tab, repo, agentsLoaded, hub, console, requests, streams, api>>

DismissError ==
    /\ failed /\ failed' = FALSE
    /\ UNCHANGED <<forms, hub, deploying, live, stepNo, requests, streams, api>>

\* loadAgents: its failure leaves the list empty and the button disabled.
AgentsLoaded ==
    /\ ~agentsLoaded /\ agentsLoaded' = TRUE
    /\ UNCHANGED <<tab, settings, repo, hub, console, requests, streams, api>>

\* "Deploy Another Project".  The channels of the last deployment stay open.
DeployAnother ==
    /\ live /\ live' = FALSE /\ deploying' = FALSE
    /\ UNCHANGED <<forms, hub, failed, stepNo, requests, streams, api>>

-----------------------------------------------------------------------------
(* GitHub connection.                                                      *)

ClickConnect ==
    /\ ConnectOffered /\ connects < MaxConnects
    /\ connects' = connects + 1
    /\ connecting' = TRUE /\ failed' = FALSE
    /\ UNCHANGED <<forms, access, loads, linked, deploying, live, stepNo, requests,
                   streams, api>>

\* The click's reload is on its way: the button stays disabled until it answers.
Reloading == \E l \in loads : l.by = "connect"

ConnectAnswered ==
    /\ connecting /\ ~Reloading
    /\ linked' = TRUE
    /\ loads' = loads \cup {[by |-> "connect", linked |-> TRUE]}
    /\ UNCHANGED <<forms, access, connecting, connects, console, requests, streams, api>>

ConnectFailed ==
    /\ connecting /\ ~Reloading
    /\ connecting' = FALSE /\ failed' = TRUE
    /\ UNCHANGED <<forms, access, loads, connects, linked, deploying, live, stepNo,
                   requests, streams, api>>

\* loadGitHub: an error reads as "not connected"; the first repository is selected.
LoadAnswered(l) ==
    /\ l \in loads /\ loads' = loads \ {l}
    /\ access' \in {FALSE, l.linked}
    /\ connecting' = (connecting /\ l.by # "connect")
    /\ IF access' /\ repo = NoRepo THEN repo' \in Repos ELSE UNCHANGED repo
    /\ UNCHANGED <<tab, settings, agentsLoaded, connects, linked, console, requests,
                   streams, api>>

-----------------------------------------------------------------------------
(* The two deploy handlers, from submit to the end of their awaits.        *)

StartDeploy(kind, r) ==
    /\ Len(requests) < MaxDeploys
    /\ requests' = Append(requests, [kind |-> kind, stage |-> "posted", of |-> r,
                                     as |-> settings, ws |-> 0])
    /\ failed' = FALSE /\ deploying' = TRUE /\ live' = FALSE
    /\ UNCHANGED <<forms, hub, streams, api>>

SubmitGitHub == DeployOffered /\ StartDeploy("github", repo) /\ stepNo' = 2

SubmitExisting ==
    /\ LaunchOffered /\ stepNo' = 3
    /\ \E r \in Repos \cup {NoRepo} : StartDeploy("existing", r)

Building(r) == r \in Repos /\ (jobs[r] > 0 \/ "BUILDING" \in {builds[r][i] : i \in DOMAIN builds[r]})

\* POST /workspaces/deploy-github: a workspace waiting for the build, and its job.
PostsGitHub(q) ==
    /\ rows' = Append(rows, [of |-> q.of, as |-> q.as, status |-> "PROVISIONING"])
    /\ jobs' = [jobs EXCEPT ![q.of] = @ + 1]
    /\ UNCHANGED builds

\* POST /workspaces: started at once unless a build of the agent is under way.
PostsExisting(q) ==
    /\ rows' = Append(rows, [of |-> q.of, as |-> q.as, status |->
                             IF Building(q.of) THEN "PROVISIONING" ELSE "RUNNING"])
    /\ UNCHANGED <<jobs, builds>>

GitHubAnswered(i) ==
    /\ requests[i].kind = "github" /\ requests[i].stage = "posted"
    /\ PostsGitHub(requests[i])
    /\ requests' = [requests EXCEPT ![i].stage = "detail", ![i].ws = Len(rows) + 1]
    /\ stepNo' = 3
    /\ UNCHANGED <<forms, hub, deploying, live, failed, streams>>

\* getAgentDetail gave the version id: connectLiveStream.
DetailAnswered(i) ==
    /\ requests[i].stage = "detail"
    /\ requests' = [requests EXCEPT ![i].stage = "done"]
    /\ streams' = Append(streams, [of |-> requests[i].of, ws |-> requests[i].ws,
                                   open |-> TRUE, last |-> "none", mail |-> <<>>,
                                   polling |-> TRUE, seen |-> FALSE])
    /\ UNCHANGED <<forms, hub, console, api>>

\* Any 2xx counts as running, also the row that waits for a build.
ExistingAnswered(i) ==
    /\ requests[i].kind = "existing" /\ requests[i].stage = "posted"
    /\ PostsExisting(requests[i])
    /\ requests' = [requests EXCEPT ![i].stage = "done", ![i].ws = Len(rows) + 1]
    /\ stepNo' = 5 /\ live' = TRUE /\ deploying' = FALSE
    /\ UNCHANGED <<forms, hub, failed, streams>>

\* A refusal, or an answer lost after the API acted.
RequestFailed(i) ==
    /\ requests[i].stage # "done"
    /\ requests' = [requests EXCEPT ![i].stage = "done"]
    /\ failed' = TRUE /\ deploying' = FALSE
    /\ \/ UNCHANGED api
       \/ requests[i].stage = "posted" /\ requests[i].kind = "github" /\ PostsGitHub(requests[i])
       \/ requests[i].stage = "posted" /\ requests[i].kind = "existing" /\ PostsExisting(requests[i])
    /\ UNCHANGED <<forms, hub, live, stepNo, streams>>

-----------------------------------------------------------------------------
(* The build worker and the build socket, as the page sees them.           *)

BuildStarts(r) ==
    /\ jobs[r] > 0 /\ \A i \in DOMAIN builds[r] : builds[r][i] # "BUILDING"
    /\ jobs' = [jobs EXCEPT ![r] = @ - 1]
    /\ builds' = [builds EXCEPT ![r] = Append(@, "BUILDING")]
    /\ UNCHANGED <<forms, hub, console, requests, streams, rows>>

\* record_build_result: the build row and the waiting workspaces in one commit.
BuildEnds(r, status) ==
    /\ \E i \in DOMAIN builds[r] :
          /\ builds[r][i] = "BUILDING"
          /\ builds' = [builds EXCEPT ![r][i] = status]
    /\ rows' = [w \in DOMAIN rows |->
                  IF rows[w].of = r /\ rows[w].status = "PROVISIONING"
                  THEN [rows[w] EXCEPT !.status =
                           IF status = "SUCCEEDED" THEN "RUNNING" ELSE "ERROR"]
                  ELSE rows[w]]
    /\ UNCHANGED <<forms, hub, console, requests, streams, jobs>>

\* One turn of the socket's loop: it sends the one row's status when it changed
\* and stops at a final one.
SocketSends(s) ==
    LET now == builds[streams[s].of] IN
    /\ streams[s].open /\ Len(now) = 1 /\ now[1] # streams[s].last
    /\ streams' = [streams EXCEPT ![s].last = now[1],
                                  ![s].mail = Append(@, now[1]),
                                  ![s].open = now[1] = "BUILDING"]
    /\ UNCHANGED <<forms, hub, console, requests, api>>

\* Two rows of one version raise MultipleResultsFound: the socket is closed.
SocketDies(s) ==
    /\ streams[s].open /\ Len(builds[streams[s].of]) > 1
    /\ streams' = [streams EXCEPT ![s].open = FALSE]
    /\ UNCHANGED <<forms, hub, console, requests, api>>

-----------------------------------------------------------------------------
(* What the channels do to the console, whichever deployment it shows.     *)

OnSucceeded == stepNo' = 5 /\ live' = TRUE /\ deploying' = FALSE /\ UNCHANGED failed

OnMessage(s) ==
    /\ streams[s].mail # <<>>
    /\ streams' = [streams EXCEPT ![s].mail = Tail(@)]
    /\ LET status == Head(streams[s].mail) IN
       \/ status = "BUILDING" /\ stepNo' = 3 /\ UNCHANGED <<deploying, live, failed>>
       \/ status = "SUCCEEDED" /\ OnSucceeded
       \/ /\ status \in {"FAILED", "BLOCKED_SECRET"}
          /\ failed' = TRUE /\ deploying' = FALSE
          /\ UNCHANGED <<live, stepNo>>
    /\ UNCHANGED <<forms, hub, requests, api>>

\* Variant of PollSees: any row that is not in error counts.
PollSeesAnyRow(s) ==
    /\ streams[s].polling /\ ~streams[s].seen
    /\ rows[streams[s].ws].status # "ERROR"
    /\ streams' = [streams EXCEPT ![s].seen = TRUE]
    /\ UNCHANGED <<forms, hub, console, requests, api>>

\* The poll's request found the workspace RUNNING; its answer is on the way.
PollSees(s) ==
    /\ streams[s].polling /\ ~streams[s].seen
    /\ rows[streams[s].ws].status = "RUNNING"
    /\ streams' = [streams EXCEPT ![s].seen = TRUE]
    /\ UNCHANGED <<forms, hub, console, requests, api>>

PollAnswers(s) ==
    /\ streams[s].seen
    /\ streams' = [streams EXCEPT ![s].seen = FALSE, ![s].polling = FALSE]
    /\ OnSucceeded
    /\ UNCHANGED <<forms, hub, requests, api>>

-----------------------------------------------------------------------------

Answers == \E i \in DOMAIN requests :
    GitHubAnswered(i) \/ DetailAnswered(i) \/ ExistingAnswered(i) \/ RequestFailed(i)

Worker == \E r \in Repos :
    BuildStarts(r) \/ \E status \in BuildStatus \ {"BUILDING"} : BuildEnds(r, status)

Channels == \E s \in DOMAIN streams :
    SocketSends(s) \/ SocketDies(s) \/ OnMessage(s) \/ PollSees(s) \/ PollAnswers(s)

DeployNext ==
    \/ SwitchTab \/ DismissError \/ AgentsLoaded \/ DeployAnother
    \/ \E r \in Repos : PickRepo(r)
    \/ \E s \in Settings : EditSettings(s)
    \/ ClickConnect \/ ConnectAnswered \/ ConnectFailed
    \/ \E l \in loads : LoadAnswered(l)
    \/ SubmitGitHub \/ SubmitExisting
    \/ Answers \/ Worker \/ Channels

\* The API answers, the worker builds and the channels deliver; users may stop.
DeployFairness ==
    /\ WF_deployVars(Answers) /\ WF_deployVars(Worker) /\ WF_deployVars(Channels)

DeploySpec == DeployInit /\ [][DeployNext]_deployVars

-----------------------------------------------------------------------------
(* Properties.                                                             *)

\* The page follows one deployment, of a version that has had no other build.
FirstDeployment ==
    /\ Len(requests) = 1 /\ requests[1].kind = "github"
    /\ Len(builds[requests[1].of]) + jobs[requests[1].of] <= 1

\* "STATUS: LIVE" on the page's first deployment of a new version means that its
\* build succeeded and its workspace runs, whichever channel said so first, and
\* never stands beside a failed build (DeployForm.tsx:252).
FirstLiveIsReal ==
    live /\ FirstDeployment =>
        /\ builds[requests[1].of] = <<"SUCCEEDED">>
        /\ requests[1].ws # 0 => rows[requests[1].ws].status = "RUNNING"

\* What must not last: the console of a first deployment leaves "Deploying Sandboxed Container...",
\* also when the build fails or is blocked, which only the socket reports.
DeployWaits == deploying /\ FirstDeployment
=============================================================================
