----------------------------- MODULE BuildConsole -----------------------------
(***************************************************************************)
(* The page of one version's build (versions/[version]/build/page.tsx),    *)
(* the endpoint it reads and the socket it listens to.  A request that was *)
(* answered late overwrites what the socket has brought since, and the     *)
(* socket closes after a final status, so that nothing comes after it.     *)
(* Both read at most one build row: two of them, after a rebuild, are an   *)
(* error.  Logs are left out, a socket message is its status.              *)
(***************************************************************************)
EXTENDS Naturals, Sequences, SequencesExt

CONSTANTS MaxBuilds,    \* bound: build jobs of the version
          MaxFetches    \* bound: clicks on the refresh button and failures

ASSUME ConsoleAssumption == {MaxBuilds, MaxFetches} \subseteq Nat

VARIABLES
    buildJobs, buildRows,   \* the API: BuildJob and AgentBuild rows, by job
    shownBuild,             \* buildData.status, "none" before the first answer
    buildLoading,           \* isLoading
    fetches,                \* requests under way: what they read, or "asked"
    feed,                   \* the socket: open, sent_queued, last row sent, messages on the way
    fetchActs,
    lateFetch               \* history: an answer older than a message shown came after it

consoleVars == <<buildJobs, buildRows, shownBuild, buildLoading, fetches, feed, fetchActs,
                 lateFetch>>

FinalBuild == {"SUCCEEDED", "FAILED"}   \* FAILED also stands for BLOCKED_SECRET
JobState == {"QUEUED", "BUILDING"} \cup FinalBuild
ReadOut == JobState \cup {"PROMPT_ONLY"}

ConsoleTypeOK ==
    /\ buildJobs \in Seq(JobState) /\ Len(buildJobs) <= MaxBuilds
    /\ buildRows \in Seq(JobState \ {"QUEUED"}) /\ Len(buildRows) <= Len(buildJobs)
    /\ shownBuild \in ReadOut \cup {"none"} /\ {buildLoading, lateFetch} \subseteq BOOLEAN
    /\ fetches \in Seq([got : ReadOut \cup {"asked", "error"}, stale : BOOLEAN])
    /\ feed \in [open : BOOLEAN, queued : BOOLEAN, last : JobState \cup {"none"},
                 mail : Seq(JobState)]
    /\ fetchActs \in 0..MaxFetches

Fetch == [got |-> "asked", stale |-> FALSE]

ConsoleInit ==
    /\ buildJobs \in {<<>>, <<"QUEUED">>} /\ Len(buildJobs) <= MaxBuilds /\ buildRows = <<>>
    /\ shownBuild = "none" /\ buildLoading = TRUE /\ fetches = <<Fetch>>
    /\ feed = [open |-> TRUE, queued |-> FALSE, last |-> "none", mail |-> <<>>]
    /\ fetchActs = 0 /\ lateFetch = FALSE

FetchAct == fetchActs < MaxFetches /\ fetchActs' = fetchActs + 1

-----------------------------------------------------------------------------
(* The build worker, and the owner's rebuild.                              *)

\* rebuild_agent: also while a build is under way.
RebuildQueued ==
    /\ Len(buildJobs) < MaxBuilds /\ buildJobs # <<>>
    /\ buildJobs' = Append(buildJobs, "QUEUED")
    /\ UNCHANGED <<buildRows, shownBuild, buildLoading, fetches, feed, fetchActs, lateFetch>>

\* The one worker leases the oldest queued job, which then gets a row of its own;
\* leases that run out are in Workspaces.
JobLeased(j) ==
    /\ buildJobs[j] = "QUEUED" /\ \A i \in 1..(j - 1) : buildJobs[i] \in FinalBuild
    /\ buildJobs' = [buildJobs EXCEPT ![j] = "BUILDING"]
    /\ UNCHANGED <<buildRows, shownBuild, buildLoading, fetches, feed, fetchActs, lateFetch>>

RowAdded(j) ==
    /\ buildJobs[j] = "BUILDING" /\ j = Len(buildRows) + 1
    /\ buildRows' = Append(buildRows, "BUILDING")
    /\ UNCHANGED <<buildJobs, shownBuild, buildLoading, fetches, feed, fetchActs, lateFetch>>

\* record_build_result: job and row in one commit.
BuildRecorded(j, status) ==
    /\ j \in DOMAIN buildRows /\ buildRows[j] = "BUILDING"
    /\ buildRows' = [buildRows EXCEPT ![j] = status]
    /\ buildJobs' = [buildJobs EXCEPT ![j] = status]
    /\ UNCHANGED <<shownBuild, buildLoading, fetches, feed, fetchActs, lateFetch>>

-----------------------------------------------------------------------------
(* fetchBuildStatus and its endpoint.                                      *)

\* The row if there is one, else the job, else a prompt-only version.
BuildReadOut ==
    CASE Len(buildRows) > 1 -> "error"
      [] Len(buildRows) = 1 -> buildRows[1]
      [] buildRows = <<>> /\ Len(buildJobs) > 1 -> "error"
      [] buildRows = <<>> /\ Len(buildJobs) = 1 -> buildJobs[1]
      [] OTHER -> "PROMPT_ONLY"

ClickReload ==
    /\ FetchAct /\ buildLoading' = TRUE /\ fetches' = Append(fetches, Fetch)
    /\ UNCHANGED <<buildJobs, buildRows, shownBuild, feed, lateFetch>>

FetchServed(i) ==
    /\ fetches[i].got = "asked"
    /\ \/ /\ fetches' = [fetches EXCEPT ![i].got = BuildReadOut] /\ UNCHANGED fetchActs
       \/ FetchAct /\ fetches' = [fetches EXCEPT ![i].got = "error"]
    /\ UNCHANGED <<buildJobs, buildRows, shownBuild, buildLoading, feed, lateFetch>>

\* An error is logged and leaves the console as it is.
FetchAnswered(i) ==
    /\ fetches[i].got # "asked"
    /\ fetches' = RemoveAt(fetches, i) /\ buildLoading' = FALSE
    /\ IF fetches[i].got = "error" THEN UNCHANGED <<shownBuild, lateFetch>>
       ELSE shownBuild' = fetches[i].got /\ lateFetch' = (lateFetch \/ fetches[i].stale)
    /\ UNCHANGED <<buildJobs, buildRows, feed, fetchActs>>

-----------------------------------------------------------------------------
(* build_log_websocket.                                                    *)

\* One turn of the loop; it ends after a final status.
FeedTurns ==
    /\ feed.open
    /\ \/ /\ Len(buildRows) = 1 /\ feed.last # buildRows[1]
          /\ feed' = [feed EXCEPT !.last = buildRows[1], !.mail = Append(@, buildRows[1]),
                                  !.open = buildRows[1] \notin FinalBuild]
       \/ /\ buildRows = <<>> /\ ~feed.queued /\ Len(buildJobs) = 1
          /\ feed' = [feed EXCEPT !.queued = TRUE, !.mail = Append(@, buildJobs[1])]
    /\ UNCHANGED <<buildJobs, buildRows, shownBuild, buildLoading, fetches, fetchActs, lateFetch>>

\* scalar_one_or_none raises: the socket is closed.
FeedDies ==
    /\ feed.open
    /\ \/ Len(buildRows) > 1
       \/ buildRows = <<>> /\ ~feed.queued /\ Len(buildJobs) > 1
    /\ feed' = [feed EXCEPT !.open = FALSE]
    /\ UNCHANGED <<buildJobs, buildRows, shownBuild, buildLoading, fetches, fetchActs, lateFetch>>

\* What was read before the message, and is answered after it, is out of date.
FeedDelivers ==
    /\ feed.mail # <<>> /\ feed' = [feed EXCEPT !.mail = Tail(@)]
    /\ shownBuild' = Head(feed.mail)
    /\ fetches' = [i \in DOMAIN fetches |->
          IF fetches[i].got \in {"asked", "error", Head(feed.mail)} THEN fetches[i]
          ELSE [fetches[i] EXCEPT !.stale = TRUE]]
    /\ UNCHANGED <<buildJobs, buildRows, buildLoading, fetchActs, lateFetch>>

-----------------------------------------------------------------------------

ConsoleStep ==
    \/ \E i \in DOMAIN fetches : FetchServed(i) \/ FetchAnswered(i)
    \/ FeedTurns \/ FeedDies \/ FeedDelivers

BuilderStep == \E j \in DOMAIN buildJobs :
    JobLeased(j) \/ RowAdded(j) \/ \E status \in FinalBuild : BuildRecorded(j, status)

ConsoleNext == ConsoleStep \/ BuilderStep \/ RebuildQueued \/ ClickReload

\* Requests end, the socket's loop turns and its messages arrive; the worker works.
ConsoleFairness == WF_consoleVars(ConsoleStep) /\ WF_consoleVars(BuilderStep)

ConsoleSpec == ConsoleInit /\ [][ConsoleNext]_consoleVars

-----------------------------------------------------------------------------

\* The socket's last message stands: once it has brought the end of a version's only
\* build, the page shows that end, unless an answer read earlier came after it
\* (build/page.tsx:31, websockets.py:139).
OnlyBuild == Len(buildJobs) = 1
EndOfBuildStands ==
    (OnlyBuild /\ ~lateFetch /\ ~feed.open /\ feed.mail = <<>>) =>
        shownBuild = buildRows[1] /\ shownBuild \in FinalBuild

\* What must not last: the request's spinner, and a badge that is not the end of the
\* version's only build (build/page.tsx:52).
BuildWaits == buildLoading \/ (OnlyBuild /\ ~lateFetch /\ shownBuild \notin FinalBuild)
=============================================================================
