------------------------------ MODULE AgentDraft ------------------------------
(***************************************************************************)
(* The form that creates an agent (CreateAgentForm.tsx) and POST /agents.  *)
(* The form looks for GitHub repositories when it opens and again after a  *)
(* development connection; both fill in the repository field, also over    *)
(* what the user has chosen since.  The endpoint commits agent and version *)
(* and only then queues the build of a repository.                         *)
(* The fields that go to the API as they are, and the price, are left out. *)
(***************************************************************************)
EXTENDS Naturals, Sequences, FiniteSets

CONSTANTS DraftNames,    \* names, which are also slugs
          Repositories,  \* repositories of the user
          NoRepository,  \* the empty field
          MaxDrafts,     \* bound: submissions
          MaxTyped       \* bound: changes of the form and clicks on Quick Connect

ASSUME DraftAssumption == NoRepository \notin Repositories /\ {MaxDrafts, MaxTyped} \subseteq Nat

VARIABLES
    agentName, agentMode, selectedRepo, customRepo,   \* the form
    hasGitHubAccess, connectingGitHub, repoChecks,    \* GitHub, as the form sees it
    hubLinked,                                        \* the API: an installation exists
    submitting, draftError, left,                     \* left: routed to the publish page
    draftCalls,                                       \* POST /agents, by number
    agents, buildQueue,                               \* the API
    typed

draftVars == <<agentName, agentMode, selectedRepo, customRepo, hasGitHubAccess, connectingGitHub,
               repoChecks, hubLinked, submitting, draftError, left, draftCalls, agents, buildQueue,
               typed>>
fields == <<agentName, agentMode, selectedRepo, customRepo, typed>>
gitHub == <<hasGitHubAccess, connectingGitHub, repoChecks, hubLinked>>
submission == <<submitting, draftError, left, draftCalls, agents, buildQueue>>

AgentModes == {"PROMPT_CONFIGURED", "REPO_BACKED"}
RepoField == Repositories \cup {NoRepository}

DraftTypeOK ==
    /\ agentName \in DraftNames /\ agentMode \in AgentModes /\ selectedRepo \in RepoField
    /\ {customRepo, hasGitHubAccess, connectingGitHub, hubLinked, submitting, draftError, left}
          \subseteq BOOLEAN
    /\ repoChecks \subseteq [by : {"mount", "connect"},
                            at : {"linking", "asked", "read"}, found : BOOLEAN]
    /\ draftCalls \in Seq([name : DraftNames, repo : RepoField,
                           at : {"sent", "stored", "ok", "failed", "over"}])
    /\ Len(draftCalls) <= MaxDrafts
    /\ agents \subseteq [name : DraftNames, repo : RepoField, call : 1..MaxDrafts]
    /\ buildQueue \subseteq 1..MaxDrafts /\ typed \in 0..MaxTyped

DraftInit ==
    /\ agentName \in DraftNames /\ agentMode \in AgentModes   \* ?mode=repo
    /\ selectedRepo = NoRepository /\ customRepo = FALSE
    /\ hasGitHubAccess = FALSE /\ connectingGitHub = FALSE /\ hubLinked \in BOOLEAN
    /\ repoChecks = {[by |-> "mount", at |-> "asked", found |-> FALSE]}
    /\ submitting = FALSE /\ draftError = FALSE /\ left = FALSE
    /\ draftCalls = <<>> /\ agents = {} /\ buildQueue = {}
    /\ typed = 0

Mounted == ~left

-----------------------------------------------------------------------------
(* The form's fields.                                                      *)

UseForm == Mounted /\ typed < MaxTyped /\ typed' = typed + 1
Type == UseForm /\ UNCHANGED <<gitHub, submission>>

PickName(n) ==
    /\ Type /\ n # agentName /\ agentName' = n
    /\ UNCHANGED <<agentMode, selectedRepo, customRepo>>

PickMode(m) ==
    /\ Type /\ m # agentMode /\ agentMode' = m
    /\ UNCHANGED <<agentName, selectedRepo, customRepo>>

SelectorsShown == agentMode = "REPO_BACKED" /\ hasGitHubAccess

ToggleCustom ==
    /\ Type /\ SelectorsShown /\ customRepo' = ~customRepo
    /\ UNCHANGED <<agentName, agentMode, selectedRepo>>

\* The text field may be emptied, the list offers repositories only.
PickRepository(r) ==
    /\ Type /\ SelectorsShown /\ r # selectedRepo
    /\ r # NoRepository \/ customRepo
    /\ selectedRepo' = r
    /\ UNCHANGED <<agentName, agentMode, customRepo>>

-----------------------------------------------------------------------------
(* GitHub.                                                                 *)

ConnectBoxShown == agentMode = "REPO_BACKED" /\ ~hasGitHubAccess

ClickQuickConnect ==
    /\ UseForm /\ ConnectBoxShown /\ ~connectingGitHub
    /\ connectingGitHub' = TRUE /\ draftError' = FALSE
    /\ repoChecks' = repoChecks \cup {[by |-> "connect", at |-> "linking", found |-> FALSE]}
    /\ UNCHANGED <<agentName, agentMode, selectedRepo, customRepo, hasGitHubAccess, hubLinked,
                   submitting, left, draftCalls, agents, buildQueue>>

QuickConnectServed(c) ==
    /\ c.at = "linking"
    /\ \/ /\ hubLinked' = TRUE
          /\ repoChecks' = (repoChecks \ {c}) \cup {[c EXCEPT !.at = "asked"]}
          /\ UNCHANGED <<connectingGitHub, draftError>>
       \/ /\ repoChecks' = repoChecks \ {c}
          /\ connectingGitHub' = FALSE /\ draftError' = TRUE /\ hubLinked' \in {hubLinked, TRUE}
    /\ UNCHANGED <<fields, hasGitHubAccess, submitting, left, draftCalls, agents, buildQueue>>

\* A failed request reads as "not connected".
RepoListServed(c) ==
    /\ c.at = "asked"
    /\ \E found \in {FALSE, hubLinked} :
          repoChecks' = (repoChecks \ {c}) \cup {[c EXCEPT !.at = "read", !.found = found]}
    /\ UNCHANGED <<fields, hasGitHubAccess, connectingGitHub, hubLinked, submission>>

\* checkGitHub takes the access away when it found nothing, a connection does not.
RepoListAnswered(c) ==
    /\ c.at = "read" /\ repoChecks' = repoChecks \ {c}
    /\ hasGitHubAccess' = (c.found \/ (c.by = "connect" /\ hasGitHubAccess))
    /\ connectingGitHub' = (connectingGitHub /\ c.by # "connect")
    /\ IF c.found THEN selectedRepo' \in Repositories ELSE UNCHANGED selectedRepo
    /\ UNCHANGED <<agentName, agentMode, customRepo, typed, hubLinked, submission>>

-----------------------------------------------------------------------------
(* Submission.                                                             *)

SubmitOffered == Mounted /\ ~submitting

\* handleSubmit's early return.
SubmitBlocked ==
    /\ SubmitOffered /\ ConnectBoxShown /\ ~draftError /\ draftError' = TRUE
    /\ UNCHANGED <<fields, gitHub, submitting, left, draftCalls, agents, buildQueue>>

ClickCreate ==
    /\ SubmitOffered /\ ~ConnectBoxShown /\ Len(draftCalls) < MaxDrafts
    /\ submitting' = TRUE /\ draftError' = FALSE
    /\ draftCalls' = Append(draftCalls,
          [name |-> agentName, at |-> "sent",
           repo |-> IF agentMode = "REPO_BACKED" THEN selectedRepo ELSE NoRepository])
    /\ UNCHANGED <<fields, gitHub, left, agents, buildQueue>>

SlugTaken(n) == \E a \in agents : a.name = n

\* Variant of CreateServed: the answer does not wait for the build's job.
AnswersEarly(c) ==
    /\ draftCalls[c].at = "sent"
    /\ \/ /\ ~SlugTaken(draftCalls[c].name)
          /\ agents' = agents \cup {[name |-> draftCalls[c].name, repo |-> draftCalls[c].repo, call |-> c]}
          /\ draftCalls' = [draftCalls EXCEPT ![c].at = "ok"]
       \/ draftCalls' = [draftCalls EXCEPT ![c].at = "failed"] /\ UNCHANGED agents
    /\ UNCHANGED <<fields, gitHub, submitting, draftError, left, buildQueue>>

CreateServed(c) ==
    /\ draftCalls[c].at = "sent"
    /\ \/ /\ ~SlugTaken(draftCalls[c].name)
          /\ agents' = agents \cup {[name |-> draftCalls[c].name, repo |-> draftCalls[c].repo, call |-> c]}
          /\ draftCalls' = [draftCalls EXCEPT ![c].at =
                               IF draftCalls[c].repo = NoRepository THEN "ok" ELSE "stored"]
       \/ draftCalls' = [draftCalls EXCEPT ![c].at = "failed"] /\ UNCHANGED agents
    /\ UNCHANGED <<fields, gitHub, submitting, draftError, left, buildQueue>>

\* The job is another transaction: a crash between leaves an agent without one.
BuildEnqueued(c) ==
    /\ draftCalls[c].at = "stored"
    /\ \/ buildQueue' = buildQueue \cup {c} /\ draftCalls' = [draftCalls EXCEPT ![c].at = "ok"]
       \/ draftCalls' = [draftCalls EXCEPT ![c].at = "failed"] /\ UNCHANGED buildQueue
    /\ UNCHANGED <<fields, gitHub, submitting, draftError, left, agents>>

CreateAnswered(c) ==
    /\ draftCalls[c].at \in {"ok", "failed"}
    /\ draftCalls' = [draftCalls EXCEPT ![c].at = "over"] /\ submitting' = FALSE
    /\ \/ draftCalls[c].at = "ok" /\ left' = TRUE /\ UNCHANGED draftError
       \/ draftError' = TRUE /\ UNCHANGED left
    /\ UNCHANGED <<fields, gitHub, agents, buildQueue>>

-----------------------------------------------------------------------------

DraftStep ==
    \/ \E c \in repoChecks : QuickConnectServed(c) \/ RepoListServed(c) \/ RepoListAnswered(c)
    \/ \E c \in DOMAIN draftCalls : CreateServed(c) \/ BuildEnqueued(c) \/ CreateAnswered(c)

DraftNext ==
    \/ DraftStep
    \/ \E n \in DraftNames : PickName(n)
    \/ \E m \in AgentModes : PickMode(m)
    \/ ToggleCustom \/ \E r \in RepoField : PickRepository(r)
    \/ ClickQuickConnect \/ SubmitBlocked \/ ClickCreate

DraftFairness == WF_draftVars(DraftStep)

DraftSpec == DraftInit /\ [][DraftNext]_draftVars

-----------------------------------------------------------------------------

\* The page the form leaves for shows an agent that is stored, once and with the
\* build of its repository queued: neither lost answers and new attempts nor a crash
\* between agent and build bring the owner there otherwise (agents.py:158).
LeavesForStoredAgent ==
    left => \E a \in agents :
        /\ a.repo # NoRepository => a.call \in buildQueue
        /\ a.call = Len(draftCalls)
        /\ \A b \in agents : b.name = a.name => b = a

\* What must not last: "Creating Agent..." and "Connecting GitHub..." (CreateAgentForm.tsx:146).
DraftWaits == submitting \/ connectingGitHub
=============================================================================
