----------------------------- MODULE MCWebClient -----------------------------
(* One TLC instance of every page of the web client.  A behaviour is one    *)
(* visit of one page, `visited': the other pages stand still in one of      *)
(* their initial states.                                                    *)
EXTENDS HireCheckout, TaskWatch, DeployConsole, WorkspaceBoard, ClientSession, AgentPublish,
        AgentDraft, MarketBrowse, AgentProfile, ConnectedAccounts, UserTable, ModerationQueue,
        BuildConsole, TLC

VARIABLE visited

\* Of the made-up agents all match the empty query and none matches "one".
SamplesOf == [q \in Queries |-> IF q = AllAgents THEN 2 ELSE 0]

ClientPages == {"checkout", "watch", "deploy", "board", "session", "publish", "draft", "browse",
                "profile", "accounts", "users", "queue", "build"}
Is(p) == visited = p
Rests(p) == visited # p
NoBuilds == [r \in Repos |-> <<>>]

\* A page that is not visited starts in one state only.
ClientInit ==
    /\ visited \in ClientPages
    /\ CheckoutInit /\ (Rests("checkout") => connected)
    /\ WatchInit
    /\ DeployInit /\ (Rests("deploy") => linked /\ builds = NoBuilds
                                           /\ settings = CHOOSE s \in Settings : TRUE)
    /\ BoardInit /\ (Rests("board") => container = [w \in Containers |-> "RUNNING"])
    /\ SessionInit /\ (Rests("session") => sessions = <<>> /\ path = "login")
    /\ PublishInit /\ (Rests("publish") => status = "DRAFT" /\ safe /\ net = "amoy")
    /\ DraftInit /\ (Rests("draft") => hubLinked /\ agentMode = "REPO_BACKED"
                                           /\ agentName = CHOOSE n \in DraftNames : TRUE)
    /\ BrowseInit /\ (Rests("browse") => stock = [q \in Queries |-> 0])
    /\ ProfileInit /\ (Rests("profile") => signedIn)
    /\ AccountsInit /\ (Rests("accounts") => installed = {} /\ repoCache = {})
    /\ UsersInit /\ (Rests("users") => activeUsers = People)
    /\ QueueInit /\ (Rests("queue") => review = [a \in Submissions |-> "DRAFT"])
    /\ ConsoleInit /\ (Rests("build") => buildJobs = <<>>)

clientVars == <<visited, checkoutVars, watchVars, deployVars, boardVars, sessionVars, publishVars,
                draftVars, browseVars, profileVars, accountsVars, usersVars, queueVars, consoleVars>>

OthersRest ==
    /\ UNCHANGED visited
    /\ IF Is("checkout") THEN TRUE ELSE UNCHANGED checkoutVars
    /\ IF Is("watch") THEN TRUE ELSE UNCHANGED watchVars
    /\ IF Is("deploy") THEN TRUE ELSE UNCHANGED deployVars
    /\ IF Is("board") THEN TRUE ELSE UNCHANGED boardVars
    /\ IF Is("session") THEN TRUE ELSE UNCHANGED sessionVars
    /\ IF Is("publish") THEN TRUE ELSE UNCHANGED publishVars
    /\ IF Is("draft") THEN TRUE ELSE UNCHANGED draftVars
    /\ IF Is("browse") THEN TRUE ELSE UNCHANGED browseVars
    /\ IF Is("profile") THEN TRUE ELSE UNCHANGED profileVars
    /\ IF Is("accounts") THEN TRUE ELSE UNCHANGED accountsVars
    /\ IF Is("users") THEN TRUE ELSE UNCHANGED usersVars
    /\ IF Is("queue") THEN TRUE ELSE UNCHANGED queueVars
    /\ IF Is("build") THEN TRUE ELSE UNCHANGED consoleVars

ClientNext ==
    /\ \/ Is("checkout") /\ CheckoutNext
       \/ Is("watch") /\ WatchNext
       \/ Is("deploy") /\ DeployNext
       \/ Is("board") /\ BoardNext
       \/ Is("session") /\ SessionNext
       \/ Is("publish") /\ PublishNext
       \/ Is("draft") /\ DraftNext
       \/ Is("browse") /\ BrowseNext
       \/ Is("profile") /\ ProfileNext
       \/ Is("accounts") /\ AccountsNext
       \/ Is("users") /\ UsersNext
       \/ Is("queue") /\ QueueNext
       \/ Is("build") /\ ConsoleNext
    /\ OthersRest

\* The fairness the pages state: one page is visited, so that the first conditions
\* of all of them are one, and so are the second and the third.
FirstFair ==
    /\ \/ Is("watch") /\ Tick
       \/ Is("deploy") /\ Answers
       \/ Is("board") /\ PollTick
       \/ Is("session") /\ TabLoads
       \/ Is("publish") /\ Machine
       \/ Is("draft") /\ DraftStep
       \/ Is("browse") /\ BrowseStep
       \/ Is("profile") /\ ProfileStep
       \/ Is("accounts") /\ ReloadStep
       \/ Is("users") /\ UsersStep
       \/ Is("queue") /\ QueueStep
       \/ Is("build") /\ ConsoleStep
    /\ UNCHANGED visited
SecondFair ==
    /\ \/ Is("watch") /\ Answer
       \/ Is("deploy") /\ Worker
       \/ Is("board") /\ RefreshStep
       \/ Is("session") /\ Redirect
       \/ Is("publish") /\ ApiAnswers
       \/ Is("accounts") /\ HubCallStep
       \/ Is("build") /\ BuilderStep
    /\ UNCHANGED visited
ThirdFair ==
    /\ \/ Is("deploy") /\ Channels
       \/ Is("board") /\ CallStep
       \/ Is("session") /\ \E f \in flows : FlowMoves(f)
    /\ UNCHANGED visited

\* What the fair steps change: the state of the page that is visited.
pageVars ==
    CASE Is("checkout") -> checkoutVars
      [] Is("watch") -> watchVars
      [] Is("deploy") -> deployVars
      [] Is("board") -> boardVars
      [] Is("session") -> sessionVars
      [] Is("publish") -> publishVars
      [] Is("draft") -> draftVars
      [] Is("browse") -> browseVars
      [] Is("profile") -> profileVars
      [] Is("accounts") -> accountsVars
      [] Is("users") -> usersVars
      [] Is("queue") -> queueVars
      [] Is("build") -> consoleVars

ClientSpec ==
    /\ ClientInit /\ [][ClientNext]_clientVars
    /\ WF_pageVars(FirstFair) /\ WF_pageVars(SecondFair) /\ WF_pageVars(ThirdFair)

-----------------------------------------------------------------------------

\* The state of the page that is visited has its type, whatever the user and the API do.
ClientTypeOK ==
    CASE Is("checkout") -> CheckoutTypeOK
      [] Is("watch") -> WatchTypeOK
      [] Is("deploy") -> DeployTypeOK
      [] Is("board") -> BoardTypeOK
      [] Is("session") -> SessionTypeOK
      [] Is("publish") -> PublishTypeOK
      [] Is("draft") -> DraftTypeOK
      [] Is("browse") -> BrowseTypeOK
      [] Is("profile") -> ProfileTypeOK
      [] Is("accounts") -> AccountsTypeOK
      [] Is("users") -> UsersTypeOK
      [] Is("queue") -> QueueTypeOK
      [] Is("build") -> ConsoleTypeOK

\* A page at rest shows what the API has, each under the condition its module names:
\* the grid, the page number, the lists of accounts, users and submissions, the end
\* of a watched task or build and the playground's output.
QuietPagesAreCurrent ==
    /\ GridIsCurrent /\ PageExists /\ AccountsCurrent /\ UsersCurrent /\ QueueCurrent
    /\ EndIsShown /\ OutputIsLatest /\ EndOfBuildStands

\* What a page has reported stays true: an agent announced as published was accepted,
\* one reported as rejected stays out.
ReportedStays == ConfirmedWasAccepted /\ RejectedStaysOut

\* No page is left waiting for good: spinners, busy buttons, the console of a first
\* deployment, polling, redirects and tables that are out of date come to an end.
Waits ==
    CASE Is("watch") -> WatchWaits
      [] Is("deploy") -> DeployWaits
      [] Is("board") -> BoardWaits
      [] Is("session") -> SessionWaits
      [] Is("publish") -> PublishWaits
      [] Is("draft") -> DraftWaits
      [] Is("browse") -> BrowseWaits
      [] Is("profile") -> ProfileWaits
      [] Is("accounts") -> AccountsWaits
      [] Is("users") -> UsersWaits
      [] Is("queue") -> QueueWaits
      [] Is("build") -> BuildWaits
      [] OTHER -> FALSE
NoPageWaitsForever == []<>~Waits
=============================================================================
