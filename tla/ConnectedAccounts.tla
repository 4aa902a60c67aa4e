-------------------------- MODULE ConnectedAccounts --------------------------
(***************************************************************************)
(* The connected-accounts page and the GitHub endpoints behind it: the     *)
(* rows of GitHubInstallation and the per-user cache of repository lists.  *)
(* A reload asks for the installations and then for the repositories; a    *)
(* sync and a connection wait for a reload, a disconnection edits the list *)
(* in place.  The client turns a failed list request into an empty list.   *)
(* Repositories are reduced to the installation they come from.            *)
(***************************************************************************)
EXTENDS Naturals, FiniteSets

CONSTANTS RealInsts,   \* GitHub App installations of the user at GitHub
          DevInst,     \* the one POST /connect-dev makes
          MaxHubActs   \* bound: clicks, expiries and failures

ASSUME AccountsAssumption == DevInst \notin RealInsts /\ MaxHubActs \in Nat

Insts == RealInsts \cup {DevInst}
NotCached == Insts \cup {"none"}   \* no list of repositories has this value

VARIABLES
    installed, repoCache,          \* the API
    shownInsts, countedInsts,      \* installations listed, and those with a repository count
    accountsLoading, linking, syncing,
    reloads,                       \* fetchInstallations under way
    hubCalls,                      \* the buttons' requests under way
    hubActs,
    muddled                        \* history: a request failed, or a change met a reload

accountsVars == <<installed, repoCache, shownInsts, countedInsts, accountsLoading, linking,
                  syncing, reloads, hubCalls, hubActs, muddled>>
accountsPage == <<shownInsts, countedInsts, accountsLoading, linking, syncing>>

Reload(by, n) == [by |-> by, n |-> n, at |-> "list", seen |-> {}]

AccountsTypeOK ==
    /\ installed \subseteq Insts /\ repoCache \in (SUBSET Insts) \cup {NotCached}
    /\ shownInsts \subseteq Insts /\ countedInsts \subseteq Insts
    /\ {accountsLoading, linking, syncing, muddled} \subseteq BOOLEAN
    /\ reloads \subseteq [by : {"mount", "sync", "connect"}, n : 0..MaxHubActs,
                          at : {"list", "listed", "repos", "reading", "counted"},
                          seen : SUBSET Insts]
    /\ hubCalls \subseteq [op : {"sync", "connect", "disconnect"}, id : Insts, n : 0..MaxHubActs,
                           got : {"nothing", "ok", "failed"}]
    /\ hubActs \in 0..MaxHubActs

AccountsInit ==
    /\ installed \in SUBSET Insts /\ repoCache \in {NotCached, installed}
    /\ shownInsts = {} /\ countedInsts = {} /\ accountsLoading = TRUE
    /\ linking = FALSE /\ syncing = FALSE /\ hubActs = 0
    /\ reloads = {Reload("mount", 0)} /\ hubCalls = {} /\ muddled = FALSE

HubAct == hubActs < MaxHubActs /\ hubActs' = hubActs + 1

-----------------------------------------------------------------------------
(* The API.                                                                *)

\* _auto_sync_real_installations: only when the user has no real one yet.
AutoSynced(rows) == IF rows \cap RealInsts = {} THEN {rows, rows \cup RealInsts} ELSE {rows}

ListServed(r) ==
    /\ r.at = "list"
    /\ \/ /\ installed' \in AutoSynced(installed)
          /\ reloads' = (reloads \ {r}) \cup {[r EXCEPT !.at = "listed", !.seen = installed']}
          /\ UNCHANGED <<hubActs, muddled>>
       \/ /\ HubAct /\ muddled' = TRUE
          /\ reloads' = (reloads \ {r}) \cup {[r EXCEPT !.at = "listed", !.seen = {}]}
          /\ UNCHANGED installed
    /\ UNCHANGED <<repoCache, accountsPage, hubCalls>>

\* Development rows count only for a user without a real one.
RepoOwners(rows) == IF rows \cap RealInsts # {} THEN rows \cap RealInsts ELSE rows

ReposFromCache(r) ==
    /\ r.at = "repos" /\ repoCache # NotCached
    /\ reloads' = (reloads \ {r}) \cup {[r EXCEPT !.at = "counted", !.seen = repoCache]}
    /\ UNCHANGED <<installed, repoCache, accountsPage, hubCalls, hubActs, muddled>>

ReposRead(r) ==
    /\ r.at = "repos" /\ repoCache = NotCached
    /\ installed' \in AutoSynced(installed)
    /\ reloads' = (reloads \ {r})
                    \cup {[r EXCEPT !.at = "reading", !.seen = RepoOwners(installed')]}
    /\ muddled' = (muddled \/ installed' # installed)
    /\ UNCHANGED <<repoCache, accountsPage, hubCalls, hubActs>>

\* After the calls to GitHub the list is cached, though it may have been dropped
\* from the cache since it was read.
ReposStored(r) ==
    /\ r.at = "reading" /\ repoCache' = r.seen
    /\ reloads' = (reloads \ {r}) \cup {[r EXCEPT !.at = "counted"]}
    /\ UNCHANGED <<installed, accountsPage, hubCalls, hubActs, muddled>>

\* 5, 60 or 180 seconds after it was stored.
CacheExpires ==
    /\ HubAct /\ repoCache # NotCached /\ repoCache' = NotCached
    /\ UNCHANGED <<installed, accountsPage, reloads, hubCalls, muddled>>

CallServed(c) ==
    /\ c.got = "nothing"
    /\ \/ /\ \/ c.op = "connect" /\ installed' = installed \cup {DevInst} /\ repoCache' = NotCached
             \/ c.op = "sync" /\ installed' \in AutoSynced(installed) /\ UNCHANGED repoCache
             \/ /\ c.op = "disconnect" /\ c.id \in installed
                /\ installed' = installed \ {c.id} /\ repoCache' = NotCached
          /\ \E got \in {"ok", "failed"} :
                /\ hubCalls' = (hubCalls \ {c}) \cup {[c EXCEPT !.got = got]}
                /\ muddled' = (muddled \/ got = "failed" \/ reloads # {} \/ Cardinality(hubCalls) > 1)
       \/ /\ hubCalls' = (hubCalls \ {c}) \cup {[c EXCEPT !.got = "failed"]}
          /\ muddled' = TRUE /\ UNCHANGED <<installed, repoCache>>
    /\ UNCHANGED <<accountsPage, reloads, hubActs>>

-----------------------------------------------------------------------------
(* fetchInstallations.                                                     *)

ListAnswered(r) ==
    /\ r.at = "listed" /\ shownInsts' = r.seen
    /\ reloads' = (reloads \ {r}) \cup {[r EXCEPT !.at = "repos", !.seen = {}]}
    /\ UNCHANGED <<installed, repoCache, countedInsts, accountsLoading, linking, syncing, hubCalls,
                   hubActs, muddled>>

\* A failed request counts nothing.  Whoever awaited the reload goes on.
CountsAnswered(r) ==
    /\ \/ r.at = "counted" /\ countedInsts' = r.seen /\ UNCHANGED <<hubActs, muddled>>
       \/ /\ r.at \in {"repos", "reading", "counted"} /\ HubAct
          /\ countedInsts' = {} /\ muddled' = TRUE
    /\ reloads' = reloads \ {r} /\ accountsLoading' = FALSE
    /\ linking' = (linking /\ r.by # "connect")
    /\ syncing' = (syncing /\ r.by # "sync")
    /\ UNCHANGED <<installed, repoCache, shownInsts, hubCalls>>

-----------------------------------------------------------------------------
(* Buttons.                                                                *)

EmptyBoxShown == ~accountsLoading /\ shownInsts = {}
SyncOffered == ~syncing /\ ~accountsLoading
\* The box for an empty list has a connect button that is never disabled.
LinkOffered == ~linking \/ EmptyBoxShown
DisconnectOffered(id) == ~accountsLoading /\ id \in shownInsts

Press(op, id) ==
    /\ HubAct
    /\ hubCalls' = hubCalls \cup {[op |-> op, id |-> id, n |-> hubActs + 1, got |-> "nothing"]}
    /\ UNCHANGED <<installed, repoCache, shownInsts, countedInsts, accountsLoading, reloads,
                   muddled>>

ClickSync == SyncOffered /\ Press("sync", DevInst) /\ syncing' = TRUE /\ UNCHANGED linking
ClickLink == LinkOffered /\ Press("connect", DevInst) /\ linking' = TRUE /\ UNCHANGED syncing
ClickDisconnect(id) ==
    DisconnectOffered(id) /\ Press("disconnect", id) /\ UNCHANGED <<linking, syncing>>

ReloadAfter(c) ==
    /\ reloads' = reloads \cup {Reload(c.op, c.n)} /\ accountsLoading' = TRUE
    /\ muddled' = (muddled \/ hubCalls # {c})
    /\ UNCHANGED <<shownInsts, linking, syncing>>

SyncAnswered(c) ==
    /\ c.op = "sync" /\ c.got # "nothing" /\ hubCalls' = hubCalls \ {c}
    /\ IF c.got = "ok" THEN ReloadAfter(c)
       ELSE syncing' = FALSE /\ UNCHANGED <<shownInsts, accountsLoading, linking, reloads,
                                            muddled>>
    /\ UNCHANGED <<installed, repoCache, countedInsts, hubActs>>

\* Variant of LinkAnswered: an error leaves the button busy.
LinkStaysBusy(c) ==
    /\ c.op = "connect" /\ c.got # "nothing" /\ hubCalls' = hubCalls \ {c}
    /\ IF c.got = "ok" THEN ReloadAfter(c)
       ELSE UNCHANGED <<shownInsts, accountsLoading, linking, syncing, reloads, muddled>>
    /\ UNCHANGED <<installed, repoCache, countedInsts, hubActs>>

LinkAnswered(c) ==
    /\ c.op = "connect" /\ c.got # "nothing" /\ hubCalls' = hubCalls \ {c}
    /\ IF c.got = "ok" THEN ReloadAfter(c)
       ELSE linking' = FALSE /\ UNCHANGED <<shownInsts, accountsLoading, syncing, reloads,
                                            muddled>>
    /\ UNCHANGED <<installed, repoCache, countedInsts, hubActs>>

DisconnectAnswered(c) ==
    /\ c.op = "disconnect" /\ c.got # "nothing" /\ hubCalls' = hubCalls \ {c}
    /\ shownInsts' = IF c.got = "ok" THEN shownInsts \ {c.id} ELSE shownInsts
    /\ UNCHANGED <<installed, repoCache, countedInsts, accountsLoading, linking, syncing, reloads,
                   hubActs, muddled>>

-----------------------------------------------------------------------------

ReloadStep == \E r \in reloads :
    \/ ListServed(r) \/ ReposFromCache(r) \/ ReposRead(r) \/ ReposStored(r)
    \/ ListAnswered(r) \/ CountsAnswered(r)
HubCallStep == \E c \in hubCalls :
    CallServed(c) \/ SyncAnswered(c) \/ LinkAnswered(c) \/ DisconnectAnswered(c)

AccountsNext ==
    \/ ReloadStep \/ HubCallStep \/ CacheExpires
    \/ ClickSync \/ ClickLink
    \/ \E id \in Insts : ClickDisconnect(id)

AccountsFairness == WF_accountsVars(ReloadStep) /\ WF_accountsVars(HubCallStep)

AccountsSpec == AccountsInit /\ [][AccountsNext]_accountsVars

-----------------------------------------------------------------------------

\* At rest the page lists the user's installations, unless a request failed or a
\* change was made while a reload was under way (connected-accounts/page.tsx:153).
AccountsCurrent ==
    (reloads = {} /\ hubCalls = {} /\ ~muddled) =>
        shownInsts = installed /\ ~accountsLoading /\ ~linking /\ ~syncing

\* What must not last: the list's spinner, "Syncing..." and "Connecting...", which a
\* request and the reload after it share (connected-accounts/page.tsx:103).
AccountsWaits == accountsLoading \/ linking \/ syncing
=============================================================================
