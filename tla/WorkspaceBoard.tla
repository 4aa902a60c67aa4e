---------------------------- MODULE WorkspaceBoard ----------------------------
(***************************************************************************)
(* The workspaces page (WorkspaceTable.tsx): a table of deployed containers *)
(* and one of rented workspaces, refreshed every 8 s by three requests in  *)
(* one Promise.all.  A refresh does not wait for the one before, so answers *)
(* come in any order; the buttons stop a container, queue a rebuild and    *)
(* release a lease's escrow while refreshes are on their way.              *)
(* Agents, prices, uptimes and the log window are left out.                *)
(***************************************************************************)
EXTENDS Naturals, FiniteSets

CONSTANTS Containers, Leases,
          MaxRefreshes,  \* bound: refreshes under way at once
          MaxEvents      \* bound: clicks, changes not made from this page, failures

ASSUME BoardAssumption == {MaxRefreshes, MaxEvents} \subseteq Nat

VARIABLES
    view,        \* activeTab
    table,       \* what the page shows of each container, "none" when no row
    leaseTable,  \* and of each lease
    stoppingId, settlingId, redeployingId,
    refreshes,   \* refreshes on their way, by slot
    calls,       \* requests of the buttons on their way
    events,      \* counter of the bound MaxEvents
    container, lease   \* the API's rows

boardVars == <<view, table, leaseTable, stoppingId, settlingId, redeployingId, refreshes,
               calls, events, container, lease>>
shownBoard == <<view, table, leaseTable>>
pending == <<stoppingId, settlingId, redeployingId>>
server == <<container, lease>>

ContainerStatus == {"PROVISIONING", "RUNNING", "STOPPED", "ERROR"}
LeaseStatus == {"ESCROW_LOCKED", "SETTLED"}
Tables == [Containers -> ContainerStatus \cup {"none"}]
LeaseTables == [Leases -> LeaseStatus \cup {"none"}]
NoRows == [w \in Containers |-> "none"]
NoLeases == [l \in Leases |-> "none"]

Idle == [rows |-> "idle", seen |-> NoRows, rented |-> "idle", leases |-> NoLeases,
         settling |-> FALSE]
Asked == [Idle EXCEPT !.rows = "asked", !.rented = "asked"]
Slots == 1..MaxRefreshes

BoardTypeOK ==
    /\ view \in {"deployed", "rented"} /\ table \in Tables /\ leaseTable \in LeaseTables
    /\ stoppingId \in Containers \cup {"none"} /\ redeployingId \in Containers \cup {"none"}
    /\ settlingId \in Leases \cup {"none"}
    /\ refreshes \in [Slots -> [rows : {"idle", "asked", "answered"}, seen : Tables,
                                rented : {"idle", "asked", "answered"}, leases : LeaseTables,
                                settling : BOOLEAN]]
    /\ calls \subseteq [op : {"stop", "settle", "rebuild"}, id : Containers \cup Leases,
                        n : 1..MaxEvents, done : BOOLEAN]
    /\ events \in 0..MaxEvents
    /\ container \in [Containers -> ContainerStatus] /\ lease \in [Leases -> LeaseStatus]

BoardInit ==
    /\ view = "deployed" /\ table = NoRows /\ leaseTable = NoLeases
    /\ stoppingId = "none" /\ settlingId = "none" /\ redeployingId = "none"
    /\ refreshes = [s \in Slots |-> IF s = 1 THEN Asked ELSE Idle]
    /\ calls = {} /\ events = 0
    /\ container \in [Containers -> {"PROVISIONING", "RUNNING"}]
    /\ lease = [l \in Leases |-> "ESCROW_LOCKED"]

Event == events < MaxEvents /\ events' = events + 1

-----------------------------------------------------------------------------
(* fetchWorkspaces.                                                        *)

\* A settlement waits for its refresh.
StartRefresh(settling) ==
    \E s \in Slots :
        /\ refreshes[s] = Idle /\ \A t \in 1..(s - 1) : refreshes[t] # Idle
        /\ refreshes' = [refreshes EXCEPT ![s] = [Asked EXCEPT !.settling = settling]]

\* The interval and the refresh button.
PollTick ==
    /\ StartRefresh(FALSE)
    /\ UNCHANGED <<shownBoard, pending, calls, events, server>>

\* The API reads the containers and the leases for two requests of their own; the
\* client turns a request that failed into an empty list.
RowsRead(s) ==
    /\ refreshes[s].rows = "asked"
    /\ \E rows \in {container, NoRows} :
          /\ refreshes' = [refreshes EXCEPT ![s].rows = "answered", ![s].seen = rows]
          /\ IF rows = container THEN UNCHANGED events ELSE Event
    /\ UNCHANGED <<shownBoard, pending, calls, server>>

LeasesRead(s) ==
    /\ refreshes[s].rented = "asked"
    /\ \E rows \in {lease, NoLeases} :
          /\ refreshes' = [refreshes EXCEPT ![s].rented = "answered", ![s].leases = rows]
          /\ IF rows = lease THEN UNCHANGED events ELSE Event
    /\ UNCHANGED <<shownBoard, pending, calls, server>>

\* Both tables are replaced once both requests are answered.
RefreshEnds(s) ==
    LET r == refreshes[s] IN
    /\ r.rows = "answered" /\ r.rented = "answered"
    /\ table' = r.seen /\ leaseTable' = r.leases
    /\ refreshes' = [refreshes EXCEPT ![s] = Idle]
    /\ settlingId' = IF r.settling THEN "none" ELSE settlingId
    /\ UNCHANGED <<view, stoppingId, redeployingId, calls, events, server>>

-----------------------------------------------------------------------------
(* Buttons.                                                                *)

SwitchView ==
    /\ view' = IF view = "deployed" THEN "rented" ELSE "deployed"
    /\ UNCHANGED <<table, leaseTable, pending, refreshes, calls, events, server>>

StopOffered(w) == view = "deployed" /\ table[w] = "RUNNING" /\ stoppingId # w
RedeployOffered(w) == view = "deployed" /\ table[w] # "none" /\ redeployingId # w
SettleOffered(l) == view = "rented" /\ leaseTable[l] = "ESCROW_LOCKED" /\ settlingId # l

Click(op, id) ==
    /\ Event
    /\ calls' = calls \cup {[op |-> op, id |-> id, n |-> events + 1, done |-> FALSE]}
    /\ UNCHANGED <<shownBoard, refreshes, server>>

ClickStop(w) ==
    /\ StopOffered(w) /\ Click("stop", w)
    /\ stoppingId' = w /\ UNCHANGED <<settlingId, redeployingId>>

ClickRedeploy(w) ==
    /\ RedeployOffered(w) /\ Click("rebuild", w)
    /\ redeployingId' = w /\ UNCHANGED <<stoppingId, settlingId>>

ClickSettle(l) ==
    /\ SettleOffered(l) /\ Click("settle", l)
    /\ settlingId' = l /\ UNCHANGED <<stoppingId, redeployingId>>

\* The API acts on a request; a rebuild only queues a job.
CallActs(c) ==
    /\ ~c.done
    /\ calls' = (calls \ {c}) \cup {[c EXCEPT !.done = TRUE]}
    /\ \/ /\ c.op = "stop"
          /\ container' = [container EXCEPT ![c.id] = "STOPPED"] /\ UNCHANGED lease
       \/ /\ c.op = "settle" /\ lease[c.id] = "ESCROW_LOCKED"
          /\ lease' = [lease EXCEPT ![c.id] = "SETTLED"] /\ UNCHANGED container
       \/ c.op = "rebuild" /\ UNCHANGED server
    /\ UNCHANGED <<shownBoard, pending, refreshes, events>>

StopAnswered(c) ==
    /\ c.op = "stop" /\ c.done /\ calls' = calls \ {c}
    /\ table' = IF table[c.id] = "none" THEN table ELSE [table EXCEPT ![c.id] = "STOPPED"]
    /\ stoppingId' = "none"
    /\ UNCHANGED <<view, leaseTable, settlingId, redeployingId, refreshes, events, server>>

\* handleSettleLease awaits its refresh before it clears the one mark, whichever
\* lease has it by then.
SettleAnswered(c) ==
    /\ c.op = "settle" /\ c.done /\ calls' = calls \ {c}
    /\ StartRefresh(TRUE)
    /\ UNCHANGED <<shownBoard, pending, events, server>>

RedeployAnswered(c) ==
    /\ c.op = "rebuild" /\ c.done /\ calls' = calls \ {c}
    /\ StartRefresh(FALSE) /\ redeployingId' = "none"
    /\ UNCHANGED <<shownBoard, stoppingId, settlingId, events, server>>

\* Refused (a lease settled before among others), or the answer is lost.
CallFailed(c) ==
    /\ \/ c.op = "settle" /\ ~c.done /\ lease[c.id] = "SETTLED" /\ UNCHANGED events
       \/ Event
    /\ calls' = calls \ {c}
    /\ stoppingId' = IF c.op = "stop" THEN "none" ELSE stoppingId
    /\ settlingId' = IF c.op = "settle" THEN "none" ELSE settlingId
    /\ redeployingId' = IF c.op = "rebuild" THEN "none" ELSE redeployingId
    /\ UNCHANGED <<shownBoard, refreshes, server>>

\* Builds, the health poller and expiring leases (Workspaces.tla).
ContainerMoves(w) ==
    /\ Event
    /\ \E to \in CASE container[w] = "PROVISIONING" -> {"RUNNING", "ERROR"}
                   [] container[w] = "RUNNING" -> {"STOPPED", "ERROR"}
                   [] OTHER -> {} : container' = [container EXCEPT ![w] = to]
    /\ UNCHANGED <<shownBoard, pending, refreshes, calls, lease>>

-----------------------------------------------------------------------------

RefreshStep == \E s \in Slots : RowsRead(s) \/ LeasesRead(s) \/ RefreshEnds(s)

CallStep == \E c \in calls :
    CallActs(c) \/ StopAnswered(c) \/ SettleAnswered(c) \/ RedeployAnswered(c) \/ CallFailed(c)

BoardNext ==
    \/ PollTick \/ RefreshStep \/ SwitchView
    \/ \E w \in Containers : ClickStop(w) \/ ClickRedeploy(w) \/ ContainerMoves(w)
    \/ \E l \in Leases : ClickSettle(l)
    \/ CallStep

\* The interval ticks and every request ends.
BoardFairness == WF_boardVars(PollTick) /\ WF_boardVars(RefreshStep) /\ WF_boardVars(CallStep)

BoardSpec == BoardInit /\ [][BoardNext]_boardVars

-----------------------------------------------------------------------------

\* What must not last: tables that do not show what the API has, and the mark of a
\* container that is being stopped.  Late answers, the row a stop rewrote and tables
\* emptied by a failed request are overcome by the next refresh (WorkspaceTable.tsx:117).
BoardWaits == table # container \/ leaseTable # lease \/ stoppingId # "none"
=============================================================================
