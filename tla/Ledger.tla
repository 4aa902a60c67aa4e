------------------------------- MODULE Ledger -------------------------------
(***************************************************************************)
(* The accounts of backend/financial: credits of settled tasks and leases, *)
(* debits of withdrawals, made by sessions that read a balance, compute    *)
(* with it and write it back by value.                                     *)
(*                                                                         *)
(* A request has a session of its own and loses everything when it fails.  *)
(* A worker keeps its session over many tasks, with the rows it loaded,    *)
(* and commits what it had done when it failed (orchestrator/queue.py,     *)
(* fail_job).  Each await is a point where other sessions run: the reads   *)
(* of one operation are separate steps, its commit is one.                 *)
(*                                                                         *)
(* An operator placed before a definition and named after a fault is that  *)
(* definition with a plausible bug; Next uses none of them.                *)
(***************************************************************************)
EXTENDS Integers, Sequences, FiniteSets

CONSTANTS
    Developers,       \* users with a DEVELOPER_EARNINGS account
    Leases, Tasks,    \* what can be settled
    OwnerOf,          \* [Leases \cup Tasks -> Developers], who earns it
    Gross,            \* [Leases \cup Tasks -> Nat], its price
    Requests,         \* concurrent API requests
    Workers,          \* concurrent finalising workers
    WithdrawAmounts,  \* amounts asked for
    MaxWithdrawals,   \* bound on accepted withdrawals
    MaxAttempts       \* attempts of a task's job

Pools == {"STAKING_POOL", "PLATFORM_TREASURY", "DAO_TREASURY"}
Accounts == Developers \cup Pools
Sessions == Requests \cup Workers
References == Leases \cup Tasks

NotLoaded == -1
NoReference == "none"

ASSUME LedgerAssumption ==
    /\ Leases \cap Tasks = {} /\ Requests \cap Workers = {} /\ Developers \cap Pools = {}
    /\ OwnerOf \in [References -> Developers]
    /\ Gross \in [References -> Nat]
    /\ NoReference \notin References
    /\ WithdrawAmounts \subseteq Nat /\ MaxWithdrawals \in Nat /\ MaxAttempts \in Nat

VARIABLES
    rows,         \* [Accounts -> Seq(Row)], the rows found for an account
    lease,        \* [Leases -> status of the workspace_leases row]
    attempts,     \* [Tasks -> Nat], failed attempts; MaxAttempts + 1 once settled
    session,      \* [Sessions -> what a session is doing and has loaded]
    withdrawals,  \* number of withdrawals rows
    credits,      \* history: how often each reference was credited to each account
    contested     \* history: rows read while another session was about to write them

vars == <<rows, lease, attempts, session, withdrawals, credits, contested>>

(* A ledger_accounts row with, of its ledger_entries, the sums by type and  *)
(* the balance_after of the last one.                                       *)
Row == [balance : Nat, credited : Nat, debited : Nat, after : Nat]
EmptyRow == [balance |-> 0, credited |-> 0, debited |-> 0, after |-> 0]

Idle == [stage |-> "idle", ref |-> NoReference, todo |-> <<>>, done |-> <<>>,
         loaded |-> [a \in Accounts |-> NotLoaded]]

-----------------------------------------------------------------------------
(* What a settlement posts: 85% to the developer, 10% to a pool, the rest to *)
(* the treasury.  The unit is 10^-6 USDC, what a balance column resolves;    *)
(* prices are multiples of 10^-4, so the divisions leave no remainder.       *)
DevAmount(g) == (g * 8500) \div 10000
PoolAmount(g) == (g * 1000) \div 10000
PoolOf(r) == IF r \in Tasks THEN "STAKING_POOL" ELSE "PLATFORM_TREASURY"

Posting(r) == <<
    [account |-> OwnerOf[r], delta |-> DevAmount(Gross[r])],
    [account |-> PoolOf(r), delta |-> PoolAmount(Gross[r])],
    [account |-> "DAO_TREASURY",
     delta |-> Gross[r] - DevAmount(Gross[r]) - PoolAmount(Gross[r])] >>

(* get_or_create_account: the row the select finds, or a new one that is     *)
(* inserted with the session's commit.  A row the session holds already      *)
(* keeps the balance it was loaded with; a worker's may have been collected. *)
PoolsNeverFound(a) == a \in Pools \/ Len(rows[a]) = 0
Missing(a) == Len(rows[a]) = 0
Ambiguous(a) == Len(rows[a]) > 1
Balances(s, a) ==
    IF Missing(a) THEN {0}
    ELSE LET stored == rows[a][1].balance
             loaded == session[s].loaded[a]
         IN IF loaded = NotLoaded THEN {stored}
            ELSE IF s \in Workers THEN {stored, loaded} ELSE {loaded}

Pending(s, a) == \E i \in DOMAIN session[s].done : session[s].done[i].account = a

Contention(s, a, seen) ==
    IF \/ \E t \in Sessions \ {s} : Pending(t, a)
       \/ ~Missing(a) /\ seen # rows[a][1].balance
    THEN {a} ELSE {}

(* What the commit leaves of one account. *)
EntryForgotten(row, item) == [row EXCEPT !.balance = item.after]
Posted(row, item) ==
    [balance |-> item.after, after |-> item.after,
     credited |-> row.credited + (IF item.delta > 0 THEN item.delta ELSE 0),
     debited |-> row.debited + (IF item.delta < 0 THEN -item.delta ELSE 0)]

Flushed(done, a) ==
    IF \E i \in DOMAIN done : done[i].account = a
    THEN LET item == done[CHOOSE i \in DOMAIN done : done[i].account = a]
         IN IF item.fresh THEN Append(rows[a], Posted(EmptyRow, item))
            ELSE [rows[a] EXCEPT ![1] = Posted(@, item)]
    ELSE rows[a]

WriteRows(s) == rows' = [a \in Accounts |-> Flushed(session[s].done, a)]

CountCredits(s) ==
    credits' = [r \in References |-> [a \in Accounts |->
        credits[r][a] + IF session[s].ref = r /\ Pending(s, a) THEN 1 ELSE 0]]

(* What the session still holds afterwards: nothing, unless it goes on. *)
Kept(s) ==
    IF s \in Workers
    THEN [Idle EXCEPT !.loaded = [a \in Accounts |->
            IF Pending(s, a)
            THEN session[s].done[CHOOSE i \in DOMAIN session[s].done :
                                     session[s].done[i].account = a].after
            ELSE session[s].loaded[a]]]
    ELSE Idle

-----------------------------------------------------------------------------
Init ==
    /\ rows = [a \in Accounts |-> <<>>]
    /\ lease = [l \in Leases |-> "NONE"]
    /\ attempts = [t \in Tasks |-> 0]
    /\ session = [s \in Sessions |-> Idle]
    /\ withdrawals = 0
    /\ credits = [r \in References |-> [a \in Accounts |-> 0]]
    /\ contested = {}

Rent(l) ==
    /\ lease[l] = "NONE"
    /\ lease' = [lease EXCEPT ![l] = "ESCROW_LOCKED"]
    /\ UNCHANGED <<rows, attempts, session, withdrawals, credits, contested>>

(* Authentication loads the caller's accounts into the request's session.    *)
Loaded(caller) ==
    [a \in Accounts |-> IF a = caller /\ Len(rows[a]) = 1 THEN rows[a][1].balance
                        ELSE NotLoaded]

SettleAgain(l) == lease[l] # "NONE"
MaySettle(l) == lease[l] = "ESCROW_LOCKED"

(* settle_workspace_lease, called by the renter, the owner or an admin, up   *)
(* to its first write.                                                       *)
BeginLease(s, l, caller) ==
    /\ session[s].stage = "idle"
    /\ MaySettle(l)
    /\ session' = [session EXCEPT ![s] =
         [stage |-> "busy", ref |-> l, todo |-> Posting(l), done |-> <<>>, loaded |-> Loaded(caller)]]
    /\ contested' = contested \cup
         (IF \E t \in Sessions : session[t].ref = l THEN {l} ELSE {})
    /\ UNCHANGED <<rows, lease, attempts, withdrawals, credits>>

BeginWithdrawal(s, d, amount) ==
    /\ session[s].stage = "idle"
    /\ amount > 0 /\ withdrawals < MaxWithdrawals
    /\ session' = [session EXCEPT ![s] =
         [stage |-> "busy", ref |-> NoReference, todo |-> <<[account |-> d, delta |-> -amount]>>,
          done |-> <<>>, loaded |-> Loaded(d)]]
    /\ UNCHANGED <<rows, lease, attempts, withdrawals, credits, contested>>

(* A worker finalises a task: one worker at a time for each task, which is   *)
(* what TaskOrchestration is about.                                          *)
BeginTask(s, t) ==
    /\ session[s].stage = "idle"
    /\ attempts[t] < MaxAttempts /\ Gross[t] > 0
    /\ \A w \in Workers : session[w].ref # t
    /\ session' = [session EXCEPT ![s].stage = "busy", ![s].ref = t, ![s].todo = Posting(t)]
    /\ UNCHANGED <<rows, lease, attempts, withdrawals, credits, contested>>

-----------------------------------------------------------------------------
OverdraftUnchecked(seen, delta) == TRUE
Affordable(seen, delta) == seen + delta >= 0

(* The next account of the operation: select it, add to it in memory.        *)
LookUp(s) ==
    /\ session[s].stage = "busy" /\ session[s].todo # <<>>
    /\ LET next == Head(session[s].todo)
           a == next.account
       IN /\ ~Ambiguous(a)
          /\ \E seen \in Balances(s, a) :
               /\ Affordable(seen, next.delta)
               /\ session' = [session EXCEPT
                    ![s].todo = Tail(@),
                    ![s].done = Append(@, [account |-> a, fresh |-> Missing(a),
                                           delta |-> next.delta, after |-> seen + next.delta])]
               /\ contested' = contested \cup Contention(s, a, seen)
    /\ UNCHANGED <<rows, lease, attempts, withdrawals, credits>>

LeaseAfter(s) == [l \in Leases |-> IF session[s].ref = l THEN "SETTLED" ELSE lease[l]]

Commit(s) ==
    /\ session[s].stage = "busy" /\ session[s].todo = <<>>
    /\ WriteRows(s)
    /\ CountCredits(s)
    /\ lease' = LeaseAfter(s)
    /\ attempts' = [t \in Tasks |-> IF session[s].ref = t THEN MaxAttempts + 1 ELSE attempts[t]]
    /\ withdrawals' = IF session[s].ref = NoReference THEN withdrawals + 1 ELSE withdrawals
    /\ session' = [session EXCEPT ![s] = Kept(s)]
    /\ UNCHANGED contested

(* The request fails: too little to withdraw, an account found twice, a      *)
(* client or a process gone.  Its session is rolled back.                    *)
FailureCommits(s) == WriteRows(s) /\ CountCredits(s)
RollBack(s) == UNCHANGED <<rows, credits>>

RequestFails(s) ==
    /\ s \in Requests /\ session[s].stage = "busy"
    /\ RollBack(s)
    /\ session' = [session EXCEPT ![s] = Idle]
    /\ UNCHANGED <<lease, attempts, withdrawals, contested>>

(* An account found twice raises inside the worker's session, which the job  *)
(* queue then commits with the failure of the job.                           *)
WorkerRaises(s) ==
    /\ s \in Workers /\ session[s].stage = "busy" /\ session[s].todo # <<>>
    /\ Ambiguous(Head(session[s].todo).account)
    /\ WriteRows(s)
    /\ CountCredits(s)
    /\ attempts' = [attempts EXCEPT ![session[s].ref] = @ + 1]
    /\ session' = [session EXCEPT ![s] = Kept(s)]
    /\ UNCHANGED <<lease, withdrawals, contested>>

(* The worker's process ends; a lease that expires makes another attempt.    *)
WorkerDies(s) ==
    /\ s \in Workers /\ session[s].stage = "busy"
    /\ RollBack(s)
    /\ attempts' = [attempts EXCEPT ![session[s].ref] = @ + 1]
    /\ session' = [session EXCEPT ![s] = Idle]
    /\ UNCHANGED <<lease, withdrawals, contested>>

RequestStep(s) ==
    \/ \E l \in Leases : \E caller \in {OwnerOf[l], NoReference} : BeginLease(s, l, caller)
    \/ \E d \in Developers, amount \in WithdrawAmounts : BeginWithdrawal(s, d, amount)
    \/ RequestFails(s)

WorkerStep(s) ==
    \/ \E t \in Tasks : BeginTask(s, t)
    \/ WorkerRaises(s)
    \/ WorkerDies(s)

Next ==
    \/ \E l \in Leases : Rent(l)
    \/ \E s \in Requests : RequestStep(s)
    \/ \E s \in Workers : WorkerStep(s)
    \/ \E s \in Sessions : LookUp(s) \/ Commit(s)

Spec == Init /\ [][Next]_vars
-----------------------------------------------------------------------------
(* Properties *)

Item == [account : Accounts, fresh : BOOLEAN, delta : Int, after : Nat]
Work == [account : Accounts, delta : Int]

TypeOK ==
    /\ rows \in [Accounts -> Seq(Row)]
    /\ lease \in [Leases -> {"NONE", "ESCROW_LOCKED", "SETTLED"}]
    /\ attempts \in [Tasks -> 0 .. MaxAttempts + 1]
    /\ session \in [Sessions -> [stage : {"idle", "busy"}, ref : References \cup {NoReference},
                                 todo : Seq(Work), done : Seq(Item),
                                 loaded : [Accounts -> Nat \cup {NotLoaded}]]]
    /\ withdrawals \in Nat
    /\ credits \in [References -> [Accounts -> Nat]]
    /\ contested \subseteq Accounts \cup Leases

(* Whatever the sessions do to each other, the entries of an account end in  *)
(* its balance, and no balance exceeds what was credited: updates may be     *)
(* lost, money is never made.                                                *)
TrailMatches(row) == row.balance = row.after /\ row.balance <= row.credited

BalancesAreEarned == \A a \in Accounts : \A i \in DOMAIN rows[a] : TrailMatches(rows[a][i])

(* An account that no two sessions worked on at a time has one row, whose    *)
(* balance is its credits less its debits: nothing lost, nothing overdrawn.  *)
Balanced(a) ==
    /\ Len(rows[a]) <= 1
    /\ \A i \in DOMAIN rows[a] : rows[a][i].balance = rows[a][i].credited - rows[a][i].debited

UncontestedBalance == \A a \in Accounts \ contested : Balanced(a)

(* A lease is settled in the ledger wholly or not at all, and exactly when   *)
(* its row says so; once, unless two confirmations of it overlapped.         *)
LeaseAccounts(l) == {OwnerOf[l], "PLATFORM_TREASURY", "DAO_TREASURY"}
LeaseBooked(l) ==
    /\ \A a, b \in LeaseAccounts(l) : credits[l][a] = credits[l][b]
    /\ lease[l] = "SETTLED" <=> credits[l]["DAO_TREASURY"] > 0
    /\ l \notin contested => credits[l]["DAO_TREASURY"] <= 1

(* A task is credited at most once to anybody, and to all three accounts as  *)
(* soon as it is settled, as long as none of them has been created twice:    *)
(* a retry after a failed attempt finds nothing of that attempt.             *)
TaskAccounts(t) == {OwnerOf[t], "STAKING_POOL", "DAO_TREASURY"}
TaskBooked(t) ==
    (\A a \in TaskAccounts(t) : ~Ambiguous(a)) =>
        \A a \in TaskAccounts(t) :
            credits[t][a] = IF attempts[t] = MaxAttempts + 1 THEN 1 ELSE 0

(* No settlement is booked in part or twice, lease or task (ledger.py:106).   *)
SettledIsBooked == (\A l \in Leases : LeaseBooked(l)) /\ \A t \in Tasks : TaskBooked(t)
-----------------------------------------------------------------------------
(* Said of the code, but not kept by it (README, deviations).                *)

(* ledger.py:22, a lookup "retrieves or provisions" the account: there is    *)
(* one row for each.                                                         *)
OneRowEach == \A a \in Accounts : Len(rows[a]) <= 1

(* workspaces.py:683, a lease that is already settled is not settled again.  *)
LeaseSettledOnce == \A l \in Leases, a \in Accounts : credits[l][a] <= 1

(* withdrawals.py:42, no more is withdrawn than was earned.                  *)
NoOverdraft == \A a \in Accounts : \A i \in DOMAIN rows[a] : rows[a][i].debited <= rows[a][i].credited
=============================================================================
