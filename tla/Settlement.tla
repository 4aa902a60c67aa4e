----------------------------- MODULE Settlement -----------------------------
(***************************************************************************)
(* The two-phase settlement of a task: the worker and the oracle send the  *)
(* settlement transaction (backend/orchestrator/worker.py,                 *)
(* backend/blockchain/oracle.py), the contract emits its events into a     *)
(* chain that may reorganise, and the indexer                              *)
(* (backend/blockchain/indexer.py) projects the events into the escrows    *)
(* table and the ledger.  Escrow rows exist from the start, as CREATED.    *)
(*                                                                         *)
(* A block carries at most one log; a scan covers several blocks, so a     *)
(* batch of logs is still processed log by log, each with its own commit.  *)
(* A block's hash is its height and the fork it was mined on.              *)
(*                                                                         *)
(* An operator placed before a definition and named after a fault is that  *)
(* definition with a plausible bug; Next uses none of them.                *)
(***************************************************************************)
EXTENDS Integers, Sequences

CONSTANTS
    Tasks,
    Confirmations,    \* CONFIRMATION_DEPTH
    ReorgLimit,       \* REORG_LIMIT
    BatchSize,        \* 100 in scan_blocks; a batch spans one block more
    MaxHeight,        \* bound on the chain
    MaxReorg,         \* bound on how far below its peak the chain is cut
    MaxForks,         \* bound on reorganisations
    MaxFaults,        \* bound on restarts of the indexer and RPC errors
    Disputes,         \* parties raise disputes and the owner resolves them
    WorkerPays,       \* the worker finalises tasks, and credits as it does
    TextTopics        \* logs carry "0x..." text; web3 >= 7 gives HexBytes

ASSUME SettlementAssumption ==
    /\ Confirmations \in Nat /\ ReorgLimit \in Nat \ {0} /\ BatchSize \in Nat
    /\ MaxHeight \in Nat /\ MaxReorg \in Nat /\ MaxForks \in Nat /\ MaxFaults \in Nat
    /\ {Disputes, WorkerPays, TextTopics} \subseteq BOOLEAN
    /\ "none" \notin Tasks   \* NoLog is about no task

VARIABLES
    chain,      \* the blocks the RPC node reports, from height 1
    forks,      \* reorganisations so far
    peak,       \* history: greatest height ever reported
    deepest,    \* history: how far below its peak the chain was ever cut
    torn,       \* history: a reorganisation has hit a scan under way
    sent,       \* tasks whose settlement transaction was broadcast
    row,        \* escrows.status
    paid,       \* ledger credits by the worker, per task
    credited,   \* ledger credits by the indexer, per task
    worker,     \* the session that finalises each task
    last,       \* IndexerState.last_processed_block
    cache,      \* _block_hash_cache: fork of each height, NotCached elsewhere
    scan,       \* the scan_blocks call under way
    delivered,  \* history: blocks whose log has been processed
    faults

chainVars == <<chain, forks, peak, deepest, torn>>
workerVars == <<sent, paid, worker>>
indexerVars == <<last, cache, scan, delivered, credited>>
vars == <<chainVars, workerVars, indexerVars, row, faults>>

Heights == 1..MaxHeight
NotCached == 0 - 1

(* Contract events: what each makes of the escrow on chain. *)
StatusAfter == [Locked |-> "LOCKED", Settled |-> "SETTLED", Refunded |-> "REFUNDED",
                DisputeRaised |-> "DISPUTED", ResolvedSettled |-> "SETTLED",
                ResolvedRefunded |-> "REFUNDED"]
Kinds == DOMAIN StatusAfter
NoLog == [task |-> "none", kind |-> "none"]
Log == [task : Tasks, kind : Kinds] \cup {NoLog}

RowStatus == {"CREATED", "FUNDED", "SETTLEMENT_PENDING", "SETTLED", "REFUNDED"}
Scan == [stage : {"off", "check", "fetch", "process", "cache"},
         start : 0..MaxHeight + 1, end : 0..MaxHeight + 1,
         blocks : SUBSET [height : Heights, fork : 0..MaxForks, log : Log]]
NoScan == [stage |-> "off", start |-> 0, end |-> 0, blocks |-> {}]
NoWorker == [stage |-> "waiting", seen |-> "CREATED"]

Init ==
    /\ chain = <<>> /\ forks = 0 /\ peak = 0 /\ deepest = 0 /\ torn = FALSE
    /\ sent = {}
    /\ row = [t \in Tasks |-> "CREATED"]
    /\ paid = [t \in Tasks |-> 0]
    /\ credited = [t \in Tasks |-> 0]
    /\ worker = [t \in Tasks |-> NoWorker]
    /\ last = 0
    /\ cache = [h \in Heights |-> NotCached]
    /\ scan = NoScan
    /\ delivered = {}
    /\ faults = 0

Lesser(i, j) == IF i < j THEN i ELSE j
Greater(i, j) == IF i < j THEN j ELSE i

-----------------------------------------------------------------------------
(* The chain.  The escrow of t at height h is what its last log made of it. *)
LogsOf(c, t, h) == {i \in 1..Lesser(h, Len(c)) : c[i].log.task = t}
EscrowIn(c, t, h) ==
    LET logs == LogsOf(c, t, h) IN
    IF logs = {} THEN "NONE" ELSE StatusAfter[c[CHOOSE i \in logs : \A j \in logs : j <= i].log.kind]
EscrowAt(t, h) == EscrowIn(chain, t, h)

(* The require()s of the contract.  settleTaskEscrow is called by the oracle *)
(* alone, and its deadline and its participants are not modelled here.       *)
Allowed(log) ==
    LET status == EscrowAt(log.task, Len(chain)) IN
    \/ log.kind = "Locked" /\ status = "NONE"
    \/ log.kind = "Settled" /\ status = "LOCKED" /\ log.task \in sent
    \/ log.kind = "Refunded" /\ status = "LOCKED"
    \/ Disputes /\ log.kind = "DisputeRaised" /\ status = "LOCKED"
    \/ log.kind \in {"ResolvedSettled", "ResolvedRefunded"} /\ status = "DISPUTED"

Mine ==
    /\ Len(chain) < MaxHeight
    /\ \E log \in Log :
        /\ log = NoLog \/ Allowed(log)
        /\ chain' = Append(chain, [fork |-> forks, log |-> log])
    /\ peak' = Greater(peak, Len(chain) + 1)
    /\ UNCHANGED <<forks, deepest, torn, workerVars, indexerVars, row, faults>>

(* The node switches to another branch, which grows by Mine; transactions of *)
(* the old branch may be mined again or not.                                 *)
Reorg ==
    /\ forks < MaxForks
    /\ \E height \in Greater(0, peak - MaxReorg)..Len(chain) - 1 :
        /\ chain' = SubSeq(chain, 1, height)
        /\ deepest' = Greater(deepest, peak - height)
    /\ torn' = (torn \/ scan.stage # "off")
    /\ forks' = forks + 1
    /\ UNCHANGED <<peak, workerVars, indexerVars, row, faults>>

-----------------------------------------------------------------------------
(* The session that will finish the task claims its last job and loads the   *)
(* escrow row; it does not read the row again.                               *)
Claim(t) ==
    /\ worker[t].stage = "waiting"
    /\ row[t] \in {"FUNDED", "SETTLEMENT_PENDING", "SETTLED"}
    /\ worker' = [worker EXCEPT ![t] = [stage |-> "working", seen |-> row[t]]]
    /\ UNCHANGED <<chainVars, indexerVars, row, sent, paid, faults>>

(* authorize_and_submit_settlement, up to the broadcast.  The credit that    *)
(* record_task_settlement flushed just before waits for the next commit.     *)
SendSettlement(t) ==
    /\ worker[t].stage = "working"
    /\ \/ /\ worker[t].seen = "FUNDED"
          /\ sent' = sent \cup {t}
          /\ worker' = [worker EXCEPT ![t].stage = "sent"]
       \/ /\ worker[t].seen # "FUNDED"
          /\ worker' = [worker EXCEPT ![t].stage = "refused"]
          /\ UNCHANGED sent
    /\ UNCHANGED <<chainVars, indexerVars, row, paid, faults>>

WorkerCredit == IF WorkerPays THEN 1 ELSE 0

(* The oracle's commit: the status and the worker's credit together. *)
CommitPending(t) ==
    /\ worker[t].stage = "sent"
    /\ row' = [row EXCEPT ![t] = "SETTLEMENT_PENDING"]
    /\ paid' = [paid EXCEPT ![t] = @ + WorkerCredit]
    /\ worker' = [worker EXCEPT ![t].stage = "finish"]
    /\ UNCHANGED <<chainVars, indexerVars, sent, faults>>

(* The worker marks the task COMPLETED, settled or not; its credit is still  *)
(* uncommitted when the oracle refused.                                      *)
CreditLeft(stage) == IF stage = "refused" THEN WorkerCredit ELSE 0

Complete(t) ==
    /\ worker[t].stage \in {"refused", "finish"}
    /\ paid' = [paid EXCEPT ![t] = @ + CreditLeft(worker[t].stage)]
    /\ worker' = [worker EXCEPT ![t].stage = "completed"]
    /\ UNCHANGED <<chainVars, indexerVars, row, sent, faults>>

-----------------------------------------------------------------------------
(* scan_blocks, its first reads. *)
Unconfirmed(latest) == latest
SafeBlock(latest) == Greater(0, latest - Confirmations)

BeginScan ==
    /\ scan.stage = "off"
    /\ LET safe == SafeBlock(Len(chain)) IN
        /\ last + 1 <= safe
        /\ scan' = [stage |-> "check", start |-> last + 1,
                    end |-> Lesser(safe, last + 1 + BatchSize), blocks |-> {}]
    /\ UNCHANGED <<chainVars, workerVars, row, last, cache, delivered, credited, faults>>

(* The hash of the block before the batch against the cached one, if any.    *)
RollbackTo(start) == Greater(0, start - ReorgLimit)

CheckReorg ==
    /\ scan.stage = "check"
    /\ LET h == scan.start - 1 IN
        IF h > 0 /\ cache[h] # NotCached
        THEN /\ h <= Len(chain)
             /\ IF chain[h].fork # cache[h]
                THEN last' = RollbackTo(scan.start) /\ scan' = NoScan
                ELSE scan' = [scan EXCEPT !.stage = "fetch"] /\ UNCHANGED last
        ELSE scan' = [scan EXCEPT !.stage = "fetch"] /\ UNCHANGED last
    /\ UNCHANGED <<chainVars, workerVars, row, cache, delivered, credited, faults>>

(* get_logs: the logs of the batch, which are processed in their order.      *)
FirstOfBatchOnly(s) == {h \in s.start..s.start : h <= Len(chain)}
InBatch(s) == {h \in s.start..s.end : h <= Len(chain)}

FetchLogs ==
    /\ scan.stage = "fetch"
    /\ scan' = [scan EXCEPT !.stage = "process",
         !.blocks = {[height |-> h, fork |-> chain[h].fork, log |-> chain[h].log] :
                       h \in {g \in InBatch(scan) : chain[g].log # NoLog}}]
    /\ UNCHANGED <<chainVars, workerVars, row, last, cache, delivered, credited, faults>>

(* process_event_log on one log, up to its commit: the status it writes.     *)
(* topics[0].hex() of HexBytes has no 0x, so no branch matches it; the       *)
(* dispute events have no branch at all.  The scan's session may hold an     *)
(* older copy of the row, but only by missing the worker's                   *)
(* SETTLEMENT_PENDING, which no branch tells from FUNDED.                    *)
Projects(kind) ==
    IF TextTopics /\ kind \in {"Locked", "Settled", "Refunded"} THEN kind ELSE "nothing"
NewRow(kind, status) ==
    CASE Projects(kind) = "Locked" -> "FUNDED"
      [] Projects(kind) = "Settled" -> "SETTLED"
      [] Projects(kind) = "Refunded" -> "REFUNDED"
      [] Projects(kind) = "nothing" -> status
CreditsFundedOnly(kind, status) == Projects(kind) = "Settled" /\ status = "FUNDED"
CreditsAlways(kind, status) == Projects(kind) \in {"Settled", "Refunded"}
Credits(kind, status) == Projects(kind) = "Settled" /\ status # "SETTLED"

ProcessLog ==
    /\ scan.stage = "process"
    /\ \E b \in scan.blocks :
        /\ \A c \in scan.blocks : b.height <= c.height
        /\ LET t == b.log.task IN
            /\ row' = [row EXCEPT ![t] = NewRow(b.log.kind, @)]
            /\ credited' = [credited EXCEPT
                              ![t] = @ + (IF Credits(b.log.kind, row[t]) THEN 1 ELSE 0)]
        /\ delivered' = delivered \cup {<<b.height, b.fork>>}
        /\ scan' = [scan EXCEPT !.blocks = @ \ {b}]
    /\ UNCHANGED <<chainVars, workerVars, last, cache, faults>>

CommitScan ==
    /\ scan.stage = "process" /\ scan.blocks = {}
    /\ last' = scan.end
    /\ scan' = [scan EXCEPT !.stage = "cache"]
    /\ UNCHANGED <<chainVars, workerVars, row, cache, delivered, credited, faults>>

(* The hashes of the batch, as the chain is by now; then the old ones go.    *)
EvictLast(end) == end + 1
KeptFrom(end) == Greater(0, end - ReorgLimit)

CacheHashes ==
    /\ scan.stage = "cache" /\ scan.end <= Len(chain)
    /\ cache' = [h \in Heights |->
         LET known == IF h \in scan.start..scan.end THEN chain[h].fork ELSE cache[h]
         IN IF h >= KeptFrom(scan.end) THEN known ELSE NotCached]
    /\ scan' = NoScan
    /\ UNCHANGED <<chainVars, workerVars, row, last, delivered, credited, faults>>

(* An RPC error ends the scan, possibly with part of the hashes cached; a    *)
(* restart of the process forgets them all.  run_loop scans again.           *)
FailScan(kept) == cache' = kept /\ scan' = NoScan

ScanFails ==
    /\ scan.stage # "off"
    /\ faults < MaxFaults
    /\ \E upto \in scan.start - 1..scan.end :
        /\ upto >= scan.start => scan.stage = "cache" /\ upto <= Len(chain)
        /\ FailScan([h \in Heights |-> IF h \in scan.start..upto THEN chain[h].fork ELSE cache[h]])
    /\ faults' = faults + 1
    /\ UNCHANGED <<chainVars, workerVars, row, last, delivered, credited>>

(* A block the scan wants is gone from the node's branch: get_block raises.  *)
BlockNotFound ==
    /\ \/ scan.stage = "check" /\ scan.start - 1 > Len(chain) /\ cache[scan.start - 1] # NotCached
       \/ scan.stage = "cache" /\ scan.end > Len(chain)
    /\ FailScan([h \in Heights |-> IF scan.stage = "cache" /\ h \in scan.start..Len(chain)
                                   THEN chain[h].fork ELSE cache[h]])
    /\ UNCHANGED <<chainVars, workerVars, row, last, delivered, credited, faults>>

Restart ==
    /\ faults < MaxFaults
    /\ FailScan([h \in Heights |-> NotCached])
    /\ faults' = faults + 1
    /\ UNCHANGED <<chainVars, workerVars, row, last, delivered, credited>>

WorkerStep(t) == Claim(t) \/ SendSettlement(t) \/ CommitPending(t) \/ Complete(t)
IndexerStep ==
    BeginScan \/ CheckReorg \/ FetchLogs \/ ProcessLog \/ CommitScan \/ CacheHashes \/ BlockNotFound

Next ==
    \/ Mine \/ Reorg
    \/ \E t \in Tasks : WorkerStep(t)
    \/ IndexerStep \/ ScanFails \/ Restart

Spec == Init /\ [][Next]_vars

(* run_loop scans for ever and its errors are transient, and a branch the    *)
(* node switches to outgrows the one it leaves; neither workers nor further  *)
(* blocks are promised.                                                      *)
Regrow == Len(chain) < peak /\ Mine
FairSpec == Spec /\ WF_vars(IndexerStep) /\ WF_vars(Regrow)
-----------------------------------------------------------------------------
TypeOK ==
    /\ chain \in Seq([fork : 0..MaxForks, log : Log]) /\ Len(chain) <= MaxHeight
    /\ forks \in 0..MaxForks /\ peak \in Len(chain)..MaxHeight
    /\ deepest \in 0..MaxReorg /\ torn \in BOOLEAN
    /\ sent \subseteq Tasks
    /\ row \in [Tasks -> RowStatus]
    /\ paid \in [Tasks -> 0..1]
    /\ credited \in [Tasks -> Nat]
    /\ worker \in [Tasks -> [stage : {"waiting", "working", "refused", "sent", "finish", "completed"},
                            seen : RowStatus]]
    /\ last \in 0..MaxHeight
    /\ cache \in [Heights -> 0..MaxForks \cup {NotCached}]
    /\ scan \in Scan
    /\ delivered \subseteq Heights \X (0..MaxForks)
    /\ faults \in 0..MaxFaults

(* Blocks with a log, up to a height. *)
Logged(c, h) == {i \in 1..Lesser(h, Len(c)) : c[i].log # NoLog}

(* What the chain does is within the indexer's design: it never loses a      *)
(* confirmed block; or what it loses, it loses between the scans of one      *)
(* process whose calls all succeed, so that the cached hashes can tell, and  *)
(* never ReorgLimit confirmed blocks or more, because a rollback goes no     *)
(* lower and the hashes below it are gone.                                   *)
Shallow == deepest <= Confirmations
Noticeable == ~torn /\ faults = 0 /\ deepest < Confirmations + ReorgLimit

(* The indexer declares blocks processed only when the log of every one of   *)
(* them, as the chain has it now, was delivered to process_event_log.        *)
NoneSkipped(c, upto, seen) == \A h \in Logged(c, upto) : <<h, c[h].fork>> \in seen
NothingSkipped ==
    [][last' > last /\ (Shallow \/ Noticeable) => NoneSkipped(chain', last', delivered')]_vars

(* No log is acted upon that the chain then loses. *)
OnlyConfirmed ==
    Shallow => \A b \in delivered : b[1] <= Len(chain) /\ chain[b[1]].fork = b[2]
(* The escrow rows the status on chain allows, given whether the worker has  *)
(* sent the settlement.                                                      *)
Projection(status, wasSent) ==
    CASE status = "NONE" -> {"CREATED"}
      [] status \in {"LOCKED", "DISPUTED"} -> {"FUNDED", "SETTLEMENT_PENDING"}
      [] status \in {"SETTLED", "REFUNDED"} ->
            {status} \cup (IF wasSent THEN {"SETTLEMENT_PENDING"} ELSE {})

(* When the indexer declares blocks processed, each escrow row and its       *)
(* credits agree with the chain up to there; only the oracle's late commit   *)
(* may have been written over the row.                                       *)
ProjectionAtCommit ==
    [][last' > last =>
        \A t \in Tasks : LET status == EscrowIn(chain', t, last') IN
            /\ row'[t] \in Projection(status, t \in sent')
            /\ credited'[t] = (IF status = "SETTLED" THEN 1 ELSE 0)]_vars

(* The promise of docs/ESCROW.md: a settlement that is final is credited,    *)
(* once, eventually, and nothing else is.  Final is what lies below the      *)
(* confirmation depth of the greatest height reported.                       *)
FinalSettlements == {t \in Tasks : EscrowAt(t, peak - Confirmations) = "SETTLED"}
Promise == INSTANCE ConfirmedCredit WITH final <- FinalSettlements, credited <- credited
PaidOnceConfirmed == Promise!Spec

(* A row is SETTLED only with the developer credited, whatever the oracle    *)
(* wrote over it meanwhile and however often scans fail and branches change. *)
SettledMeansCredited == \A t \in Tasks : row[t] = "SETTLED" => credited[t] > 0

(* The indexer credits a task at most once, however often a log arrives.     *)
CreditedOnce == \A t \in Tasks : credited[t] <= 1

-----------------------------------------------------------------------------
(* Said of the code, but not kept by it (README, "Deviations").              *)

(* No ledger balance is updated before the settlement is confirmed.          *)
NoCreditBeforeConfirmation ==
    \A t \in Tasks : paid[t] + credited[t] > 0 => t \in FinalSettlements

(* A task is COMPLETED only after the indexer has confirmed its settlement.  *)
CompletedMeansConfirmed ==
    \A t \in Tasks : worker[t].stage = "completed" => row[t] = "SETTLED"

(* A settled or refunded escrow row is never written again. *)
ClosedRowsStay ==
    [][\A t \in Tasks : row[t] \in {"SETTLED", "REFUNDED"} => row'[t] = row[t]]_vars

(* A dispute and its resolution show in the row: no escrow that was disputed *)
(* is left as if nothing had happened.                                       *)
DisputesProjected ==
    [][last' > last => \A t \in Tasks :
        LET status == EscrowIn(chain', t, last') IN
        /\ status = "DISPUTED" => row'[t] = "DISPUTED"
        /\ status \in {"SETTLED", "REFUNDED"} => row'[t] = status]_vars

(* No reorganisation within REORG_LIMIT goes unnoticed, whenever it comes.   *)
EveryReorgNoticed ==
    [][last' > last => NoneSkipped(chain', last', delivered')]_vars

(* A deposit below the confirmation depth eventually funds the escrow row.   *)
DepositsAreSeen ==
    \A t \in Tasks :
        EscrowAt(t, peak - Confirmations) = "LOCKED" ~> row[t] # "CREATED"
=============================================================================
