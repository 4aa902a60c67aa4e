-------------------------- MODULE Settlement_proofs --------------------------
(***************************************************************************)
(* The settlement for any number of tasks, chain height, confirmation      *)
(* depth and faults: types, no row SETTLED without its credit              *)
(* (SettledMeansCredited), no log acted upon that the chain then loses     *)
(* (OnlyConfirmed), and no block passed whose log was not delivered        *)
(* (NothingSkipped).  Undisturbed, the books of the indexer agree with the *)
(* chain at every commit (ProjectionAtCommit), no task is credited twice,  *)
(* and every step is one of the two-phase settlement's (ConfirmedCredit).  *)
(***************************************************************************)
EXTENDS Settlement, SequenceTheorems, TLAPS

Block == [fork : 0..MaxForks, log : Log]
FetchedBlock == [height : Heights, fork : 0..MaxForks, log : Log]
Stages == {"off", "check", "fetch", "process", "cache"}
WorkerStages == {"waiting", "working", "refused", "sent", "finish", "completed"}

\* The credit of the worker is booked once: a session that has not finished owes it.
PaidByFinished ==
    \A t \in Tasks : paid[t] # 0 => worker[t].stage \in {"finish", "completed"}

Types == TypeOK /\ PaidByFinished

ChainTypes ==
    /\ chain \in Seq(Block) /\ Len(chain) \in Nat /\ Len(chain) <= MaxHeight
    /\ forks \in 0..MaxForks /\ peak \in Len(chain)..MaxHeight
    /\ deepest \in 0..MaxReorg /\ torn \in BOOLEAN

WorkerTypes ==
    /\ sent \subseteq Tasks /\ paid \in [Tasks -> 0..1]
    /\ worker \in [Tasks -> [stage : WorkerStages, seen : RowStatus]]
    /\ row \in [Tasks -> RowStatus]

IndexerTypes ==
    /\ last \in 0..MaxHeight
    /\ cache \in [Heights -> 0..MaxForks \cup {NotCached}]
    /\ delivered \subseteq Heights \X (0..MaxForks)
    /\ credited \in [Tasks -> Nat]
    /\ faults \in 0..MaxFaults

ScanTypes ==
    scan \in [stage : Stages, start : 0..MaxHeight + 1, end : 0..MaxHeight + 1,
              blocks : SUBSET FetchedBlock]

LEMMA TypesInParts ==
    TypeOK <=> ChainTypes /\ WorkerTypes /\ IndexerTypes /\ ScanTypes
  <1>1. chain \in Seq(Block) => Len(chain) \in Nat
    BY LenProperties
  <1> QED
    BY <1>1 DEF TypeOK, ChainTypes, WorkerTypes, IndexerTypes, ScanTypes, Scan, FetchedBlock,
       Block, Stages, WorkerStages

LEMMA TypesHoldInitially == Init => Types
  <1> SUFFICES ASSUME Init PROVE Types
    OBVIOUS
  <1> USE SettlementAssumption
  <1>1. ChainTypes
    <2>1. chain \in Seq(Block) /\ Len(chain) = 0
      BY DEF Init
    <2>2. /\ MaxHeight \in Nat /\ MaxForks \in Nat /\ MaxReorg \in Nat
          /\ forks = 0 /\ peak = 0 /\ deepest = 0 /\ torn \in BOOLEAN
      BY DEF Init
    <2> QED
      BY <2>1, <2>2 DEF ChainTypes
  <1>2. WorkerTypes
    BY DEF Init, WorkerTypes, NoWorker, WorkerStages, RowStatus
  <1>3. IndexerTypes
    <2>1. cache \in [Heights -> 0..MaxForks \cup {NotCached}]
      BY DEF Init
    <2>2. credited \in [Tasks -> Nat]
      BY DEF Init
    <2>3. last \in 0..MaxHeight /\ faults \in 0..MaxFaults
      BY DEF Init
    <2>4. delivered \subseteq Heights \X (0..MaxForks)
      BY DEF Init
    <2> QED
      BY <2>1, <2>2, <2>3, <2>4 DEF IndexerTypes
  <1>4. ScanTypes
    BY DEF Init, ScanTypes, NoScan, Stages
  <1>5. PaidByFinished
    BY DEF Init, PaidByFinished
  <1> QED
    BY <1>1, <1>2, <1>3, <1>4, <1>5, TypesInParts DEF Types

LEMMA MineIsTyped ==
    ASSUME ChainTypes, Mine
    PROVE  /\ ChainTypes'
           /\ Len(chain') = Len(chain) + 1
           /\ \A h \in 1..Len(chain) : chain'[h] = chain[h]
           /\ peak' >= peak
  <1>1. PICK log \in Log : chain' = Append(chain, [fork |-> forks, log |-> log])
    BY DEF Mine
  <1>2. [fork |-> forks, log |-> log] \in Block
    BY DEF ChainTypes, Block
  <1>3. /\ chain' \in Seq(Block) /\ Len(chain') = Len(chain) + 1
        /\ \A h \in 1..Len(chain) : chain'[h] = chain[h]
    BY <1>1, <1>2 DEF ChainTypes
  <1>4. Len(chain') <= MaxHeight /\ peak' \in Len(chain')..MaxHeight /\ peak' >= peak
    BY <1>3, SettlementAssumption DEF Mine, ChainTypes, Greater
  <1> QED
    BY <1>3, <1>4 DEF Mine, ChainTypes

LEMMA ReorgIsTyped ==
    ASSUME ChainTypes, Reorg
    PROVE  /\ ChainTypes'
           /\ Len(chain') < Len(chain)
           /\ \A h \in 1..Len(chain') : chain'[h] = chain[h]
           /\ deepest' >= deepest /\ deepest' >= peak - Len(chain')
           /\ UNCHANGED peak
  <1>1. PICK height \in Greater(0, peak - MaxReorg)..Len(chain) - 1 :
            /\ chain' = SubSeq(chain, 1, height)
            /\ deepest' = Greater(deepest, peak - height)
    BY DEF Reorg
  <1>2. /\ height \in Nat /\ height >= peak - MaxReorg /\ height < Len(chain)
        /\ peak \in Nat /\ deepest \in Nat /\ peak >= Len(chain) /\ Len(chain) \in Nat
        /\ MaxReorg \in Nat /\ MaxHeight \in Nat
    BY <1>1, SettlementAssumption DEF ChainTypes, Greater
  <1>3. /\ chain' \in Seq(Block) /\ Len(chain') = height
        /\ \A h \in 1..height : chain'[h] = chain[h]
    <2>1. chain \in Seq(Block)
      BY DEF ChainTypes
    <2>2. \A h \in 1..height : h \in 1..Len(chain)
      BY <1>2
    <2> QED
      BY <1>1, <1>2, <2>1, <2>2
  <1>4. /\ deepest' >= deepest /\ deepest' >= peak - height /\ deepest' \in 0..MaxReorg
    BY <1>1, <1>2 DEF ChainTypes, Greater
  <1>5. peak' \in Len(chain')..MaxHeight /\ Len(chain') <= MaxHeight
    BY <1>2, <1>3 DEF Reorg, ChainTypes
  <1>6. forks' \in 0..MaxForks /\ torn' \in BOOLEAN /\ UNCHANGED peak
    BY SettlementAssumption DEF Reorg, ChainTypes
  <1> QED
    BY <1>2, <1>3, <1>4, <1>5, <1>6 DEF ChainTypes

LEMMA WorkerIsTyped ==
    ASSUME WorkerTypes, PaidByFinished, NEW t \in Tasks, WorkerStep(t)
    PROVE  WorkerTypes' /\ PaidByFinished'
  <1> USE SettlementAssumption DEF WorkerTypes, PaidByFinished, WorkerStages, RowStatus
  <1>1. CASE Claim(t)
    BY <1>1 DEF Claim
  <1>2. CASE SendSettlement(t)
    BY <1>2 DEF SendSettlement
  <1>3. CASE CommitPending(t)
    BY <1>3 DEF CommitPending, WorkerCredit
  <1>4. CASE Complete(t)
    BY <1>4 DEF Complete, CreditLeft, WorkerCredit
  <1> QED
    BY <1>1, <1>2, <1>3, <1>4 DEF WorkerStep

(* The indexer. *)

LEMMA BeginScanIsTyped ==
    ASSUME ChainTypes, IndexerTypes, ScanTypes, BeginScan
    PROVE  /\ ScanTypes' /\ IndexerTypes'
           /\ scan'.start = last + 1 /\ scan'.stage = "check" /\ scan'.blocks = {}
           /\ scan'.end <= Len(chain) - Confirmations /\ scan'.end \in Nat
  <1> DEFINE safe == SafeBlock(Len(chain))
             end == Lesser(safe, last + 1 + BatchSize)
  <1>1. /\ Len(chain) \in Nat /\ Len(chain) <= MaxHeight /\ Confirmations \in Nat
        /\ BatchSize \in Nat /\ MaxHeight \in Nat /\ last \in Nat
    BY SettlementAssumption DEF ChainTypes, IndexerTypes
  <1>2. last + 1 <= safe
    BY DEF BeginScan
  <1>3. safe = Len(chain) - Confirmations /\ safe \in Nat /\ safe <= MaxHeight
    BY <1>1, <1>2 DEF SafeBlock, Greater
  <1>4. end \in Nat /\ end <= safe
    BY <1>1, <1>3 DEF Lesser
  <1>5. scan' = [stage |-> "check", start |-> last + 1, end |-> end, blocks |-> {}]
    BY DEF BeginScan
  <1> HIDE DEF end, safe
  <1>6. last + 1 \in 0..MaxHeight + 1 /\ end \in 0..MaxHeight + 1
    BY <1>1, <1>2, <1>3, <1>4
  <1>7. ScanTypes'
    BY <1>5, <1>6 DEF ScanTypes, Stages
  <1>8. IndexerTypes'
    BY DEF BeginScan, IndexerTypes
  <1> QED
    BY <1>3, <1>4, <1>5, <1>7, <1>8

LEMMA NoScanIsTyped == NoScan \in [stage : Stages, start : 0..MaxHeight + 1,
                                   end : 0..MaxHeight + 1, blocks : SUBSET FetchedBlock]
  BY SettlementAssumption DEF NoScan, Stages

LEMMA CheckReorgIsTyped ==
    ASSUME IndexerTypes, ScanTypes, CheckReorg
    PROVE  /\ ScanTypes' /\ IndexerTypes'
           /\ scan' = NoScan \/ scan' = [scan EXCEPT !.stage = "fetch"]
  <1>1. \/ scan' = NoScan /\ last' = RollbackTo(scan.start)
        \/ scan' = [scan EXCEPT !.stage = "fetch"] /\ UNCHANGED last
    BY DEF CheckReorg
  <1>2. ScanTypes'
    BY <1>1, NoScanIsTyped DEF ScanTypes, Stages
  <1>3. scan.start \in 0..MaxHeight + 1
    BY DEF ScanTypes
  <1>4. RollbackTo(scan.start) \in 0..MaxHeight
    BY <1>3, SettlementAssumption DEF RollbackTo, Greater
  <1>5. IndexerTypes'
    BY <1>1, <1>4 DEF IndexerTypes, CheckReorg
  <1> QED
    BY <1>1, <1>2, <1>5

Fetched == {[height |-> h, fork |-> chain[h].fork, log |-> chain[h].log] :
              h \in {g \in InBatch(scan) : chain[g].log # NoLog}}

LEMMA FetchLogsIsTyped ==
    ASSUME ChainTypes, IndexerTypes, ScanTypes, FetchLogs, scan.start >= 1
    PROVE  /\ ScanTypes' /\ IndexerTypes'
           /\ scan' = [scan EXCEPT !.stage = "process", !.blocks = Fetched]
           /\ \A b \in Fetched : /\ b.height \in 1..Len(chain) /\ b.height <= scan.end
                                 /\ chain[b.height].fork = b.fork
  <1>1. scan' = [scan EXCEPT !.stage = "process", !.blocks = Fetched]
    BY DEF FetchLogs, Fetched
  <1>2. /\ scan.start \in Nat /\ scan.end \in Nat /\ Len(chain) \in Nat /\ MaxHeight \in Nat
        /\ Len(chain) <= MaxHeight
    BY SettlementAssumption DEF ScanTypes, ChainTypes
  <1>3. ASSUME NEW h \in InBatch(scan)
        PROVE  h \in 1..Len(chain) /\ h <= scan.end /\ h \in Heights /\ chain[h] \in Block
    <2>1. h \in scan.start..scan.end /\ h <= Len(chain)
      BY <1>3 DEF InBatch
    <2>2. h \in 1..Len(chain) /\ h <= scan.end /\ h \in Heights
      BY <1>2, <2>1 DEF Heights
    <2>3. chain[h] \in Block
      BY <2>2 DEF ChainTypes
    <2> QED
      BY <2>2, <2>3
  <1>4. Fetched \subseteq FetchedBlock
    BY <1>3 DEF Fetched, FetchedBlock, Block
  <1>5. ScanTypes'
    BY <1>1, <1>4 DEF ScanTypes, Stages
  <1>6. IndexerTypes'
    BY DEF FetchLogs, IndexerTypes
  <1>7. \A b \in Fetched : /\ b.height \in 1..Len(chain) /\ b.height <= scan.end
                           /\ chain[b.height].fork = b.fork
    BY <1>3 DEF Fetched
  <1> QED
    BY <1>1, <1>5, <1>6, <1>7

LEMMA NewRowIsTyped ==
    ASSUME NEW kind, NEW status \in RowStatus
    PROVE  /\ NewRow(kind, status) \in RowStatus
           /\ NewRow(kind, status) = "SETTLED" => status = "SETTLED" \/ Credits(kind, status)
  BY DEF NewRow, Projects, RowStatus, Credits

LEMMA ProcessLogIsTyped ==
    ASSUME WorkerTypes, IndexerTypes, ScanTypes, ProcessLog
    PROVE  /\ ScanTypes' /\ IndexerTypes' /\ row' \in [Tasks -> RowStatus]
           /\ SettledMeansCredited => SettledMeansCredited'
           /\ scan'.end = scan.end /\ scan'.start = scan.start /\ scan'.stage = scan.stage
           /\ \E b \in scan.blocks : /\ delivered' = delivered \cup {<<b.height, b.fork>>}
                                     /\ scan'.blocks = scan.blocks \ {b}
  <1>1. PICK b \in scan.blocks :
          /\ row' = [row EXCEPT ![b.log.task] = NewRow(b.log.kind, @)]
          /\ credited' = [credited EXCEPT ![b.log.task] =
                            @ + (IF Credits(b.log.kind, row[b.log.task]) THEN 1 ELSE 0)]
          /\ delivered' = delivered \cup {<<b.height, b.fork>>}
          /\ scan' = [scan EXCEPT !.blocks = @ \ {b}]
    BY DEF ProcessLog
  <1>2. b \in FetchedBlock
    BY DEF ScanTypes
  <1>3. row \in [Tasks -> RowStatus] /\ credited \in [Tasks -> Nat]
    BY DEF WorkerTypes, IndexerTypes
  <1>4. row' \in [Tasks -> RowStatus]
    BY <1>1, <1>3, NewRowIsTyped
  <1>5. credited' \in [Tasks -> Nat]
    <2> DEFINE more == IF Credits(b.log.kind, row[b.log.task]) THEN 1 ELSE 0
    <2>1. more \in Nat
      OBVIOUS
    <2>2. credited' = [credited EXCEPT ![b.log.task] = @ + more]
      BY <1>1
    <2> HIDE DEF more
    <2>3. ASSUME NEW t \in Tasks PROVE credited'[t] \in Nat
      <3>1. credited'[t] = IF t = b.log.task THEN credited[t] + more ELSE credited[t]
        BY <1>3, <2>2
      <3> QED
        BY <1>3, <2>1, <3>1
    <2>4. credited' = [t \in Tasks |-> credited'[t]]
      BY <1>3, <2>2
    <2> QED
      BY <2>3, <2>4
  <1>6. delivered' \subseteq Heights \X (0..MaxForks)
    BY <1>1, <1>2 DEF IndexerTypes, FetchedBlock
  <1>7. IndexerTypes'
    BY <1>5, <1>6 DEF IndexerTypes, ProcessLog
  <1>8. ScanTypes'
    BY <1>1 DEF ScanTypes
  <1>9. ASSUME SettledMeansCredited, NEW t \in Tasks, row'[t] = "SETTLED" PROVE credited'[t] > 0
    <2>1. CASE t = b.log.task
      <3>1. row'[t] = NewRow(b.log.kind, row[t]) /\ row[t] \in RowStatus /\ credited[t] \in Nat
        BY <1>1, <1>3, <2>1
      <3>2. credited'[t] = credited[t] + (IF Credits(b.log.kind, row[t]) THEN 1 ELSE 0)
        BY <1>1, <1>3, <2>1
      <3>3. row[t] = "SETTLED" \/ Credits(b.log.kind, row[t])
        BY <1>9, <3>1, NewRowIsTyped
      <3>4. row[t] = "SETTLED" => credited[t] > 0
        BY <1>9 DEF SettledMeansCredited
      <3> QED
        BY <3>1, <3>2, <3>3, <3>4
    <2>2. CASE t # b.log.task
      <3>1. row'[t] = row[t] /\ credited'[t] = credited[t]
        BY <1>1, <1>3, <2>2
      <3> QED
        BY <1>9, <3>1 DEF SettledMeansCredited
    <2> QED
      BY <2>1, <2>2
  <1>10. scan'.end = scan.end /\ scan'.start = scan.start /\ scan'.stage = scan.stage
         /\ scan'.blocks = scan.blocks \ {b}
    BY <1>1 DEF ScanTypes
  <1> QED
    BY <1>1, <1>4, <1>7, <1>8, <1>9, <1>10 DEF SettledMeansCredited

LEMMA CommitScanIsTyped ==
    ASSUME IndexerTypes, ScanTypes, CommitScan, scan.end <= MaxHeight
    PROVE  /\ ScanTypes' /\ IndexerTypes'
           /\ scan' = [scan EXCEPT !.stage = "cache"]
  <1>1. scan' = [scan EXCEPT !.stage = "cache"] /\ last' = scan.end
    BY DEF CommitScan
  <1>2. last' \in 0..MaxHeight
    BY <1>1, SettlementAssumption DEF ScanTypes
  <1>3. IndexerTypes'
    BY <1>2 DEF IndexerTypes, CommitScan
  <1>4. ScanTypes'
    BY <1>1 DEF ScanTypes, Stages
  <1> QED
    BY <1>1, <1>3, <1>4

Kept(upto) == [h \in Heights |-> IF h \in scan.start..upto THEN chain[h].fork ELSE cache[h]]

\* The hashes a scan caches are those of blocks the chain has.
LEMMA KeptIsTyped ==
    ASSUME ChainTypes, IndexerTypes, ScanTypes, NEW upto, upto <= Len(chain), upto \in Int,
           scan.start >= 1
    PROVE  Kept(upto) \in [Heights -> 0..MaxForks \cup {NotCached}]
  <1>1. scan.start \in Nat /\ Len(chain) \in Nat
    BY DEF ScanTypes, ChainTypes
  <1>2. ASSUME NEW h \in Heights, h \in scan.start..upto PROVE chain[h].fork \in 0..MaxForks
    <2>1. h \in 1..Len(chain)
      BY <1>1, <1>2
    <2>2. chain[h] \in Block
      BY <2>1 DEF ChainTypes
    <2> QED
      BY <2>2 DEF Block
  <1>3. \A h \in Heights : cache[h] \in 0..MaxForks \cup {NotCached}
    BY DEF IndexerTypes
  <1> QED
    BY <1>2, <1>3 DEF Kept

LEMMA ScanEndIsTyped ==
    ASSUME ChainTypes, IndexerTypes, ScanTypes, scan.stage # "off" => scan.start >= 1,
           CacheHashes \/ ScanFails \/ BlockNotFound \/ Restart
    PROVE  ScanTypes' /\ IndexerTypes' /\ scan' = NoScan
  <1>1. scan' = NoScan
    BY DEF CacheHashes, ScanFails, BlockNotFound, Restart, FailScan
  <1>2. ScanTypes'
    BY <1>1, NoScanIsTyped DEF ScanTypes
  <1>3. faults' \in 0..MaxFaults
    BY SettlementAssumption DEF CacheHashes, ScanFails, BlockNotFound, Restart, IndexerTypes
  <1>4. Len(chain) \in Int /\ scan.end \in Int /\ scan.start \in Int
    BY DEF ScanTypes, ChainTypes
  <1>5. cache' \in [Heights -> 0..MaxForks \cup {NotCached}]
    <2>1. CASE CacheHashes
      <3>1. scan.end <= Len(chain) /\ scan.start >= 1
        BY <2>1 DEF CacheHashes
      <3>2. Kept(scan.end) \in [Heights -> 0..MaxForks \cup {NotCached}]
        BY <1>4, <3>1, KeptIsTyped
      <3>3. cache' = [h \in Heights |->
                        IF h >= KeptFrom(scan.end) THEN Kept(scan.end)[h] ELSE NotCached]
        BY <2>1 DEF CacheHashes, Kept
      <3> QED
        BY <3>2, <3>3
    <2>2. CASE ScanFails
      <3>1. PICK upto \in scan.start - 1..scan.end :
               /\ upto >= scan.start => scan.stage = "cache" /\ upto <= Len(chain)
               /\ cache' = Kept(upto)
        BY <2>2 DEF ScanFails, FailScan, Kept
      <3>2. CASE upto <= Len(chain)
        BY <1>4, <2>2, <3>1, <3>2, KeptIsTyped DEF ScanFails
      <3>3. CASE upto < scan.start
        <4>1. \A h \in Heights : h \notin scan.start..upto
          BY <1>4, <3>1, <3>3
        <4>2. cache' = [h \in Heights |-> cache[h]]
          BY <3>1, <4>1 DEF Kept
        <4> QED
          BY <4>2 DEF IndexerTypes
      <3> QED
        BY <1>4, <3>1, <3>2, <3>3
    <2>3. CASE BlockNotFound
      <3>1. CASE scan.stage = "cache"
        <4>1. cache' = Kept(Len(chain))
          BY <2>3, <3>1 DEF BlockNotFound, FailScan, Kept
        <4> QED
          BY <1>4, <3>1, <4>1, KeptIsTyped
      <3>2. CASE scan.stage # "cache"
        <4>1. cache' = [h \in Heights |-> cache[h]]
          BY <2>3, <3>2 DEF BlockNotFound, FailScan
        <4> QED
          BY <4>1 DEF IndexerTypes
      <3> QED
        BY <3>1, <3>2
    <2>4. CASE Restart
      BY <2>4 DEF Restart, FailScan
    <2> QED
      BY <2>1, <2>2, <2>3, <2>4
  <1>6. UNCHANGED <<last, delivered, credited>>
    BY DEF CacheHashes, ScanFails, BlockNotFound, Restart
  <1>7. IndexerTypes'
    BY <1>3, <1>5, <1>6 DEF IndexerTypes
  <1> QED
    BY <1>1, <1>2, <1>7

-----------------------------------------------------------------------------
(* OnlyConfirmed.                                                          *)

\* The chain was never cut further below its peak than `deepest' says.
CutIsCounted == Len(chain) >= peak - deepest

\* A scan stays below the confirmation depth of the peak.
ScanIsConfirmed ==
    scan.stage # "off" => scan.start >= 1 /\ scan.end <= peak - Confirmations

\* A block below that depth, as the chain has it.
Confirmed(height, fork) ==
    /\ height \in 1..Len(chain) /\ height <= peak - Confirmations
    /\ chain[height].fork = fork

ActsOnConfirmed ==
    Shallow => /\ \A b \in delivered : Confirmed(b[1], b[2])
               /\ \A b \in scan.blocks : Confirmed(b.height, b.fork)

Safety == CutIsCounted /\ ScanIsConfirmed /\ ActsOnConfirmed

SettlementInv == Types /\ SettledMeansCredited /\ Safety

LEMMA SafetyHoldsInitially == Init => SettledMeansCredited /\ Safety
  BY SettlementAssumption DEF Init, SettledMeansCredited, Safety, CutIsCounted, ScanIsConfirmed,
     ActsOnConfirmed, NoScan

LEMMA LaterIsHigher ==
    ASSUME NEW p \in Int, NEW q \in Int, q >= p, NEW c \in Int, NEW h \in Int, h <= p - c
    PROVE  h <= q - c
  OBVIOUS

\* Whatever the chain does, within the limits of Shallow, confirmed blocks stay.
LEMMA ChainStepIsSafe ==
    ASSUME ChainTypes, IndexerTypes, ScanTypes, Safety, Mine \/ Reorg
    PROVE  ChainTypes' /\ Safety'
  <1>1. ChainTypes' /\ UNCHANGED <<scan, delivered>>
    BY MineIsTyped, ReorgIsTyped DEF Mine, Reorg, indexerVars
  <1>2. /\ Len(chain) \in Int /\ Len(chain') \in Int /\ peak \in Int /\ peak' \in Int
        /\ deepest \in Int /\ deepest' \in Int /\ Confirmations \in Int /\ scan.end \in Int
    BY <1>1, SettlementAssumption DEF ChainTypes, ScanTypes
  <1>3. peak' >= peak /\ deepest' >= deepest
    <2>1. CASE Mine
      BY <1>2, <2>1, MineIsTyped DEF Mine
    <2>2. CASE Reorg
      BY <1>2, <2>2, ReorgIsTyped, SMTT(30) DEF Reorg
    <2> QED
      BY <2>1, <2>2
  <1>4. CutIsCounted'
    <2>1. CASE Mine
      <3>1. Len(chain') = Len(chain) + 1 /\ UNCHANGED deepest
        BY <2>1, MineIsTyped DEF Mine
      <3>2. peak' = Greater(peak, Len(chain) + 1)
        BY <2>1 DEF Mine
      <3> QED
        BY <1>2, <3>1, <3>2 DEF Greater, Safety, CutIsCounted, ChainTypes
    <2>2. CASE Reorg
      BY <1>2, <2>2, ReorgIsTyped DEF CutIsCounted
    <2> QED
      BY <2>1, <2>2
  <1>5. ScanIsConfirmed'
    BY <1>1, <1>2, <1>3 DEF Safety, ScanIsConfirmed
  <1>6. ASSUME Shallow', NEW h, NEW f, Confirmed(h, f) PROVE Confirmed(h, f)'
    <2>1. h \in Int /\ h >= 1 /\ h <= Len(chain) /\ h <= peak - Confirmations
          /\ chain[h].fork = f /\ deepest' <= Confirmations
      BY <1>2, <1>6 DEF Confirmed, Shallow
    <2>2. h <= Len(chain')
      BY <1>2, <1>3, <1>4, <2>1 DEF CutIsCounted
    <2>3. chain'[h] = chain[h]
      <3>1. CASE Mine
        BY <1>2, <2>1, <3>1, MineIsTyped
      <3>2. CASE Reorg
        BY <1>2, <2>1, <2>2, <3>2, ReorgIsTyped
      <3> QED
        BY <3>1, <3>2
    <2>4. h \in 1..Len(chain') /\ h <= peak' - Confirmations
      <3>1. h \in 1..Len(chain')
        BY <1>2, <2>1, <2>2
      <3>2. h <= peak' - Confirmations
        BY <1>2, <1>3, <2>1, LaterIsHigher
      <3> QED
        BY <3>1, <3>2
    <2> QED
      BY <2>1, <2>3, <2>4 DEF Confirmed
  <1>7. Shallow' => Shallow
    BY <1>2, <1>3 DEF Shallow
  <1>8. ActsOnConfirmed'
    BY <1>1, <1>6, <1>7 DEF Safety, ActsOnConfirmed
  <1> QED
    BY <1>1, <1>4, <1>5, <1>8 DEF Safety

\* The rest leaves the chain alone; what is scanned and delivered is confirmed.
LEMMA IndexerStepIsSafe ==
    ASSUME ChainTypes, WorkerTypes, IndexerTypes, ScanTypes, Safety,
           IndexerStep \/ ScanFails \/ Restart
    PROVE  IndexerTypes' /\ ScanTypes' /\ Safety'
  <1>1. UNCHANGED chainVars
    BY DEF IndexerStep, ScanFails, Restart, BeginScan, CheckReorg, FetchLogs, ProcessLog,
       CommitScan, CacheHashes, BlockNotFound
  <1>2. UNCHANGED <<chain, peak, deepest>>
    BY <1>1 DEF chainVars
  <1>3. CutIsCounted' /\ (Shallow' <=> Shallow)
    BY <1>2 DEF Safety, CutIsCounted, Shallow
  <1>4. /\ Len(chain) \in Int /\ peak \in Int /\ Confirmations \in Int /\ scan.end \in Int
        /\ Len(chain) <= peak /\ peak <= MaxHeight /\ MaxHeight \in Int /\ Confirmations >= 0
    BY SettlementAssumption DEF ChainTypes, ScanTypes
  <1>5. \A h, f : Confirmed(h, f) => Confirmed(h, f)'
    BY <1>2 DEF Confirmed
  <1>6. ASSUME scan'.stage # "off" => scan'.start >= 1 /\ scan'.end <= peak - Confirmations,
               \/ UNCHANGED delivered /\ scan'.blocks \subseteq scan.blocks
               \/ UNCHANGED delivered /\ \A b \in scan'.blocks : Confirmed(b.height, b.fork)
               \/ /\ scan'.blocks \subseteq scan.blocks
                  /\ \E b \in scan.blocks : delivered' = delivered \cup {<<b.height, b.fork>>}
        PROVE  Safety'
    <2>1. ScanIsConfirmed'
      BY <1>2, <1>6 DEF ScanIsConfirmed
    <2>2. ASSUME Shallow' PROVE /\ \A b \in delivered' : Confirmed(b[1], b[2])
                                /\ \A b \in scan'.blocks : Confirmed(b.height, b.fork)
      <3>1. /\ \A b \in delivered : Confirmed(b[1], b[2])
            /\ \A b \in scan.blocks : Confirmed(b.height, b.fork)
        BY <1>3, <2>2 DEF Safety, ActsOnConfirmed
      <3> QED
        BY <1>6, <3>1
    <2>3. ActsOnConfirmed'
      BY <1>5, <2>2 DEF ActsOnConfirmed
    <2> QED
      BY <1>3, <2>1, <2>3 DEF Safety
  <1>7. ScanIsConfirmed
    BY DEF Safety
  <1>8. CASE BeginScan
    <2>1. /\ ScanTypes' /\ IndexerTypes' /\ scan'.start = last + 1 /\ scan'.blocks = {}
          /\ scan'.end <= Len(chain) - Confirmations /\ scan'.end \in Nat
      BY <1>8, BeginScanIsTyped
    <2>2. scan'.end <= peak - Confirmations
      BY <1>4, <2>1, LaterIsHigher
    <2>3. scan'.start >= 1
      BY <2>1 DEF IndexerTypes
    <2>4. UNCHANGED delivered
      BY <1>8 DEF BeginScan
    <2> QED
      BY <1>6, <2>1, <2>2, <2>3, <2>4
  <1>9. CASE CheckReorg
    <2>1. /\ ScanTypes' /\ IndexerTypes'
          /\ scan' = NoScan \/ scan' = [scan EXCEPT !.stage = "fetch"]
      BY <1>9, CheckReorgIsTyped
    <2>2. UNCHANGED delivered /\ scan.stage # "off"
      BY <1>9 DEF CheckReorg
    <2>3. /\ scan'.stage # "off" => scan'.start >= 1 /\ scan'.end <= peak - Confirmations
          /\ scan'.blocks \subseteq scan.blocks
      BY <1>7, <2>1, <2>2 DEF ScanIsConfirmed, NoScan, ScanTypes
    <2> QED
      BY <1>6, <2>1, <2>2, <2>3
  <1>10. CASE FetchLogs
    <2>1. scan.start >= 1 /\ scan.end <= peak - Confirmations /\ UNCHANGED delivered
      BY <1>7, <1>10 DEF FetchLogs, ScanIsConfirmed
    <2>2. /\ ScanTypes' /\ IndexerTypes'
          /\ scan' = [scan EXCEPT !.stage = "process", !.blocks = Fetched]
          /\ \A b \in Fetched : /\ b.height \in 1..Len(chain) /\ b.height <= scan.end
                                /\ chain[b.height].fork = b.fork
      BY <1>10, <2>1, FetchLogsIsTyped
    <2>3. scan'.start = scan.start /\ scan'.end = scan.end /\ scan'.blocks = Fetched
      BY <2>2 DEF ScanTypes
    <2>4. ASSUME NEW b \in Fetched PROVE Confirmed(b.height, b.fork)
      <3>1. b.height \in 1..Len(chain) /\ b.height <= scan.end /\ chain[b.height].fork = b.fork
        BY <2>2
      <3>2. b.height <= peak - Confirmations
        BY <1>4, <2>1, <3>1
      <3> QED
        BY <3>1, <3>2 DEF Confirmed
    <2> QED
      BY <1>6, <2>1, <2>2, <2>3, <2>4
  <1>11. CASE ProcessLog
    <2>1. /\ ScanTypes' /\ IndexerTypes'
          /\ scan'.end = scan.end /\ scan'.start = scan.start /\ scan'.stage = scan.stage
          /\ \E b \in scan.blocks : /\ delivered' = delivered \cup {<<b.height, b.fork>>}
                                    /\ scan'.blocks = scan.blocks \ {b}
      BY <1>11, ProcessLogIsTyped
    <2>2. scan'.stage # "off" => scan'.start >= 1 /\ scan'.end <= peak - Confirmations
      BY <1>7, <2>1 DEF ScanIsConfirmed
    <2> QED
      BY <1>6, <2>1, <2>2
  <1>12. CASE CommitScan
    <2>1. scan.end <= peak - Confirmations /\ scan.start >= 1 /\ UNCHANGED delivered
      BY <1>7, <1>12 DEF CommitScan, ScanIsConfirmed
    <2>2. scan.end <= MaxHeight
      <3>1. peak - Confirmations <= peak
        BY <1>4
      <3> QED
        BY <1>4, <2>1, <3>1
    <2>3. ScanTypes' /\ IndexerTypes' /\ scan' = [scan EXCEPT !.stage = "cache"]
      BY <1>12, <2>2, CommitScanIsTyped
    <2>4. scan'.start = scan.start /\ scan'.end = scan.end /\ scan'.blocks = scan.blocks
      BY <2>3 DEF ScanTypes
    <2> QED
      BY <1>6, <2>1, <2>3, <2>4
  <1>13. CASE CacheHashes \/ ScanFails \/ BlockNotFound \/ Restart
    <2>1. ScanTypes' /\ IndexerTypes' /\ scan' = NoScan
      BY <1>7, <1>13, ScanEndIsTyped DEF ScanIsConfirmed
    <2>2. UNCHANGED delivered
      BY <1>13 DEF CacheHashes, ScanFails, BlockNotFound, Restart
    <2> QED
      BY <1>6, <2>1, <2>2 DEF NoScan
  <1> QED
    BY <1>8, <1>9, <1>10, <1>11, <1>12, <1>13 DEF IndexerStep

LEMMA InvIsKept == SettlementInv /\ [Next]_vars => SettlementInv'
  <1> SUFFICES ASSUME SettlementInv, [Next]_vars PROVE SettlementInv'
    OBVIOUS
  <1>1. /\ ChainTypes /\ WorkerTypes /\ IndexerTypes /\ ScanTypes /\ PaidByFinished
        /\ SettledMeansCredited /\ Safety
    BY TypesInParts DEF SettlementInv, Types
  <1>2. ASSUME ChainTypes', WorkerTypes', IndexerTypes', ScanTypes', PaidByFinished',
               SettledMeansCredited', Safety'
        PROVE  SettlementInv'
    <2>1. TypeOK' <=> (ChainTypes /\ WorkerTypes /\ IndexerTypes /\ ScanTypes)'
      BY TypesInParts, PTL
    <2> QED
      BY <1>2, <2>1 DEF SettlementInv, Types
  <1>3. CASE Mine \/ Reorg
    <2>1. UNCHANGED workerVars /\ UNCHANGED indexerVars /\ UNCHANGED row /\ UNCHANGED faults
      BY <1>3 DEF Mine, Reorg
    <2>2. WorkerTypes' /\ IndexerTypes' /\ ScanTypes' /\ PaidByFinished' /\ SettledMeansCredited'
      BY <1>1, <2>1 DEF WorkerTypes, IndexerTypes, ScanTypes, PaidByFinished,
         SettledMeansCredited, workerVars, indexerVars
    <2> QED
      BY <1>1, <1>2, <1>3, <2>2, ChainStepIsSafe
  <1>4. ASSUME NEW t \in Tasks, WorkerStep(t) PROVE SettlementInv'
    <2>1. WorkerTypes' /\ PaidByFinished'
      BY <1>1, <1>4, WorkerIsTyped
    <2>2. UNCHANGED chainVars /\ UNCHANGED indexerVars /\ UNCHANGED faults
      BY <1>4 DEF WorkerStep, Claim, SendSettlement, CommitPending, Complete
    <2>3. ChainTypes' /\ IndexerTypes' /\ ScanTypes' /\ Safety'
      BY <1>1, <2>2 DEF ChainTypes, IndexerTypes, ScanTypes, Safety, CutIsCounted,
         ScanIsConfirmed, ActsOnConfirmed, Shallow, Confirmed, chainVars, indexerVars
    <2>4. SettledMeansCredited'
      <3>1. UNCHANGED credited
        BY <2>2 DEF indexerVars
      <3>2. \A u \in Tasks : row'[u] = "SETTLED" => row[u] = "SETTLED"
        BY <1>1, <1>4 DEF WorkerStep, Claim, SendSettlement, CommitPending, Complete, WorkerTypes
      <3> QED
        BY <1>1, <3>1, <3>2 DEF SettledMeansCredited
    <2> QED
      BY <1>2, <2>1, <2>3, <2>4
  <1>5. CASE IndexerStep \/ ScanFails \/ Restart
    <2>1. IndexerTypes' /\ ScanTypes' /\ Safety'
      BY <1>1, <1>5, IndexerStepIsSafe
    <2>2. UNCHANGED chainVars /\ UNCHANGED workerVars
      BY <1>5 DEF IndexerStep, ScanFails, Restart, BeginScan, CheckReorg, FetchLogs, ProcessLog,
         CommitScan, CacheHashes, BlockNotFound
    <2>3. ChainTypes' /\ PaidByFinished'
      BY <1>1, <2>2 DEF ChainTypes, PaidByFinished, chainVars, workerVars
    <2>4. WorkerTypes' /\ SettledMeansCredited'
      <3>1. CASE ProcessLog
        BY <1>1, <2>2, <3>1, ProcessLogIsTyped DEF WorkerTypes, workerVars
      <3>2. CASE ~ProcessLog
        <4>1. UNCHANGED <<row, credited>>
          BY <1>5, <3>2 DEF IndexerStep, ScanFails, Restart, BeginScan, CheckReorg, FetchLogs,
             CommitScan, CacheHashes, BlockNotFound
        <4> QED
          BY <1>1, <2>2, <4>1 DEF WorkerTypes, workerVars, SettledMeansCredited
      <3> QED
        BY <3>1, <3>2
    <2> QED
      BY <1>2, <2>1, <2>3, <2>4
  <1>6. CASE UNCHANGED vars
    <2>1. ChainTypes' /\ WorkerTypes' /\ IndexerTypes' /\ ScanTypes' /\ PaidByFinished'
      BY <1>1, <1>6 DEF ChainTypes, WorkerTypes, IndexerTypes, ScanTypes, PaidByFinished, vars,
         chainVars, workerVars, indexerVars
    <2>2. SettledMeansCredited' /\ Safety'
      BY <1>1, <1>6 DEF SettledMeansCredited, Safety, CutIsCounted, ScanIsConfirmed,
         ActsOnConfirmed, Shallow, Confirmed, vars, chainVars, indexerVars
    <2> QED
      BY <1>2, <2>1, <2>2
  <1> QED
    BY <1>3, <1>4, <1>5, <1>6 DEF Next

LEMMA InvHolds == Spec => []SettlementInv
  <1>1. Init => SettlementInv
    BY TypesHoldInitially, SafetyHoldsInitially DEF SettlementInv
  <1> QED
    BY <1>1, InvIsKept, PTL DEF Spec

\* Every state of the settlement has its type: the worker credits a task at most once,
\* no scan leaves the chain's range, whatever fails (TypeOK).
THEOREM SettlementTypes == Spec => []TypeOK
  <1>1. SettlementInv => TypeOK
    BY DEF SettlementInv, Types
  <1> QED
    BY <1>1, InvHolds, PTL

\* An escrow row says SETTLED only with the developer credited, for any number of tasks,
\* forks and failing scans (SettledMeansCredited).
THEOREM SettledIsCredited == Spec => []SettledMeansCredited
  <1>1. SettlementInv => SettledMeansCredited
    BY DEF SettlementInv
  <1> QED
    BY <1>1, InvHolds, PTL

\* While the chain loses nothing below the confirmation depth, the indexer has acted on
\* no log the chain lacks, for every depth, batch and height (OnlyConfirmed).
THEOREM ConfirmedOnly == Spec => []OnlyConfirmed
  <1>1. SettlementInv => OnlyConfirmed
    <2> SUFFICES ASSUME SettlementInv, Shallow, NEW b \in delivered
                 PROVE  b[1] <= Len(chain) /\ chain[b[1]].fork = b[2]
      BY DEF OnlyConfirmed
    <2>1. Confirmed(b[1], b[2])
      BY DEF SettlementInv, Safety, ActsOnConfirmed
    <2>2. Len(chain) \in Int
      BY TypesInParts DEF SettlementInv, Types, ChainTypes
    <2> QED
      BY <2>1, <2>2 DEF Confirmed
  <1> QED
    BY <1>1, InvHolds, PTL
-----------------------------------------------------------------------------
(* NothingSkipped.                                                         *)

\* The log of block h, if it has one, has been delivered as the chain has it now.
Seen(h) == chain[h].log # NoLog => <<h, chain[h].fork>> \in delivered

\* Every block the indexer has passed is there, with its log delivered.
Intact == last <= Len(chain) /\ \A h \in 1..last : Seen(h)

\* The cached hash of the last block passed shows that the chain was cut.
Told ==
    /\ last > 0 /\ cache[last] # NotCached
    /\ last > Len(chain) \/ chain[last].fork # cache[last]

\* The logs of the batch are delivered or still to be.
Waiting ==
    \A h \in scan.start..scan.end :
        Seen(h) \/ \E b \in scan.blocks : b.height = h /\ b.fork = chain[h].fork

InStep ==
    /\ scan.stage \in {"check", "fetch", "process"} => scan.start = last + 1
    /\ scan.stage = "cache" => last = scan.end
    /\ last = 0 \/ last <= peak - Confirmations

\* A branch is younger than every hash cached of what it replaced.
Branches ==
    /\ \A h \in 1..Len(chain) : chain[h].fork <= forks
    /\ \A h \in Heights : cache[h] # NotCached =>
          cache[h] <= forks /\ (h > Len(chain) => cache[h] < forks)

SkipsNoneShallow == Shallow => Intact /\ (scan.stage = "process" => Waiting)

\* The blocks passed whose hashes should be known.
Covered == IF scan.stage = "cache" THEN scan.start - 1 ELSE last
HashesKept ==
    \A h \in Heights : h <= Covered /\ h > peak - Confirmations - ReorgLimit => cache[h] # NotCached
RollbackIsEnough ==
    \A h \in 1..last : h <= last + 1 - ReorgLimit => h <= Len(chain) /\ Seen(h)

SkipsNoneNoticed ==
    Noticeable =>
        /\ Intact \/ (Told /\ scan.stage \in {"off", "check"})
        /\ scan.stage = "process" => Waiting
        /\ scan.stage # "off" => scan.end <= Len(chain)
        /\ HashesKept
        /\ RollbackIsEnough

SkipsNone == InStep /\ Branches /\ SkipsNoneShallow /\ SkipsNoneNoticed

IndexerInv == ChainTypes /\ IndexerTypes /\ ScanTypes /\ Safety

LEMMA Numbers ==
    ASSUME ChainTypes, IndexerTypes, ScanTypes
    PROVE  /\ Len(chain) \in Nat /\ peak \in Nat /\ deepest \in Nat /\ forks \in Nat
           /\ last \in Nat /\ scan.start \in Nat /\ scan.end \in Nat /\ faults \in Nat
           /\ Confirmations \in Nat /\ ReorgLimit \in Nat /\ ReorgLimit >= 1 /\ MaxHeight \in Nat
           /\ Len(chain) <= peak /\ peak <= MaxHeight /\ last <= MaxHeight
           /\ \A h \in 1..Len(chain) : chain[h].fork \in Nat /\ h \in Heights
           /\ \A h \in Heights : cache[h] \in Int
  <1> USE SettlementAssumption
  <1>1. /\ Len(chain) \in Nat /\ peak \in Nat /\ deepest \in Nat /\ forks \in Nat
        /\ Len(chain) <= peak /\ peak <= MaxHeight
    BY DEF ChainTypes
  <1>2. last \in Nat /\ faults \in Nat /\ last <= MaxHeight
    BY DEF IndexerTypes
  <1>3. scan.start \in Nat /\ scan.end \in Nat
    BY DEF ScanTypes
  <1>4. ASSUME NEW h \in 1..Len(chain) PROVE chain[h].fork \in Nat /\ h \in Heights
    <2>1. chain[h] \in Block
      BY DEF ChainTypes
    <2> QED
      BY <1>1, <2>1 DEF Block, Heights
  <1>5. \A h \in Heights : cache[h] \in Int
    BY DEF IndexerTypes, NotCached
  <1> QED
    BY <1>1, <1>2, <1>3, <1>4, <1>5

LEMMA SkipsNoneInitially == Init => SkipsNone
  <1> SUFFICES ASSUME Init PROVE SkipsNone
    OBVIOUS
  <1> USE SettlementAssumption
  <1>1. /\ Len(chain) = 0 /\ last = 0 /\ scan = NoScan /\ scan.stage = "off"
        /\ cache = [h \in Heights |-> NotCached]
    BY DEF Init, NoScan
  <1>2. InStep /\ Branches
    BY <1>1 DEF InStep, Branches
  <1>3. Intact /\ RollbackIsEnough
    BY <1>1 DEF Intact, RollbackIsEnough
  <1>4. HashesKept
    BY <1>1 DEF HashesKept, Covered, Heights
  <1> QED
    BY <1>1, <1>2, <1>3, <1>4 DEF SkipsNone, SkipsNoneShallow, SkipsNoneNoticed

\* A chain of no less than this height has not lost a confirmed block.
LEMMA ShallowChain ==
    ASSUME ChainTypes, IndexerTypes, ScanTypes, Safety, Shallow, NEW h \in Nat,
           h <= peak - Confirmations
    PROVE  h <= Len(chain)
  BY Numbers DEF Shallow, Safety, CutIsCounted

LEMMA NearerTheTop ==
    ASSUME NEW h \in Int, NEW p \in Int, NEW q \in Int, NEW c \in Int, NEW r \in Int,
           q >= p, h > q - c - r
    PROVE  h > p - c - r
  OBVIOUS

\* Mining keeps what is there.
LEMMA MineSkipsNone ==
    ASSUME IndexerInv, SkipsNone, Mine
    PROVE  SkipsNone'
  <1>1. /\ ChainTypes' /\ Len(chain') = Len(chain) + 1
        /\ \A h \in 1..Len(chain) : chain'[h] = chain[h]
        /\ peak' >= peak /\ peak' \in Nat
    <2>1. /\ ChainTypes' /\ Len(chain') = Len(chain) + 1
          /\ \A h \in 1..Len(chain) : chain'[h] = chain[h]
          /\ peak' >= peak
      BY MineIsTyped DEF IndexerInv
    <2>2. peak' \in Nat
      BY <2>1 DEF ChainTypes
    <2> QED
      BY <2>1, <2>2
  <1>2. UNCHANGED <<forks, deepest, torn, faults, last, cache, scan, delivered>>
    BY DEF Mine, indexerVars
  <1>3. chain'[Len(chain')].fork = forks
    <2>1. PICK log \in Log : chain' = Append(chain, [fork |-> forks, log |-> log])
      BY DEF Mine
    <2>2. [fork |-> forks, log |-> log] \in Block
      BY DEF IndexerInv, ChainTypes, Block
    <2> QED
      BY <1>1, <2>1, <2>2 DEF IndexerInv, ChainTypes
  <1>4. /\ ChainTypes /\ IndexerTypes /\ ScanTypes /\ Safety
        /\ InStep /\ Branches /\ SkipsNoneShallow /\ SkipsNoneNoticed
    BY DEF IndexerInv, SkipsNone
  <1>12. \A h \in 1..Len(chain') : chain'[h].fork <= forks'
    <2>1. TAKE h \in 1..Len(chain')
    <2>2. Len(chain) \in Nat /\ forks \in Nat /\ forks' = forks
      BY <1>2, <1>4 DEF ChainTypes
    <2>3. CASE h = Len(chain')
      BY <1>3, <2>2, <2>3
    <2>4. CASE h # Len(chain')
      <3>1. h \in 1..Len(chain)
        BY <1>1, <2>2, <2>4
      <3>2. chain'[h] = chain[h]
        BY <1>1, <3>1
      <3>3. chain[h].fork <= forks
        BY <1>4, <3>1 DEF Branches
      <3> QED
        BY <2>2, <3>2, <3>3
    <2> QED
      BY <2>3, <2>4
  <1>13. ASSUME Noticeable', HashesKept PROVE HashesKept'
    <2> SUFFICES ASSUME NEW h \in Heights, h <= Covered',
                        h > peak' - Confirmations - ReorgLimit
                 PROVE  cache'[h] # NotCached
      BY DEF HashesKept
    <2>1. Covered' = Covered /\ cache' = cache
      BY <1>2 DEF Covered
    <2>2. h \in Int /\ peak \in Int /\ peak' \in Int /\ Confirmations \in Int
          /\ ReorgLimit \in Int /\ peak' >= peak
      BY <1>1, <1>4, Numbers DEF ChainTypes, Heights
    <2>3. h > peak - Confirmations - ReorgLimit
      BY <2>2, NearerTheTop
    <2> QED
      BY <1>13, <2>1, <2>3 DEF HashesKept
  <1> USE <1>1, <1>2, <1>3, <1>4, Numbers
  <1>5. ASSUME NEW h \in 1..Len(chain), Seen(h) PROVE Seen(h)'
    BY <1>5 DEF Seen
  <1>6. InStep'
    BY DEF InStep
  <1>7. Branches'
    <2>2. ASSUME NEW h \in Heights, cache'[h] # NotCached
          PROVE  cache'[h] <= forks' /\ (h > Len(chain') => cache'[h] < forks')
      <3>1. h \in Int
        BY DEF Heights
      <3> QED
        BY <2>2, <3>1 DEF Branches
    <2> QED
      BY <1>12, <2>2 DEF Branches
  <1>8. Intact => Intact'
    BY <1>5 DEF Intact
  <1>9. ASSUME scan.end <= Len(chain), 1 <= scan.start, Waiting PROVE Waiting'
    <2>1. ASSUME NEW h \in scan.start..scan.end
          PROVE  \/ Seen(h)'
                 \/ \E b \in scan'.blocks : b.height = h /\ b.fork = chain'[h].fork
      <3>1. h \in 1..Len(chain)
        BY <1>9, <2>1, SMTT(30)
      <3> QED
        BY <1>5, <1>9, <3>1 DEF Waiting
    <2> QED
      BY <2>1 DEF Waiting
  <1>10. SkipsNoneShallow'
    <2>1. SUFFICES ASSUME Shallow' PROVE Intact' /\ (scan'.stage = "process" => Waiting')
      BY DEF SkipsNoneShallow
    <2>2. Shallow
      BY <2>1 DEF Shallow
    <2>3. scan.stage = "process" => scan.start >= 1 /\ scan.end <= Len(chain)
      BY <2>2, ShallowChain DEF Safety, ScanIsConfirmed
    <2> QED
      BY <1>8, <1>9, <2>2, <2>3 DEF SkipsNoneShallow
  <1>11. SkipsNoneNoticed'
    <2>1. SUFFICES ASSUME Noticeable'
                   PROVE  /\ Intact' \/ (Told' /\ scan'.stage \in {"off", "check"})
                          /\ scan'.stage = "process" => Waiting'
                          /\ scan'.stage # "off" => scan'.end <= Len(chain')
                          /\ HashesKept'
                          /\ RollbackIsEnough'
      BY DEF SkipsNoneNoticed
    <2>2. Noticeable
      BY <2>1 DEF Noticeable
    <2>3. Told => Told'
      <3> SUFFICES ASSUME Told PROVE Told'
        OBVIOUS
      <3>1. last \in Heights
        BY DEF Told, Heights
      <3>2. CASE last > Len(chain)
        <4>1. cache[last] < forks /\ cache[last] # NotCached
          BY <3>1, <3>2 DEF Branches, Told
        <4>2. CASE last = Len(chain')
          BY <3>1, <4>1, <4>2 DEF Told
        <4>3. CASE last # Len(chain')
          BY <3>2, <4>3 DEF Told
        <4> QED
          BY <4>2, <4>3
      <3>3. CASE last <= Len(chain)
        <4>1. chain'[last] = chain[last]
          BY <3>1, <3>3 DEF Heights
        <4> QED
          BY <3>3, <4>1 DEF Told
      <3> QED
        BY <3>2, <3>3
    <2>4. HashesKept'
      BY <1>13, <2>1, <2>2 DEF SkipsNoneNoticed
    <2>5. RollbackIsEnough'
      <3> SUFFICES ASSUME NEW h \in 1..last, h <= last + 1 - ReorgLimit
                   PROVE  h <= Len(chain') /\ Seen(h)'
        BY DEF RollbackIsEnough
      <3>1. h <= Len(chain) /\ Seen(h)
        BY <2>2 DEF SkipsNoneNoticed, RollbackIsEnough
      <3> QED
        BY <1>5, <3>1
    <2>6. scan.stage = "process" => scan.start >= 1
      BY DEF Safety, ScanIsConfirmed
    <2> QED
      BY <1>8, <1>9, <2>2, <2>3, <2>4, <2>5, <2>6 DEF SkipsNoneNoticed
  <1> QED
    BY <1>6, <1>7, <1>10, <1>11 DEF SkipsNone
LEMMA BelowTheCut ==
    ASSUME NEW h \in Int, NEW l \in Int, NEW p \in Int, NEW c \in Int, NEW r \in Int,
           NEW n \in Int, h <= l + 1 - r, l <= p - c, n > p - c - r
    PROVE  h <= n
  OBVIOUS

LEMMA Between ==
    ASSUME NEW i \in Int, NEW j \in Int, NEW n \in Int, NEW h \in i..j, 1 <= i, j <= n
    PROVE  h \in 1..n
  OBVIOUS

\* A cut loses blocks the cached hashes still know, or none the indexer has passed.
LEMMA ReorgSkipsNone ==
    ASSUME IndexerInv, SkipsNone, Reorg
    PROVE  SkipsNone'
  <1>1. /\ ChainTypes' /\ Len(chain') < Len(chain)
        /\ \A h \in 1..Len(chain') : chain'[h] = chain[h]
        /\ deepest' >= deepest /\ deepest' >= peak - Len(chain')
        /\ UNCHANGED peak
    BY ReorgIsTyped DEF IndexerInv
  <1>2. /\ UNCHANGED <<faults, last, cache, scan, delivered>>
        /\ forks' = forks + 1 /\ (torn' = (torn \/ scan.stage # "off"))
    BY DEF Reorg, indexerVars
  <1>3. /\ ChainTypes /\ IndexerTypes /\ ScanTypes /\ Safety
        /\ InStep /\ Branches /\ SkipsNoneShallow /\ SkipsNoneNoticed
    BY DEF IndexerInv, SkipsNone
  <1>4. Len(chain') \in Nat /\ deepest' \in Nat
    BY <1>1, SettlementAssumption DEF ChainTypes
  <1> USE <1>1, <1>2, <1>3, <1>4, Numbers
  <1>5. ASSUME NEW h \in 1..Len(chain'), Seen(h) PROVE Seen(h)'
    BY <1>5 DEF Seen
  <1>6. InStep'
    BY DEF InStep
  <1>7. Branches'
    <2>1. ASSUME NEW h \in 1..Len(chain') PROVE chain'[h].fork <= forks'
      <3>1. h \in 1..Len(chain) /\ chain'[h] = chain[h]
        BY SMTT(30)
      <3>2. chain[h].fork \in Nat /\ chain[h].fork <= forks
        BY <3>1 DEF Branches
      <3> QED
        BY <3>1, <3>2, SMTT(30)
    <2>2. ASSUME NEW h \in Heights, cache'[h] # NotCached
          PROVE  cache'[h] <= forks' /\ (h > Len(chain') => cache'[h] < forks')
      BY <2>2, SMTT(30) DEF Branches
    <2> QED
      BY <2>1, <2>2 DEF Branches
  <1>8. ASSUME Intact, last <= Len(chain') PROVE Intact'
    BY <1>5, <1>8 DEF Intact
  <1>9. SkipsNoneShallow'
    <2>1. SUFFICES ASSUME Shallow' PROVE Intact' /\ (scan'.stage = "process" => Waiting')
      BY DEF SkipsNoneShallow
    <2>2. Shallow /\ Len(chain') >= peak - Confirmations
      BY <2>1 DEF Shallow
    <2>3. last <= Len(chain')
      BY <2>2, SMTT(30) DEF InStep
    <2>4. ASSUME scan.stage = "process" PROVE Waiting'
      <3>1. scan.start >= 1 /\ scan.end <= Len(chain') /\ Waiting
        BY <2>2, <2>4, SMTT(30) DEF Safety, ScanIsConfirmed, SkipsNoneShallow
      <3>2. ASSUME NEW h \in scan.start..scan.end
            PROVE  \/ Seen(h)'
                   \/ \E b \in scan'.blocks : b.height = h /\ b.fork = chain'[h].fork
        <4>1. scan.start \in Int /\ scan.end \in Int /\ Len(chain') \in Int
          BY SMTT(30)
        <4>2. h \in 1..Len(chain')
          BY <3>1, <3>2, <4>1, Between
        <4> QED
          BY <1>5, <3>1, <4>2 DEF Waiting
      <3> QED
        BY <3>2 DEF Waiting
    <2> QED
      BY <1>8, <2>2, <2>3, <2>4 DEF SkipsNoneShallow
  <1>10. SkipsNoneNoticed'
    <2>1. SUFFICES ASSUME Noticeable'
                   PROVE  /\ Intact' \/ (Told' /\ scan'.stage \in {"off", "check"})
                          /\ scan'.stage = "process" => Waiting'
                          /\ scan'.stage # "off" => scan'.end <= Len(chain')
                          /\ HashesKept'
                          /\ RollbackIsEnough'
      BY DEF SkipsNoneNoticed
    <2>2. /\ Noticeable /\ scan.stage = "off" /\ scan'.stage = "off"
          /\ Len(chain') > peak - Confirmations - ReorgLimit
      <3>1. ~torn' /\ faults' = 0 /\ deepest' < Confirmations + ReorgLimit
        BY <2>1 DEF Noticeable
      <3>2. ~torn /\ scan.stage = "off" /\ faults = 0 /\ scan'.stage = "off"
        BY <1>2, <3>1
      <3>3. Len(chain') > peak - Confirmations - ReorgLimit
        <4>1. deepest' >= peak - Len(chain')
          BY <1>1
        <4> QED
          BY <3>1, <4>1
      <3>4. deepest < Confirmations + ReorgLimit
        BY <3>1
      <3> QED
        BY <3>2, <3>3, <3>4 DEF Noticeable
    <2>3. Covered = last /\ HashesKept
      BY <2>2 DEF Covered, SkipsNoneNoticed
    <2>4. Intact' \/ Told'
      <3>1. CASE last <= Len(chain')
        <4>1. Told => Told'
          <5> SUFFICES ASSUME Told PROVE Told'
            OBVIOUS
          <5>1. last \in 1..Len(chain')
            BY <3>1 DEF Told
          <5>2. chain'[last] = chain[last] /\ last <= Len(chain)
            BY <5>1, SMTT(30)
          <5> QED
            BY <5>2 DEF Told
        <4> QED
          BY <1>8, <2>2, <3>1, <4>1 DEF SkipsNoneNoticed
      <3>2. CASE last > Len(chain')
        <4>1. last \in Heights /\ last > peak - Confirmations - ReorgLimit
          BY <2>2, <3>2, SMTT(30) DEF Heights
        <4>2. cache[last] # NotCached
          BY <2>3, <4>1, SMTT(30) DEF HashesKept
        <4> QED
          BY <3>2, <4>1, <4>2 DEF Told
      <3> QED
        BY <3>1, <3>2
    <2>5. HashesKept'
      BY <2>3 DEF HashesKept, Covered
    <2>6. RollbackIsEnough'
      <3> SUFFICES ASSUME NEW h \in 1..last, h <= last + 1 - ReorgLimit
                   PROVE  h <= Len(chain') /\ Seen(h)'
        BY DEF RollbackIsEnough
      <3>1. h <= Len(chain) /\ Seen(h)
        BY <2>2 DEF SkipsNoneNoticed, RollbackIsEnough
      <3>2. last <= peak - Confirmations
        BY DEF InStep
      <3>3. h <= Len(chain')
        <4>1. /\ h \in Int /\ last \in Int /\ peak \in Int /\ Confirmations \in Int
              /\ ReorgLimit \in Int /\ Len(chain') \in Int
          OBVIOUS
        <4> QED
          BY <2>2, <3>2, <4>1, BelowTheCut
      <3> QED
        BY <1>5, <3>1, <3>3
    <2> QED
      BY <2>2, <2>4, <2>5, <2>6
  <1> QED
    BY <1>6, <1>7, <1>9, <1>10 DEF SkipsNone
SameChain == UNCHANGED <<chain, forks, peak, deepest, torn>>

\* Nothing is skipped by a step that delivers what it delivers and moves no further.
LEMMA SeenStays ==
    ASSUME SameChain, delivered \subseteq delivered', NEW h, Seen(h)
    PROVE  Seen(h)'
  BY DEF SameChain, Seen

LEMMA BeginScanSkipsNone ==
    ASSUME IndexerInv, SkipsNone, BeginScan
    PROVE  SkipsNone'
  <1>1. /\ SameChain /\ UNCHANGED <<last, cache, delivered, faults>>
        /\ scan.stage = "off"
    BY DEF BeginScan, SameChain, chainVars
  <1>2. /\ scan'.start = last + 1 /\ scan'.stage = "check"
        /\ scan'.end <= Len(chain) - Confirmations /\ scan'.end \in Nat
    BY BeginScanIsTyped DEF IndexerInv
  <1>3. InStep /\ Branches /\ SkipsNoneShallow /\ SkipsNoneNoticed
    BY DEF SkipsNone
  <1>4. scan'.end <= Len(chain)
    <2>1. Len(chain) \in Nat /\ Confirmations \in Nat
      BY Numbers DEF IndexerInv
    <2> QED
      BY <1>2, <2>1
  <1>5. InStep'
    BY <1>1, <1>2, <1>3 DEF InStep, SameChain
  <1>6. Branches'
    BY <1>1, <1>3 DEF Branches, SameChain
  <1>7. (Intact' <=> Intact) /\ (Told' <=> Told) /\ (RollbackIsEnough' <=> RollbackIsEnough)
    BY <1>1 DEF Intact, Told, RollbackIsEnough, Seen, SameChain
  <1>8. HashesKept' <=> HashesKept
    BY <1>1, <1>2 DEF HashesKept, Covered, SameChain
  <1>9. (Shallow' <=> Shallow) /\ (Noticeable' <=> Noticeable)
    BY <1>1 DEF Shallow, Noticeable, SameChain
  <1>10. SkipsNoneShallow'
    BY <1>2, <1>3, <1>7, <1>9 DEF SkipsNoneShallow
  <1>11. SkipsNoneNoticed'
    BY <1>1, <1>2, <1>3, <1>4, <1>7, <1>8, <1>9 DEF SkipsNoneNoticed, SameChain
  <1> QED
    BY <1>5, <1>6, <1>10, <1>11 DEF SkipsNone

\* A cached hash that differs leads back below the cut; one that agrees vouches for all
\* blocks before.
LEMMA CheckReorgSkipsNone ==
    ASSUME IndexerInv, SkipsNone, CheckReorg
    PROVE  SkipsNone'
  <1>1. /\ SameChain /\ UNCHANGED <<cache, delivered, faults>>
        /\ scan.stage = "check" /\ scan.start = last + 1
    BY DEF CheckReorg, SameChain, chainVars, SkipsNone, InStep
  <1>2. /\ Len(chain) \in Nat /\ last \in Nat /\ ReorgLimit \in Nat /\ ReorgLimit >= 1
        /\ peak \in Nat /\ Confirmations \in Nat /\ scan.start - 1 = last
    BY <1>1, Numbers DEF IndexerInv
  <1>3. InStep /\ Branches /\ SkipsNoneShallow /\ SkipsNoneNoticed
    BY DEF SkipsNone
  <1>4. Branches'
    BY <1>1, <1>3 DEF Branches, SameChain
  <1>5. (Shallow' <=> Shallow) /\ (Noticeable' <=> Noticeable)
    BY <1>1 DEF Shallow, Noticeable, SameChain
  <1>6. CASE last' = RollbackTo(scan.start) /\ scan' = NoScan /\ last <= Len(chain)
    <2>1. /\ last' \in Nat /\ last' <= last /\ last' <= Len(chain)
          /\ last' = 0 \/ last' = last + 1 - ReorgLimit
      BY <1>1, <1>2, <1>6 DEF RollbackTo, Greater
    <2>2. scan'.stage = "off"
      BY <1>6 DEF NoScan
    <2>3. InStep'
      <3>1. last' = 0 \/ last' <= peak - Confirmations
        BY <1>2, <1>3, <2>1 DEF InStep
      <3> QED
        BY <1>1, <2>2, <3>1 DEF InStep, SameChain
    <2>4. SkipsNoneShallow'
      <3>1. ASSUME Intact PROVE Intact'
        BY <1>1, <1>2, <2>1, <3>1 DEF Intact, Seen, SameChain
      <3> QED
        BY <1>3, <1>5, <2>2, <3>1 DEF SkipsNoneShallow
    <2>5. ASSUME Noticeable PROVE Intact' /\ HashesKept' /\ RollbackIsEnough'
      <3>1. HashesKept /\ RollbackIsEnough
        BY <1>3, <2>5 DEF SkipsNoneNoticed
      <3>2. ASSUME NEW h \in 1..last' PROVE Seen(h)' /\ h <= Len(chain)
        <4>1. h \in 1..last /\ h <= last + 1 - ReorgLimit
          BY <1>2, <2>1
        <4> QED
          BY <1>1, <3>1, <4>1, SeenStays DEF RollbackIsEnough
      <3>3. Intact' /\ RollbackIsEnough'
        BY <1>1, <2>1, <3>2 DEF Intact, RollbackIsEnough, SameChain
      <3>4. Covered' = last' /\ Covered = last
        BY <1>1, <2>2 DEF Covered
      <3>5. ASSUME NEW h \in Heights, h <= last', h > peak - Confirmations - ReorgLimit
            PROVE  cache'[h] # NotCached
        <4>1. h <= last
          BY <1>2, <2>1, <3>5 DEF Heights
        <4> QED
          BY <1>1, <3>1, <3>4, <3>5, <4>1 DEF HashesKept
      <3>6. HashesKept'
        BY <1>1, <3>4, <3>5 DEF HashesKept, SameChain
      <3> QED
        BY <3>3, <3>6
    <2>6. SkipsNoneNoticed'
      BY <1>5, <2>2, <2>5 DEF SkipsNoneNoticed
    <2> QED
      BY <1>4, <2>3, <2>4, <2>6 DEF SkipsNone
  <1>7. CASE scan' = [scan EXCEPT !.stage = "fetch"] /\ UNCHANGED last /\ ~Told
    <2>1. scan'.stage = "fetch" /\ scan'.start = scan.start /\ scan'.end = scan.end
      BY <1>7 DEF IndexerInv, ScanTypes
    <2>2. InStep'
      BY <1>1, <1>3, <1>7, <2>1 DEF InStep, SameChain
    <2>3. (Intact' <=> Intact) /\ (RollbackIsEnough' <=> RollbackIsEnough)
      BY <1>1, <1>7 DEF Intact, RollbackIsEnough, Seen, SameChain
    <2>4. HashesKept' <=> HashesKept
      BY <1>1, <1>7, <2>1 DEF HashesKept, Covered, SameChain
    <2>5. SkipsNoneShallow' /\ SkipsNoneNoticed'
      BY <1>1, <1>3, <1>5, <1>7, <2>1, <2>3, <2>4 DEF SkipsNoneShallow, SkipsNoneNoticed, SameChain
    <2> QED
      BY <1>4, <2>2, <2>5 DEF SkipsNone
  <1>8. \/ last' = RollbackTo(scan.start) /\ scan' = NoScan /\ last <= Len(chain)
        \/ scan' = [scan EXCEPT !.stage = "fetch"] /\ UNCHANGED last /\ ~Told
    <2>1. CASE last > 0 /\ cache[last] # NotCached
      BY <1>2, <2>1 DEF CheckReorg, Told
    <2>2. CASE ~(last > 0 /\ cache[last] # NotCached)
      BY <1>2, <2>2 DEF CheckReorg, Told
    <2> QED
      BY <2>1, <2>2
  <1> QED
    BY <1>6, <1>7, <1>8

\* The end of a scan is not above the chain, and its start is a block.
LEMMA BatchIsThere ==
    ASSUME IndexerInv, SkipsNone, Shallow \/ Noticeable, scan.stage # "off"
    PROVE  /\ scan.start >= 1 /\ scan.end <= Len(chain)
           /\ \A h \in scan.start..scan.end : h \in 1..Len(chain)
  <1>1. /\ ChainTypes /\ IndexerTypes /\ ScanTypes /\ Safety
        /\ scan.start >= 1 /\ scan.end <= peak - Confirmations
    BY DEF IndexerInv, Safety, ScanIsConfirmed
  <1>2. scan.end \in Nat /\ scan.start \in Nat /\ Len(chain) \in Nat
    BY <1>1, Numbers
  <1>3. scan.end <= Len(chain)
    BY <1>1, <1>2, ShallowChain DEF SkipsNone, SkipsNoneNoticed
  <1> QED
    BY <1>1, <1>2, <1>3, Between

LEMMA FetchLogsSkipsNone ==
    ASSUME IndexerInv, SkipsNone, FetchLogs
    PROVE  SkipsNone'
  <1>1. /\ SameChain /\ UNCHANGED <<last, cache, delivered, faults>>
        /\ scan.stage = "fetch" /\ scan' = [scan EXCEPT !.stage = "process", !.blocks = Fetched]
    BY DEF FetchLogs, Fetched, SameChain, chainVars
  <1>2. /\ scan'.stage = "process" /\ scan'.start = scan.start /\ scan'.end = scan.end
        /\ scan'.blocks = Fetched
    BY <1>1 DEF IndexerInv, ScanTypes
  <1>3. InStep /\ Branches /\ SkipsNoneShallow /\ SkipsNoneNoticed
    BY DEF SkipsNone
  <1>4. InStep' /\ Branches'
    BY <1>1, <1>2, <1>3 DEF InStep, Branches, SameChain
  <1>5. (Shallow' <=> Shallow) /\ (Noticeable' <=> Noticeable)
    BY <1>1 DEF Shallow, Noticeable, SameChain
  <1>6. (Intact' <=> Intact) /\ (RollbackIsEnough' <=> RollbackIsEnough)
    BY <1>1 DEF Intact, RollbackIsEnough, Seen, SameChain
  <1>7. HashesKept' <=> HashesKept
    BY <1>1, <1>2 DEF HashesKept, Covered, SameChain
  <1>8. ASSUME Shallow \/ Noticeable PROVE Waiting'
    <2>1. ASSUME NEW h \in scan.start..scan.end
          PROVE  Seen(h)' \/ \E b \in Fetched : b.height = h /\ b.fork = chain[h].fork
      <3>1. h \in 1..Len(chain)
        BY <1>1, <1>8, <2>1, BatchIsThere
      <3>2. Len(chain) \in Nat
        BY Numbers DEF IndexerInv
      <3>3. h \in InBatch(scan)
        BY <2>1, <3>1, <3>2 DEF InBatch
      <3>4. CASE chain[h].log = NoLog
        BY <1>1, <3>4 DEF Seen, SameChain
      <3>5. CASE chain[h].log # NoLog
        <4> DEFINE b == [height |-> h, fork |-> chain[h].fork, log |-> chain[h].log]
        <4>1. b \in Fetched
          BY <3>3, <3>5 DEF Fetched
        <4>2. b.height = h /\ b.fork = chain[h].fork
          OBVIOUS
        <4> QED
          BY <4>1, <4>2
      <3> QED
        BY <3>4, <3>5
    <2> QED
      BY <1>1, <1>2, <2>1 DEF Waiting, SameChain
  <1>9. SkipsNoneShallow' /\ SkipsNoneNoticed'
    BY <1>1, <1>2, <1>3, <1>5, <1>6, <1>7, <1>8 DEF SkipsNoneShallow, SkipsNoneNoticed, SameChain
  <1> QED
    BY <1>4, <1>9 DEF SkipsNone
LEMMA ProcessLogSkipsNone ==
    ASSUME IndexerInv, SkipsNone, WorkerTypes, ProcessLog
    PROVE  SkipsNone'
  <1>1. SameChain /\ UNCHANGED <<last, cache, faults>> /\ scan.stage = "process"
    BY DEF ProcessLog, SameChain, chainVars
  <1>2. /\ scan'.end = scan.end /\ scan'.start = scan.start /\ scan'.stage = scan.stage
        /\ \E b \in scan.blocks : /\ delivered' = delivered \cup {<<b.height, b.fork>>}
                                  /\ scan'.blocks = scan.blocks \ {b}
    BY ProcessLogIsTyped DEF IndexerInv
  <1>3. PICK b \in scan.blocks : /\ delivered' = delivered \cup {<<b.height, b.fork>>}
                                 /\ scan'.blocks = scan.blocks \ {b}
    BY <1>2
  <1>4. InStep /\ Branches /\ SkipsNoneShallow /\ SkipsNoneNoticed
    BY DEF SkipsNone
  <1>5. InStep' /\ Branches'
    BY <1>1, <1>2, <1>4 DEF InStep, Branches, SameChain
  <1>6. (Shallow' <=> Shallow) /\ (Noticeable' <=> Noticeable)
    BY <1>1 DEF Shallow, Noticeable, SameChain
  <1>7. \A h : Seen(h) => Seen(h)'
    BY <1>1, <1>3, SeenStays
  <1>8. (Intact => Intact') /\ (RollbackIsEnough => RollbackIsEnough')
    BY <1>1, <1>7 DEF Intact, RollbackIsEnough, SameChain
  <1>9. HashesKept' <=> HashesKept
    BY <1>1, <1>2 DEF HashesKept, Covered, SameChain
  <1>10. ASSUME Waiting PROVE Waiting'
    <2>1. ASSUME NEW h \in scan.start..scan.end
          PROVE  Seen(h)' \/ \E c \in scan'.blocks : c.height = h /\ c.fork = chain[h].fork
      <3>1. CASE Seen(h)
        BY <1>7, <3>1
      <3>2. CASE \E c \in scan.blocks : c.height = h /\ c.fork = chain[h].fork
        <4>1. PICK c \in scan.blocks : c.height = h /\ c.fork = chain[h].fork
          BY <3>2
        <4>2. c = b => Seen(h)'
          BY <1>1, <1>3, <4>1 DEF Seen, SameChain
        <4> QED
          BY <1>3, <4>1, <4>2
      <3> QED
        BY <1>10, <2>1, <3>1, <3>2 DEF Waiting
    <2> QED
      BY <1>1, <1>2, <2>1 DEF Waiting, SameChain
  <1>11. SkipsNoneShallow' /\ SkipsNoneNoticed'
    BY <1>1, <1>2, <1>4, <1>6, <1>8, <1>9, <1>10 DEF SkipsNoneShallow, SkipsNoneNoticed, SameChain
  <1> QED
    BY <1>5, <1>11 DEF SkipsNone

\* When the batch is through, every block up to its end is there and delivered.
LEMMA BatchIsSeen ==
    ASSUME IndexerInv, SkipsNone, Shallow \/ Noticeable, scan.stage = "process", scan.blocks = {}
    PROVE  scan.end <= Len(chain) /\ \A h \in 1..scan.end : Seen(h)
  <1>1. scan.end <= Len(chain) /\ scan.start = last + 1 /\ Intact /\ Waiting
    BY BatchIsThere DEF SkipsNone, InStep, SkipsNoneShallow, SkipsNoneNoticed
  <1>2. last \in Nat /\ scan.end \in Nat
    BY Numbers DEF IndexerInv
  <1>3. ASSUME NEW h \in 1..scan.end PROVE Seen(h)
    <2>1. CASE h <= last
      BY <1>1, <1>2, <2>1 DEF Intact
    <2>2. CASE h > last
      <3>1. h \in scan.start..scan.end
        BY <1>1, <1>2, <2>2
      <3> QED
        BY <1>1, <3>1 DEF Waiting
    <2> QED
      BY <1>2, <2>1, <2>2
  <1> QED
    BY <1>1, <1>3

LEMMA CommitScanSkipsNone ==
    ASSUME IndexerInv, SkipsNone, CommitScan
    PROVE  SkipsNone'
  <1>1. /\ SameChain /\ UNCHANGED <<cache, faults, delivered>>
        /\ scan.stage = "process" /\ scan.blocks = {} /\ last' = scan.end
        /\ scan' = [scan EXCEPT !.stage = "cache"]
    BY DEF CommitScan, SameChain, chainVars
  <1>2. scan'.stage = "cache" /\ scan'.start = scan.start /\ scan'.end = scan.end
    BY <1>1 DEF IndexerInv, ScanTypes
  <1>3. /\ InStep /\ Branches /\ SkipsNoneShallow /\ SkipsNoneNoticed
        /\ scan.start = last + 1 /\ scan.end <= peak - Confirmations
        /\ last \in Nat /\ scan.end \in Nat /\ Len(chain) \in Nat
    BY <1>1, Numbers DEF SkipsNone, InStep, IndexerInv, Safety, ScanIsConfirmed
  <1>4. InStep' /\ Branches'
    BY <1>1, <1>2, <1>3 DEF InStep, Branches, SameChain
  <1>5. (Shallow' <=> Shallow) /\ (Noticeable' <=> Noticeable)
    BY <1>1 DEF Shallow, Noticeable, SameChain
  <1>6. ASSUME Shallow \/ Noticeable
        PROVE  /\ Intact' /\ RollbackIsEnough' /\ scan.end <= Len(chain)
    <2>1. scan.end <= Len(chain) /\ \A h \in 1..scan.end : Seen(h)
      BY <1>1, <1>6, BatchIsSeen
    <2>2. \A h \in 1..scan.end : Seen(h)' /\ h <= Len(chain)
      BY <1>1, <1>3, <2>1, SeenStays
    <2> QED
      BY <1>1, <2>1, <2>2 DEF Intact, RollbackIsEnough, SameChain
  <1>7. Covered' = Covered
    BY <1>1, <1>2, <1>3 DEF Covered
  <1>8. HashesKept => HashesKept'
    BY <1>1, <1>7 DEF HashesKept, SameChain
  <1>9. SkipsNoneShallow' /\ SkipsNoneNoticed'
    BY <1>1, <1>2, <1>3, <1>5, <1>6, <1>8 DEF SkipsNoneShallow, SkipsNoneNoticed, SameChain
  <1> QED
    BY <1>4, <1>9 DEF SkipsNone

\* The scan ends, and the cache holds what it held and hashes of blocks the chain has.
CacheFollows ==
    \A h \in Heights : \/ cache'[h] = NotCached \/ cache'[h] = cache[h]
                       \/ h \in 1..Len(chain) /\ cache'[h] = chain[h].fork

LEMMA EndedScan ==
    ASSUME IndexerInv, SkipsNone, SameChain, UNCHANGED <<last, delivered>>, scan' = NoScan,
           CacheFollows,
           Noticeable' => Noticeable /\ HashesKept'
                            /\ (Intact \/ UNCHANGED cache)
    PROVE  SkipsNone'
  <1>1. InStep /\ Branches /\ SkipsNoneShallow /\ SkipsNoneNoticed /\ scan'.stage = "off"
    BY DEF SkipsNone, NoScan
  <1>2. InStep'
    BY <1>1 DEF InStep, SameChain
  <1>3. Branches'
    <2>1. ASSUME NEW h \in Heights, cache'[h] # NotCached
          PROVE  cache'[h] <= forks /\ (h > Len(chain) => cache'[h] < forks)
      <3>1. CASE cache'[h] = cache[h]
        BY <1>1, <2>1, <3>1 DEF Branches
      <3>2. CASE h \in 1..Len(chain) /\ cache'[h] = chain[h].fork
        <4>1. Len(chain) \in Nat
          BY Numbers DEF IndexerInv
        <4> QED
          BY <1>1, <3>2, <4>1 DEF Branches
      <3> QED
        BY <2>1, <3>1, <3>2 DEF CacheFollows
    <2> QED
      BY <1>1, <2>1 DEF Branches, SameChain
  <1>4. (Intact' <=> Intact) /\ (RollbackIsEnough' <=> RollbackIsEnough)
    BY DEF Intact, RollbackIsEnough, Seen, SameChain
  <1>5. SkipsNoneShallow'
    BY <1>1, <1>4 DEF SkipsNoneShallow, Shallow, SameChain
  <1>6. UNCHANGED cache => (Told' <=> Told)
    BY DEF Told, SameChain
  <1>7. SkipsNoneNoticed'
    BY <1>1, <1>4, <1>6 DEF SkipsNoneNoticed
  <1> QED
    BY <1>2, <1>3, <1>5, <1>7 DEF SkipsNone

LEMMA KeptFollows ==
    ASSUME IndexerInv, scan.start >= 1, NEW upto \in Int, upto <= Len(chain),
           cache' = Kept(upto)
    PROVE  CacheFollows
  <1>1. scan.start \in Nat /\ Len(chain) \in Nat
    BY Numbers DEF IndexerInv
  <1>2. \A h \in scan.start..upto : h \in 1..Len(chain)
    BY <1>1, Between
  <1> QED
    BY <1>2 DEF Kept, CacheFollows

LEMMA CacheHashesSkipsNone ==
    ASSUME IndexerInv, SkipsNone, CacheHashes
    PROVE  SkipsNone'
  <1>1. /\ SameChain /\ UNCHANGED <<last, delivered, faults>> /\ scan' = NoScan
        /\ scan.stage = "cache" /\ scan.end <= Len(chain) /\ last = scan.end
        /\ cache' = [h \in Heights |->
             IF h >= KeptFrom(scan.end)
             THEN IF h \in scan.start..scan.end THEN chain[h].fork ELSE cache[h]
             ELSE NotCached]
    BY DEF CacheHashes, SameChain, chainVars, SkipsNone, InStep
  <1>2. /\ Len(chain) \in Nat /\ last \in Nat /\ scan.start \in Nat /\ scan.end \in Nat
        /\ ReorgLimit \in Nat /\ peak \in Nat /\ Confirmations \in Nat
        /\ scan.start >= 1 /\ scan.end <= peak - Confirmations
        /\ \A h \in 1..Len(chain) : chain[h].fork \in Nat
    BY <1>1, Numbers DEF IndexerInv, Safety, ScanIsConfirmed
  <1>3. \A h \in scan.start..scan.end : h \in 1..Len(chain)
    BY <1>1, <1>2, Between
  <1>4. CacheFollows
    BY <1>1, <1>3 DEF CacheFollows
  <1>5. ASSUME Noticeable' PROVE Noticeable /\ HashesKept' /\ Intact
    <2>1. Noticeable
      BY <1>1, <1>5 DEF Noticeable, SameChain
    <2>2. HashesKept /\ Intact
      BY <1>1, <2>1 DEF SkipsNone, SkipsNoneNoticed
    <2>3. ASSUME NEW h \in Heights, h <= last, h > peak - Confirmations - ReorgLimit
          PROVE  cache'[h] # NotCached
      <3>1. h \in Int /\ h >= 1 /\ h >= KeptFrom(scan.end)
        BY <1>2, <2>3 DEF Heights, KeptFrom, Greater
      <3>2. CASE h >= scan.start
        <4>1. h \in scan.start..scan.end
          BY <1>1, <1>2, <2>3, <3>1, <3>2
        <4>2. cache'[h] = chain[h].fork /\ chain[h].fork \in Nat
          BY <1>1, <1>2, <1>3, <3>1, <4>1
        <4> QED
          BY <4>2 DEF NotCached
      <3>3. CASE h < scan.start
        <4>1. h <= Covered /\ h \notin scan.start..scan.end
          BY <1>1, <1>2, <3>1, <3>3 DEF Covered
        <4>2. cache[h] # NotCached
          BY <2>2, <2>3, <4>1 DEF HashesKept
        <4> QED
          BY <1>1, <3>1, <4>1, <4>2
      <3> QED
        BY <1>2, <3>1, <3>2, <3>3
    <2>4. Covered' = last
      BY <1>1 DEF Covered, NoScan
    <2>5. HashesKept'
      BY <1>1, <2>3, <2>4 DEF HashesKept, SameChain
    <2> QED
      BY <2>1, <2>2, <2>5
  <1> QED
    BY <1>1, <1>4, <1>5, EndedScan

LEMMA BlockNotFoundSkipsNone ==
    ASSUME IndexerInv, SkipsNone, BlockNotFound
    PROVE  SkipsNone'
  <1>1. /\ SameChain /\ UNCHANGED <<last, delivered, faults>> /\ scan' = NoScan
        /\ scan.stage \in {"check", "cache"}
        /\ scan.stage = "cache" => scan.end > Len(chain)
    BY DEF BlockNotFound, SameChain, chainVars, FailScan
  <1>2. Len(chain) \in Int /\ scan.end \in Int /\ scan.start >= 1
    BY <1>1, Numbers DEF IndexerInv, Safety, ScanIsConfirmed
  <1>3. CASE scan.stage = "check"
    <2>1. cache' = cache
      <3>1. cache' = [h \in Heights |-> cache[h]]
        BY <1>3 DEF BlockNotFound, FailScan
      <3> QED
        BY <3>1 DEF IndexerInv, IndexerTypes
    <2>2. Noticeable' => Noticeable
      BY <1>1 DEF Noticeable, SameChain
    <2>3. HashesKept' <=> HashesKept
      BY <1>1, <1>3, <2>1 DEF HashesKept, Covered, SameChain, NoScan
    <2>4. CacheFollows
      BY <2>1 DEF CacheFollows
    <2> QED
      BY <1>1, <2>1, <2>2, <2>3, <2>4, EndedScan DEF SkipsNone, SkipsNoneNoticed
  <1>4. CASE scan.stage = "cache"
    <2>1. cache' = Kept(Len(chain))
      BY <1>4 DEF BlockNotFound, FailScan, Kept
    <2>2. CacheFollows
      BY <1>2, <2>1, KeptFollows
    <2>3. ~Noticeable'
      <3>1. Noticeable' => Noticeable
        BY <1>1 DEF Noticeable, SameChain
      <3>2. ~Noticeable
        BY <1>1, <1>2, <1>4, BatchIsThere
      <3> QED
        BY <3>1, <3>2
    <2> QED
      BY <1>1, <2>2, <2>3, EndedScan
  <1> QED
    BY <1>1, <1>3, <1>4

\* An error or a restart ends what the hashes can tell; the rest stands.
LEMMA FaultSkipsNone ==
    ASSUME IndexerInv, SkipsNone, ScanFails \/ Restart
    PROVE  SkipsNone'
  <1>1. /\ SameChain /\ UNCHANGED <<last, delivered>> /\ scan' = NoScan /\ faults' = faults + 1
    BY DEF ScanFails, Restart, SameChain, chainVars, FailScan
  <1>2. ~Noticeable'
    <2>1. faults \in Nat
      BY Numbers DEF IndexerInv
    <2> QED
      BY <1>1, <2>1 DEF Noticeable
  <1>3. CacheFollows
    <2>1. CASE ScanFails
      <3>1. PICK upto \in scan.start - 1..scan.end :
               /\ upto >= scan.start => scan.stage = "cache" /\ upto <= Len(chain)
               /\ cache' = Kept(upto)
        BY <2>1 DEF ScanFails, FailScan, Kept
      <3>2. scan.start \in Nat /\ scan.end \in Nat /\ Len(chain) \in Nat /\ scan.start >= 1
        BY <2>1, Numbers DEF ScanFails, IndexerInv, Safety, ScanIsConfirmed
      <3>3. upto \in Int
        BY <3>2
      <3>4. CASE upto <= Len(chain)
        BY <3>1, <3>2, <3>3, <3>4, KeptFollows
      <3>5. CASE upto > Len(chain)
        <4>1. upto < scan.start
          BY <3>1, <3>2, <3>3, <3>5
        <4>2. \A h \in Heights : h \notin scan.start..upto
          BY <3>2, <3>3, <4>1
        <4> QED
          BY <3>1, <4>2 DEF Kept, CacheFollows
      <3> QED
        BY <3>2, <3>3, <3>4, <3>5
    <2>2. CASE Restart
      BY <2>2 DEF Restart, FailScan, CacheFollows
    <2> QED
      BY <2>1, <2>2
  <1> QED
    BY <1>1, <1>2, <1>3, EndedScan

LEMMA SkipsNoneIsKept == SettlementInv /\ SkipsNone /\ [Next]_vars => SkipsNone'
  <1> SUFFICES ASSUME SettlementInv, SkipsNone, [Next]_vars PROVE SkipsNone'
    OBVIOUS
  <1>1. IndexerInv /\ WorkerTypes
    BY TypesInParts DEF SettlementInv, Types, IndexerInv
  <1>2. ASSUME UNCHANGED <<chainVars, indexerVars, faults>> PROVE SkipsNone'
    BY <1>2 DEF SkipsNone, InStep, Branches, SkipsNoneShallow, SkipsNoneNoticed, Shallow, Noticeable,
       Intact, Told, Waiting, HashesKept, Covered, RollbackIsEnough, Seen, chainVars, indexerVars
  <1>3. ASSUME NEW t \in Tasks, WorkerStep(t) PROVE SkipsNone'
    BY <1>2, <1>3 DEF WorkerStep, Claim, SendSettlement, CommitPending, Complete
  <1>4. CASE UNCHANGED vars
    BY <1>2, <1>4 DEF vars
  <1> QED
    BY <1>1, <1>3, <1>4, MineSkipsNone, ReorgSkipsNone, BeginScanSkipsNone, CheckReorgSkipsNone,
       FetchLogsSkipsNone, ProcessLogSkipsNone, CommitScanSkipsNone, CacheHashesSkipsNone,
       BlockNotFoundSkipsNone, FaultSkipsNone
       DEF Next, IndexerStep

\* Only the commit of a scan moves last_processed_block up.
LEMMA OnlyCommitAdvances ==
    ASSUME SettlementInv, SkipsNone, [Next]_vars, last' > last
    PROVE  CommitScan
  <1>0. last \in Nat /\ ReorgLimit \in Nat /\ ReorgLimit >= 1
    BY Numbers, TypesInParts DEF SettlementInv, Types
  <1>1. CASE UNCHANGED last
    BY <1>0, <1>1
  <1>2. CASE CheckReorg
    <2>1. scan.start = last + 1
      BY <1>2 DEF CheckReorg, SkipsNone, InStep
    <2>2. last' = last \/ last' = RollbackTo(last + 1)
      BY <1>2, <2>1 DEF CheckReorg
    <2> QED
      BY <1>0, <2>2 DEF RollbackTo, Greater
  <1>3. CASE ~CheckReorg /\ ~CommitScan
    <2>1. UNCHANGED last
      BY <1>3 DEF Next, WorkerStep, Claim, SendSettlement, CommitPending, Complete, IndexerStep,
         Mine, Reorg, BeginScan, FetchLogs, ProcessLog, CacheHashes, BlockNotFound, ScanFails,
         Restart, vars, indexerVars
    <2> QED
      BY <1>1, <2>1
  <1> QED
    BY <1>2, <1>3

\* Whenever last_processed_block rises, every log up to there has been delivered as the
\* chain has it: while no confirmed block is lost, whatever fails; and else in one process
\* whose calls succeed, with cuts between its scans that lose fewer than REORG_LIMIT
\* confirmed blocks.  One rollback then reaches below every cut (NothingSkipped).
THEOREM NothingIsSkipped == Spec => NothingSkipped
  <1>1. ASSUME SettlementInv, SkipsNone, [Next]_vars
        PROVE  last' > last /\ (Shallow \/ Noticeable) => NoneSkipped(chain', last', delivered')
    <2> SUFFICES ASSUME last' > last, Shallow \/ Noticeable
                 PROVE  NoneSkipped(chain', last', delivered')
      OBVIOUS
    <2>1. IndexerInv
      BY <1>1, TypesInParts DEF SettlementInv, Types, IndexerInv
    <2>2. /\ last \in Nat /\ scan.end \in Nat /\ Len(chain) \in Nat
          /\ ReorgLimit \in Nat /\ ReorgLimit >= 1
      BY <2>1, Numbers DEF IndexerInv
    <2>3. CommitScan
      BY <1>1, OnlyCommitAdvances
    <2>4. /\ UNCHANGED <<chain, delivered>> /\ last' = scan.end
          /\ scan.stage = "process" /\ scan.blocks = {}
      BY <2>3 DEF CommitScan, chainVars
    <2>5. scan.end <= Len(chain) /\ \A h \in 1..scan.end : Seen(h)
      BY <1>1, <2>1, <2>4, BatchIsSeen
    <2>6. Lesser(scan.end, Len(chain)) = scan.end
      BY <2>2, <2>5 DEF Lesser
    <2>7. NoneSkipped(chain, scan.end, delivered)
      BY <2>5, <2>6 DEF NoneSkipped, Logged, Seen
    <2> QED
      BY <2>4, <2>7
  <1> QED
    BY <1>1, InvHolds, SkipsNoneInitially, SkipsNoneIsKept, PTL DEF Spec, NothingSkipped

-----------------------------------------------------------------------------
(* ProjectionAtCommit.                                                     *)

\* The constants under which the indexer keeps the books exactly: no call of it fails and
\* no process restarts, no confirmed block is lost, and topics come as text.
Undisturbed ==
    /\ MaxFaults = 0 /\ MaxReorg <= Confirmations
    /\ ~Disputes /\ TextTopics

\* A set of heights is empty or has a greatest one.
HasLatest(s) == s = {} \/ \E m \in s : \A j \in s : j <= m
Latest(s) == CHOOSE i \in s : \A j \in s : j <= i

\* What the logs at these heights make of an escrow.
OfLogs(c, s) == IF s = {} THEN "NONE" ELSE StatusAfter[c[Latest(s)].log.kind]

LEMMA EscrowOfLogs ==
    ASSUME NEW c, NEW t, NEW h
    PROVE  EscrowIn(c, t, h) = OfLogs(c, LogsOf(c, t, h))
  BY DEF EscrowIn, OfLogs, Latest

LEMMA LatestIsGreatest ==
    ASSUME NEW s, NEW m \in s, s \subseteq Int, \A j \in s : j <= m
    PROVE  Latest(s) = m
  <1>1. Latest(s) \in s /\ \A j \in s : j <= Latest(s)
    BY DEF Latest
  <1>2. Latest(s) \in Int /\ m \in Int /\ m <= Latest(s) /\ Latest(s) <= m
    BY <1>1
  <1> QED
    BY <1>2

\* The logs about t up to a height of the chain.
LEMMA LogsBelow ==
    ASSUME NEW c, NEW t, NEW h \in Int, Len(c) \in Nat, h <= Len(c)
    PROVE  LogsOf(c, t, h) = {i \in 1..h : c[i].log.task = t}
  BY DEF LogsOf, Lesser

LEMMA NoneAtGenesis ==
    ASSUME NEW c, NEW t, NEW h \in Int, Len(c) \in Nat, h <= 0
    PROVE  LogsOf(c, t, h) = {} /\ EscrowIn(c, t, h) = "NONE"
  <1>1. LogsOf(c, t, h) = {}
    BY LogsBelow
  <1> QED
    BY <1>1, EscrowOfLogs DEF OfLogs

\* One more block: its log decides, if it is about t.
LEMMA OneMoreBlock ==
    ASSUME NEW c, NEW t, Len(c) \in Nat, NEW h \in 1..Len(c)
    PROVE  /\ EscrowIn(c, t, h) = IF c[h].log.task = t THEN StatusAfter[c[h].log.kind]
                                  ELSE EscrowIn(c, t, h - 1)
           /\ HasLatest(LogsOf(c, t, h - 1)) => HasLatest(LogsOf(c, t, h))
  <1>1. /\ LogsOf(c, t, h) = {i \in 1..h : c[i].log.task = t}
        /\ LogsOf(c, t, h - 1) = {i \in 1..h - 1 : c[i].log.task = t}
    BY LogsBelow
  <1>2. CASE c[h].log.task = t
    <2>1. /\ h \in LogsOf(c, t, h) /\ LogsOf(c, t, h) \subseteq Int
          /\ \A j \in LogsOf(c, t, h) : j <= h
      BY <1>1, <1>2
    <2>2. Latest(LogsOf(c, t, h)) = h
      BY <2>1, LatestIsGreatest
    <2> QED
      BY <1>2, <2>1, <2>2, EscrowOfLogs DEF OfLogs, HasLatest
  <1>3. CASE c[h].log.task # t
    <2>1. LogsOf(c, t, h) = LogsOf(c, t, h - 1)
      BY <1>1, <1>3
    <2> QED
      BY <1>3, <2>1, EscrowOfLogs
  <1> QED
    BY <1>2, <1>3

\* No log between two heights: nothing becomes of an escrow.
LEMMA QuietBlocks ==
    ASSUME NEW c, NEW t, Len(c) \in Nat, NEW f \in Int, NEW h \in Int, f <= h, h <= Len(c),
           \A i \in f + 1..h : 1 <= i => c[i].log.task # t
    PROVE  EscrowIn(c, t, h) = EscrowIn(c, t, f)
  <1>1. /\ LogsOf(c, t, h) = {i \in 1..h : c[i].log.task = t}
        /\ LogsOf(c, t, f) = {i \in 1..f : c[i].log.task = t}
    BY LogsBelow
  <1>2. \A i \in 1..h : i \in 1..f \/ i \in f + 1..h
    OBVIOUS
  <1>3. LogsOf(c, t, h) = LogsOf(c, t, f)
    BY <1>1, <1>2
  <1> QED
    BY <1>3, EscrowOfLogs

\* Chains that agree up to a height agree on the escrows up to there.
LEMMA CommonBlocks ==
    ASSUME NEW c, NEW d, NEW t, NEW h \in Int, Len(c) \in Nat, Len(d) \in Nat,
           h <= Len(c), h <= Len(d), \A i \in 1..h : c[i] = d[i],
           HasLatest(LogsOf(c, t, h))
    PROVE  LogsOf(c, t, h) = LogsOf(d, t, h) /\ EscrowIn(c, t, h) = EscrowIn(d, t, h)
  <1>1. /\ LogsOf(c, t, h) = {i \in 1..h : c[i].log.task = t}
        /\ LogsOf(d, t, h) = {i \in 1..h : d[i].log.task = t}
    BY LogsBelow
  <1>2. LogsOf(c, t, h) = LogsOf(d, t, h) /\ LogsOf(c, t, h) \subseteq 1..h
    BY <1>1
  <1> DEFINE s == LogsOf(c, t, h)
  <1>3. CASE s = {}
    BY <1>2, <1>3, EscrowOfLogs DEF OfLogs
  <1>4. CASE s # {}
    <2>1. PICK m \in s : \A j \in s : j <= m
      BY <1>4 DEF HasLatest
    <2>2. s \subseteq Int
      BY <1>2
    <2>3. Latest(s) = m
      <3> HIDE DEF s
      <3> QED
        BY <2>1, <2>2, LatestIsGreatest
    <2>4. c[m] = d[m]
      BY <1>2, <2>1
    <2> QED
      BY <1>2, <1>4, <2>3, <2>4, EscrowOfLogs DEF OfLogs
  <1> QED
    BY <1>3, <1>4

\* What the escrow rows and the credits are when the logs up to height f are through.
Agrees(f) ==
    \A t \in Tasks :
        /\ row[t] \in Projection(EscrowIn(chain, t, f), t \in sent)
        /\ credited[t] = (IF EscrowIn(chain, t, f) = "SETTLED" THEN 1 ELSE 0)

\* Logs of the chain follow the contract; SETTLED is the end of an escrow.
OrderlyLog(i) ==
    LET before == EscrowIn(chain, chain[i].log.task, i - 1) IN
    \/ chain[i].log.kind = "Locked" /\ before = "NONE"
    \/ chain[i].log.kind \in {"Settled", "Refunded"} /\ before = "LOCKED"
EscrowStatus == {"NONE", "LOCKED", "SETTLED", "REFUNDED"}
Orderly ==
    /\ \A i \in 1..Len(chain) : chain[i].log # NoLog => OrderlyLog(i)
    /\ \A t \in Tasks : \A i \in 0..Len(chain) :
          /\ HasLatest(LogsOf(chain, t, i))
          /\ EscrowIn(chain, t, i) \in EscrowStatus
          /\ EscrowIn(chain, t, i) = "SETTLED" =>
                \A j \in i..Len(chain) : EscrowIn(chain, t, j) = "SETTLED"

\* A session that claimed a task has seen its deposit.
Claimed ==
    \A t \in Tasks :
        /\ worker[t].stage # "waiting" => row[t] # "CREATED"
        /\ worker[t].stage = "sent" => t \in sent

\* Every cached hash is that of a confirmed block as the chain has it.
HashesTrue == \A h \in Heights : cache[h] # NotCached => Confirmed(h, cache[h])

\* The logs fetched are the chain's, and confirmed.
BatchIsOnChain ==
    \A b \in scan.blocks :
        /\ b.height \in 1..Len(chain) /\ b.height <= scan.end
        /\ b.height <= peak - Confirmations
        /\ chain[b.height].fork = b.fork /\ chain[b.height].log = b.log /\ b.log # NoLog

\* The logs still to be processed are those of the batch after height f.
Ahead(f) ==
    /\ \A b \in scan.blocks : f < b.height
    /\ \A h \in f + 1..scan.end : chain[h].log # NoLog => \E b \in scan.blocks : b.height = h

\* The logs up to height f are through, and no log after it is.
Front(f) ==
    /\ last <= f /\ f <= Len(chain) /\ Agrees(f)
    /\ scan.stage # "process" => f = last
    /\ scan.stage \in {"check", "fetch", "process"} => f <= scan.end
    /\ scan.stage = "process" => Ahead(f)

Books == Orderly /\ Claimed /\ HashesTrue /\ BatchIsOnChain /\ \E f \in 0..MaxHeight : Front(f)


-----------------------------------------------------------------------------
(* The chain.                                                              *)

\* Escrows read the same at heights both chains have.
SameEscrows ==
    \A t \in Tasks : \A h \in Int :
        h <= Len(chain) /\ h <= Len(chain') =>
            /\ LogsOf(chain', t, h) = LogsOf(chain, t, h)
            /\ EscrowIn(chain', t, h) = EscrowIn(chain, t, h)

LEMMA EscrowsAreKept ==
    ASSUME ChainTypes, Orderly, Mine \/ Reorg
    PROVE  SameEscrows
  <1>1. /\ ChainTypes' /\ Len(chain) \in Nat /\ Len(chain') \in Nat
        /\ \A h \in Int : h <= Len(chain) /\ h <= Len(chain') =>
              \A i \in 1..h : chain[i] = chain'[i]
    <2>1. CASE Mine
      <3>1. /\ ChainTypes' /\ Len(chain') = Len(chain) + 1
            /\ \A h \in 1..Len(chain) : chain'[h] = chain[h]
        BY <2>1, MineIsTyped
      <3>2. Len(chain) \in Nat /\ Len(chain') \in Nat
        BY <3>1 DEF ChainTypes
      <3> QED
        BY <3>1, <3>2
    <2>2. CASE Reorg
      <3>1. /\ ChainTypes' /\ Len(chain') < Len(chain)
            /\ \A h \in 1..Len(chain') : chain'[h] = chain[h]
        BY <2>2, ReorgIsTyped
      <3>2. Len(chain) \in Nat /\ Len(chain') \in Nat
        BY <3>1 DEF ChainTypes
      <3> QED
        BY <3>1, <3>2
    <2> QED
      BY <2>1, <2>2
  <1> SUFFICES ASSUME NEW t \in Tasks, NEW h \in Int, h <= Len(chain), h <= Len(chain')
               PROVE  /\ LogsOf(chain', t, h) = LogsOf(chain, t, h)
                      /\ EscrowIn(chain', t, h) = EscrowIn(chain, t, h)
    BY DEF SameEscrows
  <1>2. CASE h <= 0
    BY <1>1, <1>2, NoneAtGenesis
  <1>3. CASE h > 0
    <2>1. h \in 0..Len(chain)
      BY <1>1, <1>3
    <2>2. HasLatest(LogsOf(chain, t, h))
      BY <2>1 DEF Orderly
    <2> QED
      BY <1>1, <2>2, CommonBlocks
  <1> QED
    BY <1>2, <1>3

\* What a block is mined with.
LEMMA MinedLog ==
    ASSUME ChainTypes, Mine
    PROVE  /\ Len(chain') = Len(chain) + 1 /\ Len(chain) \in Nat
           /\ chain'[Len(chain) + 1].log \in Log
           /\ \/ chain'[Len(chain) + 1].log = NoLog
              \/ Allowed(chain'[Len(chain) + 1].log)
  <1>1. PICK log \in Log : /\ log = NoLog \/ Allowed(log)
                           /\ chain' = Append(chain, [fork |-> forks, log |-> log])
    BY DEF Mine
  <1>2. [fork |-> forks, log |-> log] \in Block
    BY DEF ChainTypes, Block
  <1>3. /\ Len(chain') = Len(chain) + 1 /\ Len(chain) \in Nat
        /\ chain'[Len(chain) + 1] = [fork |-> forks, log |-> log]
    BY <1>1, <1>2 DEF ChainTypes
  <1> QED
    BY <1>1, <1>3

LEMMA AboutATask ==
    ASSUME NEW log \in Log
    PROVE  /\ log = NoLog => log.task \notin Tasks
           /\ log # NoLog => log.task \in Tasks
  BY SettlementAssumption DEF Log, NoLog

\* What an undisputed escrow goes through.
Becomes(kind, before, after) ==
    \/ kind = "Locked" /\ before = "NONE" /\ after = "LOCKED"
    \/ kind = "Settled" /\ before = "LOCKED" /\ after = "SETTLED"
    \/ kind = "Refunded" /\ before = "LOCKED" /\ after = "REFUNDED"

\* The escrow after the block just mined, for an escrow its log is about and for others.
LEMMA MinedEscrow ==
    ASSUME ChainTypes, Orderly, ~Disputes, Mine, NEW t \in Tasks
    PROVE  LET n == Len(chain) + 1
               log == chain'[n].log
               before == EscrowIn(chain, t, n - 1) IN
           /\ HasLatest(LogsOf(chain', t, n))
           /\ before \in EscrowStatus
           /\ log.task # t => EscrowIn(chain', t, n) = before
           /\ log.task = t => Becomes(log.kind, before, EscrowIn(chain', t, n))
  <1> DEFINE n == Len(chain) + 1
             log == chain'[n].log
  <1>1. /\ Len(chain') = n /\ Len(chain) \in Nat /\ n - 1 = Len(chain) /\ n \in 1..n
        /\ log \in Log /\ (log = NoLog \/ Allowed(log)) /\ SameEscrows
    <2>1. /\ Len(chain') = n /\ Len(chain) \in Nat
          /\ log \in Log /\ (log = NoLog \/ Allowed(log)) /\ SameEscrows
      BY MinedLog, EscrowsAreKept
    <2> QED
      BY <2>1
  <1>2. /\ LogsOf(chain', t, n - 1) = LogsOf(chain, t, n - 1)
        /\ EscrowIn(chain', t, n - 1) = EscrowIn(chain, t, n - 1)
    <2>1. n - 1 <= Len(chain) /\ n - 1 <= Len(chain') /\ n - 1 \in Int
      BY <1>1
    <2> QED
      BY <1>1, <2>1 DEF SameEscrows
  <1>3. HasLatest(LogsOf(chain, t, n - 1)) /\ EscrowIn(chain, t, n - 1) \in EscrowStatus
    BY <1>1 DEF Orderly
  <1>4. /\ EscrowIn(chain', t, n) = IF log.task = t THEN StatusAfter[log.kind]
                                    ELSE EscrowIn(chain', t, n - 1)
        /\ HasLatest(LogsOf(chain', t, n))
    BY <1>1, <1>2, <1>3, OneMoreBlock
  <1>5. ASSUME log.task = t
        PROVE  \/ log.kind = "Locked" /\ EscrowIn(chain, t, n - 1) = "NONE"
               \/ log.kind \in {"Settled", "Refunded"} /\ EscrowIn(chain, t, n - 1) = "LOCKED"
    <2>1. Allowed(log)
      BY <1>1, <1>5, AboutATask
    <2>2. EscrowAt(log.task, Len(chain)) = EscrowIn(chain, t, n - 1)
      BY <1>1, <1>5 DEF EscrowAt
    <2>3. EscrowIn(chain, t, n - 1) # "DISPUTED"
      BY <1>3 DEF EscrowStatus
    <2> HIDE DEF n, log
    <2> QED
      BY <2>1, <2>2, <2>3 DEF Allowed
  <1> HIDE DEF log, n
  <1>6. log.task = t => Becomes(log.kind, EscrowIn(chain, t, n - 1), EscrowIn(chain', t, n))
    BY <1>4, <1>5 DEF StatusAfter, Becomes
  <1>7. log.task # t => EscrowIn(chain', t, n) = EscrowIn(chain, t, n - 1)
    BY <1>2, <1>4
  <1> QED
    BY <1>3, <1>4, <1>6, <1>7 DEF log, n

LEMMA MineIsOrderly ==
    ASSUME ChainTypes, Orderly, ~Disputes, Mine
    PROVE  Orderly'
  <1> DEFINE n == Len(chain) + 1
             log == chain'[n].log
  <1>1. /\ Len(chain') = n /\ Len(chain) \in Nat /\ n - 1 = Len(chain)
        /\ log \in Log /\ (log = NoLog \/ Allowed(log)) /\ SameEscrows
        /\ \A h \in 1..Len(chain) : chain'[h] = chain[h] /\ chain[h] \in Block
    <2>1. /\ Len(chain') = n /\ Len(chain) \in Nat
          /\ log \in Log /\ (log = NoLog \/ Allowed(log)) /\ SameEscrows
          /\ \A h \in 1..Len(chain) : chain'[h] = chain[h]
      BY MinedLog, EscrowsAreKept, MineIsTyped
    <2> QED
      BY <2>1 DEF ChainTypes
  <1>2. ASSUME NEW t \in Tasks, NEW i \in 0..Len(chain)
        PROVE  /\ LogsOf(chain', t, i) = LogsOf(chain, t, i)
               /\ EscrowIn(chain', t, i) = EscrowIn(chain, t, i)
    BY <1>1 DEF SameEscrows
  <1>3. ASSUME NEW i \in 1..n, chain'[i].log # NoLog PROVE OrderlyLog(i)'
    <2>1. CASE i \in 1..Len(chain)
      <3>1. /\ chain'[i] = chain[i] /\ chain[i].log.task \in Tasks /\ OrderlyLog(i)
            /\ i - 1 \in 0..Len(chain)
        BY <1>1, <1>3, <2>1, AboutATask DEF Orderly, Block
      <3>2. EscrowIn(chain', chain[i].log.task, i - 1) = EscrowIn(chain, chain[i].log.task, i - 1)
        BY <1>2, <3>1
      <3> QED
        BY <3>1, <3>2 DEF OrderlyLog
    <2>2. CASE i = n
      <3>1. log.task \in Tasks /\ n - 1 \in 0..Len(chain)
        BY <1>1, <1>3, <2>2, AboutATask
      <3>2. EscrowIn(chain', log.task, n - 1) = EscrowIn(chain, log.task, n - 1)
        BY <1>2, <3>1
      <3>3. \/ log.kind = "Locked" /\ EscrowIn(chain, log.task, n - 1) = "NONE"
            \/ log.kind \in {"Settled", "Refunded"} /\ EscrowIn(chain, log.task, n - 1) = "LOCKED"
        BY <3>1, MinedEscrow DEF Becomes
      <3> QED
        BY <2>2, <3>2, <3>3 DEF OrderlyLog
    <2> QED
      BY <1>1, <2>1, <2>2
  <1>4. ASSUME NEW t \in Tasks
        PROVE  /\ HasLatest(LogsOf(chain', t, n))
               /\ EscrowIn(chain', t, n) \in EscrowStatus
               /\ EscrowIn(chain, t, n - 1) = "SETTLED" => EscrowIn(chain', t, n) = "SETTLED"
    BY MinedEscrow DEF EscrowStatus, Becomes
  <1>5. ASSUME NEW t \in Tasks, NEW i \in 0..n
        PROVE  /\ HasLatest(LogsOf(chain', t, i))
               /\ EscrowIn(chain', t, i) \in EscrowStatus
               /\ EscrowIn(chain', t, i) = "SETTLED" =>
                     \A j \in i..n : EscrowIn(chain', t, j) = "SETTLED"
    <2>1. CASE i = n
      <3>1. \A j \in i..n : j = n
        BY <1>1, <2>1
      <3> QED
        BY <1>4, <2>1, <3>1
    <2>2. CASE i \in 0..Len(chain)
      <3>1. /\ HasLatest(LogsOf(chain, t, i)) /\ EscrowIn(chain, t, i) \in EscrowStatus
            /\ EscrowIn(chain, t, i) = "SETTLED" =>
                  \A j \in i..Len(chain) : EscrowIn(chain, t, j) = "SETTLED"
        BY <2>2 DEF Orderly
      <3>2. ASSUME EscrowIn(chain, t, i) = "SETTLED", NEW j \in i..n
            PROVE  EscrowIn(chain', t, j) = "SETTLED"
        <4>1. CASE j \in i..Len(chain)
          <5>1. j \in 0..Len(chain)
            BY <1>1, <2>2, <4>1
          <5> QED
            BY <1>2, <3>1, <3>2, <4>1, <5>1
        <4>2. CASE j = n
          <5>1. Len(chain) \in i..Len(chain)
            BY <1>1, <2>2
          <5>2. EscrowIn(chain, t, n - 1) = "SETTLED"
            BY <1>1, <3>1, <3>2, <5>1
          <5> QED
            BY <1>4, <4>2, <5>2
        <4>3. j \in i..Len(chain) \/ j = n
          BY <1>1, <2>2, <3>2
        <4> QED
          BY <4>1, <4>2, <4>3
      <3> QED
        BY <1>2, <2>2, <3>1, <3>2
    <2>3. i = n \/ i \in 0..Len(chain)
      BY <1>1
    <2> QED
      BY <2>1, <2>2, <2>3
  <1> QED
    BY <1>1, <1>3, <1>5 DEF Orderly

LEMMA ReorgIsOrderly ==
    ASSUME ChainTypes, Orderly, Reorg
    PROVE  Orderly'
  <1>1. /\ Len(chain') \in Nat /\ Len(chain) \in Nat /\ Len(chain') < Len(chain) /\ SameEscrows
        /\ \A h \in 1..Len(chain') : chain'[h] = chain[h] /\ chain[h] \in Block
    <2>1. /\ ChainTypes' /\ Len(chain') < Len(chain) /\ SameEscrows
          /\ \A h \in 1..Len(chain') : chain'[h] = chain[h]
      BY ReorgIsTyped, EscrowsAreKept
    <2>2. Len(chain') \in Nat /\ Len(chain) \in Nat
      BY <2>1 DEF ChainTypes
    <2> QED
      BY <2>1, <2>2 DEF ChainTypes
  <1>2. ASSUME NEW t \in Tasks, NEW i \in 0..Len(chain')
        PROVE  /\ LogsOf(chain', t, i) = LogsOf(chain, t, i)
               /\ EscrowIn(chain', t, i) = EscrowIn(chain, t, i)
               /\ i \in 0..Len(chain)
    BY <1>1 DEF SameEscrows
  <1>3. ASSUME NEW i \in 1..Len(chain'), chain'[i].log # NoLog PROVE OrderlyLog(i)'
    <2>1. i \in 1..Len(chain) /\ i - 1 \in 0..Len(chain') /\ chain'[i] = chain[i]
      BY <1>1
    <2>2. chain[i].log.task \in Tasks /\ OrderlyLog(i)
      BY <1>1, <1>3, <2>1, AboutATask DEF Orderly, Block
    <2>3. EscrowIn(chain', chain[i].log.task, i - 1) = EscrowIn(chain, chain[i].log.task, i - 1)
      BY <1>2, <2>1, <2>2
    <2> QED
      BY <2>1, <2>2, <2>3 DEF OrderlyLog
  <1>4. ASSUME NEW t \in Tasks, NEW i \in 0..Len(chain')
        PROVE  /\ HasLatest(LogsOf(chain', t, i))
               /\ EscrowIn(chain', t, i) \in EscrowStatus
               /\ EscrowIn(chain', t, i) = "SETTLED" =>
                     \A j \in i..Len(chain') : EscrowIn(chain', t, j) = "SETTLED"
    <2>1. /\ HasLatest(LogsOf(chain, t, i)) /\ EscrowIn(chain, t, i) \in EscrowStatus
          /\ EscrowIn(chain, t, i) = "SETTLED" =>
                \A j \in i..Len(chain) : EscrowIn(chain, t, j) = "SETTLED"
      BY <1>2 DEF Orderly
    <2>2. \A j \in i..Len(chain') : j \in 0..Len(chain') /\ j \in i..Len(chain)
      BY <1>1
    <2> QED
      BY <1>2, <2>1, <2>2
  <1> QED
    BY <1>3, <1>4 DEF Orderly


-----------------------------------------------------------------------------
(* The books.                                                              *)

LEMMA Steady ==
    ASSUME IndexerInv, Undisturbed
    PROVE  /\ Shallow /\ faults = 0 /\ Len(chain) \in Nat /\ peak \in Nat /\ Confirmations \in Nat
           /\ last \in Nat /\ scan.start \in Nat /\ scan.end \in Nat /\ MaxHeight \in Nat
           /\ Len(chain) <= MaxHeight
           /\ \A h \in Int : h <= peak - Confirmations => h <= Len(chain)
  <1>1. /\ Len(chain) \in Nat /\ peak \in Nat /\ Confirmations \in Nat /\ deepest \in Nat
        /\ last \in Nat /\ scan.start \in Nat /\ scan.end \in Nat /\ MaxHeight \in Nat
        /\ Len(chain) <= peak /\ peak <= MaxHeight
    BY Numbers DEF IndexerInv
  <1>2. Shallow
    BY <1>1, SettlementAssumption DEF IndexerInv, ChainTypes, Undisturbed, Shallow
  <1>3. faults = 0
    BY DEF IndexerInv, IndexerTypes, Undisturbed
  <1>4. Len(chain) >= peak - Confirmations
    BY <1>1, <1>2 DEF IndexerInv, Safety, CutIsCounted, Shallow
  <1>5. ASSUME NEW h \in Int, h <= peak - Confirmations PROVE h <= Len(chain)
    BY <1>1, <1>4, <1>5
  <1> QED
    BY <1>1, <1>2, <1>3, <1>5

LEMMA NotAbove ==
    ASSUME NEW h \in Int, NEW p \in Int, NEW c \in Int, NEW n \in Int, h <= p - c, n >= p - c
    PROVE  h <= n
  OBVIOUS

\* What is confirmed stays, and stays confirmed.
LEMMA ConfirmedBlocksStay ==
    ASSUME IndexerInv, Undisturbed, Mine \/ Reorg
    PROVE  \A h \in Int : h <= peak - Confirmations =>
              /\ h <= Len(chain) /\ h <= Len(chain') /\ h <= peak' - Confirmations
              /\ h >= 1 => chain'[h] = chain[h]
  <1>1. ChainTypes' /\ Safety'
    BY ChainStepIsSafe DEF IndexerInv
  <1>2. /\ Len(chain) \in Nat /\ Len(chain') \in Nat /\ peak \in Nat /\ peak' \in Nat
        /\ deepest' \in 0..MaxReorg /\ MaxReorg \in Nat /\ Confirmations \in Nat
        /\ MaxReorg <= Confirmations
    BY <1>1, Steady, SettlementAssumption DEF ChainTypes, Undisturbed
  <1>3. Len(chain') >= peak' - Confirmations
    BY <1>1, <1>2 DEF Safety, CutIsCounted
  <1>4. peak' >= peak
    <2>1. CASE Mine
      BY <2>1, MineIsTyped DEF IndexerInv
    <2>2. CASE Reorg
      BY <1>2, <2>2, ReorgIsTyped DEF IndexerInv
    <2> QED
      BY <2>1, <2>2
  <1> SUFFICES ASSUME NEW h \in Int, h <= peak - Confirmations
               PROVE  /\ h <= Len(chain) /\ h <= Len(chain') /\ h <= peak' - Confirmations
                      /\ h >= 1 => chain'[h] = chain[h]
    OBVIOUS
  <1>5. h <= Len(chain) /\ h <= peak' - Confirmations /\ h <= Len(chain')
    <2>1. peak \in Int /\ peak' \in Int /\ Confirmations \in Int /\ Len(chain') \in Int
      BY <1>2
    <2>2. h <= peak' - Confirmations
      BY <1>4, <2>1, LaterIsHigher
    <2>3. h <= Len(chain')
      BY <1>3, <2>1, <2>2, NotAbove
    <2> QED
      BY <2>2, <2>3, Steady
  <1>7. ASSUME h >= 1 PROVE chain'[h] = chain[h]
    <2>1. CASE Mine
      BY <1>2, <1>5, <1>7, <2>1, MineIsTyped DEF IndexerInv
    <2>2. CASE Reorg
      BY <1>2, <1>5, <1>7, <2>2, ReorgIsTyped DEF IndexerInv
    <2> QED
      BY <2>1, <2>2
  <1> QED
    BY <1>5, <1>7

\* The frontier is confirmed, and is a height of the chain.
LEMMA FrontIsConfirmed ==
    ASSUME IndexerInv, Undisturbed, InStep, NEW f \in Nat, Front(f)
    PROVE  f = 0 \/ f <= peak - Confirmations
  <1>1. CASE scan.stage = "process"
    <2>1. f <= scan.end /\ scan.end <= peak - Confirmations
      BY <1>1 DEF Front, IndexerInv, Safety, ScanIsConfirmed
    <2>2. scan.end \in Int /\ peak \in Int /\ Confirmations \in Int
      BY Steady
    <2> QED
      BY <2>1, <2>2
  <1>2. CASE scan.stage # "process"
    BY <1>2 DEF Front, InStep
  <1> QED
    BY <1>1, <1>2

LEMMA ChainKeepsBooks ==
    ASSUME IndexerInv, InStep, Undisturbed, Books, Mine \/ Reorg
    PROVE  Books'
  <1>1. /\ UNCHANGED <<last, cache, scan, delivered, credited, row, sent, worker>>
    BY DEF Mine, Reorg, indexerVars, workerVars
  <1>2. Orderly /\ Claimed /\ HashesTrue /\ BatchIsOnChain
    BY DEF Books
  <1>3. PICK f \in 0..MaxHeight : Front(f)
    BY DEF Books
  <1>4. Orderly' /\ SameEscrows
    BY <1>2, MineIsOrderly, ReorgIsOrderly, EscrowsAreKept DEF IndexerInv, Undisturbed
  <1>5. /\ Len(chain) \in Nat /\ Len(chain') \in Nat /\ scan.end \in Nat /\ MaxHeight \in Nat
        /\ peak \in Nat /\ Confirmations \in Nat /\ f \in Nat
        /\ \A h \in Int : h <= peak - Confirmations =>
              /\ h <= Len(chain) /\ h <= Len(chain') /\ h <= peak' - Confirmations
              /\ h >= 1 => chain'[h] = chain[h]
    <2>1. ChainTypes'
      BY ChainStepIsSafe DEF IndexerInv
    <2> QED
      BY <2>1, Steady, ConfirmedBlocksStay, SMTT(30) DEF ChainTypes
  <1>6. Claimed'
    BY <1>1, <1>2 DEF Claimed
  <1>7. HashesTrue'
    BY <1>1, <1>2, <1>5 DEF HashesTrue, Confirmed, Heights
  <1>8. BatchIsOnChain'
    <2> SUFFICES ASSUME NEW b \in scan.blocks
                 PROVE  /\ b.height \in 1..Len(chain') /\ b.height <= scan.end
                        /\ b.height <= peak' - Confirmations
                        /\ chain'[b.height].fork = b.fork /\ chain'[b.height].log = b.log
                        /\ b.log # NoLog
      BY <1>1 DEF BatchIsOnChain
    <2>1. /\ b.height \in 1..Len(chain) /\ b.height <= scan.end
          /\ b.height <= peak - Confirmations
          /\ chain[b.height].fork = b.fork /\ chain[b.height].log = b.log /\ b.log # NoLog
      BY <1>2 DEF BatchIsOnChain
    <2>2. /\ b.height <= Len(chain') /\ b.height <= peak' - Confirmations
          /\ chain'[b.height] = chain[b.height] /\ b.height \in Int /\ b.height >= 1
      BY <1>5, <2>1
    <2> QED
      BY <1>5, <2>1, <2>2
  <1>9. f <= Len(chain')
    <2>1. CASE f = 0
      BY <1>5, <2>1
    <2>2. CASE f <= peak - Confirmations
      BY <1>5, <2>2
    <2> QED
      BY <1>3, <1>5, <2>1, <2>2, FrontIsConfirmed
  <1>10. Agrees(f)'
    <2>1. f <= Len(chain)
      BY <1>3 DEF Front
    <2>2. \A t \in Tasks : EscrowIn(chain', t, f) = EscrowIn(chain, t, f)
      BY <1>4, <1>5, <1>9, <2>1 DEF SameEscrows
    <2>3. Agrees(f)
      BY <1>3 DEF Front
    <2> QED
      BY <1>1, <2>2, <2>3 DEF Agrees
  <1>11. ASSUME scan.stage = "process" PROVE Ahead(f)'
    <2>1. Ahead(f) /\ scan.end <= peak - Confirmations
      BY <1>3, <1>11 DEF Front, IndexerInv, Safety, ScanIsConfirmed
    <2>2. ASSUME NEW h \in f + 1..scan.end PROVE chain'[h] = chain[h]
      <3>1. h \in Int /\ h >= 1 /\ h <= peak - Confirmations
        BY <1>5, <2>1, <2>2
      <3> QED
        BY <1>5, <3>1
    <2> QED
      BY <1>1, <2>1, <2>2 DEF Ahead
  <1>12. Front(f)'
    BY <1>1, <1>3, <1>9, <1>10, <1>11 DEF Front
  <1> QED
    BY <1>4, <1>6, <1>7, <1>8, <1>12 DEF Books

LEMMA WorkerKeepsBooks ==
    ASSUME WorkerTypes, Books, NEW t \in Tasks, WorkerStep(t)
    PROVE  Books'
  <1>1. UNCHANGED <<chain, peak, last, cache, scan, credited>>
    BY DEF WorkerStep, Claim, SendSettlement, CommitPending, Complete, chainVars, indexerVars
  <1>2. Orderly' /\ HashesTrue' /\ BatchIsOnChain'
    BY <1>1 DEF Books, Orderly, OrderlyLog, HashesTrue, Confirmed, BatchIsOnChain
  <1>3. Claimed
    BY DEF Books
  <1>4. /\ sent \subseteq sent'
        /\ \A u \in Tasks : \/ row'[u] = row[u]
                            \/ /\ row'[u] = "SETTLEMENT_PENDING" /\ row[u] # "CREATED"
                               /\ u \in sent'
        /\ Claimed'
    <2>1. CASE Claim(t)
      BY <1>3, <2>1 DEF Claim, Claimed, WorkerTypes
    <2>2. CASE SendSettlement(t)
      BY <1>3, <2>2 DEF SendSettlement, Claimed, WorkerTypes
    <2>3. CASE CommitPending(t)
      BY <1>3, <2>3 DEF CommitPending, Claimed, WorkerTypes
    <2>4. CASE Complete(t)
      BY <1>3, <2>4 DEF Complete, Claimed, WorkerTypes, workerVars
    <2> QED
      BY <2>1, <2>2, <2>3, <2>4 DEF WorkerStep
  <1>5. PICK f \in 0..MaxHeight : Front(f)
    BY DEF Books
  <1>6. Agrees(f)'
    <2> SUFFICES ASSUME NEW u \in Tasks
                 PROVE  /\ row'[u] \in Projection(EscrowIn(chain, u, f), u \in sent')
                        /\ credited[u] = (IF EscrowIn(chain, u, f) = "SETTLED" THEN 1 ELSE 0)
      BY <1>1 DEF Agrees
    <2>1. /\ row[u] \in Projection(EscrowIn(chain, u, f), u \in sent)
          /\ credited[u] = (IF EscrowIn(chain, u, f) = "SETTLED" THEN 1 ELSE 0)
          /\ EscrowIn(chain, u, f) \in EscrowStatus
      <3>1. f \in 0..Len(chain)
        BY <1>5 DEF Front
      <3> QED
        BY <1>5, <3>1 DEF Front, Agrees, Books, Orderly
    <2>2. u \in sent => u \in sent'
      BY <1>4
    <2>3. row'[u] \in Projection(EscrowIn(chain, u, f), u \in sent')
      BY <1>4, <2>1, <2>2 DEF Projection, EscrowStatus
    <2> QED
      BY <2>1, <2>3
  <1>7. Front(f)'
    BY <1>1, <1>5, <1>6 DEF Front, Ahead
  <1> QED
    BY <1>2, <1>4, <1>7 DEF Books


-----------------------------------------------------------------------------
(* The indexer keeps the books.                                            *)

\* A step that books nothing and delivers nothing leaves most as it is.
LEMMA NothingBooked ==
    ASSUME Books, SameChain, UNCHANGED <<sent, worker, row, credited>>
    PROVE  /\ Orderly' /\ Claimed'
           /\ UNCHANGED cache => HashesTrue'
           /\ scan'.blocks = {} => BatchIsOnChain'
           /\ \A f : Agrees(f) => Agrees(f)'
  BY DEF Books, Orderly, OrderlyLog, Claimed, HashesTrue, Confirmed, BatchIsOnChain, Agrees, SameChain

LEMMA BeginScanKeepsBooks ==
    ASSUME IndexerInv, Undisturbed, Books, BeginScan
    PROVE  Books'
  <1>1. /\ SameChain /\ UNCHANGED <<sent, worker, row, credited, cache, last>>
        /\ scan.stage = "off"
    BY DEF BeginScan, SameChain, chainVars, workerVars
  <1>2. scan'.stage = "check" /\ scan'.blocks = {}
    BY BeginScanIsTyped DEF IndexerInv
  <1>3. last <= scan'.end
    <2>1. /\ Len(chain) \in Nat /\ Confirmations \in Nat /\ last \in Nat /\ BatchSize \in Nat
      BY Steady, SettlementAssumption
    <2>2. /\ last + 1 <= SafeBlock(Len(chain))
          /\ scan'.end = Lesser(SafeBlock(Len(chain)), last + 1 + BatchSize)
      BY DEF BeginScan
    <2>3. SafeBlock(Len(chain)) \in Int
      BY <2>1 DEF SafeBlock, Greater
    <2> QED
      BY <2>1, <2>2, <2>3 DEF Lesser
  <1>4. PICK f \in 0..MaxHeight : Front(f)
    BY DEF Books
  <1>5. Front(f)'
    BY <1>1, <1>2, <1>3, <1>4, NothingBooked DEF Front, SameChain
  <1> QED
    BY <1>1, <1>2, <1>5, NothingBooked DEF Books

\* The cached hash always agrees: there is no rollback.
LEMMA CheckReorgKeepsBooks ==
    ASSUME IndexerInv, InStep, Undisturbed, Books, CheckReorg
    PROVE  Books'
  <1>1. /\ SameChain /\ UNCHANGED <<sent, worker, row, credited, cache>>
        /\ scan.stage = "check" /\ scan.start = last + 1
    BY DEF CheckReorg, SameChain, chainVars, workerVars, InStep
  <1>2. scan.start - 1 = last /\ last \in Nat
    BY <1>1, Steady
  <1>3. scan' = [scan EXCEPT !.stage = "fetch"] /\ UNCHANGED last
    <2>1. CASE last > 0 /\ cache[last] # NotCached
      <3>1. last \in Heights
        BY <1>2, <2>1 DEF IndexerInv, IndexerTypes, Heights
      <3>2. chain[last].fork = cache[last]
        BY <2>1, <3>1 DEF Books, HashesTrue, Confirmed
      <3> QED
        BY <1>2, <2>1, <3>2 DEF CheckReorg
    <2>2. CASE ~(last > 0 /\ cache[last] # NotCached)
      BY <1>2, <2>2 DEF CheckReorg
    <2> QED
      BY <2>1, <2>2
  <1>4. scan'.stage = "fetch" /\ scan'.end = scan.end /\ scan'.blocks = scan.blocks
    BY <1>3 DEF IndexerInv, ScanTypes
  <1>5. PICK f \in 0..MaxHeight : Front(f)
    BY DEF Books
  <1>6. Front(f)'
    BY <1>1, <1>3, <1>4, <1>5, NothingBooked DEF Front, SameChain
  <1>7. BatchIsOnChain'
    BY <1>1, <1>4 DEF Books, BatchIsOnChain, SameChain
  <1> QED
    BY <1>1, <1>6, <1>7, NothingBooked DEF Books

LEMMA FetchLogsKeepsBooks ==
    ASSUME IndexerInv, InStep, Undisturbed, Books, FetchLogs
    PROVE  Books'
  <1>1. /\ SameChain /\ UNCHANGED <<sent, worker, row, credited, cache, last>>
        /\ scan.stage = "fetch" /\ scan' = [scan EXCEPT !.stage = "process", !.blocks = Fetched]
        /\ scan.start = last + 1
    BY DEF FetchLogs, Fetched, SameChain, chainVars, workerVars, InStep
  <1>2. /\ scan'.stage = "process" /\ scan'.end = scan.end /\ scan'.blocks = Fetched
    BY <1>1 DEF IndexerInv, ScanTypes
  <1>3. /\ last \in Nat /\ scan.end \in Nat /\ Len(chain) \in Nat /\ peak \in Nat
        /\ Confirmations \in Nat /\ scan.end <= peak - Confirmations /\ scan.end <= Len(chain)
    <2>1. scan.end <= peak - Confirmations
      BY <1>1 DEF IndexerInv, Safety, ScanIsConfirmed
    <2> QED
      BY <2>1, Steady
  <1>4. ASSUME NEW b \in Fetched
        PROVE  /\ b.height \in 1..Len(chain) /\ b.height <= scan.end
               /\ b.height <= peak - Confirmations /\ last < b.height
               /\ chain[b.height].fork = b.fork /\ chain[b.height].log = b.log /\ b.log # NoLog
    <2>1. PICK h \in InBatch(scan) : /\ chain[h].log # NoLog
                                     /\ b = [height |-> h, fork |-> chain[h].fork,
                                             log |-> chain[h].log]
      BY <1>4 DEF Fetched
    <2>2. h \in scan.start..scan.end /\ h <= Len(chain)
      BY <2>1 DEF InBatch
    <2>3. h \in Int /\ last < h /\ h <= scan.end /\ h >= 1 /\ h <= peak - Confirmations
      BY <1>1, <1>3, <2>2
    <2> QED
      BY <1>3, <2>1, <2>2, <2>3
  <1>5. BatchIsOnChain'
    BY <1>1, <1>2, <1>4 DEF BatchIsOnChain, SameChain
  <1>6. PICK f \in 0..MaxHeight : Front(f)
    BY DEF Books
  <1>7. f = last /\ f <= scan.end
    BY <1>1, <1>6 DEF Front
  <1>8. ASSUME NEW h \in f + 1..scan.end, chain[h].log # NoLog
        PROVE  \E b \in Fetched : b.height = h
    <2> DEFINE b == [height |-> h, fork |-> chain[h].fork, log |-> chain[h].log]
    <2>1. h \in InBatch(scan)
      BY <1>1, <1>3, <1>7, <1>8 DEF InBatch
    <2>2. b \in Fetched /\ b.height = h
      BY <1>8, <2>1 DEF Fetched
    <2> QED
      BY <2>2
  <1>9. Ahead(f)'
    BY <1>1, <1>2, <1>4, <1>7, <1>8 DEF Ahead, SameChain
  <1>10. Front(f)'
    BY <1>1, <1>2, <1>6, <1>7, <1>9, NothingBooked DEF Front, SameChain
  <1> QED
    BY <1>1, <1>5, <1>10, NothingBooked DEF Books

\* The log processed is the first of those left, and it books what the contract made of it.
LEMMA OneLogBooked ==
    ASSUME WorkerTypes, IndexerTypes, Orderly, Undisturbed, NEW f \in Nat, Agrees(f),
           Len(chain) \in Nat, NEW b, b.height \in 1..Len(chain), f < b.height,
           chain[b.height].log = b.log, b.log # NoLog, b.log \in Log,
           \A h \in f + 1..b.height - 1 : chain[h].log = NoLog,
           UNCHANGED <<chain, sent>>,
           row' = [row EXCEPT ![b.log.task] = NewRow(b.log.kind, @)],
           credited' = [credited EXCEPT ![b.log.task] =
                          @ + (IF Credits(b.log.kind, row[b.log.task]) THEN 1 ELSE 0)]
    PROVE  /\ Agrees(b.height)'
           /\ \A t \in Tasks : \/ credited'[t] = credited[t]
                               \/ /\ credited[t] = 0 /\ credited'[t] = 1
                                  /\ EscrowIn(chain, t, b.height) = "SETTLED"
  <1> DEFINE h == b.height
  <1>1. h \in Int /\ h - 1 \in Int /\ f <= h - 1 /\ h - 1 <= Len(chain) /\ h \in 1..Len(chain)
    OBVIOUS
  <1>2. b.log.task \in Tasks /\ OrderlyLog(h)
    BY AboutATask DEF Orderly
  <1> HIDE DEF h
  <1>3. ASSUME NEW t \in Tasks
        PROVE  /\ EscrowIn(chain, t, h - 1) = EscrowIn(chain, t, f)
               /\ EscrowIn(chain, t, h) = IF b.log.task = t THEN StatusAfter[b.log.kind]
                                          ELSE EscrowIn(chain, t, f)
    <2>1. \A i \in f + 1..h - 1 : chain[i].log.task # t
      <3> SUFFICES ASSUME NEW i \in f + 1..h - 1 PROVE chain[i].log.task # t
        OBVIOUS
      <3>1. chain[i].log = NoLog
        BY DEF h
      <3>2. NoLog \in Log
        BY DEF Log
      <3> QED
        BY <3>1, <3>2, AboutATask
    <2>2. EscrowIn(chain, t, h - 1) = EscrowIn(chain, t, f)
      BY <1>1, <2>1, QuietBlocks
    <2>3. EscrowIn(chain, t, h) = IF chain[h].log.task = t THEN StatusAfter[chain[h].log.kind]
                                  ELSE EscrowIn(chain, t, h - 1)
      BY <1>1, OneMoreBlock
    <2> QED
      BY <2>2, <2>3 DEF h
  <1>4. ASSUME NEW t \in Tasks
        PROVE  /\ row'[t] \in Projection(EscrowIn(chain, t, h), t \in sent)
               /\ credited'[t] = (IF EscrowIn(chain, t, h) = "SETTLED" THEN 1 ELSE 0)
               /\ \/ credited'[t] = credited[t]
                  \/ /\ credited[t] = 0 /\ credited'[t] = 1
                     /\ EscrowIn(chain, t, h) = "SETTLED"
    <2>1. /\ row[t] \in Projection(EscrowIn(chain, t, f), t \in sent)
          /\ credited[t] = (IF EscrowIn(chain, t, f) = "SETTLED" THEN 1 ELSE 0)
      BY DEF Agrees
    <2>2. CASE t # b.log.task
      <3>1. row'[t] = row[t] /\ credited'[t] = credited[t]
        BY <2>2 DEF WorkerTypes, IndexerTypes
      <3>2. EscrowIn(chain, t, h) = EscrowIn(chain, t, f)
        BY <1>3, <2>2
      <3> QED
        BY <2>1, <3>1, <3>2
    <2>3. CASE t = b.log.task
      <3>1. /\ row'[t] = NewRow(b.log.kind, row[t])
            /\ credited'[t] = credited[t] + (IF Credits(b.log.kind, row[t]) THEN 1 ELSE 0)
        BY <2>3 DEF WorkerTypes, IndexerTypes
      <3>2. /\ EscrowIn(chain, t, h) = StatusAfter[b.log.kind]
            /\ \/ b.log.kind = "Locked" /\ EscrowIn(chain, t, f) = "NONE"
               \/ b.log.kind \in {"Settled", "Refunded"} /\ EscrowIn(chain, t, f) = "LOCKED"
        <4>1. \/ b.log.kind = "Locked" /\ EscrowIn(chain, t, h - 1) = "NONE"
              \/ b.log.kind \in {"Settled", "Refunded"} /\ EscrowIn(chain, t, h - 1) = "LOCKED"
          BY <1>2, <2>3 DEF OrderlyLog, h
        <4> QED
          BY <1>3, <2>3, <4>1
      <3>3. credited[t] = 0
        BY <2>1, <3>2
      <3>4. CASE b.log.kind = "Locked"
        <4>1. NewRow(b.log.kind, row[t]) = "FUNDED" /\ ~Credits(b.log.kind, row[t])
          BY <3>4 DEF NewRow, Credits, Projects, Undisturbed
        <4>2. EscrowIn(chain, t, h) = "LOCKED"
          BY <3>2, <3>4 DEF StatusAfter
        <4> QED
          BY <3>1, <3>3, <4>1, <4>2 DEF Projection
      <3>5. CASE b.log.kind = "Settled"
        <4>1. EscrowIn(chain, t, f) = "LOCKED"
          BY <3>2, <3>5
        <4>2. row[t] \in {"FUNDED", "SETTLEMENT_PENDING"}
          BY <2>1, <4>1 DEF Projection
        <4>3. NewRow(b.log.kind, row[t]) = "SETTLED" /\ Credits(b.log.kind, row[t])
          BY <3>5, <4>2 DEF NewRow, Credits, Projects, Undisturbed
        <4>4. EscrowIn(chain, t, h) = "SETTLED"
          BY <3>2, <3>5 DEF StatusAfter
        <4> QED
          BY <3>1, <3>3, <4>3, <4>4 DEF Projection
      <3>6. CASE b.log.kind = "Refunded"
        <4>1. NewRow(b.log.kind, row[t]) = "REFUNDED" /\ ~Credits(b.log.kind, row[t])
          BY <3>6 DEF NewRow, Credits, Projects, Undisturbed
        <4>2. EscrowIn(chain, t, h) = "REFUNDED"
          BY <3>2, <3>6 DEF StatusAfter
        <4> QED
          BY <3>1, <3>3, <4>1, <4>2 DEF Projection
      <3> QED
        BY <3>2, <3>4, <3>5, <3>6
    <2> QED
      BY <2>2, <2>3
  <1>5. Agrees(h)'
    BY <1>4 DEF Agrees
  <1> QED
    BY <1>4, <1>5 DEF h


LEMMA ProcessLogKeepsBooks ==
    ASSUME IndexerInv, WorkerTypes, Undisturbed, Books, ProcessLog
    PROVE  /\ Books'
           /\ \E h \in 1..Len(chain) :
                 /\ h <= peak - Confirmations
                 /\ \E u \in Tasks : \A t \in Tasks : t # u => credited'[t] = credited[t]
                 /\ \A t \in Tasks : \/ credited'[t] = credited[t]
                                     \/ /\ credited[t] = 0 /\ credited'[t] = 1
                                        /\ EscrowIn(chain, t, h) = "SETTLED"
  <1>1. PICK b \in scan.blocks :
          /\ \A c \in scan.blocks : b.height <= c.height
          /\ row' = [row EXCEPT ![b.log.task] = NewRow(b.log.kind, @)]
          /\ credited' = [credited EXCEPT ![b.log.task] =
                            @ + (IF Credits(b.log.kind, row[b.log.task]) THEN 1 ELSE 0)]
          /\ scan' = [scan EXCEPT !.blocks = @ \ {b}]
    BY DEF ProcessLog
  <1>2. /\ SameChain /\ UNCHANGED <<sent, worker, cache, last>> /\ scan.stage = "process"
    BY DEF ProcessLog, SameChain, chainVars, workerVars
  <1>3. /\ scan'.stage = "process" /\ scan'.end = scan.end /\ scan'.blocks = scan.blocks \ {b}
        /\ scan.blocks \subseteq FetchedBlock
    BY <1>1, <1>2 DEF IndexerInv, ScanTypes
  <1>4. /\ Orderly /\ Claimed /\ HashesTrue /\ BatchIsOnChain
        /\ Len(chain) \in Nat /\ MaxHeight \in Nat /\ scan.end \in Nat /\ last \in Nat
        /\ Len(chain) <= MaxHeight
    BY Steady DEF Books
  <1>5. PICK f \in 0..MaxHeight : Front(f)
    BY DEF Books
  <1>6. /\ f \in Nat /\ Agrees(f) /\ last <= f /\ Ahead(f)
    BY <1>2, <1>4, <1>5 DEF Front
  <1>7. /\ b.height \in 1..Len(chain) /\ b.height <= scan.end
        /\ b.height <= peak - Confirmations /\ f < b.height
        /\ chain[b.height].log = b.log /\ b.log # NoLog /\ b.log \in Log
    BY <1>3, <1>4, <1>6 DEF BatchIsOnChain, Ahead, FetchedBlock
  <1>8. ASSUME NEW h \in f + 1..b.height - 1 PROVE chain[h].log = NoLog
    <2>1. h \in f + 1..scan.end /\ h < b.height
      BY <1>4, <1>6, <1>7
    <2>2. ASSUME NEW c \in scan.blocks PROVE c.height # h
      <3>1. c.height \in Int /\ b.height <= c.height
        BY <1>1, <1>3 DEF FetchedBlock, Heights
      <3> QED
        BY <1>7, <2>1, <3>1
    <2> QED
      BY <1>6, <2>1, <2>2 DEF Ahead
  <1>9. /\ Agrees(b.height)'
        /\ \A t \in Tasks : \/ credited'[t] = credited[t]
                            \/ /\ credited[t] = 0 /\ credited'[t] = 1
                               /\ EscrowIn(chain, t, b.height) = "SETTLED"
    <2>1. UNCHANGED <<chain, sent>> /\ IndexerTypes
      BY <1>2 DEF SameChain, IndexerInv
    <2> QED
      BY <1>1, <1>4, <1>6, <1>7, <1>8, <2>1, OneLogBooked
  <1>10. b.log.task \in Tasks /\ \A t \in Tasks : t # b.log.task => credited'[t] = credited[t]
    BY <1>1, <1>7, AboutATask DEF IndexerInv, IndexerTypes
  <1>11. Orderly' /\ HashesTrue'
    BY <1>2, <1>4 DEF Orderly, OrderlyLog, HashesTrue, Confirmed, SameChain
  <1>12. Claimed'
    <2>1. ASSUME NEW t \in Tasks, row[t] # "CREATED" PROVE row'[t] # "CREATED"
      <3>1. row'[t] = row[t] \/ row'[t] = NewRow(b.log.kind, row[t])
        BY <1>1, <2>1 DEF WorkerTypes
      <3>2. Projects(b.log.kind) \in {"Locked", "Settled", "Refunded", "nothing"}
        BY DEF Projects
      <3>3. NewRow(b.log.kind, row[t]) \in {"FUNDED", "SETTLED", "REFUNDED", row[t]}
        BY <3>2 DEF NewRow
      <3> QED
        BY <2>1, <3>1, <3>3
    <2> QED
      BY <1>2, <1>4, <2>1 DEF Claimed
  <1>13. BatchIsOnChain'
    BY <1>2, <1>3, <1>4 DEF BatchIsOnChain, SameChain
  <1>14. Ahead(b.height)'
    <2>1. ASSUME NEW c \in scan.blocks, c # b PROVE b.height < c.height
      <3>1. c.height \in Int /\ b.height \in Int /\ b.height <= c.height
            /\ c \in FetchedBlock /\ b \in FetchedBlock
        BY <1>1, <1>3, <2>1 DEF FetchedBlock, Heights
      <3>2. c.height # b.height
        <4>1. /\ chain[b.height].fork = b.fork /\ chain[c.height].fork = c.fork
              /\ chain[b.height].log = b.log /\ chain[c.height].log = c.log
          BY <1>4 DEF BatchIsOnChain
        <4>2. ASSUME c.height = b.height PROVE c = b
          <5>1. c.fork = b.fork /\ c.log = b.log
            BY <4>1, <4>2
          <5> QED
            BY <3>1, <4>2, <5>1 DEF FetchedBlock
        <4> QED
          BY <2>1, <4>2
      <3> QED
        BY <3>1, <3>2
    <2>2. ASSUME NEW h \in b.height + 1..scan.end, chain[h].log # NoLog
          PROVE  \E c \in scan'.blocks : c.height = h
      <3>1. h \in f + 1..scan.end /\ h # b.height
        BY <1>4, <1>6, <1>7, <2>2
      <3>2. PICK c \in scan.blocks : c.height = h
        BY <1>6, <2>2, <3>1 DEF Ahead
      <3> QED
        BY <1>3, <3>1, <3>2
    <2> QED
      BY <1>2, <1>3, <2>1, <2>2 DEF Ahead, SameChain
  <1>15. Front(b.height)'
    BY <1>2, <1>3, <1>4, <1>6, <1>7, <1>9, <1>14 DEF Front, SameChain
  <1>16. b.height \in 0..MaxHeight
    BY <1>4, <1>7
  <1>17. Books'
    BY <1>11, <1>12, <1>13, <1>15, <1>16 DEF Books
  <1> QED
    BY <1>7, <1>9, <1>10, <1>17

\* When the last log is through, the rest of the batch is empty blocks.
LEMMA CommitScanKeepsBooks ==
    ASSUME IndexerInv, Undisturbed, Books, CommitScan
    PROVE  Books' /\ Agrees(last)'
  <1>1. /\ SameChain /\ UNCHANGED <<sent, worker, row, credited, cache>>
        /\ scan.stage = "process" /\ scan.blocks = {} /\ last' = scan.end
        /\ scan' = [scan EXCEPT !.stage = "cache"]
    BY DEF CommitScan, SameChain, chainVars, workerVars
  <1>2. scan'.stage = "cache" /\ scan'.end = scan.end /\ scan'.blocks = {}
    BY <1>1 DEF IndexerInv, ScanTypes
  <1>3. /\ scan.end \in Nat /\ scan.end <= Len(chain) /\ Len(chain) \in Nat /\ MaxHeight \in Nat
        /\ Len(chain) <= MaxHeight
    <2>1. scan.end <= peak - Confirmations
      BY <1>1 DEF IndexerInv, Safety, ScanIsConfirmed
    <2> QED
      BY <2>1, Steady
  <1>4. PICK f \in 0..MaxHeight : Front(f)
    BY DEF Books
  <1>5. f <= scan.end /\ Ahead(f) /\ Agrees(f) /\ f \in Nat
    BY <1>1, <1>4 DEF Front
  <1>6. ASSUME NEW t \in Tasks PROVE EscrowIn(chain, t, scan.end) = EscrowIn(chain, t, f)
    <2>1. \A i \in f + 1..scan.end : chain[i].log.task # t
      <3>1. \A i \in f + 1..scan.end : chain[i].log = NoLog
        BY <1>1, <1>5 DEF Ahead
      <3>2. NoLog \in Log
        BY DEF Log
      <3> QED
        BY <3>1, <3>2, AboutATask
    <2>2. \A i \in f + 1..scan.end : 1 <= i => chain[i].log.task # t
      BY <2>1
    <2>3. f \in Int /\ scan.end \in Int /\ f <= scan.end /\ scan.end <= Len(chain)
      BY <1>3, <1>5
    <2> QED
      BY <1>3, <2>2, <2>3, QuietBlocks
  <1>7. Agrees(scan.end)
    BY <1>5, <1>6 DEF Agrees
  <1>8. Agrees(last)'
    BY <1>1, <1>7 DEF Agrees, SameChain
  <1>9. Front(scan.end)'
    BY <1>1, <1>2, <1>3, <1>7, NothingBooked DEF Front, SameChain
  <1>10. scan.end \in 0..MaxHeight
    BY <1>3
  <1> QED
    BY <1>1, <1>2, <1>8, <1>9, <1>10, NothingBooked DEF Books

LEMMA CacheHashesKeepsBooks ==
    ASSUME IndexerInv, InStep, Undisturbed, Books, CacheHashes
    PROVE  Books'
  <1>1. /\ SameChain /\ UNCHANGED <<sent, worker, row, credited, last>>
        /\ scan.stage = "cache" /\ scan.end <= Len(chain) /\ scan' = NoScan
        /\ cache' = [h \in Heights |->
             IF h >= KeptFrom(scan.end)
             THEN IF h \in scan.start..scan.end THEN chain[h].fork ELSE cache[h]
             ELSE NotCached]
    BY DEF CacheHashes, SameChain, chainVars, workerVars
  <1>2. /\ scan.start \in Nat /\ scan.end \in Nat /\ scan.start >= 1 /\ Len(chain) \in Nat
        /\ peak \in Nat /\ Confirmations \in Nat /\ scan.end <= peak - Confirmations
    BY <1>1, Steady DEF IndexerInv, Safety, ScanIsConfirmed
  <1>3. scan'.stage = "off" /\ scan'.blocks = {}
    BY <1>1 DEF NoScan
  <1>4. HashesTrue'
    <2> SUFFICES ASSUME NEW h \in Heights, cache'[h] # NotCached
                 PROVE  Confirmed(h, cache'[h])
      BY <1>1 DEF HashesTrue, Confirmed, SameChain
    <2>1. CASE h \in scan.start..scan.end
      <3>1. cache'[h] = chain[h].fork
        BY <1>1, <2>1
      <3>2. h \in 1..Len(chain) /\ h <= peak - Confirmations
        BY <1>1, <1>2, <2>1
      <3> QED
        BY <3>1, <3>2 DEF Confirmed
    <2>2. CASE h \notin scan.start..scan.end
      <3>1. cache'[h] = cache[h]
        BY <1>1, <2>2
      <3> QED
        BY <3>1 DEF Books, HashesTrue
    <2> QED
      BY <2>1, <2>2
  <1>5. PICK f \in 0..MaxHeight : Front(f)
    BY DEF Books
  <1>6. Front(f)'
    BY <1>1, <1>3, <1>5, NothingBooked DEF Front, SameChain
  <1> QED
    BY <1>1, <1>3, <1>4, <1>6, NothingBooked DEF Books

\* Calls that succeed find their blocks, as confirmed blocks stay.
LEMMA NothingFails ==
    ASSUME IndexerInv, InStep, Undisturbed
    PROVE  ~(BlockNotFound \/ ScanFails \/ Restart)
  <1>1. /\ faults = 0 /\ MaxFaults = 0 /\ Len(chain) \in Nat /\ scan.end \in Nat /\ last \in Nat
        /\ peak \in Nat /\ Confirmations \in Nat
        /\ \A h \in Int : h <= peak - Confirmations => h <= Len(chain)
    BY Steady DEF Undisturbed
  <1>2. ~ScanFails /\ ~Restart
    BY <1>1 DEF ScanFails, Restart
  <1>3. ASSUME BlockNotFound PROVE FALSE
    <2>1. CASE scan.stage = "check" /\ scan.start - 1 > Len(chain)
      <3>1. scan.start - 1 = last /\ (last = 0 \/ last <= peak - Confirmations)
        BY <1>1, <2>1 DEF InStep
      <3>2. last <= Len(chain)
        BY <1>1, <3>1
      <3> QED
        BY <1>1, <2>1, <3>1, <3>2
    <2>2. CASE scan.stage = "cache" /\ scan.end > Len(chain)
      <3>1. scan.end <= peak - Confirmations
        BY <2>2 DEF IndexerInv, Safety, ScanIsConfirmed
      <3> QED
        BY <1>1, <2>2, <3>1
    <2> QED
      BY <1>3, <2>1, <2>2 DEF BlockNotFound
  <1> QED
    BY <1>2, <1>3


LEMMA BooksInitially == Init => Books
  <1> SUFFICES ASSUME Init PROVE Books
    OBVIOUS
  <1>1. /\ Len(chain) = 0 /\ last = 0 /\ scan.stage = "off" /\ scan.blocks = {} /\ MaxHeight \in Nat
        /\ row = [t \in Tasks |-> "CREATED"] /\ credited = [t \in Tasks |-> 0]
        /\ cache = [h \in Heights |-> NotCached] /\ worker = [t \in Tasks |-> NoWorker]
    BY SettlementAssumption DEF Init, NoScan
  <1>2. ASSUME NEW t \in Tasks
        PROVE  LogsOf(chain, t, 0) = {} /\ EscrowIn(chain, t, 0) = "NONE"
    BY <1>1, NoneAtGenesis
  <1>3. Orderly
    BY <1>1, <1>2 DEF Orderly, HasLatest, EscrowStatus
  <1>4. Front(0)
    BY <1>1, <1>2 DEF Front, Agrees, Projection
  <1> QED
    BY <1>1, <1>3, <1>4 DEF Books, Claimed, HashesTrue, BatchIsOnChain, NoWorker

LEMMA BooksAreKept ==
    ASSUME Undisturbed, SettlementInv, SkipsNone, Books, [Next]_vars
    PROVE  Books'
  <1>1. IndexerInv /\ WorkerTypes /\ InStep
    BY TypesInParts DEF SettlementInv, Types, IndexerInv, SkipsNone
  <1>2. ASSUME NEW t \in Tasks, WorkerStep(t) PROVE Books'
    BY <1>1, <1>2, WorkerKeepsBooks
  <1>3. CASE UNCHANGED vars
    BY <1>3 DEF vars, chainVars, workerVars, indexerVars, Books, Orderly, OrderlyLog, Claimed,
       HashesTrue, Confirmed, BatchIsOnChain, Front, Agrees, Ahead
  <1> QED
    BY <1>1, <1>2, <1>3, ChainKeepsBooks, BeginScanKeepsBooks, CheckReorgKeepsBooks,
       FetchLogsKeepsBooks, ProcessLogKeepsBooks, CommitScanKeepsBooks, CacheHashesKeepsBooks,
       NothingFails DEF Next, IndexerStep

LEMMA BooksHold == ASSUME Undisturbed PROVE Spec => [](SettlementInv /\ SkipsNone /\ Books)
  <1>1. SettlementInv /\ SkipsNone /\ Books /\ [Next]_vars => Books'
    BY BooksAreKept
  <1> QED
    BY <1>1, BooksInitially, InvHolds, SkipsNoneInitially, SkipsNoneIsKept, PTL DEF Spec

\* When the indexer declares blocks processed, every escrow row and its credits agree with
\* the chain up to there, whatever the oracle wrote meanwhile: for every depth, batch and
\* number of forks, as long as its calls succeed, no confirmed block is lost and nobody
\* disputes (ProjectionAtCommit).
THEOREM RowsFollowChain == ASSUME Undisturbed PROVE Spec => ProjectionAtCommit
  <1>1. ASSUME SettlementInv, SkipsNone, Books, [Next]_vars
        PROVE  last' > last =>
                 \A t \in Tasks : LET status == EscrowIn(chain', t, last') IN
                    /\ row'[t] \in Projection(status, t \in sent')
                    /\ credited'[t] = (IF status = "SETTLED" THEN 1 ELSE 0)
    <2> SUFFICES ASSUME last' > last PROVE Agrees(last)'
      BY DEF Agrees
    <2>1. IndexerInv /\ CommitScan
      BY <1>1, OnlyCommitAdvances, TypesInParts DEF SettlementInv, Types, IndexerInv
    <2> QED
      BY <1>1, <2>1, CommitScanKeepsBooks
  <1> QED
    BY <1>1, BooksHold, PTL DEF Spec, ProjectionAtCommit

\* Undisturbed, the indexer credits no task twice; the run that refutes CreditedOnce has a
\* fault between two commits of one scan.
THEOREM CreditedOnceUndisturbed == ASSUME Undisturbed PROVE Spec => []CreditedOnce
  <1>1. ASSUME Books PROVE CreditedOnce
    <2>1. PICK f \in 0..MaxHeight : Front(f)
      BY <1>1 DEF Books
    <2>2. ASSUME NEW t \in Tasks PROVE credited[t] <= 1
      <3>1. credited[t] = (IF EscrowIn(chain, t, f) = "SETTLED" THEN 1 ELSE 0)
        BY <2>1 DEF Front, Agrees
      <3>2. credited[t] = 0 \/ credited[t] = 1
        BY <3>1
      <3> QED
        BY <3>2
    <2> QED
      BY <2>2 DEF CreditedOnce
  <1> QED
    BY <1>1, BooksHold, PTL

-----------------------------------------------------------------------------
(* The settlement implements ConfirmedCredit, but for fairness.            *)

\* A mined block makes at most one settlement final.
LEMMA MineFinalises ==
    ASSUME IndexerInv, Undisturbed, Books, Books', Mine
    PROVE  \/ FinalSettlements' = FinalSettlements
           \/ \E t \in Tasks : t \notin FinalSettlements
                               /\ FinalSettlements' = FinalSettlements \cup {t}
  <1> DEFINE k == peak - Confirmations
  <1>1. /\ Len(chain) \in Nat /\ Len(chain') = Len(chain) + 1 /\ peak \in Nat
        /\ Confirmations \in Nat /\ Len(chain) <= peak
        /\ peak' = Greater(peak, Len(chain) + 1)
        /\ SameEscrows /\ ChainTypes' /\ k <= Len(chain)
    <2>1. Len(chain) \in Nat /\ peak \in Nat /\ Confirmations \in Nat /\ k <= Len(chain)
      BY Steady
    <2> QED
      BY <2>1, MineIsTyped, EscrowsAreKept DEF Mine, IndexerInv, ChainTypes, Books
  <1>2. k \in Int /\ (peak' = peak \/ (peak' = peak + 1 /\ Len(chain') = peak + 1))
    <2>1. CASE Len(chain) + 1 > peak
      BY <1>1, <2>1 DEF Greater
    <2>2. CASE ~(Len(chain) + 1 > peak)
      BY <1>1, <2>2 DEF Greater
    <2> QED
      BY <2>1, <2>2
  <1>3. ASSUME NEW t \in Tasks
        PROVE  /\ EscrowIn(chain', t, k) = EscrowIn(chain, t, k)
               /\ t \in FinalSettlements <=> EscrowIn(chain, t, k) = "SETTLED"
               /\ t \in FinalSettlements' <=> EscrowIn(chain', t, peak' - Confirmations) = "SETTLED"
    BY <1>1, <1>2 DEF SameEscrows, FinalSettlements, EscrowAt
  <1>4. CASE peak' = peak
    BY <1>3, <1>4 DEF FinalSettlements
  <1>5. CASE peak' = peak + 1 /\ Len(chain') = peak + 1
    <2> DEFINE h == k + 1
    <2>1. peak' - Confirmations = h /\ h \in Int /\ h - 1 = k /\ h <= Len(chain')
          /\ Len(chain') \in Nat
      BY <1>1, <1>5
    <2> HIDE DEF h, k
    <2>2. CASE h <= 0
      <3>1. \A t \in Tasks : EscrowIn(chain', t, h) = "NONE"
        BY <2>1, <2>2, NoneAtGenesis
      <3>2. \A t \in Tasks : EscrowIn(chain, t, k) = "NONE"
        BY <1>1, <2>1, <2>2, NoneAtGenesis
      <3> QED
        BY <1>3, <2>1, <3>1, <3>2 DEF FinalSettlements
    <2>3. CASE h >= 1
      <3> DEFINE log == chain'[h].log
      <3>0. h \in 1..Len(chain')
        BY <2>1, <2>3
      <3>1. log \in Log
        <4>1. chain'[h] \in Block
          BY <1>1, <3>0 DEF ChainTypes
        <4> QED
          BY <4>1 DEF Block
      <3>9. ASSUME log # NoLog
            PROVE  \/ log.kind = "Locked" /\ EscrowIn(chain', log.task, h - 1) = "NONE"
                   \/ /\ log.kind \in {"Settled", "Refunded"}
                      /\ EscrowIn(chain', log.task, h - 1) = "LOCKED"
        BY <3>0, <3>9 DEF Books, Orderly, OrderlyLog
      <3>2. ASSUME NEW t \in Tasks
            PROVE  EscrowIn(chain', t, h) = IF log.task = t THEN StatusAfter[log.kind]
                                            ELSE EscrowIn(chain, t, k)
        BY <1>3, <2>1, <3>0, <3>1, OneMoreBlock
      <3>3. ASSUME log # NoLog
            PROVE  /\ log.task \in Tasks
                   /\ \/ log.kind = "Locked" /\ EscrowIn(chain, log.task, k) = "NONE"
                      \/ /\ log.kind \in {"Settled", "Refunded"}
                         /\ EscrowIn(chain, log.task, k) = "LOCKED"
        <4>1. log.task \in Tasks
          BY <3>1, <3>3, AboutATask
        <4>2. EscrowIn(chain', log.task, h - 1) = EscrowIn(chain, log.task, k)
          BY <1>3, <2>1, <4>1
        <4> QED
          BY <3>3, <3>9, <4>1, <4>2
      <3> HIDE DEF log
      <3>4. ASSUME NEW t \in Tasks, log.task # t
            PROVE  t \in FinalSettlements' <=> t \in FinalSettlements
        BY <1>3, <2>1, <3>2, <3>4
      <3>5. CASE log = NoLog
        <4>1. \A t \in Tasks : log.task # t
          BY <3>1, <3>5, AboutATask
        <4> QED
          BY <3>4, <4>1 DEF FinalSettlements
      <3>6. CASE log # NoLog
        <4>1. log.task \notin FinalSettlements
          BY <1>3, <3>3, <3>6
        <4>2. FinalSettlements \subseteq Tasks /\ FinalSettlements' \subseteq Tasks
          BY DEF FinalSettlements
        <4>3. CASE log.kind = "Settled"
          <5>1. log.task \in FinalSettlements'
            BY <1>3, <2>1, <3>2, <3>3, <3>6, <4>3 DEF StatusAfter
          <5>2. FinalSettlements' = FinalSettlements \cup {log.task}
            BY <3>3, <3>4, <3>6, <4>2, <5>1
          <5> QED
            BY <3>3, <3>6, <4>1, <5>2
        <4>4. CASE log.kind # "Settled"
          <5>1. log.task \notin FinalSettlements'
            BY <1>3, <2>1, <3>2, <3>3, <3>6, <4>4 DEF StatusAfter
          <5>2. FinalSettlements' = FinalSettlements
            BY <3>4, <4>1, <4>2, <5>1
          <5> QED
            BY <5>2
        <4> QED
          BY <4>3, <4>4
      <3> QED
        BY <3>5, <3>6
    <2> QED
      BY <2>1, <2>2, <2>3
  <1> QED
    BY <1>2, <1>4, <1>5

\* The same chain and peak have the same final settlements.
LEMMA FinalStays ==
    ASSUME UNCHANGED <<chain, peak>> PROVE UNCHANGED FinalSettlements
  BY DEF FinalSettlements, EscrowAt

\* A cut above the confirmed blocks takes back no final settlement.
LEMMA ReorgFinalises ==
    ASSUME IndexerInv, Undisturbed, Books, Reorg
    PROVE  UNCHANGED FinalSettlements
  <1> DEFINE k == peak - Confirmations
  <1>1. UNCHANGED peak /\ SameEscrows
    BY EscrowsAreKept DEF Reorg, IndexerInv, Books
  <1>2. k \in Int /\ k <= Len(chain) /\ k <= Len(chain')
    BY Steady, ConfirmedBlocksStay
  <1>3. \A t \in Tasks : EscrowIn(chain', t, k) = EscrowIn(chain, t, k)
    BY <1>1, <1>2 DEF SameEscrows
  <1> QED
    BY <1>1, <1>3 DEF FinalSettlements, EscrowAt

\* The log of a settlement credits a task whose settlement is final, for the first time.
LEMMA ProcessLogCredits ==
    ASSUME IndexerInv, WorkerTypes, Undisturbed, Books, ProcessLog
    PROVE  UNCHANGED credited \/ \E t \in Tasks : Promise!Credit(t)
  <1>1. UNCHANGED <<chain, peak>>
    BY DEF ProcessLog, chainVars
  <1>2. PICK h \in 1..Len(chain) :
           /\ h <= peak - Confirmations
           /\ \E u \in Tasks : \A t \in Tasks : t # u => credited'[t] = credited[t]
           /\ \A t \in Tasks : \/ credited'[t] = credited[t]
                               \/ /\ credited[t] = 0 /\ credited'[t] = 1
                                  /\ EscrowIn(chain, t, h) = "SETTLED"
    BY ProcessLogKeepsBooks
  <1>3. PICK u \in Tasks : \A t \in Tasks : t # u => credited'[t] = credited[t]
    BY <1>2
  <1>4. credited \in [Tasks -> Nat] /\ credited' \in [Tasks -> Nat]
    BY ProcessLogIsTyped DEF IndexerInv, IndexerTypes
  <1>5. CASE credited'[u] = credited[u]
    BY <1>3, <1>4, <1>5
  <1>6. CASE credited[u] = 0 /\ credited'[u] = 1 /\ EscrowIn(chain, u, h) = "SETTLED"
    <2>1. h \in 0..Len(chain) /\ peak - Confirmations \in h..Len(chain)
      BY <1>2, Steady
    <2>2. EscrowIn(chain, u, peak - Confirmations) = "SETTLED"
      BY <1>6, <2>1 DEF Books, Orderly
    <2>3. u \in FinalSettlements
      BY <2>2 DEF FinalSettlements, EscrowAt
    <2>4. credited' = [credited EXCEPT ![u] = 1]
      BY <1>3, <1>4, <1>6
    <2>5. Promise!Credit(u)
      BY <1>1, <1>6, <2>3, <2>4, FinalStays DEF Promise!Credit
    <2> QED
      BY <2>5
  <1> QED
    BY <1>2, <1>5, <1>6

\* Every step of chain, worker and indexer is one of the two-phase settlement's or none.
LEMMA StepsArePromised ==
    ASSUME Undisturbed, SettlementInv, SkipsNone, Books, [Next]_vars
    PROVE  [Promise!Next]_(Promise!vars)
  <1>1. IndexerInv /\ WorkerTypes /\ InStep /\ Books'
    BY BooksAreKept, TypesInParts DEF SettlementInv, Types, IndexerInv, SkipsNone
  <1>2. ASSUME UNCHANGED FinalSettlements, UNCHANGED credited PROVE UNCHANGED Promise!vars
    BY <1>2 DEF Promise!vars
  <1>3. CASE Mine
    <2>1. UNCHANGED credited
      BY <1>3 DEF Mine, indexerVars
    <2>2. \A t \in Tasks : (t \notin FinalSettlements
                               /\ FinalSettlements' = FinalSettlements \cup {t})
                            => Promise!Finalise(t)
      BY <2>1 DEF Promise!Finalise
    <2> QED
      BY <1>1, <1>2, <1>3, <2>1, <2>2, MineFinalises DEF Promise!Next
  <1>4. CASE Reorg
    <2>1. UNCHANGED credited
      BY <1>4 DEF Reorg, indexerVars
    <2> QED
      BY <1>1, <1>2, <1>4, <2>1, ReorgFinalises
  <1>5. CASE ProcessLog
    <2>1. UNCHANGED FinalSettlements
      BY <1>5, FinalStays DEF ProcessLog, chainVars
    <2> QED
      BY <1>1, <1>2, <1>5, <2>1, ProcessLogCredits DEF Promise!Next
  <1>6. CASE ~Mine /\ ~Reorg /\ ~ProcessLog
    <2>1. UNCHANGED <<chain, peak, credited>>
      BY <1>6 DEF Next, vars, chainVars, indexerVars, WorkerStep, Claim, SendSettlement,
         CommitPending, Complete, IndexerStep, BeginScan, CheckReorg, FetchLogs, CommitScan,
         CacheHashes, BlockNotFound, ScanFails, Restart
    <2> QED
      BY <1>2, <2>1, FinalStays
  <1> QED
    BY <1>3, <1>4, <1>5, <1>6

\* The settlement does nothing the two-phase settlement of docs/ESCROW.md does not allow:
\* the indexer credits a task only once its settlement is final, at most once, and what is
\* final stays so (the refinement that PaidOnceConfirmed checks, without its fairness).
THEOREM SettlementImplementsPromise ==
    ASSUME Undisturbed PROVE Spec => Promise!Init /\ [][Promise!Next]_(Promise!vars)
  <1>1. Init => Promise!Init
    <2> SUFFICES ASSUME Init PROVE FinalSettlements = {} /\ credited = [t \in Tasks |-> 0]
      BY DEF Promise!Init
    <2>1. Len(chain) = 0 /\ peak = 0 /\ credited = [t \in Tasks |-> 0]
      BY DEF Init
    <2>2. peak - Confirmations \in Int /\ peak - Confirmations <= 0
      <3>1. Confirmations \in Nat
        BY SettlementAssumption
      <3> QED
        BY <2>1, <3>1
    <2> DEFINE k == peak - Confirmations
    <2>3. \A t \in Tasks : EscrowIn(chain, t, k) = "NONE"
      <3>1. k \in Int /\ k <= 0 /\ Len(chain) \in Nat
        BY <2>1, <2>2
      <3> HIDE DEF k
      <3> QED
        BY <3>1, NoneAtGenesis
    <2> QED
      BY <2>1, <2>3 DEF FinalSettlements, EscrowAt
  <1>2. SettlementInv /\ SkipsNone /\ Books /\ [Next]_vars => [Promise!Next]_(Promise!vars)
    BY StepsArePromised
  <1> QED
    BY <1>1, <1>2, BooksHold, PTL DEF Spec
=============================================================================
