----------------------- MODULE AgentMarketplace_proofs -----------------------
(* Proofs, for every set of tasks, accounts, amounts and splits, that each    *)
(* deposit of AgentMarketplace is paid out exactly once and whole, along the  *)
(* documented life of an escrow.                                              *)
EXTENDS AgentMarketplace, Sums_proofs

(* Truncated division never rounds up, so two shares of at most the whole     *)
(* never exceed the amount.                                                   *)
LEMMA DivisionTruncates ==
    ASSUME NEW n \in Nat
    PROVE  /\ n \div TOTAL_BPS \in Nat
           /\ TOTAL_BPS * (n \div TOTAL_BPS) <= n
  BY DEF TOTAL_BPS

LEMMA TwoSharesFit ==
    ASSUME NEW a \in Nat, NEW p \in Nat, NEW q \in Nat, NEW r \in Nat,
           p + q + r = TOTAL_BPS
    PROVE  /\ (a * p) \div TOTAL_BPS \in Nat
           /\ (a * q) \div TOTAL_BPS \in Nat
           /\ (a * p) \div TOTAL_BPS + (a * q) \div TOTAL_BPS <= a
  <1> DEFINE d == a * p
             s == a * q
  <1>1. d \in Nat /\ s \in Nat
    OBVIOUS
  <1>2. d + s = a * (p + q)
    OBVIOUS
  <1>3. p + q <= TOTAL_BPS
    BY DEF TOTAL_BPS
  <1>4. a * (p + q) <= a * TOTAL_BPS
    BY <1>3 DEF TOTAL_BPS
  <1>5. d + s <= a * TOTAL_BPS
    BY <1>2, <1>4
  <1>6. /\ d \div TOTAL_BPS \in Nat /\ TOTAL_BPS * (d \div TOTAL_BPS) <= d
        /\ s \div TOTAL_BPS \in Nat /\ TOTAL_BPS * (s \div TOTAL_BPS) <= s
    BY <1>1, DivisionTruncates
  <1> HIDE DEF d, s
  <1>7. d \div TOTAL_BPS + s \div TOTAL_BPS <= a
    BY <1>1, <1>5, <1>6 DEF TOTAL_BPS
  <1> QED
    BY <1>6, <1>7 DEF d, s

(* The three shares of any deposit are naturals that sum to the deposit, for  *)
(* every split whose basis points sum to 100%: lines 173-175 cannot underflow. *)
LEMMA SharesAreWhole ==
    ASSUME NEW a \in Nat, TypeOK
    PROVE  /\ RevenueShares(a) \in Payout
           /\ Total(RevenueShares(a)) = a
           /\ RevenueShares(a).client = 0
  <1>1. /\ split.dev \in Nat /\ split.staker \in Nat /\ split.dao \in Nat
        /\ split.dev + split.staker + split.dao = TOTAL_BPS
    BY DEF TypeOK, SplitType
  <1>2. /\ DevPayout(a) \in Nat /\ StakerPayout(a) \in Nat
        /\ DevPayout(a) + StakerPayout(a) <= a
    BY <1>1, TwoSharesFit DEF DevPayout, StakerPayout
  <1> QED
    BY <1>2 DEF RevenueShares, Payout, Total, DaoPayout

LEMMA RefundIsWhole ==
    ASSUME NEW a \in Nat
    PROVE  /\ FullRefund(a) \in Payout
           /\ Total(FullRefund(a)) = a
           /\ FullRefund(a).client = a
  BY DEF FullRefund, Payout, Total

-----------------------------------------------------------------------------
(* Paying out p from an escrow keeps the balances and the history typed.      *)
LEMMA ReceivedIsNat ==
    ASSUME NEW e, NEW p \in Payout, NEW h
    PROVE  Received(e, p, h) \in Nat
  BY DEF Received, Payout

LEMMA PayOutTyped ==
    ASSUME TypeOK, NEW t \in Tasks, NEW p \in Payout, PayOut(t, p)
    PROVE  /\ usdc' \in [Holders -> Nat]
           /\ paid' \in [Tasks -> Payout]
           /\ paid'[t] = Plus(paid[t], p)
           /\ \A u \in Tasks \ {t} : paid'[u] = paid[u]
  <1>1. Total(p) \in Nat
    BY DEF Total, Payout
  <1>2. \A h \in Holders : usdc[h] \in Nat
    BY DEF TypeOK
  <1>3. \A h \in Holders : usdc[h] + Received(escrows[t], p, h) \in Nat
    BY <1>2, ReceivedIsNat
  <1>4. usdc[Contract] >= Total(p)
    BY DEF PayOut
  <1>5. usdc[Contract] - Total(p) \in Nat
    BY <1>1, <1>2, <1>4 DEF Holders
  <1>6. usdc' \in [Holders -> Nat]
    BY <1>3, <1>5 DEF PayOut
  <1>7. Plus(paid[t], p) \in Payout
    BY SMTT(30) DEF TypeOK, Plus, Payout
  <1> QED
    BY <1>6, <1>7 DEF PayOut, TypeOK

(* Events append to the log of one task only.                                 *)
LEMMA EmitTyped ==
    ASSUME TypeOK, NEW t \in Tasks, NEW event \in Events, Emit(t, event)
    PROVE  /\ logs' \in [Tasks -> Seq(Events)]
           /\ logs'[t] = Append(logs[t], event)
           /\ \A u \in Tasks \ {t} : logs'[u] = logs[u]
  <1>1. Append(logs[t], event) \in Seq(Events)
    BY DEF TypeOK
  <1> QED
    BY <1>1 DEF TypeOK, Emit

-----------------------------------------------------------------------------
(* What has to hold of one escrow, and of the whole contract.                 *)
TaskInv(t) == PaidOnce(t) /\ Caused(t) /\ LogMatches(t)
Inv == TypeOK /\ \A t \in Tasks : TaskInv(t)

(* A step that leaves an escrow, its payments and its log alone keeps its     *)
(* invariant: time only moves forward.                                        *)
LEMMA Frame ==
    ASSUME NEW t \in Tasks, TypeOK, TaskInv(t), now' \in Nat, now' >= now,
           escrows'[t] = escrows[t], paid'[t] = paid[t], logs'[t] = logs[t]
    PROVE  TaskInv(t)'
  <1>1. escrows[t].deadline \in Nat /\ now \in Nat
    BY DEF TypeOK, TaskEscrow
  <1>2. now >= escrows[t].deadline => now' >= escrows'[t].deadline
    BY <1>1
  <1> QED
    BY <1>2 DEF TaskInv, PaidOnce, Caused, LogMatches, Disputed

(* Appending one event to a log.                                              *)
LEMMA LastEvent ==
    ASSUME TypeOK, NEW t \in Tasks, NEW event \in Events, Emit(t, event)
    PROVE  /\ LogMatches(t)' <=> escrows'[t].status = StatusAfter(event)
           /\ Disputed(t)' <=> Disputed(t) \/ event = "DisputeRaised"
  <1>1. logs[t] \in Seq(Events) /\ logs'[t] = Append(logs[t], event)
    BY EmitTyped DEF TypeOK
  <1>2. /\ Append(logs[t], event) # <<>>
        /\ Len(Append(logs[t], event)) = Len(logs[t]) + 1
        /\ Append(logs[t], event)[Len(logs[t]) + 1] = event
        /\ DOMAIN Append(logs[t], event) = 1 .. Len(logs[t]) + 1
        /\ DOMAIN logs[t] = 1 .. Len(logs[t])
        /\ \A i \in 1 .. Len(logs[t]) : Append(logs[t], event)[i] = logs[t][i]
    BY <1>1
  <1>3. LogMatches(t)' <=> escrows'[t].status = StatusAfter(event)
    BY <1>1, <1>2 DEF LogMatches, StatusAfter
  <1>4. Disputed(t)' <=> Disputed(t) \/ event = "DisputeRaised"
    BY <1>1, <1>2 DEF Disputed
  <1> QED
    BY <1>3, <1>4

-----------------------------------------------------------------------------
LEMMA InitInv == Init => Inv
  <1> SUFFICES ASSUME Init PROVE Inv
    OBVIOUS
  <1>1. NoEscrow \in TaskEscrow /\ NoPayout \in Payout
    BY DEF NoEscrow, TaskEscrow, NoPayout, Payout, EscrowStatus
  <1>2. TypeOK
    <2>1. escrows \in [Tasks -> TaskEscrow] /\ paid \in [Tasks -> Payout]
          /\ logs \in [Tasks -> Seq(Events)]
      BY <1>1 DEF Init
    <2>2. usdc \in [Holders -> Nat]
      BY MarketplaceAssumption DEF Init
    <2>3. split \in SplitType /\ split.dev + split.staker + split.dao = TOTAL_BPS
      <3>1. split = [dev |-> 8500, staker |-> 1000, dao |-> 500]
        BY DEF Init
      <3>2. split.dev = 8500 /\ split.staker = 1000 /\ split.dao = 500
        BY <3>1
      <3> QED
        BY <3>1, <3>2 DEF SplitType, TOTAL_BPS
    <2>4. settlementOracle \in Accounts /\ paused \in BOOLEAN /\ now \in Nat
      <3>1. settlementOracle \in Accounts /\ paused = FALSE /\ now = 0
        BY DEF Init
      <3> QED
        BY <3>1
    <2> QED
      BY <2>1, <2>2, <2>3, <2>4 DEF TypeOK
  <1>3. ASSUME NEW t \in Tasks PROVE TaskInv(t)
    BY DEF Init, TaskInv, PaidOnce, Caused, LogMatches, Disputed, NoEscrow, Closed, Open
  <1> QED
    BY <1>2, <1>3 DEF Inv

(* lockTaskEscrow *)
LEMMA LockInv ==
    ASSUME Inv, NEW sender \in Accounts, NEW t \in Tasks,
           NEW developer \in Accounts \cup {NoAccount}, NEW amount \in Amounts,
           NEW duration \in Durations,
           LockTaskEscrow(sender, t, developer, amount, duration)
    PROVE  Inv'
  <1> USE DEF LockTaskEscrow
  <1>1. amount \in Nat /\ duration \in Nat /\ DefaultTimeout \in Nat
    BY MarketplaceAssumption
  <1>2. "EscrowLocked" \in Events
    BY DEF Events
  <1>3. escrows'[t] \in TaskEscrow /\ escrows'[t].status = "LOCKED"
        /\ escrows'[t].proofHash = NoProof
    BY <1>1 DEF TypeOK, Inv, TaskEscrow, EscrowStatus
  <1>4. escrows' \in [Tasks -> TaskEscrow] /\ \A u \in Tasks \ {t} : escrows'[u] = escrows[u]
    BY <1>3 DEF TypeOK, Inv
  <1>5. usdc' \in [Holders -> Nat]
    BY <1>1, MarketplaceAssumption, SMTT(30) DEF TypeOK, Inv, Holders
  <1>6. TypeOK'
    BY <1>2, <1>4, <1>5, EmitTyped DEF TypeOK, Inv
  <1>7. TaskInv(t)'
    <2>1. paid[t] = NoPayout /\ ~Disputed(t)
      BY DEF Inv, TaskInv, PaidOnce, Caused, Closed
    <2>2. LogMatches(t)' /\ ~Disputed(t)'
      BY <1>2, <1>3, <2>1, LastEvent DEF Inv, StatusAfter
    <2> QED
      BY <1>3, <2>1, <2>2 DEF TaskInv, PaidOnce, Caused, Closed, Open
  <1>8. ASSUME NEW u \in Tasks \ {t} PROVE TaskInv(u)'
    <2>1. logs'[u] = logs[u]
      BY <1>2, EmitTyped DEF Inv
    <2>2. now \in Nat /\ now' = now /\ now' >= now
      BY DEF Inv, TypeOK
    <2> QED
      BY <1>4, <2>1, <2>2, Frame DEF Inv
  <1> QED
    BY <1>6, <1>7, <1>8 DEF Inv

(* Closing an open escrow: the common part of settleTaskEscrow,               *)
(* refundExpiredEscrow and resolveDispute.                                    *)
LEMMA CloseInv ==
    ASSUME Inv, NEW t \in Tasks, NEW p \in Payout, NEW event \in Events,
           NEW s \in Closed,
           escrows[t].status \in Open,
           Total(p) = escrows[t].amountUSDC,
           s = "REFUNDED" => p.client = escrows[t].amountUSDC,
           s = "SETTLED" => p.client = 0,
           escrows' \in [Tasks -> TaskEscrow],
           \A u \in Tasks \ {t} : escrows'[u] = escrows[u],
           escrows'[t].status = s,
           escrows'[t].amountUSDC = escrows[t].amountUSDC,
           PayOut(t, p), Emit(t, event),
           event # "DisputeRaised", StatusAfter(event) = s,
           s = "REFUNDED" /\ ~Disputed(t) => now >= escrows'[t].deadline,
           s = "SETTLED" => (escrows'[t].proofHash = NoProof <=> Disputed(t)),
           UNCHANGED <<split, settlementOracle, paused, now>>
    PROVE  Inv'
  <1>1. /\ usdc' \in [Holders -> Nat] /\ paid' \in [Tasks -> Payout]
        /\ paid'[t] = Plus(paid[t], p) /\ \A u \in Tasks \ {t} : paid'[u] = paid[u]
    BY PayOutTyped DEF Inv
  <1>2. /\ logs' \in [Tasks -> Seq(Events)]
        /\ \A u \in Tasks \ {t} : logs'[u] = logs[u]
    BY EmitTyped DEF Inv
  <1>3. TypeOK'
    BY <1>1, <1>2 DEF Inv, TypeOK
  <1>4. PaidOnce(t)'
    <2>1. paid[t] = NoPayout
      BY DEF Inv, TaskInv, PaidOnce, Open, Closed
    <2>2. Total(Plus(NoPayout, p)) = Total(p) /\ Plus(NoPayout, p).client = p.client
      BY DEF Total, Plus, NoPayout, Payout
    <2> QED
      BY <1>1, <2>1, <2>2 DEF PaidOnce, Closed
  <1>5. LogMatches(t)' /\ (Disputed(t)' <=> Disputed(t))
    BY LastEvent DEF Inv
  <1>6. Caused(t)'
    BY <1>5 DEF Caused, Closed, Open
  <1>7. TaskInv(t)'
    BY <1>4, <1>5, <1>6 DEF TaskInv
  <1>8. ASSUME NEW u \in Tasks \ {t} PROVE TaskInv(u)'
    <2>1. now \in Nat /\ now' = now /\ now' >= now
      BY DEF Inv, TypeOK
    <2> QED
      BY <1>1, <1>2, <2>1, Frame DEF Inv
  <1> QED
    BY <1>3, <1>7, <1>8 DEF Inv

LEMMA SettleInv ==
    ASSUME Inv, NEW sender \in Accounts, NEW t \in Tasks,
           NEW proof \in Proofs \cup {NoProof}, SettleTaskEscrow(sender, t, proof)
    PROVE  Inv'
  <1> USE DEF SettleTaskEscrow
  <1> DEFINE a == escrows[t].amountUSDC
             p == RevenueShares(a)
  <1>1. a \in Nat
    BY DEF Inv, TypeOK, TaskEscrow
  <1>2. p \in Payout /\ Total(p) = a /\ p.client = 0
    BY <1>1, SharesAreWhole DEF Inv
  <1>3. "EscrowSettled" \in Events /\ StatusAfter("EscrowSettled") = "SETTLED"
        /\ "SETTLED" \in Closed /\ escrows[t].status \in Open
    BY DEF Events, StatusAfter, Closed, Open
  <1>4. /\ escrows' \in [Tasks -> TaskEscrow]
        /\ \A u \in Tasks \ {t} : escrows'[u] = escrows[u]
        /\ escrows'[t].status = "SETTLED"
        /\ escrows'[t].amountUSDC = escrows[t].amountUSDC
        /\ escrows'[t].proofHash # NoProof
    BY ZenonT(40) DEF Inv, TypeOK, TaskEscrow, EscrowStatus
  <1>5. ~Disputed(t)
    BY DEF Inv, TaskInv, Caused
  <1> QED
    BY <1>2, <1>3, <1>4, <1>5, CloseInv

LEMMA RefundInv ==
    ASSUME Inv, NEW sender \in Accounts, NEW t \in Tasks, RefundExpiredEscrow(sender, t)
    PROVE  Inv'
  <1> USE DEF RefundExpiredEscrow, MayRefund
  <1> DEFINE a == escrows[t].amountUSDC
             p == FullRefund(a)
  <1>1. a \in Nat
    BY DEF Inv, TypeOK, TaskEscrow
  <1>2. p \in Payout /\ Total(p) = a /\ p.client = a
    BY <1>1, RefundIsWhole
  <1>3. "EscrowRefunded" \in Events /\ StatusAfter("EscrowRefunded") = "REFUNDED"
        /\ "REFUNDED" \in Closed /\ escrows[t].status \in Open
    BY DEF Events, StatusAfter, Closed, Open
  <1>4. /\ escrows' \in [Tasks -> TaskEscrow]
        /\ \A u \in Tasks \ {t} : escrows'[u] = escrows[u]
        /\ escrows'[t].status = "REFUNDED"
        /\ escrows'[t].amountUSDC = escrows[t].amountUSDC
        /\ escrows'[t].deadline = escrows[t].deadline
    BY DEF Inv, TypeOK, TaskEscrow, EscrowStatus
  <1> QED
    BY <1>2, <1>3, <1>4, CloseInv

LEMMA ResolveInv ==
    ASSUME Inv, NEW sender \in Accounts, NEW t \in Tasks, NEW refundClient \in BOOLEAN,
           ResolveDispute(sender, t, refundClient)
    PROVE  Inv'
  <1> USE DEF ResolveDispute
  <1> DEFINE a == escrows[t].amountUSDC
             p == IF refundClient THEN FullRefund(a) ELSE RevenueShares(a)
             s == IF refundClient THEN "REFUNDED" ELSE "SETTLED"
             event == ResolutionEvent(refundClient)
  <1>1. a \in Nat
    BY DEF Inv, TypeOK, TaskEscrow
  <1>2. /\ p \in Payout /\ Total(p) = a
        /\ s = "REFUNDED" => p.client = a
        /\ s = "SETTLED" => p.client = 0
    BY <1>1, SharesAreWhole, RefundIsWhole DEF Inv
  <1>3. /\ event \in Events /\ StatusAfter(event) = s /\ event # "DisputeRaised"
        /\ s \in Closed /\ escrows[t].status \in Open
    BY DEF Events, StatusAfter, Closed, Open, ResolutionEvent
  <1>4. /\ escrows' \in [Tasks -> TaskEscrow]
        /\ \A u \in Tasks \ {t} : escrows'[u] = escrows[u]
        /\ escrows'[t].status = s
        /\ escrows'[t].amountUSDC = escrows[t].amountUSDC
        /\ escrows'[t].proofHash = escrows[t].proofHash
    BY ZenonT(40) DEF Inv, TypeOK, TaskEscrow, EscrowStatus
  <1>5. Disputed(t) /\ escrows[t].proofHash = NoProof
    BY DEF Inv, TaskInv, Caused, Open
  <1>6. PayOut(t, p) /\ Emit(t, event)
    OBVIOUS
  <1> HIDE DEF p, s, event
  <1> QED
    BY <1>2, <1>3, <1>4, <1>5, <1>6, CloseInv

LEMMA DisputeInv ==
    ASSUME Inv, NEW sender \in Accounts, NEW t \in Tasks, RaiseDispute(sender, t)
    PROVE  Inv'
  <1> USE DEF RaiseDispute, MayDispute
  <1>1. "DisputeRaised" \in Events /\ StatusAfter("DisputeRaised") = "DISPUTED"
    BY DEF Events, StatusAfter
  <1>2. /\ escrows' \in [Tasks -> TaskEscrow]
        /\ \A u \in Tasks \ {t} : escrows'[u] = escrows[u]
        /\ escrows'[t].status = "DISPUTED"
        /\ escrows'[t].proofHash = escrows[t].proofHash
    BY DEF Inv, TypeOK, TaskEscrow, EscrowStatus
  <1>3. /\ logs' \in [Tasks -> Seq(Events)]
        /\ \A u \in Tasks \ {t} : logs'[u] = logs[u]
    BY <1>1, EmitTyped DEF Inv
  <1>4. TypeOK'
    BY <1>2, <1>3 DEF Inv, TypeOK
  <1>5. TaskInv(t)'
    <2>1. paid[t] = NoPayout /\ escrows[t].proofHash = NoProof
      BY DEF Inv, TaskInv, PaidOnce, Caused, Closed, Open
    <2>2. LogMatches(t)' /\ Disputed(t)'
      BY <1>1, <1>2, LastEvent DEF Inv
    <2> QED
      BY <1>2, <2>1, <2>2 DEF TaskInv, PaidOnce, Caused, Closed, Open
  <1>6. ASSUME NEW u \in Tasks \ {t} PROVE TaskInv(u)'
    <2>1. now \in Nat /\ now' = now /\ now' >= now
      BY DEF Inv, TypeOK
    <2> QED
      BY <1>2, <1>3, <2>1, Frame DEF Inv
  <1> QED
    BY <1>4, <1>5, <1>6 DEF Inv

(* The administrative calls and the clock touch no escrow.                    *)
LEMMA AdminInv ==
    ASSUME Inv, Tick \/ \E sender \in Accounts : AdminCall(sender)
    PROVE  Inv'
  <1>1. /\ UNCHANGED <<escrows, usdc, paid, logs>>
        /\ now \in Nat /\ now' \in Nat /\ now' >= now
    BY DEF Inv, TypeOK, Tick, AdminCall, SetRevenueSplit, SetSettlementOracle, Pause, Unpause
  <1> DEFINE Settings ==
               /\ split' \in SplitType
               /\ split'.dev + split'.staker + split'.dao = TOTAL_BPS
               /\ settlementOracle' \in Accounts /\ paused' \in BOOLEAN
  <1>2. Settings
    <2>1. CASE Tick
      BY <2>1 DEF Tick, Inv, TypeOK
    <2>2. ASSUME NEW sender \in Accounts, NEW s \in Splits, SetRevenueSplit(sender, s)
          PROVE  Settings
      BY <2>2, MarketplaceAssumption DEF SetRevenueSplit, ValidSplit, Inv, TypeOK
    <2>3. ASSUME NEW sender \in Accounts, NEW o \in Accounts \cup {NoAccount},
                 SetSettlementOracle(sender, o)
          PROVE  Settings
      BY <2>3 DEF SetSettlementOracle, Inv, TypeOK
    <2>4. ASSUME NEW sender \in Accounts, Pause(sender) \/ Unpause(sender)
          PROVE  Settings
      BY <2>4 DEF Pause, Unpause, Inv, TypeOK
    <2> HIDE DEF Settings
    <2> QED
      BY <2>1, <2>2, <2>3, <2>4 DEF AdminCall
  <1>3. TypeOK'
    BY <1>1, <1>2 DEF Inv, TypeOK
  <1>4. ASSUME NEW u \in Tasks PROVE TaskInv(u)'
    BY <1>1, Frame DEF Inv
  <1> QED
    BY <1>3, <1>4 DEF Inv

LEMMA NextInv == Inv /\ [Next]_vars => Inv'
  <1> SUFFICES ASSUME Inv, [Next]_vars PROVE Inv'
    OBVIOUS
  <1>1. ASSUME NEW sender \in Accounts, NEW t \in Tasks, TaskCall(sender, t)
        PROVE  Inv'
    BY <1>1, LockInv, SettleInv, RefundInv, DisputeInv, ResolveInv DEF TaskCall
  <1>2. CASE Tick \/ \E sender \in Accounts : AdminCall(sender)
    BY <1>2, AdminInv
  <1>3. CASE UNCHANGED vars
    <2>1. TypeOK'
      BY <1>3 DEF vars, Inv, TypeOK
    <2>2. ASSUME NEW u \in Tasks PROVE TaskInv(u)'
      BY <1>3, Frame DEF vars, Inv, TypeOK
    <2> QED
      BY <2>1, <2>2 DEF Inv
  <1> QED
    BY <1>1, <1>2, <1>3 DEF Next

(* The invariant every other result follows from.                             *)
THEOREM Invariance == Spec => []Inv
  BY InitInv, NextInv, PTL DEF Spec

(* Types hold whatever the constants: no balance or share ever underflows.    *)
THEOREM TypeCorrect == Spec => []TypeOK
  <1>1. Inv => TypeOK
    BY DEF Inv
  <1> QED
    BY <1>1, Invariance, PTL

(* Each deposit is paid out once and whole (settleTaskEscrow,                 *)
(* refundExpiredEscrow, resolveDispute), for any number of escrows, any       *)
(* amounts and any splits set while they are open.                            *)
THEOREM DepositsPaidExactlyOnce == Spec => []PaidExactlyOnce
  <1>1. Inv => PaidExactlyOnce
    BY DEF Inv, TaskInv, PaidExactlyOnce
  <1> QED
    BY <1>1, Invariance, PTL

(* No refund before the deadline and no settlement without proof, except      *)
(* through a dispute.                                                         *)
THEOREM EveryClosureHasACause == Spec => []ClosedWithCause
  <1>1. Inv => ClosedWithCause
    BY DEF Inv, TaskInv, ClosedWithCause
  <1> QED
    BY <1>1, Invariance, PTL

(* The last event of a task always gives its status.                          *)
THEOREM EventsDetermineStatus == Spec => []LogsDetermineStatus
  <1>1. Inv => LogsDetermineStatus
    BY DEF Inv, TaskInv, LogsDetermineStatus
  <1> QED
    BY <1>1, Invariance, PTL

(* Escrows only ever take the documented steps, and closed ones take none.    *)
LEMMA CallLifecycle ==
    ASSUME Inv, NEW sender \in Accounts, NEW u \in Tasks, TaskCall(sender, u),
           NEW t \in Tasks
    PROVE  LifecycleStep(t)
  <1> USE DEF LifecycleStep, Successors
  <1>1. escrows \in [Tasks -> TaskEscrow]
    BY DEF Inv, TypeOK
  <1>2. ASSUME NEW d \in Accounts \cup {NoAccount}, NEW a \in Amounts, NEW n \in Durations,
               LockTaskEscrow(sender, u, d, a, n)
        PROVE  LifecycleStep(t)
    BY <1>1, <1>2 DEF LockTaskEscrow
  <1>3. ASSUME NEW proof, SettleTaskEscrow(sender, u, proof) PROVE LifecycleStep(t)
    BY <1>1, <1>3 DEF SettleTaskEscrow, TaskEscrow
  <1>4. CASE RefundExpiredEscrow(sender, u)
    BY <1>1, <1>4 DEF RefundExpiredEscrow, MayRefund, TaskEscrow
  <1>5. CASE RaiseDispute(sender, u)
    BY <1>1, <1>5 DEF RaiseDispute, MayDispute, TaskEscrow
  <1>6. ASSUME NEW r \in BOOLEAN, ResolveDispute(sender, u, r) PROVE LifecycleStep(t)
    BY <1>1, <1>6 DEF ResolveDispute, TaskEscrow
  <1> QED
    BY <1>2, <1>3, <1>4, <1>5, <1>6 DEF TaskCall

THEOREM LifecycleHolds == Spec => Lifecycle
  <1>1. Inv /\ [Next]_vars => [\A t \in Tasks : LifecycleStep(t)]_vars
    <2> SUFFICES ASSUME Inv, Next, NEW t \in Tasks PROVE LifecycleStep(t)
      OBVIOUS
    <2>1. CASE Tick \/ \E sender \in Accounts : AdminCall(sender)
      <3>1. escrows' = escrows
        BY <2>1 DEF Tick, AdminCall, SetRevenueSplit, SetSettlementOracle, Pause, Unpause
      <3> QED
        BY <3>1 DEF LifecycleStep
    <2> QED
      BY <2>1, CallLifecycle DEF Next
  <1> QED
    BY <1>1, Invariance, PTL DEF Spec, Lifecycle

-----------------------------------------------------------------------------
(* The contract's balance against the deposits it holds.                      *)
Deposits == [t \in Tasks |-> Held(t)]

LEMMA DepositsTyped == ASSUME TypeOK PROVE Deposits \in [Tasks -> Nat]
  BY DEF Deposits, Held, TypeOK, TaskEscrow

(* A call on one escrow moves the sum by what it moves of that escrow.        *)
LEMMA OneDepositMoves ==
    ASSUME TypeOK, TypeOK', NEW t \in Tasks, \A u \in Tasks \ {t} : escrows'[u] = escrows[u]
    PROVE  SumOf(Deposits)' = SumOf(Deposits) - Held(t) + Held(t)'
  <1>1. Deposits \in [Tasks -> Int] /\ Deposits' \in [Tasks -> Int]
    BY DEF Deposits, Held, TypeOK, TaskEscrow
  <1>2. \A u \in Tasks \ {t} : Deposits'[u] = Deposits[u]
    BY DEF Deposits, Held
  <1>3. Deposits[t] = Held(t) /\ Deposits'[t] = Held(t)'
    BY DEF Deposits
  <1>4. IsFiniteSet(Tasks)
    BY MarketplaceAssumption
  <1> HIDE DEF Deposits
  <1> QED
    BY <1>1, <1>2, <1>3, <1>4, SumFollows

LEMMA InitSolvent == Init => Solvent
  <1> SUFFICES ASSUME Init PROVE Solvent
    OBVIOUS
  <1>1. [t \in Tasks |-> Held(t)] = [t \in Tasks |-> 0]
    BY DEF Init, Held, NoEscrow, Open
  <1>2. usdc[Contract] = 0
    BY MarketplaceAssumption DEF Init, Holders
  <1> QED
    BY <1>1, <1>2, SumOfZeros, MarketplaceAssumption DEF Solvent

(* Closing an escrow takes its deposit out of the contract, and no more.      *)
LEMMA CloseSolvent ==
    ASSUME Inv, Inv', Solvent, NEW t \in Tasks, NEW p \in Payout, PayOut(t, p),
           Total(p) = escrows[t].amountUSDC, escrows[t].status \in Open,
           escrows'[t].status \in Closed,
           \A u \in Tasks \ {t} : escrows'[u] = escrows[u]
    PROVE  Solvent'
  <1>1. Held(t) = Total(p) /\ Held(t)' = 0
    BY DEF Held, Open, Closed
  <1>2. usdc'[Contract] = usdc[Contract] - Total(p)
    BY DEF PayOut, Holders
  <1>3. SumOf(Deposits)' = SumOf(Deposits) - Total(p)
    <2>1. SumOf(Deposits)' = SumOf(Deposits) - Held(t) + Held(t)'
      BY OneDepositMoves DEF Inv
    <2>2. SumOf(Deposits) \in Int /\ Total(p) \in Int
      BY DepositsTyped, SumType, MarketplaceAssumption DEF Inv, Total, Payout
    <2> QED
      BY <1>1, <2>1, <2>2
  <1> QED
    BY <1>2, <1>3 DEF Solvent, Deposits

LEMMA CallSolvent ==
    ASSUME Inv, Inv', Solvent, NEW sender \in Accounts, NEW t \in Tasks, TaskCall(sender, t)
    PROVE  Solvent'
  <1> DEFINE a == escrows[t].amountUSDC
  <1>1. a \in Nat /\ escrows \in [Tasks -> TaskEscrow]
    BY DEF Inv, TypeOK, TaskEscrow
  <1>2. /\ FullRefund(a) \in Payout /\ Total(FullRefund(a)) = a
        /\ RevenueShares(a) \in Payout /\ Total(RevenueShares(a)) = a
    BY <1>1, SharesAreWhole, RefundIsWhole DEF Inv
  <1>3. ASSUME NEW developer \in Accounts \cup {NoAccount}, NEW amount \in Amounts,
               NEW duration \in Durations, LockTaskEscrow(sender, t, developer, amount, duration)
        PROVE  Solvent'
    <2> USE <1>3 DEF LockTaskEscrow
    <2>1. amount \in Nat
      BY MarketplaceAssumption
    <2>2. \A u \in Tasks \ {t} : escrows'[u] = escrows[u]
      BY <1>1
    <2>3. Held(t) = 0 /\ Held(t)' = amount
      BY <1>1 DEF Held, Open
    <2>4. usdc'[Contract] = usdc[Contract] + amount
      BY MarketplaceAssumption DEF Inv, TypeOK, Holders
    <2>5. SumOf(Deposits)' = SumOf(Deposits) - Held(t) + Held(t)'
      BY <2>2, OneDepositMoves DEF Inv
    <2>6. SumOf(Deposits) \in Int
      BY DepositsTyped, SumType, MarketplaceAssumption DEF Inv
    <2>7. SumOf(Deposits)' = SumOf(Deposits) + amount
      BY <2>1, <2>3, <2>5, <2>6
    <2> QED
      BY <2>4, <2>7 DEF Solvent, Deposits
  <1>4. ASSUME NEW proof, SettleTaskEscrow(sender, t, proof) PROVE Solvent'
    <2>1. /\ PayOut(t, RevenueShares(a)) /\ escrows[t].status \in Open
          /\ escrows'[t].status \in Closed
          /\ \A u \in Tasks \ {t} : escrows'[u] = escrows[u]
      BY <1>1, <1>4 DEF SettleTaskEscrow, Open, Closed, TaskEscrow
    <2> QED
      BY <1>2, <2>1, CloseSolvent
  <1>5. ASSUME RefundExpiredEscrow(sender, t) PROVE Solvent'
    <2>1. /\ PayOut(t, FullRefund(a)) /\ escrows[t].status \in Open
          /\ escrows'[t].status \in Closed
          /\ \A u \in Tasks \ {t} : escrows'[u] = escrows[u]
      BY <1>1, <1>5 DEF RefundExpiredEscrow, MayRefund, Open, Closed, TaskEscrow
    <2> QED
      BY <1>2, <2>1, CloseSolvent
  <1>6. ASSUME RaiseDispute(sender, t) PROVE Solvent'
    <2>1. /\ Held(t)' = Held(t) /\ usdc' = usdc
          /\ \A u \in Tasks \ {t} : escrows'[u] = escrows[u]
      BY <1>1, <1>6 DEF RaiseDispute, MayDispute, Held, Open, TaskEscrow
    <2>2. [u \in Tasks |-> Held(u)]' = [u \in Tasks |-> Held(u)]
      BY <2>1 DEF Held
    <2> QED
      BY <2>1, <2>2 DEF Solvent
  <1>7. ASSUME NEW r \in BOOLEAN, ResolveDispute(sender, t, r) PROVE Solvent'
    <2> DEFINE p == IF r THEN FullRefund(a) ELSE RevenueShares(a)
    <2>1. /\ PayOut(t, p) /\ escrows[t].status \in Open
          /\ escrows'[t].status \in Closed
          /\ \A u \in Tasks \ {t} : escrows'[u] = escrows[u]
      BY <1>1, <1>7 DEF ResolveDispute, Open, Closed, TaskEscrow
    <2>2. p \in Payout /\ Total(p) = a
      BY <1>2
    <2> HIDE DEF p
    <2> QED
      BY <2>1, <2>2, CloseSolvent
  <1> QED
    BY <1>3, <1>4, <1>5, <1>6, <1>7 DEF TaskCall

LEMMA NextSolvent == Inv /\ Inv' /\ Solvent /\ [Next]_vars => Solvent'
  <1> SUFFICES ASSUME Inv, Inv', Solvent, [Next]_vars PROVE Solvent'
    OBVIOUS
  <1>1. ASSUME UNCHANGED vars \/ Tick \/ \E sender \in Accounts : AdminCall(sender)
        PROVE  Solvent'
    <2>1. UNCHANGED <<escrows, usdc>>
      BY <1>1 DEF vars, Tick, AdminCall, SetRevenueSplit, SetSettlementOracle, Pause, Unpause
    <2>2. [t \in Tasks |-> Held(t)]' = [t \in Tasks |-> Held(t)]
      BY <2>1 DEF Held
    <2> QED
      BY <2>1, <2>2 DEF Solvent
  <1> QED
    BY <1>1, CallSolvent DEF Next

(* The contract holds the deposits of its open escrows, no less and no more,  *)
(* for any number of them: no call pays one client out of another's deposit.  *)
THEOREM ContractIsSolvent == Spec => []Solvent
  BY InitSolvent, Invariance, NextSolvent, PTL DEF Spec

(* No closing call ever reverts for want of funds (the require inside         *)
(* safeTransfer): each open escrow finds its deposit in the contract.         *)
EveryDepositIsThere ==
    \A t \in Tasks : escrows[t].status \in Open => escrows[t].amountUSDC <= usdc[Contract]

THEOREM PayoutsAreCovered == Spec => []EveryDepositIsThere
  <1>1. Inv /\ Solvent => EveryDepositIsThere
    <2> SUFFICES ASSUME Inv, Solvent, NEW t \in Tasks, escrows[t].status \in Open
                 PROVE  escrows[t].amountUSDC <= usdc[Contract]
      BY DEF EveryDepositIsThere
    <2>1. Deposits \in [Tasks -> Nat]
      BY DepositsTyped DEF Inv
    <2>2. Deposits[t] = escrows[t].amountUSDC /\ usdc[Contract] = SumOf(Deposits)
      BY DEF Deposits, Held, Solvent
    <2> HIDE DEF Deposits
    <2> QED
      BY <2>1, <2>2, SumCoversTerms, MarketplaceAssumption
  <1> QED
    BY <1>1, Invariance, ContractIsSolvent, PTL
=============================================================================
