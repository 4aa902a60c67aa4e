-------------------------- MODULE AgentMarketplace --------------------------
(***************************************************************************)
(* The on-chain task escrow of contracts/src/AgentMarketplace.sol: one     *)
(* action per external function, executed atomically as the EVM executes a *)
(* transaction, over the escrow mapping, the admin settings, the clock and *)
(* the USDC balances the contract moves.  A call whose require() fails     *)
(* reverts, so it is no step at all.                                       *)
(*                                                                         *)
(* EscrowPayment.sol inherits every function unchanged, so this module is  *)
(* its model too.  An operator placed before a definition and named after  *)
(* a fault (DaoPayoutTruncated before DaoPayout) is that definition as a   *)
(* plausible bug would have it; Next uses none of them, and each property  *)
(* is shown to fail under one.                                             *)
(***************************************************************************)
EXTENDS Integers, Sequences, FiniteSets, Sums

CONSTANTS
    Tasks,                 \* task ids (bytes32)
    Accounts,              \* externally owned addresses that may call
    Owner,                 \* the deployer, Ownable's owner()
    Contract,              \* the address of the marketplace itself
    StakerVault, DaoVault, \* the two vaults fixed at construction
    Proofs, NoProof,       \* proof hashes, and bytes32(0)
    NoAccount,             \* address(0)
    Amounts,               \* deposits a client may offer (0 included)
    Durations,             \* durations a client may ask for (0 included)
    DefaultTimeout,        \* DEFAULT_ESCROW_TIMEOUT
    Splits,                \* revenue splits the owner may ask for
    InitialBalance,        \* USDC each account starts with
    MaxTime                \* bound on block.timestamp

(* Basis points: 10000 BPS = 100%. *)
TOTAL_BPS == 10000

Holders == Accounts \cup {Contract, StakerVault, DaoVault}

SplitType == [dev : Nat, staker : Nat, dao : Nat]

ASSUME MarketplaceAssumption ==
    /\ IsFiniteSet(Tasks)
    /\ Owner \in Accounts
    /\ Contract \notin Accounts \cup {StakerVault, DaoVault}
    /\ StakerVault \notin Accounts /\ DaoVault \notin Accounts
    /\ StakerVault # DaoVault
    /\ NoAccount \notin Holders
    /\ NoProof \notin Proofs
    /\ Amounts \subseteq Nat
    /\ Durations \subseteq Nat
    /\ DefaultTimeout \in Nat \ {0}
    /\ Splits \subseteq SplitType
    /\ InitialBalance \in Nat
    /\ MaxTime \in Nat

VARIABLES
    escrows,           \* [Tasks -> TaskEscrow]
    split,             \* devSplitBPS, stakerSplitBPS, daoSplitBPS
    settlementOracle,
    paused,            \* Pausable
    now,               \* block.timestamp
    usdc,              \* the token's balances
    paid,              \* history: what each escrow has paid, per beneficiary
    logs               \* the events each task has emitted, oldest first

vars == <<escrows, split, settlementOracle, paused, now, usdc, paid, logs>>

EscrowStatus == {"NONE", "LOCKED", "SETTLED", "REFUNDED", "DISPUTED"}
Open == {"LOCKED", "DISPUTED"}      \* the contract still holds the deposit
Closed == {"SETTLED", "REFUNDED"}

Events == {"EscrowLocked", "EscrowSettled", "EscrowRefunded", "DisputeRaised",
           "DisputeResolvedRefunded", "DisputeResolvedSettled"}

TaskEscrow == [status : EscrowStatus, client : Accounts \cup {NoAccount},
               developer : Accounts \cup {NoAccount}, amountUSDC : Nat,
               deadline : Nat, proofHash : Proofs \cup {NoProof}]

NoEscrow == [status |-> "NONE", client |-> NoAccount, developer |-> NoAccount,
             amountUSDC |-> 0, deadline |-> 0, proofHash |-> NoProof]

Payout == [client : Nat, developer : Nat, staker : Nat, dao : Nat]
NoPayout == [client |-> 0, developer |-> 0, staker |-> 0, dao |-> 0]

-----------------------------------------------------------------------------
(* Integer division truncates, and the DAO vault takes what is left. *)
DevPayout(a) == (a * split.dev) \div TOTAL_BPS
StakerPayout(a) == (a * split.staker) \div TOTAL_BPS
DaoPayoutTruncated(a) == (a * split.dao) \div TOTAL_BPS
DaoPayout(a) == a - DevPayout(a) - StakerPayout(a)

RevenueShares(a) == [client |-> 0, developer |-> DevPayout(a),
                     staker |-> StakerPayout(a), dao |-> DaoPayout(a)]

FullRefund(a) == [client |-> a, developer |-> 0, staker |-> 0, dao |-> 0]

Total(p) == p.client + p.developer + p.staker + p.dao

Plus(p, q) == [client |-> p.client + q.client, developer |-> p.developer + q.developer,
               staker |-> p.staker + q.staker, dao |-> p.dao + q.dao]

(* What the beneficiaries of escrow e receive of payout p.  One address may *)
(* be both client and developer.                                            *)
Received(e, p, h) ==
      (IF h = e.client THEN p.client ELSE 0)
    + (IF h = e.developer THEN p.developer ELSE 0)
    + (IF h = StakerVault THEN p.staker ELSE 0)
    + (IF h = DaoVault THEN p.dao ELSE 0)

(* safeTransfer out of the contract; the token reverts without the funds. *)
PayOut(t, p) ==
    /\ usdc[Contract] >= Total(p)
    /\ usdc' = [h \in Holders |->
                  IF h = Contract THEN usdc[h] - Total(p)
                  ELSE usdc[h] + Received(escrows[t], p, h)]
    /\ paid' = [paid EXCEPT ![t] = Plus(@, p)]

Emit(t, event) == logs' = [logs EXCEPT ![t] = Append(@, event)]

-----------------------------------------------------------------------------
Init ==
    /\ escrows = [t \in Tasks |-> NoEscrow]
    /\ split = [dev |-> 8500, staker |-> 1000, dao |-> 500]
    /\ settlementOracle \in Accounts
    /\ paused = FALSE
    /\ now = 0
    /\ usdc = [h \in Holders |-> IF h \in Accounts THEN InitialBalance ELSE 0]
    /\ paid = [t \in Tasks |-> NoPayout]
    /\ logs = [t \in Tasks |-> <<>>]

(* lockTaskEscrow: the sender becomes the client and its deposit moves to   *)
(* the contract.                                                            *)
LockTaskEscrow(sender, t, developer, amount, duration) ==
    /\ ~paused
    /\ amount > 0
    /\ developer # NoAccount
    /\ escrows[t].status = "NONE"
    /\ usdc[sender] >= amount
    /\ usdc' = [usdc EXCEPT ![sender] = @ - amount, ![Contract] = @ + amount]
    /\ escrows' = [escrows EXCEPT ![t] =
         [status |-> "LOCKED", client |-> sender, developer |-> developer,
          amountUSDC |-> amount, proofHash |-> NoProof,
          deadline |-> now + (IF duration > 0 THEN duration ELSE DefaultTimeout)]]
    /\ Emit(t, "EscrowLocked")
    /\ UNCHANGED <<split, settlementOracle, paused, now, paid>>

(* settleTaskEscrow: allowed even after the deadline has passed. *)
SettleTaskEscrow(sender, t, proof) ==
    /\ ~paused
    /\ sender \in {settlementOracle, Owner}
    /\ escrows[t].status = "LOCKED"
    /\ proof # NoProof
    /\ escrows' = [escrows EXCEPT ![t].status = "SETTLED", ![t].proofHash = proof]
    /\ PayOut(t, RevenueShares(escrows[t].amountUSDC))
    /\ Emit(t, "EscrowSettled")
    /\ UNCHANGED <<split, settlementOracle, paused, now>>

RefundWithoutStatus(sender, t) ==
    /\ sender \in {escrows[t].client, Owner}
    /\ now >= escrows[t].deadline
RefundWithoutDeadline(sender, t) ==
    /\ escrows[t].status = "LOCKED"
    /\ sender \in {escrows[t].client, Owner}
RefundByOwnerOnly(sender, t) ==
    /\ escrows[t].status = "LOCKED"
    /\ sender = Owner
    /\ now >= escrows[t].deadline
MayRefund(sender, t) ==
    /\ escrows[t].status = "LOCKED"
    /\ sender \in {escrows[t].client, Owner}
    /\ now >= escrows[t].deadline

RefundExpiredEscrow(sender, t) ==
    /\ ~paused
    /\ MayRefund(sender, t)
    /\ escrows' = [escrows EXCEPT ![t].status = "REFUNDED"]
    /\ PayOut(t, FullRefund(escrows[t].amountUSDC))
    /\ Emit(t, "EscrowRefunded")
    /\ UNCHANGED <<split, settlementOracle, paused, now>>

(* raiseDispute and resolveDispute are not gated by the pause. *)
MayDispute(sender, t) ==
    /\ escrows[t].status = "LOCKED"
    /\ sender \in {escrows[t].client, escrows[t].developer}

RaiseDispute(sender, t) ==
    /\ MayDispute(sender, t)
    /\ escrows' = [escrows EXCEPT ![t].status = "DISPUTED"]
    /\ Emit(t, "DisputeRaised")
    /\ UNCHANGED <<split, settlementOracle, paused, now, usdc, paid>>

ResolutionUnspecified(refundClient) == "DisputeResolvedSettled"
ResolutionEvent(refundClient) ==
    IF refundClient THEN "DisputeResolvedRefunded" ELSE "DisputeResolvedSettled"

ResolveDispute(sender, t, refundClient) ==
    /\ sender = Owner
    /\ escrows[t].status = "DISPUTED"
    /\ escrows' = [escrows EXCEPT ![t].status =
                     IF refundClient THEN "REFUNDED" ELSE "SETTLED"]
    /\ PayOut(t, IF refundClient THEN FullRefund(escrows[t].amountUSDC)
                 ELSE RevenueShares(escrows[t].amountUSDC))
    /\ Emit(t, ResolutionEvent(refundClient))
    /\ UNCHANGED <<split, settlementOracle, paused, now>>

(* A new split also governs the escrows that are already locked. *)
ValidSplit(s) == s.dev + s.staker + s.dao = TOTAL_BPS

SetRevenueSplit(sender, s) ==
    /\ sender = Owner
    /\ ValidSplit(s)
    /\ split' = s
    /\ UNCHANGED <<escrows, settlementOracle, paused, now, usdc, paid, logs>>

SetSettlementOracle(sender, newOracle) ==
    /\ sender = Owner
    /\ newOracle # NoAccount
    /\ settlementOracle' = newOracle
    /\ UNCHANGED <<escrows, split, paused, now, usdc, paid, logs>>

(* _pause reverts when already paused, _unpause when not. *)
Pause(sender) ==
    /\ sender = Owner
    /\ ~paused
    /\ paused' = TRUE
    /\ UNCHANGED <<escrows, split, settlementOracle, now, usdc, paid, logs>>

Unpause(sender) ==
    /\ sender = Owner
    /\ paused
    /\ paused' = FALSE
    /\ UNCHANGED <<escrows, split, settlementOracle, now, usdc, paid, logs>>

(* Block timestamps advance whether or not anybody calls. *)
Tick ==
    /\ now < MaxTime
    /\ now' = now + 1
    /\ UNCHANGED <<escrows, split, settlementOracle, paused, usdc, paid, logs>>

TaskCall(sender, t) ==
    \/ \E developer \in Accounts \cup {NoAccount}, amount \in Amounts,
          duration \in Durations :
            LockTaskEscrow(sender, t, developer, amount, duration)
    \/ \E proof \in Proofs \cup {NoProof} : SettleTaskEscrow(sender, t, proof)
    \/ RefundExpiredEscrow(sender, t)
    \/ RaiseDispute(sender, t)
    \/ \E refundClient \in BOOLEAN : ResolveDispute(sender, t, refundClient)

AdminCall(sender) ==
    \/ \E s \in Splits : SetRevenueSplit(sender, s)
    \/ \E newOracle \in Accounts \cup {NoAccount} : SetSettlementOracle(sender, newOracle)
    \/ Pause(sender)
    \/ Unpause(sender)

Next ==
    \/ \E sender \in Accounts :
         \/ \E t \in Tasks : TaskCall(sender, t)
         \/ AdminCall(sender)
    \/ Tick

Spec == Init /\ [][Next]_vars

-----------------------------------------------------------------------------
(* Properties *)

TypeOK ==
    /\ escrows \in [Tasks -> TaskEscrow]
    /\ split \in SplitType /\ split.dev + split.staker + split.dao = TOTAL_BPS
    /\ settlementOracle \in Accounts
    /\ paused \in BOOLEAN
    /\ now \in Nat
    /\ usdc \in [Holders -> Nat]
    /\ paid \in [Tasks -> Payout]
    /\ logs \in [Tasks -> Seq(Events)]

(* Every deposit leaves the contract once and whole: an open escrow has paid  *)
(* nothing, a closed one has paid exactly its deposit, a refunded one only to *)
(* its client and a settled one nothing back to its client, whatever splits   *)
(* were in force while it was open.                                           *)
PaidOnce(t) ==
    /\ escrows[t].status \in Closed => Total(paid[t]) = escrows[t].amountUSDC
    /\ escrows[t].status \notin Closed => paid[t] = NoPayout
    /\ escrows[t].status = "REFUNDED" => paid[t].client = escrows[t].amountUSDC
    /\ escrows[t].status = "SETTLED" => paid[t].client = 0

PaidExactlyOnce == \A t \in Tasks : PaidOnce(t)

(* What the contract still holds of escrow t. *)
Held(t) == IF escrows[t].status \in Open THEN escrows[t].amountUSDC ELSE 0

(* The contract holds exactly the deposits of its open escrows: no path pays  *)
(* one client out of another client's deposit or strands dust.                *)
Solvent == usdc[Contract] = SumOf([t \in Tasks |-> Held(t)])

(* A client gets its deposit back without a dispute only once the deadline    *)
(* has passed, and a settlement without a proof only follows a dispute; the   *)
(* log remembers a dispute for as long as that matters.                       *)
Disputed(t) == \E i \in DOMAIN logs[t] : logs[t][i] = "DisputeRaised"

Caused(t) ==
    /\ escrows[t].status \in {"NONE", "LOCKED"} => ~Disputed(t)
    /\ escrows[t].status = "DISPUTED" => Disputed(t)
    /\ escrows[t].status \in Open => escrows[t].proofHash = NoProof
    /\ escrows[t].status = "REFUNDED" /\ ~Disputed(t) => now >= escrows[t].deadline
    /\ escrows[t].status = "SETTLED" => (escrows[t].proofHash = NoProof <=> Disputed(t))

ClosedWithCause == \A t \in Tasks : Caused(t)

(* The events of a task, folded oldest first, reconstruct its status: what an *)
(* off-chain projection needs of the contract to be able to follow it.        *)
StatusAfter(event) ==
    CASE event = "EscrowLocked" -> "LOCKED"
      [] event = "DisputeRaised" -> "DISPUTED"
      [] event \in {"EscrowSettled", "DisputeResolvedSettled"} -> "SETTLED"
      [] event \in {"EscrowRefunded", "DisputeResolvedRefunded"} -> "REFUNDED"

LogMatches(t) ==
    escrows[t].status = IF logs[t] = <<>> THEN "NONE"
                        ELSE StatusAfter(logs[t][Len(logs[t])])

LogsDetermineStatus == \A t \in Tasks : LogMatches(t)

(* No deposit can be stranded: an open escrow can always be closed by someone *)
(* once its deadline has passed and the contract is not paused.               *)
NeverStranded ==
    \A t \in Tasks :
        /\ escrows[t].status = "LOCKED" /\ ~paused /\ now >= escrows[t].deadline
              => ENABLED RefundExpiredEscrow(escrows[t].client, t)
        /\ escrows[t].status = "DISPUTED"
              => \A r \in BOOLEAN : ENABLED ResolveDispute(Owner, t, r)

(* The documented escrow state machine (docs/ESCROW.md): nothing leaves a     *)
(* closed escrow, parties, amount and deadline are fixed when it is locked,   *)
(* and a pause lets an escrow move only through a dispute.                    *)
Successors(s) ==
    CASE s = "NONE" -> {"LOCKED"}
      [] s = "LOCKED" -> {"SETTLED", "REFUNDED", "DISPUTED"}
      [] s = "DISPUTED" -> {"SETTLED", "REFUNDED"}
      [] OTHER -> {}

LifecycleStep(t) ==
    LET e == escrows[t]  e2 == escrows'[t]
    IN e2 # e =>
         /\ e2.status \in Successors(e.status)
         /\ e.status # "NONE" =>
              /\ e2.client = e.client /\ e2.developer = e.developer
              /\ e2.amountUSDC = e.amountUSDC /\ e2.deadline = e.deadline
         /\ paused /\ e.status = "LOCKED" => e2.status = "DISPUTED"

Lifecycle == [][\A t \in Tasks : LifecycleStep(t)]_vars
=============================================================================
