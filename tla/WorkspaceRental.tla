--------------------------- MODULE WorkspaceRental ---------------------------
(***************************************************************************)
(* The rental escrow of contracts/src/WorkspaceRentalEscrow.sol: a renter  *)
(* locks the rent of a workspace; after the term anybody may settle it for *)
(* its owner, and until it is settled the renter or the contract's owner   *)
(* may end it for the price of the time that has passed.                   *)
(*                                                                         *)
(* A transaction is one atomic step and a failed require() none.  An       *)
(* operator placed before a definition and named after a fault is that     *)
(* definition with a plausible bug; Next uses none of them.                *)
(***************************************************************************)
EXTENDS Integers, FiniteSets, Sums

CONSTANTS
    Leases,          \* lease ids (bytes32)
    Accounts,        \* externally owned addresses that may call
    Admin,           \* Ownable's owner()
    Contract,        \* the address of the escrow itself
    TreasuryVault,   \* fixed at construction
    NoAccount,       \* address(0)
    Amounts,         \* rents offered (0 included)
    Durations,       \* terms asked for (0 included)
    InitialBalance,  \* USDC each account starts with
    MaxTime          \* bound on block.timestamp

TOTAL_BPS == 10000
TREASURY_BPS == 200

Holders == Accounts \cup {Contract, TreasuryVault}

ASSUME RentalAssumption ==
    /\ IsFiniteSet(Leases)
    /\ Admin \in Accounts
    /\ Contract \notin Accounts /\ TreasuryVault \notin Accounts \cup {Contract}
    /\ NoAccount \notin Holders
    /\ Amounts \subseteq Nat /\ Durations \subseteq Nat
    /\ InitialBalance \in Nat /\ MaxTime \in Nat

VARIABLES
    leases,   \* [Leases -> Lease]
    now,      \* block.timestamp
    usdc,     \* the token's balances
    paid,     \* history: what each lease has paid out
    closed    \* history: the time at which each lease was closed

vars == <<leases, now, usdc, paid, closed>>

LeaseStatus == {"NONE", "LOCKED", "COMPLETED", "EARLY_TERMINATED"}
Ended == {"COMPLETED", "EARLY_TERMINATED"}

Lease == [status : LeaseStatus, renter : Accounts \cup {NoAccount},
          owner : Accounts \cup {NoAccount}, amount : Nat, duration : Nat, start : Nat]
NoLease == [status |-> "NONE", renter |-> NoAccount, owner |-> NoAccount,
            amount |-> 0, duration |-> 0, start |-> 0]

Payout == [renter : Nat, owner : Nat, treasury : Nat]
NoPayout == [renter |-> 0, owner |-> 0, treasury |-> 0]
Total(p) == p.renter + p.owner + p.treasury

-----------------------------------------------------------------------------
(* Integer division truncates: the treasury and the earned rent round down.  *)
Fee(a) == (a * TREASURY_BPS) \div TOTAL_BPS

CompletedPayout(l) ==
    [renter |-> 0, owner |-> l.amount - Fee(l.amount), treasury |-> Fee(l.amount)]

(* The time that is paid for: never more than the term. *)
ElapsedUncapped(l) == now - l.start
Elapsed(l) == IF now - l.start > l.duration THEN l.duration ELSE now - l.start

(* The renter keeps what is rounded away.  The source pays the owner nothing *)
(* should the fee exceed the earned rent, which it never does.               *)
Earned(l) == (l.amount * Elapsed(l)) \div l.duration

FeeOnWholeRent(l) ==
    [renter |-> l.amount - Earned(l), owner |-> Earned(l) - Fee(Earned(l)),
     treasury |-> Fee(l.amount)]
TerminationPayout(l) ==
    [renter |-> l.amount - Earned(l), owner |-> Earned(l) - Fee(Earned(l)),
     treasury |-> Fee(Earned(l))]

Received(l, p, h) ==
      (IF h = l.renter THEN p.renter ELSE 0)
    + (IF h = l.owner THEN p.owner ELSE 0)
    + (IF h = TreasuryVault THEN p.treasury ELSE 0)

Close(i, status, p) ==
    /\ usdc[Contract] >= Total(p)
    /\ usdc' = [h \in Holders |-> IF h = Contract THEN usdc[h] - Total(p)
                                  ELSE usdc[h] + Received(leases[i], p, h)]
    /\ leases' = [leases EXCEPT ![i].status = status]
    /\ paid' = [paid EXCEPT ![i] = p]
    /\ closed' = [closed EXCEPT ![i] = now]
    /\ UNCHANGED now

-----------------------------------------------------------------------------
Init ==
    /\ leases = [i \in Leases |-> NoLease]
    /\ now = 0
    /\ usdc = [h \in Holders |-> IF h \in Accounts THEN InitialBalance ELSE 0]
    /\ paid = [i \in Leases |-> NoPayout]
    /\ closed = [i \in Leases |-> 0]

ValidTerms(owner, amount, duration) == owner # NoAccount /\ amount > 0 /\ duration > 0

CreateLease(sender, i, owner, amount, duration) ==
    /\ leases[i].status = "NONE"
    /\ ValidTerms(owner, amount, duration)
    /\ usdc[sender] >= amount
    /\ usdc' = [usdc EXCEPT ![sender] = @ - amount, ![Contract] = @ + amount]
    /\ leases' = [leases EXCEPT ![i] =
         [status |-> "LOCKED", renter |-> sender, owner |-> owner,
          amount |-> amount, duration |-> duration, start |-> now]]
    /\ UNCHANGED <<now, paid, closed>>

(* Anybody may call it, the renter included. *)
SettleAnyTime(i) == leases[i].status = "LOCKED"
SettleByTime(i) == leases[i].status # "NONE" /\ now >= leases[i].start + leases[i].duration
MaySettle(i) == leases[i].status = "LOCKED" /\ now >= leases[i].start + leases[i].duration

SettleCompletedLease(sender, i) ==
    /\ MaySettle(i)
    /\ Close(i, "COMPLETED", CompletedPayout(leases[i]))

(* No upper limit in time: also after the term, until the lease is settled.  *)
MayTerminate(sender, i) ==
    /\ leases[i].status = "LOCKED"
    /\ sender \in {leases[i].renter, Admin}

EarlyTerminateRefund(sender, i) ==
    /\ MayTerminate(sender, i)
    /\ Close(i, "EARLY_TERMINATED", TerminationPayout(leases[i]))

Tick ==
    /\ now < MaxTime
    /\ now' = now + 1
    /\ UNCHANGED <<leases, usdc, paid, closed>>

LeaseCall(sender, i) ==
    \/ \E owner \in Accounts \cup {NoAccount}, amount \in Amounts, duration \in Durations :
          CreateLease(sender, i, owner, amount, duration)
    \/ SettleCompletedLease(sender, i)
    \/ EarlyTerminateRefund(sender, i)

Next == \/ \E sender \in Accounts, i \in Leases : LeaseCall(sender, i)
        \/ Tick

Spec == Init /\ [][Next]_vars
-----------------------------------------------------------------------------
(* Properties *)

TypeOK ==
    /\ leases \in [Leases -> Lease]
    /\ now \in Nat
    /\ usdc \in [Holders -> Nat]
    /\ paid \in [Leases -> Payout]
    /\ closed \in [Leases -> Nat]

(* A lease pays nothing while it runs and its whole rent when it ends,       *)
(* whichever function ends it: no dust stays behind.                         *)
RentPaid(i) ==
    Total(paid[i]) = IF leases[i].status \in Ended THEN leases[i].amount ELSE 0

RentPaidOut == \A i \in Leases : RentPaid(i)

(* When a lease ended: the term it had used up by then. *)
Term(i) == leases[i].duration
Used(i) == closed[i] - leases[i].start

(* The renter pays for no more time than has passed, and the owner is paid   *)
(* for all of it up to less than one unit; the treasury takes its 2% of what *)
(* was earned, never of what is given back.                                  *)
ProRata(i) ==
    leases[i].status \in Ended /\ Used(i) < Term(i) =>
        LET earned == paid[i].owner + paid[i].treasury IN
        /\ earned * Term(i) <= leases[i].amount * Used(i)
        /\ leases[i].amount * Used(i) < (earned + 1) * Term(i)
        /\ TOTAL_BPS * paid[i].treasury <= TREASURY_BPS * earned

PaidForTimeUsed == \A i \in Leases : ProRata(i)

(* Once the term is over it does not matter who closes the lease first and   *)
(* how: terminating it late gives the renter nothing back, and the owner and *)
(* the treasury the same as a settlement.                                    *)
SameOnceOver(i) ==
    leases[i].status \in Ended /\ Used(i) >= Term(i) => paid[i] = CompletedPayout(leases[i])

NoGainFromRacing == \A i \in Leases : SameOnceOver(i)

(* What the contract still holds of lease i. *)
Held(i) == IF leases[i].status = "LOCKED" THEN leases[i].amount ELSE 0

(* The contract holds exactly the rents of its running leases. *)
Solvent == usdc[Contract] = SumOf([i \in Leases |-> Held(i)])
=============================================================================
