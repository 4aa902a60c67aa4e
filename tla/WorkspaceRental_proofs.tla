----------------------- MODULE WorkspaceRental_proofs -----------------------
(* Proofs, for any number of leases, rents, terms and any clock, that each    *)
(* rent of WorkspaceRental is paid out once and whole, in proportion to the   *)
(* time used, and alike however a lease ends once its term is over.           *)
EXTENDS WorkspaceRental, Sums_proofs

(* Truncated division, by any divisor.                                        *)
LEMMA Division ==
    ASSUME NEW n \in Nat, NEW d \in Nat, d > 0
    PROVE  /\ n \div d \in Nat
           /\ (n \div d) * d <= n
           /\ n < (n \div d + 1) * d
  OBVIOUS

LEMMA ExactDivision ==
    ASSUME NEW n \in Nat, NEW d \in Nat, d > 0
    PROVE  (n * d) \div d = n
  OBVIOUS

(* A part of the term earns at most the whole rent.                           *)
LEMMA PartOfRent ==
    ASSUME NEW a \in Nat, NEW e \in Nat, NEW d \in Nat, d > 0, e <= d
    PROVE  /\ (a * e) \div d \in Nat
           /\ (a * e) \div d <= a
           /\ ((a * e) \div d) * d <= a * e
           /\ a * e < ((a * e) \div d + 1) * d
  <1> DEFINE n == a * e
             q == n \div d
  <1>1. n \in Nat /\ n <= a * d
    OBVIOUS
  <1>2. q \in Nat /\ q * d <= n /\ n < (q + 1) * d
    BY <1>1, Division
  <1> HIDE DEF n, q
  <1>3. q * d <= a * d
    BY <1>1, <1>2
  <1>4. q <= a
    BY <1>2, <1>3
  <1> QED
    BY <1>2, <1>4 DEF n, q

(* The treasury's 2%: a natural, no more than the amount it is taken from.    *)
LEMMA FeeFits ==
    ASSUME NEW a \in Nat
    PROVE  Fee(a) \in Nat /\ Fee(a) <= a /\ TOTAL_BPS * Fee(a) <= TREASURY_BPS * a
  BY DEF Fee, TOTAL_BPS, TREASURY_BPS

(* A running lease has a term and began no later than now.                    *)
Running(l) == l \in Lease /\ l.duration > 0 /\ l.start <= now

LEMMA ElapsedFits ==
    ASSUME now \in Nat, NEW l, Running(l)
    PROVE  /\ Elapsed(l) \in Nat /\ Elapsed(l) <= l.duration
           /\ now - l.start >= l.duration => Elapsed(l) = l.duration
           /\ now - l.start < l.duration => Elapsed(l) = now - l.start
  BY DEF Running, Lease, Elapsed

(* What a settlement pays (lines 86-90) is the whole rent.                    *)
LEMMA CompletedIsWhole ==
    ASSUME NEW l \in Lease
    PROVE  CompletedPayout(l) \in Payout /\ Total(CompletedPayout(l)) = l.amount
  <1>1. l.amount \in Nat
    BY DEF Lease
  <1>2. Fee(l.amount) \in Nat /\ Fee(l.amount) <= l.amount
    BY <1>1, FeeFits
  <1> QED
    BY <1>1, <1>2 DEF CompletedPayout, Payout, Total

(* What a termination pays (lines 102-115): no subtraction underflows, the    *)
(* three parts make up the rent, and once the term is over they are those of  *)
(* a settlement.                                                              *)
LEMMA TerminationIsWhole ==
    ASSUME now \in Nat, NEW l, Running(l)
    PROVE  LET p == TerminationPayout(l) IN
           /\ p \in Payout /\ Total(p) = l.amount
           /\ p.owner + p.treasury = Earned(l)
           /\ p.treasury = Fee(Earned(l))
           /\ Earned(l) \in Nat
           /\ Earned(l) * l.duration <= l.amount * Elapsed(l)
           /\ l.amount * Elapsed(l) < (Earned(l) + 1) * l.duration
           /\ now - l.start >= l.duration => p = CompletedPayout(l)
  <1>1. l.amount \in Nat /\ l.duration \in Nat /\ l.start \in Nat /\ l.duration > 0
    BY DEF Running, Lease
  <1>2. Elapsed(l) \in Nat /\ Elapsed(l) <= l.duration
    BY ElapsedFits
  <1>3. /\ Earned(l) \in Nat /\ Earned(l) <= l.amount
        /\ Earned(l) * l.duration <= l.amount * Elapsed(l)
        /\ l.amount * Elapsed(l) < (Earned(l) + 1) * l.duration
    BY <1>1, <1>2, PartOfRent DEF Earned
  <1>4. Fee(Earned(l)) \in Nat /\ Fee(Earned(l)) <= Earned(l)
    BY <1>3, FeeFits
  <1>5. now - l.start >= l.duration => Earned(l) = l.amount
    BY <1>1, ElapsedFits, ExactDivision DEF Earned
  <1>6. /\ TerminationPayout(l).renter = l.amount - Earned(l)
        /\ TerminationPayout(l).owner = Earned(l) - Fee(Earned(l))
        /\ TerminationPayout(l).treasury = Fee(Earned(l))
    BY DEF TerminationPayout
  <1>7. TerminationPayout(l) \in Payout
    BY <1>1, <1>3, <1>4 DEF TerminationPayout, Payout
  <1>8. now - l.start >= l.duration => TerminationPayout(l) = CompletedPayout(l)
    BY <1>1, <1>5 DEF TerminationPayout, CompletedPayout
  <1> QED
    BY <1>1, <1>3, <1>4, <1>6, <1>7, <1>8 DEF Total

-----------------------------------------------------------------------------
(* What has to hold of one lease, and of the whole contract.                  *)
LeaseInv(i) ==
    /\ RentPaid(i) /\ ProRata(i) /\ SameOnceOver(i)
    /\ leases[i].status = "LOCKED" => Running(leases[i])
Inv == TypeOK /\ \A i \in Leases : LeaseInv(i)

(* A step that leaves a lease and its history alone keeps its invariant.      *)
LEMMA Frame ==
    ASSUME NEW i \in Leases, TypeOK, LeaseInv(i), now' \in Nat, now' >= now,
           leases'[i] = leases[i], paid'[i] = paid[i], closed'[i] = closed[i]
    PROVE  LeaseInv(i)'
  <1>1. leases[i].start \in Nat /\ now \in Nat
    BY DEF TypeOK, Lease
  <1>2. leases'[i].status = "LOCKED" => Running(leases[i])'
    BY <1>1 DEF LeaseInv, Running
  <1> QED
    BY <1>2 DEF LeaseInv, RentPaid, ProRata, SameOnceOver, Used, Term

LEMMA InitInv == Init => Inv
  <1> SUFFICES ASSUME Init PROVE Inv
    OBVIOUS
  <1>1. NoLease \in Lease /\ NoPayout \in Payout
    BY DEF NoLease, Lease, LeaseStatus, NoPayout, Payout
  <1>2. TypeOK
    BY <1>1, RentalAssumption DEF Init, TypeOK
  <1>3. ASSUME NEW i \in Leases PROVE LeaseInv(i)
    <2>1. leases[i].status = "NONE" /\ paid[i] = NoPayout
      BY DEF Init, NoLease
    <2>2. Total(NoPayout) = 0
      BY DEF Total, NoPayout
    <2> QED
      BY <2>1, <2>2 DEF LeaseInv, RentPaid, ProRata, SameOnceOver, Ended
  <1> QED
    BY <1>2, <1>3 DEF Inv

LEMMA CreateInv ==
    ASSUME Inv, NEW sender \in Accounts, NEW i \in Leases,
           NEW owner \in Accounts \cup {NoAccount}, NEW amount \in Amounts,
           NEW duration \in Durations, CreateLease(sender, i, owner, amount, duration)
    PROVE  Inv'
  <1> USE DEF CreateLease
  <1>1. amount \in Nat /\ duration \in Nat /\ duration > 0 /\ now \in Nat
    BY RentalAssumption DEF ValidTerms, Inv, TypeOK
  <1>2. leases'[i] \in Lease /\ leases'[i].status = "LOCKED"
        /\ leases'[i].duration = duration /\ leases'[i].start = now
    BY <1>1 DEF Inv, TypeOK, Lease, LeaseStatus
  <1>3. leases' \in [Leases -> Lease] /\ \A j \in Leases \ {i} : leases'[j] = leases[j]
    BY <1>2 DEF Inv, TypeOK
  <1>4. usdc' \in [Holders -> Nat]
    BY <1>1, RentalAssumption DEF Inv, TypeOK, Holders
  <1>5. TypeOK'
    BY <1>3, <1>4 DEF Inv, TypeOK
  <1>6. LeaseInv(i)'
    <2>1. Running(leases[i])'
      BY <1>1, <1>2 DEF Running
    <2>2. Total(paid[i]) = 0
      BY DEF Inv, LeaseInv, RentPaid, Ended
    <2> QED
      BY <1>2, <2>1, <2>2 DEF LeaseInv, RentPaid, ProRata, SameOnceOver, Ended
  <1>7. ASSUME NEW j \in Leases \ {i} PROVE LeaseInv(j)'
    <2>1. now' \in Nat /\ now' >= now
      BY <1>1
    <2> QED
      BY <1>3, <2>1, Frame DEF Inv
  <1> QED
    BY <1>5, <1>6, <1>7 DEF Inv

(* Ending a running lease with a payout that makes up its rent: the common    *)
(* part of settleCompletedLease and earlyTerminateRefund.                     *)
LEMMA CloseInv ==
    ASSUME Inv, NEW i \in Leases, NEW status \in Ended, NEW p \in Payout,
           leases[i].status = "LOCKED", Close(i, status, p),
           Total(p) = leases[i].amount,
           now - leases[i].start >= leases[i].duration => p = CompletedPayout(leases[i]),
           now - leases[i].start < leases[i].duration =>
             LET earned == p.owner + p.treasury IN
             /\ earned * leases[i].duration <= leases[i].amount * (now - leases[i].start)
             /\ leases[i].amount * (now - leases[i].start) < (earned + 1) * leases[i].duration
             /\ TOTAL_BPS * p.treasury <= TREASURY_BPS * earned
    PROVE  Inv'
  <1>1. /\ now \in Nat /\ now' = now /\ now' >= now
        /\ usdc \in [Holders -> Nat]
    BY DEF Inv, TypeOK, Close
  <1>2. usdc' \in [Holders -> Nat]
    <2>1. p.renter \in Nat /\ p.owner \in Nat /\ p.treasury \in Nat /\ Total(p) \in Nat
      BY DEF Payout, Total
    <2>2. \A h : Received(leases[i], p, h) \in Nat
      BY <2>1 DEF Received
    <2>3. usdc[Contract] - Total(p) \in Nat
      BY <1>1, <2>1 DEF Close, Holders
    <2> QED
      BY <1>1, <2>2, <2>3 DEF Close
  <1>3. /\ leases' \in [Leases -> Lease]
        /\ leases'[i].status = status /\ leases'[i].amount = leases[i].amount
        /\ leases'[i].duration = leases[i].duration /\ leases'[i].start = leases[i].start
        /\ \A j \in Leases \ {i} : leases'[j] = leases[j]
    BY DEF Inv, TypeOK, Close, Lease, LeaseStatus, Ended
  <1>4. /\ paid' \in [Leases -> Payout] /\ paid'[i] = p
        /\ closed' \in [Leases -> Nat] /\ closed'[i] = now
        /\ \A j \in Leases \ {i} : paid'[j] = paid[j] /\ closed'[j] = closed[j]
    BY <1>1 DEF Inv, TypeOK, Close
  <1>5. TypeOK'
    BY <1>1, <1>2, <1>3, <1>4 DEF TypeOK
  <1>6. LeaseInv(i)'
    <2>1. RentPaid(i)'
      BY <1>3, <1>4 DEF RentPaid
    <2>2. ProRata(i)'
      BY <1>3, <1>4 DEF ProRata, Used, Term
    <2>3. SameOnceOver(i)'
      BY <1>3, <1>4 DEF SameOnceOver, Used, Term, CompletedPayout
    <2> QED
      BY <1>3, <2>1, <2>2, <2>3 DEF LeaseInv, Ended
  <1>7. ASSUME NEW j \in Leases \ {i} PROVE LeaseInv(j)'
    BY <1>1, <1>3, <1>4, Frame DEF Inv
  <1> QED
    BY <1>5, <1>6, <1>7 DEF Inv

LEMMA SettleInv ==
    ASSUME Inv, NEW sender \in Accounts, NEW i \in Leases, SettleCompletedLease(sender, i)
    PROVE  Inv'
  <1> DEFINE p == CompletedPayout(leases[i])
  <1>1. leases[i] \in Lease /\ now \in Nat /\ leases[i].start \in Nat /\ leases[i].duration \in Nat
    BY DEF Inv, TypeOK, Lease
  <1>2. p \in Payout /\ Total(p) = leases[i].amount
    BY <1>1, CompletedIsWhole
  <1>3. /\ leases[i].status = "LOCKED" /\ Close(i, "COMPLETED", p)
        /\ now - leases[i].start >= leases[i].duration
    BY <1>1 DEF SettleCompletedLease, MaySettle
  <1>4. "COMPLETED" \in Ended /\ ~(now - leases[i].start < leases[i].duration)
    BY <1>1, <1>3 DEF Ended
  <1> HIDE DEF p
  <1>5. now - leases[i].start >= leases[i].duration => p = CompletedPayout(leases[i])
    BY DEF p
  <1> QED
    BY <1>2, <1>3, <1>4, <1>5, CloseInv

LEMMA TerminateInv ==
    ASSUME Inv, NEW sender \in Accounts, NEW i \in Leases, EarlyTerminateRefund(sender, i)
    PROVE  Inv'
  <1> DEFINE l == leases[i]
             p == TerminationPayout(l)
  <1>1. now \in Nat /\ l.status = "LOCKED" /\ Running(l) /\ Close(i, "EARLY_TERMINATED", p)
    BY DEF EarlyTerminateRefund, MayTerminate, Inv, TypeOK, LeaseInv
  <1>2. /\ p \in Payout /\ Total(p) = l.amount
        /\ p.owner + p.treasury = Earned(l)
        /\ p.treasury = Fee(Earned(l))
        /\ Earned(l) \in Nat
        /\ Earned(l) * l.duration <= l.amount * Elapsed(l)
        /\ l.amount * Elapsed(l) < (Earned(l) + 1) * l.duration
        /\ now - l.start >= l.duration => p = CompletedPayout(l)
    BY <1>1, TerminationIsWhole
  <1>3. now - l.start < l.duration => Elapsed(l) = now - l.start
    BY <1>1, ElapsedFits
  <1>4. TOTAL_BPS * p.treasury <= TREASURY_BPS * Earned(l)
    BY <1>2, FeeFits
  <1>5. "EARLY_TERMINATED" \in Ended
    BY DEF Ended
  <1>6. now - l.start < l.duration =>
          /\ (p.owner + p.treasury) * l.duration <= l.amount * (now - l.start)
          /\ l.amount * (now - l.start) < (p.owner + p.treasury + 1) * l.duration
          /\ TOTAL_BPS * p.treasury <= TREASURY_BPS * (p.owner + p.treasury)
    BY <1>2, <1>3, <1>4
  <1> HIDE DEF p
  <1> QED
    BY <1>1, <1>2, <1>5, <1>6, CloseInv

LEMMA NextInv == Inv /\ [Next]_vars => Inv'
  <1> SUFFICES ASSUME Inv, [Next]_vars PROVE Inv'
    OBVIOUS
  <1>1. ASSUME NEW sender \in Accounts, NEW i \in Leases, LeaseCall(sender, i)
        PROVE  Inv'
    BY <1>1, CreateInv, SettleInv, TerminateInv DEF LeaseCall
  <1>2. CASE Tick \/ UNCHANGED vars
    <2>1. /\ UNCHANGED <<leases, usdc, paid, closed>>
          /\ now' \in Nat /\ now' >= now
      BY <1>2 DEF Tick, vars, Inv, TypeOK
    <2>2. TypeOK'
      BY <2>1 DEF Inv, TypeOK
    <2>3. ASSUME NEW i \in Leases PROVE LeaseInv(i)'
      BY <2>1, Frame DEF Inv
    <2> QED
      BY <2>2, <2>3 DEF Inv
  <1> QED
    BY <1>1, <1>2 DEF Next

(* The invariant every other result follows from.                             *)
THEOREM Invariance == Spec => []Inv
  BY InitInv, NextInv, PTL DEF Spec

(* Types hold whatever the constants: no balance, share or refund underflows. *)
THEOREM TypeCorrect == Spec => []TypeOK
  <1>1. Inv => TypeOK
    BY DEF Inv
  <1> QED
    BY <1>1, Invariance, PTL

(* Each rent is paid out once and whole, by settleCompletedLease or by        *)
(* earlyTerminateRefund.                                                      *)
THEOREM RentsPaidOut == Spec => []RentPaidOut
  <1>1. Inv => RentPaidOut
    BY DEF Inv, LeaseInv, RentPaidOut
  <1> QED
    BY <1>1, Invariance, PTL

(* A lease ended early costs its renter the time used, rounded down by less   *)
(* than one unit, and the treasury takes at most 2% of that.                  *)
THEOREM TimeUsedIsPaid == Spec => []PaidForTimeUsed
  <1>1. Inv => PaidForTimeUsed
    BY DEF Inv, LeaseInv, PaidForTimeUsed
  <1> QED
    BY <1>1, Invariance, PTL

(* Once the term is over, settling and terminating pay the same.              *)
THEOREM RacingGainsNothing == Spec => []NoGainFromRacing
  <1>1. Inv => NoGainFromRacing
    BY DEF Inv, LeaseInv, NoGainFromRacing
  <1> QED
    BY <1>1, Invariance, PTL

-----------------------------------------------------------------------------
(* The contract's balance against the rents it holds.                         *)
Rents == [i \in Leases |-> Held(i)]

LEMMA RentsTyped == ASSUME TypeOK PROVE Rents \in [Leases -> Nat]
  BY DEF Rents, Held, TypeOK, Lease

(* A call on one lease moves the sum by what it moves of that lease.          *)
LEMMA OneRentMoves ==
    ASSUME TypeOK, TypeOK', NEW i \in Leases, \A j \in Leases \ {i} : leases'[j] = leases[j]
    PROVE  /\ SumOf(Rents) \in Int
           /\ SumOf(Rents)' = SumOf(Rents) - Held(i) + Held(i)'
  <1>1. Rents \in [Leases -> Int] /\ Rents' \in [Leases -> Int]
    BY DEF Rents, Held, TypeOK, Lease
  <1>2. \A j \in Leases \ {i} : Rents'[j] = Rents[j]
    BY DEF Rents, Held
  <1>3. Rents[i] = Held(i) /\ Rents'[i] = Held(i)'
    BY DEF Rents
  <1>4. IsFiniteSet(Leases)
    BY RentalAssumption
  <1> HIDE DEF Rents
  <1> QED
    BY <1>1, <1>2, <1>3, <1>4, SumFollows, SumType

LEMMA InitSolvent == Init => Solvent
  <1> SUFFICES ASSUME Init PROVE Solvent
    OBVIOUS
  <1>1. [i \in Leases |-> Held(i)] = [i \in Leases |-> 0]
    BY DEF Init, Held, NoLease
  <1>2. usdc[Contract] = 0
    BY RentalAssumption DEF Init, Holders
  <1> QED
    BY <1>1, <1>2, SumOfZeros, RentalAssumption DEF Solvent

(* createLease brings in the rent it records.                                 *)
LEMMA CreateSolvent ==
    ASSUME Inv, Inv', Solvent, NEW sender \in Accounts, NEW i \in Leases,
           NEW owner \in Accounts \cup {NoAccount}, NEW amount \in Amounts,
           NEW duration \in Durations, CreateLease(sender, i, owner, amount, duration)
    PROVE  Solvent'
  <1> USE DEF CreateLease
  <1>1. amount \in Nat /\ leases \in [Leases -> Lease]
    BY RentalAssumption DEF Inv, TypeOK
  <1>2. \A j \in Leases \ {i} : leases'[j] = leases[j]
    BY <1>1
  <1>3. Held(i) = 0 /\ Held(i)' = amount
    BY <1>1 DEF Held
  <1>4. usdc'[Contract] = usdc[Contract] + amount
    BY RentalAssumption DEF Inv, TypeOK, Holders
  <1>5. SumOf(Rents) \in Int /\ SumOf(Rents)' = SumOf(Rents) - Held(i) + Held(i)'
    BY <1>2, OneRentMoves DEF Inv
  <1>6. SumOf(Rents)' = SumOf(Rents) + amount
    BY <1>1, <1>3, <1>5
  <1> QED
    BY <1>4, <1>6 DEF Solvent, Rents

(* Ending a lease takes its rent out of the contract, and no more.            *)
LEMMA CloseSolvent ==
    ASSUME Inv, Inv', Solvent, NEW i \in Leases, NEW status \in Ended, NEW p \in Payout,
           leases[i].status = "LOCKED", Total(p) = leases[i].amount, Close(i, status, p)
    PROVE  Solvent'
  <1> USE DEF Close
  <1>1. leases \in [Leases -> Lease]
    BY DEF Inv, TypeOK
  <1>2. \A j \in Leases \ {i} : leases'[j] = leases[j]
    BY <1>1
  <1>3. Held(i) = Total(p) /\ Held(i)' = 0
    BY <1>1 DEF Held, Ended, Lease
  <1>4. usdc'[Contract] = usdc[Contract] - Total(p)
    BY DEF Holders
  <1>5. SumOf(Rents) \in Int /\ SumOf(Rents)' = SumOf(Rents) - Held(i) + Held(i)'
    BY <1>2, OneRentMoves DEF Inv
  <1>6. Total(p) \in Int
    BY DEF Total, Payout
  <1>7. SumOf(Rents)' = SumOf(Rents) - Total(p)
    BY <1>3, <1>5, <1>6
  <1> QED
    BY <1>4, <1>7 DEF Solvent, Rents

LEMMA NextSolvent == Inv /\ Inv' /\ Solvent /\ [Next]_vars => Solvent'
  <1> SUFFICES ASSUME Inv, Inv', Solvent, [Next]_vars PROVE Solvent'
    OBVIOUS
  <1>1. ASSUME NEW sender \in Accounts, NEW i \in Leases, SettleCompletedLease(sender, i)
        PROVE  Solvent'
    <2>1. leases[i] \in Lease /\ leases[i].status = "LOCKED"
      BY <1>1 DEF SettleCompletedLease, MaySettle, Inv, TypeOK
    <2>2. CompletedPayout(leases[i]) \in Payout
          /\ Total(CompletedPayout(leases[i])) = leases[i].amount
      BY <2>1, CompletedIsWhole
    <2> QED
      BY <1>1, <2>1, <2>2, CloseSolvent DEF SettleCompletedLease, Ended
  <1>2. ASSUME NEW sender \in Accounts, NEW i \in Leases, EarlyTerminateRefund(sender, i)
        PROVE  Solvent'
    <2>1. leases[i].status = "LOCKED" /\ Running(leases[i]) /\ now \in Nat
      BY <1>2 DEF EarlyTerminateRefund, MayTerminate, Inv, TypeOK, LeaseInv
    <2>2. TerminationPayout(leases[i]) \in Payout
          /\ Total(TerminationPayout(leases[i])) = leases[i].amount
      BY <2>1, TerminationIsWhole
    <2> QED
      BY <1>2, <2>1, <2>2, CloseSolvent DEF EarlyTerminateRefund, Ended
  <1>3. ASSUME Tick \/ UNCHANGED vars PROVE Solvent'
    <2>1. UNCHANGED <<leases, usdc>>
      BY <1>3 DEF Tick, vars
    <2>2. [i \in Leases |-> Held(i)]' = [i \in Leases |-> Held(i)]
      BY <2>1 DEF Held
    <2> QED
      BY <2>1, <2>2 DEF Solvent
  <1> QED
    BY <1>1, <1>2, <1>3, CreateSolvent DEF Next, LeaseCall

(* The contract holds the rents of its running leases, no less and no more,   *)
(* for any number of them.                                                    *)
THEOREM ContractIsSolvent == Spec => []Solvent
  BY InitSolvent, Invariance, NextSolvent, PTL DEF Spec

(* Neither a settlement nor a termination ever reverts for want of funds.     *)
EveryRentIsThere ==
    \A i \in Leases : leases[i].status = "LOCKED" => leases[i].amount <= usdc[Contract]

THEOREM PayoutsAreCovered == Spec => []EveryRentIsThere
  <1>1. Inv /\ Solvent => EveryRentIsThere
    <2> SUFFICES ASSUME Inv, Solvent, NEW i \in Leases, leases[i].status = "LOCKED"
                 PROVE  leases[i].amount <= usdc[Contract]
      BY DEF EveryRentIsThere
    <2>1. Rents \in [Leases -> Nat]
      BY RentsTyped DEF Inv
    <2>2. Rents[i] = leases[i].amount /\ usdc[Contract] = SumOf(Rents)
      BY DEF Rents, Held, Solvent
    <2> HIDE DEF Rents
    <2> QED
      BY <2>1, <2>2, SumCoversTerms, RentalAssumption
  <1> QED
    BY <1>1, Invariance, ContractIsSolvent, PTL
=============================================================================
