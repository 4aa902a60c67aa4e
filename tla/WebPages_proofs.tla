-------------------------- MODULE WebPages_proofs --------------------------
(***************************************************************************)
(* Theorems about the pages of the web client, each of the page's own      *)
(* specification and for every value of its constants, and then about the  *)
(* client that visits one of them:                                         *)
(*   the checkout dialogs (HireCheckout) for every price, rate, budget and *)
(*   duration: what is booked is what was locked (BookedWithOwnLock),      *)
(*   although nothing in the code compares the two, and a lock reverts     *)
(*   only for a reason (RevertHasCause), although nobody waits for a       *)
(*   receipt;                                                              *)
(*   the publish page (AgentPublish) for any number of transactions,       *)
(*   retries and acts of others: what is listed was cleared and, after a   *)
(*   signature, mined (ListedOnGrounds); what the page announces was       *)
(*   accepted (ConfirmedWasAccepted);                                      *)
(*   the tab's session (ClientSession): at rest it shows the owner of its  *)
(*   token (SessionIsOwn);                                                 *)
(*   the deploy page (DeployConsole): its first deployment is live only    *)
(*   when it runs (FirstLiveIsReal);                                       *)
(*   the creation form (AgentDraft): it leaves for an agent that is stored *)
(*   once and will be built (LeavesForStoredAgent);                        *)
(*   the pages that read: the grid and its page number (MarketBrowse), the *)
(*   playground (AgentProfile), the accounts (ConnectedAccounts), the      *)
(*   users (UserTable), the submissions (ModerationQueue), the end of a    *)
(*   task (TaskWatch) and of a build (BuildConsole) show what the API has. *)
(* Every page's specification keeps its type invariant, and the client's   *)
(* behaviours are behaviours of every page: ClientTypeOK,                  *)
(* QuietPagesAreCurrent and ReportedStays follow.                          *)
(***************************************************************************)
EXTENDS MCWebClient, SequenceTheorems, FiniteSetTheorems, TLAPS

-----------------------------------------------------------------------------
(* The checkout dialogs. *)

Tx == [by : Dialogs, kind : {"approve", "lock"}, amount : Nat]
Booking == [by : Dialogs, amount : Nat, lock : Nat]

\* A dialog amount is a natural: the quotients and products of the quotes are.
LEMMA QuotesAreNatural ==
    ASSUME CheckoutTypeOK, NEW m \in Dialogs
    PROVE  Quote(m) \in Nat
  <1>1. rate \in Nat \ {0} /\ budget \in Nat /\ hours \in Nat /\ Price \in Nat
    BY CheckoutAssumption DEF CheckoutTypeOK
  <1>2. TaskQuote \in Nat
    BY <1>1 DEF TaskQuote
  <1>3. LeaseQuote \in Nat
    BY <1>1 DEF LeaseQuote
  <1> QED
    BY <1>2, <1>3 DEF Quote

LEMMA TypesHoldInitially == CheckoutInit => CheckoutTypeOK
  <1> SUFFICES ASSUME CheckoutInit PROVE CheckoutTypeOK
    OBVIOUS
  <1>1. budget \in Nat /\ hours \in Nat /\ rate \in {DefaultRate, LiveRate} /\ edits \in 0..MaxEdits
    BY CheckoutAssumption DEF CheckoutInit
  <1>2. /\ step \in [Dialogs -> EscrowSteps] /\ busy \in [Dialogs -> BOOLEAN]
        /\ prompt \in [Dialogs -> [kind : {"none", "approve", "lock"}, amount : Nat]]
        /\ call \in [Dialogs -> [amount : Nat, lock : Nat, open : BOOLEAN]]
    BY DEF CheckoutInit, NoPrompt, NoCall, EscrowSteps
  <1>3. booked \in Seq([by : Dialogs, amount : Nat, lock : Nat])
        /\ sent \in Seq([by : Dialogs, kind : {"approve", "lock"}, amount : Nat])
        /\ executed \in 0..Len(sent) /\ allowance \in Nat /\ reverted \subseteq 1..executed
    BY DEF CheckoutInit
  <1>4. /\ connected \in BOOLEAN /\ shown \in Dialogs \cup {"none"} /\ rateAsked \in BOOLEAN
        /\ taskStatus \in {"idle", "QUEUED", "RUNNING"} /\ leased \in BOOLEAN
    BY DEF CheckoutInit
  <1> QED
    BY <1>1, <1>2, <1>3, <1>4 DEF CheckoutTypeOK

\* The broadcast of one more transaction leaves those before it as they are.
LEMMA Broadcast ==
    ASSUME CheckoutTypeOK, NEW x \in Tx, sent' = Append(sent, x)
    PROVE  /\ sent' \in Seq(Tx) /\ Len(sent') = Len(sent) + 1 /\ Len(sent) \in Nat
           /\ \A i \in 1..Len(sent) : sent'[i] = sent[i]
           /\ sent'[Len(sent) + 1] = x
  BY DEF CheckoutTypeOK, Tx

\* So does one more booking.
LEMMA Booked ==
    ASSUME CheckoutTypeOK, NEW m \in Dialogs, Book(m)
    PROVE  /\ booked' \in Seq(Booking) /\ Len(booked') = Len(booked) + 1 /\ Len(booked) \in Nat
           /\ \A i \in 1..Len(booked) : booked'[i] = booked[i]
           /\ booked'[Len(booked) + 1] = [by |-> m, amount |-> call[m].amount, lock |-> call[m].lock]
  <1>1. [by |-> m, amount |-> call[m].amount, lock |-> call[m].lock] \in Booking
    BY DEF CheckoutTypeOK, Booking
  <1> QED
    BY <1>1 DEF CheckoutTypeOK, Book, Booking

ChainTypes ==
    /\ sent \in Seq(Tx) /\ executed \in 0..Len(sent)
    /\ allowance \in Nat /\ reverted \subseteq 1..executed

LEMMA ChainIsTyped == CheckoutTypeOK => ChainTypes
  BY DEF CheckoutTypeOK, ChainTypes, Tx

\* Mining moves on by one transaction, which is there.
LEMMA MiningIsTyped ==
    ASSUME ChainTypes, MineApprove \/ MineLock
    PROVE  ChainTypes' /\ sent[executed + 1] \in Tx /\ executed + 1 \in 1..Len(sent)
  <1>1. /\ executed < Len(sent) /\ executed' = executed + 1 /\ sent' = sent
        /\ reverted' \subseteq reverted \cup {executed + 1}
    BY DEF MineApprove, MineLock
  <1>2. executed \in Nat /\ Len(sent) \in Nat /\ executed + 1 \in 1..Len(sent)
    BY <1>1 DEF ChainTypes
  <1>3. sent[executed + 1] \in Tx
    BY <1>2 DEF ChainTypes
  <1>4. sent[executed + 1].amount \in Nat
    BY <1>3 DEF Tx
  <1>5. allowance' \in Nat
    <2>1. CASE MineApprove
      BY <1>4, <2>1 DEF MineApprove
    <2>2. CASE MineLock
      BY <1>4, <2>2 DEF MineLock, ChainTypes
    <2> QED
      BY <2>1, <2>2
  <1>6. reverted' \subseteq 1..executed'
    BY <1>1, <1>2 DEF ChainTypes
  <1> QED
    BY <1>1, <1>2, <1>3, <1>5, <1>6 DEF ChainTypes

LEMMA TypesAreKept == CheckoutTypeOK /\ [CheckoutNext]_checkoutVars => CheckoutTypeOK'
  <1> SUFFICES ASSUME CheckoutTypeOK, [CheckoutNext]_checkoutVars PROVE CheckoutTypeOK'
    OBVIOUS
  <1> USE CheckoutAssumption DEF CheckoutTypeOK, Dialogs, EscrowSteps, form, chain
  <1>1. CASE CloseDialog
    BY <1>1 DEF CloseDialog, Edit
  <1>2. CASE ToggleWallet
    BY <1>2 DEF ToggleWallet, Edit
  <1>3. ASSUME NEW b \in Budgets, TypeBudget(b) PROVE CheckoutTypeOK'
    BY <1>3 DEF TypeBudget, Edit
  <1>4. ASSUME NEW h \in LeaseHours, PickHours(h) PROVE CheckoutTypeOK'
    BY <1>4 DEF PickHours, Edit
  <1>5. ASSUME NEW m \in Dialogs, OpenDialog(m) PROVE CheckoutTypeOK'
    BY <1>5 DEF OpenDialog
  <1>6. ASSUME NEW m \in Dialogs, ClickApprove(m) PROVE CheckoutTypeOK'
    BY <1>6, QuotesAreNatural DEF ClickApprove, AskWallet
  <1>7. ASSUME NEW m \in Dialogs, ClickLock(m) PROVE CheckoutTypeOK'
    BY <1>7, QuotesAreNatural DEF ClickLock, AskWallet
  <1>8. ASSUME NEW m \in Dialogs, ClickBypass(m) PROVE CheckoutTypeOK'
    BY <1>8, QuotesAreNatural DEF ClickBypass, Post
  <1>9. ASSUME NEW m \in Dialogs, ApproveSent(m) PROVE CheckoutTypeOK'
    <2>1. [by |-> m, kind |-> "approve", amount |-> prompt[m].amount] \in Tx
      BY DEF Tx
    <2>2. sent' \in Seq(Tx) /\ Len(sent') = Len(sent) + 1 /\ Len(sent) \in Nat
      BY <1>9, <2>1, Broadcast DEF ApproveSent
    <2>3. executed' \in 0..Len(sent')
      BY <1>9, <2>2 DEF ApproveSent
    <2>4. /\ prompt' \in [Dialogs -> [kind : {"none", "approve", "lock"}, amount : Nat]]
          /\ step' \in [Dialogs -> EscrowSteps]
      BY <1>9 DEF ApproveSent, NoPrompt
    <2> QED
      BY <1>9, <2>2, <2>3, <2>4 DEF ApproveSent, Tx
  <1>10. ASSUME NEW m \in Dialogs, LockSent(m) PROVE CheckoutTypeOK'
    <2>1. [by |-> m, kind |-> "lock", amount |-> prompt[m].amount] \in Tx
      BY DEF Tx
    <2>2. sent' \in Seq(Tx) /\ Len(sent') = Len(sent) + 1 /\ Len(sent) \in Nat
      BY <1>10, <2>1, Broadcast DEF LockSent
    <2>3. /\ call' \in [Dialogs -> [amount : Nat, lock : Nat, open : BOOLEAN]]
          /\ taskStatus' \in {"idle", "QUEUED", "RUNNING"}
      BY <1>10, <2>2 DEF LockSent, Post
    <2>4. /\ prompt' \in [Dialogs -> [kind : {"none", "approve", "lock"}, amount : Nat]]
          /\ step' \in [Dialogs -> EscrowSteps]
      BY <1>10 DEF LockSent, NoPrompt
    <2>5. executed' \in 0..Len(sent')
      BY <1>10, <2>2 DEF LockSent
    <2> QED
      BY <1>10, <2>2, <2>3, <2>4, <2>5 DEF LockSent, Tx
  <1>11. ASSUME NEW m \in Dialogs, ApproveRefused(m) PROVE CheckoutTypeOK'
    BY <1>11 DEF ApproveRefused, NoPrompt
  <1>12. ASSUME NEW m \in Dialogs, LockRefused(m) PROVE CheckoutTypeOK'
    BY <1>12 DEF LockRefused, NoPrompt
  <1>13. ASSUME NEW m \in Dialogs, PostFailed(m) PROVE CheckoutTypeOK'
    <2>1. booked' \in Seq(Booking)
      BY <1>13, Booked DEF PostFailed, Booking
    <2> QED
      BY <1>13, <2>1 DEF PostFailed, NoCall, Booking
  <1>14. CASE MineApprove
    <2>1. ChainTypes'
      BY <1>14, ChainIsTyped, MiningIsTyped
    <2> QED
      BY <1>14, <2>1 DEF MineApprove, ChainTypes, Tx
  <1>15. CASE MineLock
    <2>1. ChainTypes'
      BY <1>15, ChainIsTyped, MiningIsTyped
    <2> QED
      BY <1>15, <2>1 DEF MineLock, ChainTypes, Tx
  <1>16. CASE TaskCreated
    <2>1. booked' \in Seq(Booking)
      BY <1>16, Booked DEF TaskCreated
    <2> QED
      BY <1>16, <2>1 DEF TaskCreated, NoCall, Booking
  <1>17. CASE LeaseCreated
    <2>1. booked' \in Seq(Booking)
      BY <1>17, Booked DEF LeaseCreated
    <2> QED
      BY <1>17, <2>1 DEF LeaseCreated, NoCall, Booking
  <1>18. CASE LeaseBannerEnds
    BY <1>18 DEF LeaseBannerEnds
  <1>19. CASE RateArrives
    <2>1. Price * LiveRate \in Nat
      BY CheckoutAssumption
    <2> QED
      BY <1>19, <2>1 DEF RateArrives
  <1>20. CASE UNCHANGED checkoutVars
    BY <1>20 DEF checkoutVars
  <1> QED
    BY <1>1, <1>2, <1>3, <1>4, <1>5, <1>6, <1>7, <1>8, <1>9, <1>10, <1>11, <1>12, <1>13,
       <1>14, <1>15, <1>16, <1>17, <1>18, <1>19, <1>20 DEF CheckoutNext

\* Every state of the checkout has its type (CheckoutTypeOK): no amount is negative
\* and nothing is mined before it is broadcast.
THEOREM CheckoutTypes == CheckoutSpec => []CheckoutTypeOK
  BY TypesHoldInitially, TypesAreKept, PTL DEF CheckoutSpec

-----------------------------------------------------------------------------
(* BookedWithOwnLock.                                                      *)

Approves(m, n) == \E j \in 1..n : sent[j].kind = "approve" /\ sent[j].by = m

\* No lock without an approval of its dialog before.
Ordered == \A i \in 1..Len(sent) : sent[i].kind = "lock" => Approves(sent[i].by, i - 1)

\* A dialog that may lock, or whose lock the wallet holds, has approved.
MayLock(m) ==
    (step[m] \in {"approved", "locking", "locked"} \/ prompt[m].kind = "lock") =>
        Approves(m, Len(sent))

LockedAs(lock, m, amount) ==
    /\ lock \in 1..Len(sent)
    /\ sent[lock] = [by |-> m, kind |-> "lock", amount |-> amount]

\* The request under way carries a lock of its dialog that no booking has.
CallCarriesLock(m) ==
    (call[m].open /\ call[m].lock # 0) =>
        /\ LockedAs(call[m].lock, m, call[m].amount)
        /\ \A i \in 1..Len(booked) : booked[i].lock # call[m].lock

LocksBooked == \A i \in 1..Len(booked) : booked[i].lock # 0 =>
    LockedAs(booked[i].lock, booked[i].by, booked[i].amount)

BookedOnce == \A i, j \in 1..Len(booked) :
    i # j /\ booked[i].lock # 0 => booked[i].lock # booked[j].lock

Approvals == Ordered /\ \A m \in Dialogs : MayLock(m)

Bookings ==
    /\ LocksBooked /\ BookedOnce
    /\ \A m \in Dialogs : CallCarriesLock(m)

LockInv == CheckoutTypeOK /\ Approvals /\ Bookings

LEMMA LocksHoldInitially == CheckoutInit => Approvals /\ Bookings
  BY DEF CheckoutInit, Approvals, Bookings, Ordered, LocksBooked, BookedOnce, MayLock,
         CallCarriesLock, NoPrompt, NoCall

\* What was approved or locked before a broadcast still is.
LEMMA BroadcastKeeps ==
    ASSUME CheckoutTypeOK, NEW x \in Tx, sent' = Append(sent, x)
    PROVE  /\ \A m, n : n \in 0..Len(sent) /\ Approves(m, n) => Approves(m, n)'
           /\ \A m : Approves(m, Len(sent)) => Approves(m, Len(sent))'
           /\ \A lock, m, amount : LockedAs(lock, m, amount) => LockedAs(lock, m, amount)'
           /\ x.kind = "approve" => Approves(x.by, Len(sent))'
  <1>1. /\ Len(sent) \in Nat /\ Len(sent') = Len(sent) + 1
        /\ \A i \in 1..Len(sent) : sent'[i] = sent[i]
        /\ sent'[Len(sent) + 1] = x
    BY Broadcast
  <1>2. \A m, n : n \in 0..Len(sent) /\ Approves(m, n) => Approves(m, n)'
    BY <1>1 DEF Approves
  <1>3. \A m : Approves(m, Len(sent)) => Approves(m, Len(sent))'
    BY <1>1 DEF Approves
  <1>4. \A lock, m, amount : LockedAs(lock, m, amount) => LockedAs(lock, m, amount)'
    BY <1>1 DEF LockedAs
  <1>5. x.kind = "approve" => Approves(x.by, Len(sent))'
    BY <1>1 DEF Approves
  <1> QED
    BY <1>2, <1>3, <1>4, <1>5

\* The locks stay in order when one more transaction is broadcast: an approval, or a
\* lock whose dialog has approved.
LEMMA OrderIsKept ==
    ASSUME CheckoutTypeOK, Ordered, NEW x \in Tx, sent' = Append(sent, x),
           x.kind = "lock" => Approves(x.by, Len(sent))
    PROVE  Ordered'
  <1>1. /\ Len(sent) \in Nat /\ Len(sent') = Len(sent) + 1
        /\ \A i \in 1..Len(sent) : sent'[i] = sent[i]
        /\ sent'[Len(sent) + 1] = x
    BY Broadcast
  <1>2. \A m, n : n \in 0..Len(sent) /\ Approves(m, n) => Approves(m, n)'
    BY BroadcastKeeps
  <1> SUFFICES ASSUME NEW i \in 1..Len(sent'), sent'[i].kind = "lock"
               PROVE  Approves(sent[i].by, i - 1)'
    BY DEF Ordered
  <1>3. CASE i \in 1..Len(sent)
    <2>1. Approves(sent[i].by, i - 1) /\ i - 1 \in 0..Len(sent) /\ sent'[i].by = sent[i].by
      BY <1>1, <1>3 DEF Ordered
    <2>2. \E j \in 1..(i - 1) : sent'[j].kind = "approve" /\ sent'[j].by = sent[i].by
      BY <1>1, <2>1 DEF Approves
    <2> QED
      BY <2>1, <2>2 DEF Approves
  <1>4. CASE i = Len(sent) + 1
    <2>1. x.kind = "lock" /\ sent'[i] = x /\ i - 1 = Len(sent)
      BY <1>1, <1>4
    <2>2. \E j \in 1..(i - 1) : sent[j].kind = "approve" /\ sent[j].by = x.by
      BY <2>1 DEF Approves
    <2> QED
      BY <1>1, <2>1, <2>2 DEF Approves
  <1> QED
    BY <1>1, <1>3, <1>4

DialogTypes ==
    /\ step \in [Dialogs -> EscrowSteps]
    /\ prompt \in [Dialogs -> [kind : {"none", "approve", "lock"}, amount : Nat]]

LEMMA ApprovalsAreKept == LockInv /\ [CheckoutNext]_checkoutVars => Approvals'
  <1> SUFFICES ASSUME LockInv, [CheckoutNext]_checkoutVars PROVE Approvals'
    OBVIOUS
  <1>1. CheckoutTypeOK /\ Approvals /\ DialogTypes
    BY DEF LockInv, DialogTypes, CheckoutTypeOK
  <1>2. ASSUME UNCHANGED <<sent, step, prompt>> PROVE Approvals'
    BY <1>1, <1>2 DEF Approvals, Ordered, MayLock, Approves
  <1>3. ASSUME NEW m \in Dialogs, UNCHANGED sent,
               \A d \in Dialogs \ {m} : step'[d] = step[d] /\ prompt'[d] = prompt[d],
               \/ step'[m] \in {"idle", "approving"} /\ prompt'[m].kind # "lock"
               \/ step[m] \in {"approved", "locked"}
               \/ prompt[m].kind = "lock"
        PROVE  Approvals'
    BY <1>1, <1>3 DEF Approvals, Ordered, MayLock, Approves
  <1>4. ASSUME NEW m \in Dialogs, ClickApprove(m) PROVE Approvals'
    <2>1. /\ UNCHANGED sent /\ step'[m] = "approving" /\ prompt'[m].kind # "lock"
          /\ \A d \in Dialogs \ {m} : step'[d] = step[d] /\ prompt'[d] = prompt[d]
      BY <1>1, <1>4 DEF ClickApprove, AskWallet, chain, DialogTypes
    <2> QED
      BY <1>3, <2>1
  <1>5. ASSUME NEW m \in Dialogs, ClickLock(m) PROVE Approvals'
    <2>1. /\ UNCHANGED sent /\ step[m] \in {"approved", "locked"}
          /\ \A d \in Dialogs \ {m} : step'[d] = step[d] /\ prompt'[d] = prompt[d]
      BY <1>1, <1>5 DEF ClickLock, AskWallet, LockOffered, chain, DialogTypes
    <2> QED
      BY <1>3, <2>1
  <1>6. ASSUME NEW m \in Dialogs, ApproveRefused(m) PROVE Approvals'
    <2>1. /\ UNCHANGED sent /\ step'[m] = "idle" /\ prompt'[m].kind # "lock"
          /\ \A d \in Dialogs \ {m} : step'[d] = step[d] /\ prompt'[d] = prompt[d]
      BY <1>1, <1>6 DEF ApproveRefused, NoPrompt, chain, DialogTypes
    <2> QED
      BY <1>3, <2>1
  <1>7. ASSUME NEW m \in Dialogs, LockRefused(m) PROVE Approvals'
    <2>1. /\ UNCHANGED sent /\ prompt[m].kind = "lock"
          /\ \A d \in Dialogs \ {m} : step'[d] = step[d] /\ prompt'[d] = prompt[d]
      BY <1>1, <1>7 DEF LockRefused, NoPrompt, chain, DialogTypes
    <2> QED
      BY <1>3, <2>1
  <1>8. ASSUME NEW m \in Dialogs, ApproveSent(m) PROVE Approvals'
    <2> DEFINE x == [by |-> m, kind |-> "approve", amount |-> prompt[m].amount]
    <2>1. x \in Tx /\ sent' = Append(sent, x) /\ x.kind = "approve" /\ x.by = m
      BY <1>1, <1>8 DEF ApproveSent, DialogTypes, Tx
    <2>2. \A d \in Dialogs \ {m} : step'[d] = step[d] /\ prompt'[d] = prompt[d]
      BY <1>1, <1>8 DEF ApproveSent, DialogTypes
    <2> HIDE DEF x
    <2>3. Ordered'
      BY <1>1, <2>1, OrderIsKept DEF Approvals
    <2>4. /\ \A d : Approves(d, Len(sent)) => Approves(d, Len(sent))'
          /\ Approves(m, Len(sent))'
      BY <1>1, <2>1, BroadcastKeeps
    <2>5. \A d \in Dialogs : MayLock(d)'
      BY <1>1, <2>2, <2>4 DEF Approvals, MayLock
    <2> QED
      BY <2>3, <2>5 DEF Approvals
  <1>9. ASSUME NEW m \in Dialogs, LockSent(m) PROVE Approvals'
    <2> DEFINE x == [by |-> m, kind |-> "lock", amount |-> prompt[m].amount]
    <2>1. x \in Tx /\ sent' = Append(sent, x) /\ x.kind = "lock" /\ x.by = m
      BY <1>1, <1>9 DEF LockSent, DialogTypes, Tx
    <2>2. \A d \in Dialogs \ {m} : step'[d] = step[d] /\ prompt'[d] = prompt[d]
      BY <1>1, <1>9 DEF LockSent, DialogTypes
    <2> HIDE DEF x
    <2>3. Approves(m, Len(sent))
      BY <1>1, <1>9 DEF LockSent, Approvals, MayLock
    <2>4. Ordered'
      BY <1>1, <2>1, <2>3, OrderIsKept DEF Approvals
    <2>5. \A d : Approves(d, Len(sent)) => Approves(d, Len(sent))'
      BY <1>1, <2>1, BroadcastKeeps
    <2>6. \A d \in Dialogs : MayLock(d)'
      BY <1>1, <2>2, <2>3, <2>5 DEF Approvals, MayLock
    <2> QED
      BY <2>4, <2>6 DEF Approvals
  <1>10. CASE CloseDialog \/ ToggleWallet \/ MineApprove \/ MineLock \/ TaskCreated \/ LeaseCreated
              \/ LeaseBannerEnds \/ RateArrives
    BY <1>2, <1>10 DEF CloseDialog, ToggleWallet, MineApprove, MineLock, TaskCreated,
       LeaseCreated, LeaseBannerEnds, RateArrives, chain
  <1>11. ASSUME NEW m \in Dialogs, OpenDialog(m) \/ ClickBypass(m) \/ PostFailed(m) PROVE Approvals'
    BY <1>2, <1>11 DEF OpenDialog, ClickBypass, PostFailed, chain
  <1>12. ASSUME NEW b, TypeBudget(b) \/ PickHours(b) PROVE Approvals'
    BY <1>2, <1>12 DEF TypeBudget, PickHours, chain
  <1>13. CASE UNCHANGED checkoutVars
    BY <1>2, <1>13 DEF checkoutVars
  <1> QED
    BY <1>4, <1>5, <1>6, <1>7, <1>8, <1>9, <1>10, <1>11, <1>12, <1>13 DEF CheckoutNext

CallTypes == call \in [Dialogs -> [amount : Nat, lock : Nat, open : BOOLEAN]]

\* A dialog's request becomes a booking: its lock, if any, is its own and unused.
LEMMA BookingIsOwn ==
    ASSUME LockInv, NEW m \in Dialogs, call[m].open, UNCHANGED sent, Book(m),
           call' = [call EXCEPT ![m] = NoCall]
    PROVE  Bookings'
  <1> DEFINE b == [by |-> m, amount |-> call[m].amount, lock |-> call[m].lock]
  <1>1. /\ Len(booked) \in Nat /\ Len(booked') = Len(booked) + 1
        /\ \A i \in 1..Len(booked) : booked'[i] = booked[i]
        /\ booked'[Len(booked) + 1] = b
    BY Booked DEF LockInv
  <1>2. CallTypes /\ LocksBooked /\ BookedOnce /\ \A d \in Dialogs : CallCarriesLock(d)
    BY DEF LockInv, CheckoutTypeOK, CallTypes, Bookings
  <1>3. b.by = m /\ b.amount = call[m].amount /\ b.lock = call[m].lock
    OBVIOUS
  <1>4. b.lock # 0 => /\ LockedAs(b.lock, b.by, b.amount)
                      /\ \A i \in 1..Len(booked) : booked[i].lock # b.lock
    BY <1>2, <1>3 DEF CallCarriesLock
  <1> HIDE DEF b
  <1>5. LocksBooked'
    BY <1>1, <1>2, <1>4 DEF LocksBooked, LockedAs
  <1>6. BookedOnce'
    BY <1>1, <1>2, <1>4 DEF BookedOnce
  <1>7. ASSUME NEW d \in Dialogs, call'[d].open, call'[d].lock # 0 PROVE CallCarriesLock(d)'
    <2>1. d # m /\ call'[d] = call[d]
      BY <1>2, <1>7 DEF CallTypes, NoCall
    <2>2. /\ LockedAs(call[d].lock, d, call[d].amount)
          /\ \A i \in 1..Len(booked) : booked[i].lock # call[d].lock
      BY <1>2, <1>7, <2>1 DEF CallCarriesLock
    <2>3. b.lock # call[d].lock
      <3>1. b.lock # 0 => sent[b.lock].by = m
        BY <1>3, <1>4 DEF LockedAs
      <3>2. sent[call[d].lock].by = d
        BY <2>2 DEF LockedAs
      <3> QED
        BY <1>7, <2>1, <3>1, <3>2
    <2> QED
      BY <1>1, <2>1, <2>2, <2>3 DEF CallCarriesLock, LockedAs
  <1> QED
    BY <1>5, <1>6, <1>7 DEF Bookings, CallCarriesLock

LEMMA BookingsAreKept == LockInv /\ [CheckoutNext]_checkoutVars => Bookings'
  <1> SUFFICES ASSUME LockInv, [CheckoutNext]_checkoutVars PROVE Bookings'
    OBVIOUS
  <1>1. CheckoutTypeOK /\ Bookings /\ CallTypes
    BY DEF LockInv, CallTypes, CheckoutTypeOK
  <1>2. ASSUME UNCHANGED <<sent, booked, call>> PROVE Bookings'
    BY <1>1, <1>2 DEF Bookings, LocksBooked, BookedOnce, CallCarriesLock, LockedAs
  <1>3. ASSUME NEW m \in Dialogs, ApproveSent(m) PROVE Bookings'
    <2> DEFINE x == [by |-> m, kind |-> "approve", amount |-> prompt[m].amount]
    <2>1. x \in Tx /\ sent' = Append(sent, x) /\ UNCHANGED <<booked, call>>
      BY <1>1, <1>3 DEF ApproveSent, CheckoutTypeOK, Tx
    <2> HIDE DEF x
    <2>2. \A lock, d, amount : LockedAs(lock, d, amount) => LockedAs(lock, d, amount)'
      BY <1>1, <2>1, BroadcastKeeps
    <2> QED
      BY <1>1, <2>1, <2>2 DEF Bookings, LocksBooked, BookedOnce, CallCarriesLock
  <1>4. ASSUME NEW m \in Dialogs, LockSent(m) PROVE Bookings'
    <2> DEFINE x == [by |-> m, kind |-> "lock", amount |-> prompt[m].amount]
    <2>1. x \in Tx /\ sent' = Append(sent, x) /\ UNCHANGED booked
      BY <1>1, <1>4 DEF LockSent, CheckoutTypeOK, Tx
    <2>2. call' = [call EXCEPT ![m] =
                     [amount |-> prompt[m].amount, lock |-> Len(sent) + 1, open |-> TRUE]]
      BY <1>4 DEF LockSent, Post
    <2>3. /\ call'[m].amount = prompt[m].amount /\ call'[m].lock = Len(sent) + 1
          /\ \A d \in Dialogs \ {m} : call'[d] = call[d]
      BY <1>1, <2>2 DEF CallTypes
    <2>4. x = [by |-> m, kind |-> "lock", amount |-> call'[m].amount]
      BY <2>3
    <2>5. /\ Len(sent) \in Nat /\ Len(sent') = Len(sent) + 1 /\ sent'[Len(sent) + 1] = x
      BY <1>1, <2>1, Broadcast
    <2>6. \A lock, d, amount : LockedAs(lock, d, amount) => LockedAs(lock, d, amount)'
      BY <1>1, <2>1, BroadcastKeeps
    <2> HIDE DEF x
    <2>7. CallCarriesLock(m)'
      <3>1. LockedAs(call[m].lock, m, call[m].amount)'
        BY <2>3, <2>4, <2>5 DEF LockedAs
      <3>2. \A i \in 1..Len(booked) : booked[i].lock # Len(sent) + 1
        <4>1. Len(sent) + 1 # 0 /\ Len(sent) + 1 \notin 1..Len(sent)
          BY <2>5
        <4>2. \A i \in 1..Len(booked) : booked[i].lock # 0 => booked[i].lock \in 1..Len(sent)
          BY <1>1 DEF Bookings, LocksBooked, LockedAs
        <4> QED
          BY <4>1, <4>2
      <3> QED
        BY <2>1, <2>3, <3>1, <3>2 DEF CallCarriesLock
    <2>8. \A d \in Dialogs \ {m} : CallCarriesLock(d)'
      BY <1>1, <2>1, <2>3, <2>6 DEF Bookings, CallCarriesLock
    <2>9. (LocksBooked /\ BookedOnce)'
      BY <1>1, <2>1, <2>6 DEF Bookings, LocksBooked, BookedOnce
    <2> QED
      BY <2>7, <2>8, <2>9 DEF Bookings
  <1>5. ASSUME NEW m \in Dialogs, UNCHANGED <<sent, booked>>,
               \A d \in Dialogs \ {m} : call'[d] = call[d], call'[m].lock = 0
        PROVE  Bookings'
    BY <1>1, <1>5 DEF Bookings, LocksBooked, BookedOnce, CallCarriesLock, LockedAs
  <1>6. ASSUME NEW m \in Dialogs, ClickBypass(m) PROVE Bookings'
    <2>1. /\ UNCHANGED <<sent, booked>> /\ call'[m].lock = 0
          /\ \A d \in Dialogs \ {m} : call'[d] = call[d]
      BY <1>1, <1>6 DEF ClickBypass, Post, CallTypes, chain
    <2> QED
      BY <1>5, <2>1
  <1>7. ASSUME NEW m \in Dialogs, PostFailed(m) PROVE Bookings'
    <2>1. UNCHANGED sent /\ call[m].open /\ call' = [call EXCEPT ![m] = NoCall]
          /\ (UNCHANGED booked \/ Book(m))
      BY <1>7 DEF PostFailed, chain
    <2>2. call'[m].lock = 0 /\ \A d \in Dialogs \ {m} : call'[d] = call[d]
      BY <1>1, <2>1 DEF CallTypes, NoCall
    <2> QED
      BY <1>5, <2>1, <2>2, BookingIsOwn
  <1>8. CASE TaskCreated \/ LeaseCreated
    BY <1>8, BookingIsOwn DEF TaskCreated, LeaseCreated, chain, Dialogs
  <1>9. CASE CloseDialog \/ ToggleWallet \/ MineApprove \/ MineLock \/ LeaseBannerEnds
             \/ RateArrives
    BY <1>2, <1>9 DEF CloseDialog, ToggleWallet, MineApprove, MineLock, LeaseBannerEnds,
       RateArrives, chain
  <1>10. ASSUME NEW m \in Dialogs, OpenDialog(m) \/ ClickApprove(m) \/ ClickLock(m)
                                   \/ ApproveRefused(m) \/ LockRefused(m)
         PROVE  Bookings'
    BY <1>2, <1>10 DEF OpenDialog, ClickApprove, ClickLock, ApproveRefused, LockRefused, chain
  <1>11. ASSUME NEW b, TypeBudget(b) \/ PickHours(b) PROVE Bookings'
    BY <1>2, <1>11 DEF TypeBudget, PickHours, chain
  <1>12. CASE UNCHANGED checkoutVars
    BY <1>2, <1>12 DEF checkoutVars
  <1> QED
    BY <1>3, <1>4, <1>6, <1>7, <1>8, <1>9, <1>10, <1>11, <1>12 DEF CheckoutNext

LEMMA LockInvGivesProperty == LockInv => BookedWithOwnLock
  <1> SUFFICES ASSUME LockInv PROVE BookedWithOwnLock
    OBVIOUS
  <1>1. /\ DOMAIN sent = 1..Len(sent) /\ DOMAIN booked = 1..Len(booked)
        /\ Ordered /\ LocksBooked /\ BookedOnce
    BY DEF LockInv, CheckoutTypeOK, Approvals, Bookings
  <1>2. ApprovedBeforeLocked
    BY <1>1 DEF ApprovedBeforeLocked, Ordered, Approves
  <1>3. \A i \in DOMAIN booked : booked[i].lock # 0 =>
          /\ booked[i].lock \in DOMAIN sent
          /\ sent[booked[i].lock] =
                [by |-> booked[i].by, kind |-> "lock", amount |-> booked[i].amount]
    BY <1>1 DEF LocksBooked, LockedAs
  <1>4. \A i, j \in DOMAIN booked :
          i # j /\ booked[i].lock # 0 => booked[i].lock # booked[j].lock
    BY <1>1 DEF BookedOnce
  <1> QED
    BY <1>2, <1>3, <1>4 DEF BookedWithOwnLock

\* What is booked with a wallet is what its dialog locked after approving, and no lock
\* pays for two bookings, for every price, rate and budget (BookedWithOwnLock).
THEOREM LocksAreBookedOnce == CheckoutSpec => []BookedWithOwnLock
  <1>1. CheckoutInit => LockInv
    BY TypesHoldInitially, LocksHoldInitially DEF LockInv
  <1>2. LockInv /\ [CheckoutNext]_checkoutVars => LockInv'
    BY TypesAreKept, ApprovalsAreKept, BookingsAreKept DEF LockInv
  <1> QED
    BY <1>1, <1>2, LockInvGivesProperty, PTL DEF CheckoutSpec

-----------------------------------------------------------------------------
(* RevertHasCause.                                                         *)

\* After an approval is mined, the allowance is what it set: approve does not add.
AllowanceIsLast ==
    executed > 0 /\ sent[executed].kind = "approve" => allowance = sent[executed].amount

ReasonInv == LockInv /\ AllowanceIsLast /\ RevertHasCause

LEMMA ReasonsHoldInitially == CheckoutInit => AllowanceIsLast /\ RevertHasCause
  BY DEF CheckoutInit, AllowanceIsLast, RevertHasCause

\* A broadcast does not touch what was mined.
LEMMA ReasonsSurviveBroadcast ==
    ASSUME ReasonInv, NEW x \in Tx, sent' = Append(sent, x),
           UNCHANGED <<executed, allowance, reverted>>
    PROVE  AllowanceIsLast' /\ RevertHasCause'
  <1>1. CheckoutTypeOK /\ ChainTypes /\ AllowanceIsLast /\ RevertHasCause
    BY ChainIsTyped DEF ReasonInv, LockInv
  <1>2. /\ Len(sent) \in Nat /\ \A i \in 1..Len(sent) : sent'[i] = sent[i]
    BY <1>1, Broadcast
  <1>3. executed \in Nat /\ executed <= Len(sent) /\ reverted \subseteq 1..Len(sent)
    BY <1>1, <1>2 DEF ChainTypes
  <1>4. AllowanceIsLast'
    BY <1>1, <1>2, <1>3 DEF AllowanceIsLast
  <1>5. RevertHasCause'
    <2> SUFFICES ASSUME NEW i \in reverted
                 PROVE  /\ i > 1
                        /\ \/ \E j \in 1..(i - 1) :
                                 sent'[j].by # sent'[i].by \/ sent'[j].kind = "lock"
                           \/ sent'[i - 1].amount < sent'[i].amount
      BY DEF RevertHasCause
    <2>1. /\ i > 1 /\ i \in 1..Len(sent)
          /\ \/ \E j \in 1..(i - 1) : sent[j].by # sent[i].by \/ sent[j].kind = "lock"
             \/ sent[i - 1].amount < sent[i].amount
      BY <1>1, <1>3 DEF RevertHasCause
    <2>2. \A j \in 1..i : sent'[j] = sent[j]
      BY <1>2, <2>1
    <2> QED
      BY <1>2, <2>1, <2>2
  <1> QED
    BY <1>4, <1>5

\* The one case that matters: the next transaction is a lock, and the allowance does
\* not cover it.
LEMMA RevertingLockHasCause ==
    ASSUME ChainTypes, Ordered, AllowanceIsLast, executed < Len(sent),
           sent[executed + 1].kind = "lock", ~(sent[executed + 1].amount <= allowance)
    PROVE  LET i == executed + 1
           IN  /\ i > 1
               /\ \/ \E j \in 1..(i - 1) : sent[j].by # sent[i].by \/ sent[j].kind = "lock"
                  \/ sent[i - 1].amount < sent[i].amount
  <1> DEFINE i == executed + 1
  <1>1. executed \in Nat /\ i \in 1..Len(sent) /\ i - 1 = executed
    BY DEF ChainTypes
  <1>2. PICK j \in 1..executed : sent[j].kind = "approve"
    BY <1>1 DEF Ordered, Approves
  <1>3. executed \in 1..Len(sent) /\ i > 1
    BY <1>1, <1>2
  <1>4. sent[executed] \in Tx /\ sent[i] \in Tx
    BY <1>1, <1>3 DEF ChainTypes
  <1>5. CASE sent[executed].kind = "lock"
    BY <1>1, <1>3, <1>5
  <1>6. CASE sent[executed].kind = "approve"
    <2>1. allowance = sent[executed].amount
      BY <1>3, <1>6 DEF AllowanceIsLast
    <2>2. sent[executed].amount \in Nat /\ sent[i].amount \in Nat
      BY <1>4 DEF Tx
    <2>3. sent[executed].amount < sent[i].amount
      BY <2>1, <2>2
    <2> QED
      BY <1>1, <1>3, <2>3
  <1> QED
    BY <1>4, <1>5, <1>6 DEF Tx

LEMMA ReasonsAreKept ==
    ReasonInv /\ [CheckoutNext]_checkoutVars => AllowanceIsLast' /\ RevertHasCause'
  <1> SUFFICES ASSUME ReasonInv, [CheckoutNext]_checkoutVars
               PROVE  AllowanceIsLast' /\ RevertHasCause'
    OBVIOUS
  <1>1. CheckoutTypeOK /\ ChainTypes /\ Ordered /\ AllowanceIsLast /\ RevertHasCause
    BY ChainIsTyped DEF ReasonInv, LockInv, Approvals
  <1>2. ASSUME UNCHANGED chain PROVE AllowanceIsLast' /\ RevertHasCause'
    BY <1>1, <1>2 DEF AllowanceIsLast, RevertHasCause, chain
  <1>3. ASSUME NEW m \in Dialogs, ApproveSent(m) \/ LockSent(m)
        PROVE  AllowanceIsLast' /\ RevertHasCause'
    <2>1. CASE ApproveSent(m)
      <3>1. /\ [by |-> m, kind |-> "approve", amount |-> prompt[m].amount] \in Tx
            /\ sent' = Append(sent, [by |-> m, kind |-> "approve", amount |-> prompt[m].amount])
            /\ UNCHANGED <<executed, allowance, reverted>>
        BY <1>1, <2>1 DEF ApproveSent, CheckoutTypeOK, Tx
      <3> QED
        BY <3>1, ReasonsSurviveBroadcast
    <2>2. CASE LockSent(m)
      <3>1. /\ [by |-> m, kind |-> "lock", amount |-> prompt[m].amount] \in Tx
            /\ sent' = Append(sent, [by |-> m, kind |-> "lock", amount |-> prompt[m].amount])
            /\ UNCHANGED <<executed, allowance, reverted>>
        BY <1>1, <2>2 DEF LockSent, CheckoutTypeOK, Tx
      <3> QED
        BY <3>1, ReasonsSurviveBroadcast
    <2> QED
      BY <1>3, <2>1, <2>2
  <1>4. CASE MineApprove
    BY <1>1, <1>4 DEF MineApprove, AllowanceIsLast, RevertHasCause
  <1>5. CASE MineLock
    <2>1. executed \in Nat /\ executed' = executed + 1 /\ sent' = sent
          /\ executed < Len(sent) /\ sent[executed + 1].kind = "lock"
      BY <1>1, <1>5 DEF MineLock, ChainTypes
    <2>2. AllowanceIsLast'
      BY <2>1 DEF AllowanceIsLast
    <2>3. \/ reverted' = reverted
          \/ reverted' = reverted \cup {executed + 1} /\ ~(sent[executed + 1].amount <= allowance)
      BY <1>5 DEF MineLock
    <2>4. RevertHasCause'
      <3> SUFFICES ASSUME NEW i \in reverted'
                   PROVE  /\ i > 1
                          /\ \/ \E j \in 1..(i - 1) :
                                   sent[j].by # sent[i].by \/ sent[j].kind = "lock"
                             \/ sent[i - 1].amount < sent[i].amount
        BY <2>1 DEF RevertHasCause
      <3>1. CASE i \in reverted
        BY <1>1, <3>1 DEF RevertHasCause
      <3>2. CASE i = executed + 1 /\ ~(sent[executed + 1].amount <= allowance)
        BY <1>1, <2>1, <3>2, RevertingLockHasCause
      <3> QED
        BY <2>3, <3>1, <3>2
    <2> QED
      BY <2>2, <2>4
  <1>6. CASE CloseDialog \/ ToggleWallet \/ TaskCreated \/ LeaseCreated \/ LeaseBannerEnds
             \/ RateArrives
    BY <1>2, <1>6 DEF CloseDialog, ToggleWallet, TaskCreated, LeaseCreated, LeaseBannerEnds,
       RateArrives
  <1>7. ASSUME NEW m \in Dialogs, OpenDialog(m) \/ ClickApprove(m) \/ ClickLock(m)
               \/ ClickBypass(m) \/ ApproveRefused(m) \/ LockRefused(m) \/ PostFailed(m)
        PROVE  AllowanceIsLast' /\ RevertHasCause'
    BY <1>2, <1>7 DEF OpenDialog, ClickApprove, ClickLock, ClickBypass, ApproveRefused,
       LockRefused, PostFailed
  <1>8. ASSUME NEW b, TypeBudget(b) \/ PickHours(b) PROVE AllowanceIsLast' /\ RevertHasCause'
    BY <1>2, <1>8 DEF TypeBudget, PickHours
  <1>9. CASE UNCHANGED checkoutVars
    BY <1>2, <1>9 DEF checkoutVars, chain
  <1> QED
    BY <1>3, <1>4, <1>5, <1>6, <1>7, <1>8, <1>9 DEF CheckoutNext

\* A lock reverts only when the user could tell why, although no receipt is awaited,
\* for every price, rate, budget and duration (RevertHasCause).
THEOREM RevertsAreExplained == CheckoutSpec => []RevertHasCause
  <1>1. CheckoutInit => ReasonInv
    BY TypesHoldInitially, LocksHoldInitially, ReasonsHoldInitially DEF LockInv, ReasonInv
  <1>2. ReasonInv /\ [CheckoutNext]_checkoutVars => ReasonInv'
    BY TypesAreKept, ApprovalsAreKept, BookingsAreKept, ReasonsAreKept DEF LockInv, ReasonInv
  <1>3. ReasonInv => RevertHasCause
    BY DEF ReasonInv
  <1> QED
    BY <1>1, <1>2, <1>3, PTL DEF CheckoutSpec

-----------------------------------------------------------------------------
(* The publish page. *)

TxStates == {"pending", "mined", "reverted"}

Mined(t) == t \in 1..Len(txs) /\ txs[t] = "mined"

\* The receipts the page has are of its transactions; the listing that follows a
\* signature has a mined one.
ReceiptInv ==
    /\ txs \in Seq(TxStates) /\ seen \subseteq 1..Len(txs)
    /\ final \in [tx : Nat, call : Call]
    /\ final.call # "none" => Mined(final.tx)

\* Every status from which an agent can be listed follows a validation, a review or a
\* build.
ClearedInv ==
    status \in {"VALIDATED", "PENDING_REVIEW", "APPROVED", "PUBLISHED", "PAUSED"} => cleared

\* Everything from which the page can announce a publication follows an accepted one.
AcceptedInv ==
    /\ status \in {"PUBLISHED", "PAUSED"} => accepted
    /\ isPublished \/ direct = "ok" \/ final.call = "ok" \/ publishStep = "confirmed" => accepted

PublishInv == ReceiptInv /\ ClearedInv /\ AcceptedInv

LEMMA PublishInvInitially == PublishInit => PublishInv
  <1> SUFFICES ASSUME PublishInit PROVE PublishInv
    OBVIOUS
  <1>1. txs = <<>> /\ seen = {} /\ final = NoFinal /\ final.call = "none"
    BY DEF PublishInit, NoFinal
  <1>2. ReceiptInv
    BY <1>1 DEF ReceiptInv, NoFinal, NoTx, Call, TxStates
  <1>3. /\ status \in {"DRAFT", "PUBLISHED"}
        /\ status = "PUBLISHED" => cleared /\ accepted
        /\ ~isPublished /\ direct = "none" /\ publishStep = "idle"
    BY DEF PublishInit
  <1>4. ClearedInv /\ AcceptedInv
    BY <1>1, <1>3 DEF ClearedInv, AcceptedInv
  <1> QED
    BY <1>2, <1>4 DEF PublishInv

\* Broadcasting and mining keep what was mined.
LEMMA MinedStays ==
    ASSUME txs \in Seq(TxStates), Sign \/ \E t \in DOMAIN txs : Mine(t)
    PROVE  /\ txs' \in Seq(TxStates) /\ Len(txs') \in Nat /\ Len(txs) \in Nat
           /\ Len(txs') >= Len(txs)
           /\ \A t : Mined(t) => Mined(t)'
  <1>1. CASE Sign
    <2>1. txs' = Append(txs, "pending") /\ "pending" \in TxStates
      BY <1>1 DEF Sign, TxStates
    <2>2. /\ txs' \in Seq(TxStates) /\ Len(txs') = Len(txs) + 1 /\ Len(txs) \in Nat
          /\ \A t \in 1..Len(txs) : txs'[t] = txs[t]
      BY <2>1
    <2> QED
      BY <2>2 DEF Mined
  <1>2. ASSUME NEW t \in DOMAIN txs, Mine(t) PROVE /\ txs' \in Seq(TxStates) /\ Len(txs') = Len(txs)
                                                   /\ \A u : Mined(u) => Mined(u)'
    <2>1. PICK result \in {"mined", "reverted"} : txs' = [txs EXCEPT ![t] = result]
      BY <1>2 DEF Mine
    <2>2. txs[t] = "pending" /\ t \in 1..Len(txs)
      BY <1>2 DEF Mine
    <2>3. txs' \in Seq(TxStates) /\ Len(txs') = Len(txs)
      BY <2>1, <2>2 DEF TxStates
    <2>4. \A u \in 1..Len(txs) : u # t => txs'[u] = txs[u]
      BY <2>1
    <2> QED
      BY <2>2, <2>3, <2>4 DEF Mined
  <1>3. Len(txs) \in Nat
    BY LenProperties
  <1> QED
    BY <1>1, <1>2, <1>3

LEMMA ReceiptsAreKept == PublishInv /\ [PublishNext]_publishVars => ReceiptInv'
  <1> SUFFICES ASSUME PublishInv, [PublishNext]_publishVars PROVE ReceiptInv'
    OBVIOUS
  <1>1. ReceiptInv
    BY DEF PublishInv
  <1>2. ASSUME UNCHANGED <<txs, seen, final>> PROVE ReceiptInv'
    BY <1>1, <1>2 DEF ReceiptInv, Mined
  <1>3. ASSUME Sign \/ \E t \in DOMAIN txs : Mine(t) PROVE ReceiptInv'
    <2>1. UNCHANGED <<seen, final>>
      BY <1>3 DEF Sign, Mine, button
    <2> QED
      BY <1>1, <1>3, <2>1, MinedStays DEF ReceiptInv
  <1>4. CASE Render
    <2>1. UNCHANGED <<txs, seen>>
      BY <1>4 DEF Render
    <2>2. CASE MinedSync
      <3>1. final' = [tx |-> activeTx, call |-> "asked"]
        BY <1>4, <2>2 DEF Render
      <3>2. activeTx \in seen /\ txs[activeTx] = "mined"
        BY <2>2 DEF MinedSync, Confirmed, Receipt, ReceiptOf
      <3>3. activeTx \in 1..Len(txs) /\ activeTx \in Nat
        BY <1>1, <3>2 DEF ReceiptInv
      <3> QED
        BY <1>1, <2>1, <3>1, <3>2, <3>3 DEF ReceiptInv, Mined, Call
    <2>3. CASE ~MinedSync
      BY <1>2, <1>4, <2>1, <2>3 DEF Render
    <2> QED
      BY <2>2, <2>3
  <1>5. CASE FinalServed
    <2>1. PICK answer \in {"ok", "error"} : final' = [final EXCEPT !.call = answer]
      BY <1>5 DEF FinalServed
    <2>2. final.call # "none" /\ UNCHANGED <<txs, seen>>
      BY <1>5 DEF FinalServed
    <2> QED
      BY <1>1, <2>1, <2>2 DEF ReceiptInv, Mined, Call
  <1>6. CASE FinalAnswered
    BY <1>1, <1>6 DEF FinalAnswered, ReceiptInv, NoFinal, NoTx, Call
  <1>7. ASSUME NEW t \in DOMAIN txs, ReceiptPolled(t) PROVE ReceiptInv'
    <2>1. UNCHANGED <<txs, final>> /\ seen' = seen \cup {t} /\ t \in 1..Len(txs)
      BY <1>1, <1>7 DEF ReceiptPolled, ReceiptInv, button
    <2> QED
      BY <1>1, <2>1 DEF ReceiptInv, Mined
  <1>8. CASE PageLoads \/ AuditAnswered \/ DirectAnswered \/ FaucetAnswered \/ ClickAudit
             \/ ClickDirect \/ ChangeNet \/ ClickSign \/ Refuse \/ Retry \/ ClickFaucet
    BY <1>2, <1>8 DEF PageLoads, AuditAnswered, DirectAnswered, FaucetAnswered, ClickAudit,
       ClickDirect, ChangeNet, ClickSign, Refuse, Retry, ClickFaucet, button
  <1>9. CASE ValidateServed \/ RemedyServed \/ DirectServed \/ Others
    BY <1>2, <1>9 DEF ValidateServed, RemedyServed, DirectServed, Others, button
  <1>10. CASE UNCHANGED publishVars
    BY <1>2, <1>10 DEF publishVars, button
  <1> QED
    BY <1>3, <1>4, <1>5, <1>6, <1>7, <1>8, <1>9, <1>10 DEF PublishNext, Machine, ApiAnswers

\* What the API may do to the agent's row, whoever asks.
LEMMA OthersKeepRow ==
    ASSUME ClearedInv, status \in {"PUBLISHED", "PAUSED"} => accepted, Others
    PROVE  ClearedInv' /\ (status' \in {"PUBLISHED", "PAUSED"} => accepted') /\ UNCHANGED accepted
  BY DEF Others, Submit, Approve, TakeDown, PauseOrResume, BuildSucceeds, EditPermissions,
     NewVersion, ClearedInv

LEMMA PublishKeepsRow ==
    ASSUME ClearedInv, status \in {"PUBLISHED", "PAUSED"} => accepted,
           NEW hash, NEW answer, Publish(hash, answer)
    PROVE  /\ ClearedInv' /\ (status' \in {"PUBLISHED", "PAUSED"} => accepted')
           /\ accepted => accepted'
           /\ answer = "ok" => accepted'
  BY DEF Publish, Publishable, ClearedInv, agentRow

LEMMA RowIsKept == PublishInv /\ [PublishNext]_publishVars => ClearedInv' /\ AcceptedInv'
  <1> SUFFICES ASSUME PublishInv, [PublishNext]_publishVars PROVE ClearedInv' /\ AcceptedInv'
    OBVIOUS
  <1>1. ReceiptInv /\ ClearedInv /\ AcceptedInv
    BY DEF PublishInv
  <1>2. ASSUME UNCHANGED agentRow,
               isPublished' \/ direct' = "ok" \/ final'.call = "ok" \/ publishStep' = "confirmed"
                  => isPublished \/ direct = "ok" \/ final.call = "ok" \/ publishStep = "confirmed"
        PROVE  ClearedInv' /\ AcceptedInv'
    BY <1>1, <1>2 DEF ClearedInv, AcceptedInv, agentRow
  <1>3. CASE Others
    BY <1>1, <1>3, OthersKeepRow DEF Others, AcceptedInv, sheet, button
  <1>4. CASE ValidateServed
    BY <1>1, <1>4 DEF ValidateServed, ClearedInv, AcceptedInv, sheet, button
  <1>5. CASE RemedyServed
    BY <1>1, <1>5 DEF RemedyServed, ClearedInv, AcceptedInv, sheet, button
  <1>6. CASE DirectServed
    <2>1. PICK answer \in {"ok", "error"} : direct' = answer /\ Publish(directTx, answer)
      BY <1>6 DEF DirectServed
    <2>2. UNCHANGED <<isPublished, final, publishStep>>
      BY <1>6 DEF DirectServed, sheet
    <2> QED
      BY <1>1, <2>1, <2>2, PublishKeepsRow DEF AcceptedInv
  <1>7. CASE FinalServed
    <2>1. PICK answer \in {"ok", "error"} : final' = [final EXCEPT !.call = answer]
                                          /\ Publish(final.tx, answer)
      BY <1>7 DEF FinalServed
    <2>2. final'.call = answer
      BY <1>1, <2>1 DEF ReceiptInv
    <2>3. UNCHANGED <<isPublished, direct, publishStep>>
      BY <1>7 DEF FinalServed, sheet
    <2> QED
      BY <1>1, <2>1, <2>2, <2>3, PublishKeepsRow DEF AcceptedInv
  <1>8. CASE Render
    <2>1. UNCHANGED <<agentRow, isPublished, direct>>
      BY <1>8 DEF Render, sheet
    <2>2. final'.call = "ok" => final.call = "ok"
      BY <1>8 DEF Render
    <2>3. publishStep' = "confirmed" => publishStep = "confirmed" \/ isPublished
      BY <1>8 DEF Render, PublishedSync
    <2> QED
      BY <1>2, <2>1, <2>2, <2>3
  <1>9. CASE PageLoads
    <2>1. UNCHANGED <<agentRow, direct, final>> /\ (isPublished' <=> status = "PUBLISHED")
          /\ (publishStep' = "confirmed" => isPublished')
      BY <1>9 DEF PageLoads
    <2> QED
      BY <1>1, <2>1 DEF ClearedInv, AcceptedInv, agentRow
  <1>10. CASE DirectAnswered \/ FinalAnswered
    BY <1>2, <1>10 DEF DirectAnswered, FinalAnswered, Listed, NoFinal
  <1>11. CASE FaucetAnswered \/ ClickDirect \/ ClickSign \/ Sign \/ Refuse \/ Retry
    BY <1>2, <1>11 DEF FaucetAnswered, ClickDirect, ClickSign, Sign, Refuse, Retry, sheet
  <1>12. CASE AuditAnswered \/ ClickAudit \/ ChangeNet \/ ClickFaucet
    BY <1>2, <1>12 DEF AuditAnswered, ClickAudit, ChangeNet, ClickFaucet, sheet, button
  <1>13. ASSUME NEW t, Mine(t) \/ ReceiptPolled(t) PROVE ClearedInv' /\ AcceptedInv'
    BY <1>2, <1>13 DEF Mine, ReceiptPolled, sheet, button
  <1>14. CASE UNCHANGED publishVars
    BY <1>2, <1>14 DEF publishVars, sheet, button
  <1> QED
    BY <1>3, <1>4, <1>5, <1>6, <1>7, <1>8, <1>9, <1>10, <1>11, <1>12, <1>13, <1>14
       DEF PublishNext, Machine, ApiAnswers

LEMMA PublishInvHolds == PublishSpec => []PublishInv
  <1>1. PublishInv /\ [PublishNext]_publishVars => PublishInv'
    BY ReceiptsAreKept, RowIsKept DEF PublishInv
  <1> QED
    BY <1>1, PublishInvInitially, PTL DEF PublishSpec

\* What is listed was cleared, and a listing that follows a signature carries a
\* transaction that was mined, for any number of retries and acts of others
\* (ListedOnGrounds).
THEOREM ListingHasGrounds == PublishSpec => []ListedOnGrounds
  <1>1. PublishInv => ListedOnGrounds
    BY DEF PublishInv, ReceiptInv, ClearedInv, ListedOnGrounds, FinalizedWasMined,
       ListedWasCleared, Mined
  <1> QED
    BY <1>1, PublishInvHolds, PTL

\* "Agent Published" is shown only after the API accepted a publication
\* (ConfirmedWasAccepted).
THEOREM AnnouncedIsAccepted == PublishSpec => []ConfirmedWasAccepted
  <1>1. PublishInv => ConfirmedWasAccepted
    BY DEF PublishInv, AcceptedInv, ConfirmedWasAccepted
  <1> QED
    BY <1>1, PublishInvHolds, PTL
(* The sign-in state of a tab.  Token and user may differ while handlers   *)
(* are under way; which handlers can be, at one time, is what keeps the    *)
(* last of them from leaving a foreign token behind.                       *)

FlowSet ==
    [kind : SignInKinds \cup {"refresh", "logout", "profile", "page"},
     stage : {"nonce", "sign", "verify", "me", "post"},
     n : 0..(MaxSignIns + MaxVisits), who : Users \cup {Nobody}, tok : 0..Len(sessions),
     got : {"nothing", "ok", "unauthorized", "failed"}, session : 0..Len(sessions)]
SessionRow == [owner : Users, valid : BOOLEAN, by : 0..MaxSignIns]

\* The tab is held up by the handlers that tell it who the user is.
TellsUser(f) == f.kind \in SignInKinds \cup {"refresh"}
FlowOk(f) ==
    /\ f.kind = "refresh" => f.stage = "me"
    /\ f.kind = "siwe" => f.stage \in {"nonce", "sign", "verify", "me"}
    /\ f.kind \in {"password", "register"} => f.stage \in {"post", "me"}
    /\ f.kind \in {"logout", "profile", "page"} => f.stage = "post"
    /\ f.kind \in SignInKinds => f.who \in Users
    /\ f.stage = "me" => f.tok # 0
    /\ AsksSession(f) /\ f.got = "ok" => f.session # 0
    /\ f.kind = "profile" /\ f.got = "ok" => f.tok # 0
FlowsOk == \A f \in flows : FlowOk(f)

\* A sign-in is known by its number; none that was given up has a session.
Numbered ==
    /\ \A f \in flows : f.kind \in SignInKinds => f.n \in 1..signIns /\ f.n \notin givenUp
    /\ \A f, g \in flows :
          f.kind \in SignInKinds /\ g.kind \in SignInKinds /\ f.n = g.n => f = g
    /\ \A f \in flows, s \in DOMAIN sessions :
          f.stage \in {"nonce", "sign"} => sessions[s].by # f.n
    /\ \A s \in DOMAIN sessions : sessions[s].by <= signIns /\ sessions[s].by \notin givenUp
    /\ givenUp \subseteq 1..signIns

\* While the page stays, one handler at most tells it the user.  Until it has, there is
\* no user and no token but the handler's; afterwards the token is the user's.
Matches == (user = Nobody => token = 0) /\ (user # Nobody /\ token # 0 => sessions[token].owner = user)
OneTells == \A f, g \in flows : TellsUser(f) /\ TellsUser(g) => f = g
TellerAlone ==
    \A f \in flows : TellsUser(f) =>
        loading /\ user = Nobody /\ (IF f.stage = "me" THEN token \in {0, f.tok} ELSE token = 0)
UsersCalls ==
    /\ \A f \in flows : f.kind \in {"logout", "profile"} => user # Nobody
    /\ \A f \in flows : f.kind = "profile" /\ f.tok # 0 => sessions[f.tok].owner = user
Calm ==
    leaving = "no" =>
        OneTells /\ TellerAlone /\ UsersCalls /\ ((\A f \in flows : ~TellsUser(f)) => Matches)

TabInv == SessionTypeOK /\ FlowsOk /\ Numbered /\ Calm

LEMMA TabTypes ==
    ASSUME SessionTypeOK
    PROVE  /\ flows \subseteq FlowSet /\ sessions \in Seq(SessionRow)
           /\ Len(sessions) \in Nat /\ DOMAIN sessions = 1..Len(sessions)
           /\ token \in 0..Len(sessions) /\ signIns \in Nat /\ acts \in Nat
           /\ MaxSignIns \in Nat /\ MaxVisits \in Nat
           /\ signIns <= MaxSignIns /\ acts <= MaxVisits
           /\ \A s \in DOMAIN sessions : sessions[s].owner \in Users /\ sessions[s].by \in Nat
  <1>1. /\ flows \subseteq FlowSet /\ sessions \in Seq(SessionRow)
        /\ MaxSignIns \in Nat /\ MaxVisits \in Nat
        /\ token \in 0..Len(sessions) /\ signIns \in 0..MaxSignIns /\ acts \in 0..MaxVisits
    BY SessionAssumption DEF SessionTypeOK, FlowSet, SessionRow
  <1>2. \A s \in DOMAIN sessions : sessions[s] \in SessionRow
    BY <1>1
  <1>3. \A row \in SessionRow : row.owner \in Users /\ row.by \in Nat
    BY <1>1 DEF SessionRow
  <1> QED
    BY <1>1, <1>2, <1>3

LEMMA TabInvInitially == SessionInit => TabInv
  <1> SUFFICES ASSUME SessionInit PROVE TabInv
    OBVIOUS
  <1>1. /\ sessions \in Seq(SessionRow) /\ Len(sessions) \in {0, 1}
        /\ \A s \in DOMAIN sessions : sessions[s].by = 0
    <2>1. CASE sessions = <<>>
      BY <2>1
    <2>2. CASE sessions # <<>>
      <3>1. PICK u \in Users, v \in BOOLEAN : sessions = <<[owner |-> u, valid |-> v, by |-> 0]>>
        BY <2>2 DEF SessionInit
      <3>2. [owner |-> u, valid |-> v, by |-> 0] \in SessionRow
        BY SessionAssumption DEF SessionRow
      <3> QED
        BY <3>1, <3>2
    <2> QED
      BY <2>1, <2>2
  <1>2. /\ token = Len(sessions) /\ user = Nobody /\ loading = (token # 0) /\ leaving = "no"
        /\ flows = IF token = 0 THEN {} ELSE {Flow("refresh", "me", 0, Nobody, token)}
        /\ signIns = 0 /\ acts = 0 /\ givenUp = {} /\ path \in Paths
    BY DEF SessionInit, Paths
  <1>3. MaxSignIns \in Nat /\ MaxVisits \in Nat
    BY SessionAssumption
  <1>4. flows \subseteq FlowSet
    BY <1>1, <1>2, <1>3 DEF FlowSet, Flow
  <1>5. SessionTypeOK
    BY <1>1, <1>2, <1>3, <1>4 DEF SessionTypeOK, FlowSet, SessionRow, Paths
  <1>6. FlowsOk
    BY <1>2 DEF FlowsOk, FlowOk, Flow, AsksSession, SignInKinds
  <1>7. Numbered
    BY <1>1, <1>2 DEF Numbered, Flow, SignInKinds
  <1>8. Calm
    <2>1. TellerAlone /\ UsersCalls /\ OneTells
      <3>1. \A f \in flows : f.kind = "refresh" /\ f.stage = "me" /\ f.tok = token /\ token # 0
        BY <1>2 DEF Flow
      <3>2. TellerAlone
        BY <1>2, <3>1 DEF TellerAlone
      <3> QED
        BY <1>2, <3>1, <3>2 DEF UsersCalls, OneTells
    <2>2. (\A f \in flows : ~TellsUser(f)) => Matches
      BY <1>2 DEF Matches, TellsUser, Flow
    <2> QED
      BY <2>1, <2>2 DEF Calm
  <1> QED
    BY <1>5, <1>6, <1>7, <1>8 DEF TabInv

\* The page load.
LEMMA TabLoadsKeeps ==
    ASSUME TabInv, TabLoads
    PROVE  TabInv'
  <1>1. /\ token' = token /\ user' = Nobody /\ path' = leaving /\ leaving' = "no"
        /\ loading' = (token # 0)
        /\ flows' = IF token = 0 THEN {} ELSE {Flow("refresh", "me", 0, Nobody, token)}
        /\ UNCHANGED <<signIns, acts, sessions, givenUp>> /\ leaving # "no"
    BY DEF TabLoads, LoadedTab, counters
  <1>2. SessionTypeOK /\ Numbered
    BY DEF TabInv
  <1>3. flows' \subseteq FlowSet
    BY <1>1, <1>2, TabTypes DEF FlowSet, Flow
  <1>4. SessionTypeOK'
    BY <1>1, <1>2, <1>3 DEF SessionTypeOK, FlowSet
  <1>5. FlowsOk'
    BY <1>1 DEF FlowsOk, FlowOk, Flow, AsksSession, SignInKinds
  <1>6. Numbered'
    BY <1>1, <1>2 DEF Numbered, Flow, SignInKinds
  <1>7. Calm'
    <2>1. TellerAlone' /\ UsersCalls' /\ OneTells'
      <3>1. \A f \in flows' : f.kind = "refresh" /\ f.stage = "me" /\ f.tok = token /\ token # 0
        BY <1>1 DEF Flow
      <3>2. TellerAlone'
        BY <1>1, <3>1 DEF TellerAlone
      <3> QED
        BY <1>1, <3>1, <3>2 DEF UsersCalls, OneTells
    <2>2. (\A f \in flows' : ~TellsUser(f)) => Matches'
      BY <1>1 DEF Matches, TellsUser, Flow
    <2> QED
      BY <2>1, <2>2 DEF Calm
  <1> QED
    BY <1>4, <1>5, <1>6, <1>7 DEF TabInv

\* Links and redirects tell nobody anything.
LEMMA NavigationKeeps ==
    ASSUME TabInv, Redirect \/ \E p \in Paths : FollowLink(p)
    PROVE  TabInv'
  <1>1. UNCHANGED <<token, user, loading, flows, signIns, sessions, givenUp>>
    BY DEF Redirect, FollowLink, counters
  <1>2. leaving' = "no" => leaving = "no"
    BY DEF Redirect, FollowLink
  <1>3. path' \in Paths /\ leaving' \in Paths \cup {"no"} /\ acts' \in 0..MaxVisits
    BY SessionAssumption DEF TabInv, SessionTypeOK, Redirect, FollowLink, Home, Paths, counters
  <1>4. SessionTypeOK'
    BY <1>1, <1>3 DEF TabInv, SessionTypeOK
  <1>5. FlowsOk' /\ Numbered'
    BY <1>1 DEF TabInv, FlowsOk, Numbered
  <1>6. Calm'
    BY <1>1, <1>2 DEF TabInv, Calm, OneTells, TellerAlone, UsersCalls, Matches
  <1> QED
    BY <1>4, <1>5, <1>6 DEF TabInv

\* One more handler under way.
LEMMA FlowAdded ==
    ASSUME SessionTypeOK, NEW g \in FlowSet, flows' = flows \cup {g},
           UNCHANGED <<token, user, path, leaving, sessions, givenUp>>, loading' \in BOOLEAN,
           signIns' \in 0..MaxSignIns, acts' \in 0..MaxVisits
    PROVE  SessionTypeOK'
  BY DEF SessionTypeOK, FlowSet

\* A sign-in begins where nobody is signed in and no handler is to tell the user.
LEMMA SignInKeeps ==
    ASSUME TabInv, NEW u \in Users, ClickSiwe(u) \/ SubmitPassword(u) \/ SubmitRegister(u)
    PROVE  TabInv'
  <1>1. PICK kind \in SignInKinds, stage \in {"nonce", "post"} :
            StartSignIn(kind, stage, u) /\ (kind = "siwe" <=> stage = "nonce")
    BY DEF ClickSiwe, SubmitPassword, SubmitRegister, SignInKinds
  <1> DEFINE g == Flow(kind, stage, signIns + 1, u, token)
  <1>2. /\ leaving = "no" /\ signIns < MaxSignIns /\ signIns' = signIns + 1 /\ loading' = TRUE
        /\ flows' = flows \cup {g}
        /\ UNCHANGED <<token, user, path, leaving, acts, sessions, givenUp>>
    BY <1>1 DEF StartSignIn, Usable
  <1>3. /\ SessionTypeOK /\ FlowsOk /\ Numbered
        /\ OneTells /\ TellerAlone /\ UsersCalls /\ ((\A f \in flows : ~TellsUser(f)) => Matches)
    BY <1>2 DEF TabInv, Calm
  <1>4. ~loading
    BY DEF ClickSiwe, SubmitPassword, SubmitRegister, SiweOffered, PasswordOffered,
       RegisterOffered
  <1>5. \A f \in flows : ~TellsUser(f)
    BY <1>3, <1>4 DEF TellerAlone
  <1>6. user = Nobody
    <2>1. CASE ClickSiwe(u)
      BY <2>1 DEF ClickSiwe, SiweOffered, Authenticated
    <2>2. CASE SubmitPassword(u)
      <3>1. path = "login" /\ ~Redirecting(path)
        BY <2>2 DEF SubmitPassword, PasswordOffered, StartSignIn, Usable
      <3>2. \A f \in flows : f.kind # "password"
        BY <1>5 DEF TellsUser, SignInKinds
      <3> QED
        BY <1>4, <3>1, <3>2 DEF Redirecting, Authenticated
    <2>3. CASE SubmitRegister(u)
      BY <2>3 DEF SubmitRegister, RegisterOffered, StartSignIn, Usable, Redirecting, Authenticated
    <2> QED
      BY <2>1, <2>2, <2>3
  <1>7. token = 0
    BY <1>3, <1>5, <1>6 DEF Matches
  <1>8. /\ g.kind = kind /\ g.stage = stage /\ g.n = signIns + 1 /\ g.got = "nothing"
        /\ g.who \in Users /\ g \in FlowSet
    BY <1>2, <1>3, TabTypes DEF Flow, FlowSet
  <1> HIDE DEF g
  <1>9. SessionTypeOK'
    <2>1. signIns' \in 0..MaxSignIns /\ acts' \in 0..MaxVisits
      BY <1>2, <1>3, TabTypes
    <2> QED
      BY <1>2, <1>3, <1>8, <2>1, FlowAdded
  <1>10. FlowsOk'
    <2>1. FlowOk(g)
      BY <1>1, <1>8 DEF FlowOk, SignInKinds
    <2> QED
      BY <1>2, <1>3, <2>1 DEF FlowsOk
  <1>11. Numbered'
    <2>1. signIns \in Nat /\ \A s \in DOMAIN sessions : sessions[s].by \in Nat
      BY <1>3, TabTypes
    <2>2. g.n \notin givenUp /\ \A s \in DOMAIN sessions : sessions[s].by # g.n
      BY <1>3, <1>8, <2>1 DEF Numbered
    <2>3. \A f \in flows : f.kind \notin SignInKinds
      BY <1>5 DEF TellsUser
    <2> QED
      BY <1>2, <1>3, <1>8, <2>1, <2>2, <2>3 DEF Numbered
  <1>12. Calm'
    <2>1. OneTells'
      BY <1>2, <1>5 DEF OneTells
    <2>2. TellerAlone'
      BY <1>1, <1>2, <1>5, <1>6, <1>7, <1>8 DEF TellerAlone
    <2>3. UsersCalls'
      BY <1>1, <1>2, <1>3, <1>8 DEF UsersCalls, SignInKinds
    <2>4. TellsUser(g)
      BY <1>1, <1>8 DEF TellsUser
    <2> QED
      BY <1>2, <2>1, <2>2, <2>3, <2>4 DEF Calm
  <1> QED
    BY <1>9, <1>10, <1>11, <1>12 DEF TabInv

\* A call of a page, and the calls of a user who is signed in.
LEMMA CallKeeps ==
    ASSUME TabInv, ClickLogout \/ SaveName \/ PageCall
    PROVE  TabInv'
  <1>1. PICK kind \in {"logout", "profile", "page"} :
            /\ StartCall(kind) /\ (kind # "page" => user # Nobody)
            /\ loading' \in {TRUE, loading}
    BY DEF ClickLogout, SaveName, PageCall, Authenticated
  <1> DEFINE g == Flow(kind, "post", MaxSignIns + acts + 1, Nobody, token)
  <1>2. /\ leaving = "no" /\ acts < MaxVisits /\ acts' = acts + 1
        /\ flows' = flows \cup {g}
        /\ UNCHANGED <<token, user, path, leaving, signIns, sessions, givenUp>>
    BY <1>1 DEF StartCall, Usable
  <1>3. /\ SessionTypeOK /\ FlowsOk /\ Numbered
        /\ OneTells /\ TellerAlone /\ UsersCalls /\ ((\A f \in flows : ~TellsUser(f)) => Matches)
    BY <1>2 DEF TabInv, Calm
  <1>4. /\ g.kind = kind /\ g.stage = "post" /\ g.got = "nothing" /\ g.tok = token
        /\ g \in FlowSet /\ ~TellsUser(g) /\ g.kind \notin SignInKinds
    BY <1>2, <1>3, TabTypes DEF Flow, FlowSet, TellsUser, SignInKinds
  <1> HIDE DEF g
  <1>5. SessionTypeOK'
    <2>1. signIns' \in 0..MaxSignIns /\ acts' \in 0..MaxVisits
      BY <1>2, <1>3, TabTypes
    <2>2. loading' \in BOOLEAN
      BY <1>1, <1>3 DEF SessionTypeOK
    <2> QED
      BY <1>2, <1>3, <1>4, <2>1, <2>2, FlowAdded
  <1>6. FlowsOk'
    <2>1. FlowOk(g)
      BY <1>1, <1>4 DEF FlowOk, SignInKinds, AsksSession
    <2> QED
      BY <1>2, <1>3, <2>1 DEF FlowsOk
  <1>7. Numbered'
    BY <1>2, <1>3, <1>4 DEF Numbered
  <1>8. Calm'
    <2>1. OneTells'
      BY <1>2, <1>3, <1>4 DEF OneTells
    <2>2. TellerAlone'
      <3>1. loading => loading'
        BY <1>1
      <3> QED
        BY <1>2, <1>3, <1>4, <3>1 DEF TellerAlone
    <2>3. (\A f \in flows' : ~TellsUser(f)) => Matches'
      BY <1>2, <1>3, <1>4 DEF Matches
    <2>4. UsersCalls'
      <3>1. CASE kind = "page"
        BY <1>2, <1>3, <1>4, <3>1 DEF UsersCalls
      <3>2. CASE kind # "page"
        <4>1. user # Nobody /\ \A f \in flows : ~TellsUser(f)
          BY <1>1, <1>3, <3>2 DEF TellerAlone
        <4>2. token # 0 => sessions[token].owner = user
          BY <1>3, <4>1 DEF Matches
        <4> QED
          BY <1>2, <1>3, <1>4, <4>1, <4>2 DEF UsersCalls
      <3> QED
        BY <3>1, <3>2
    <2> QED
      BY <2>1, <2>2, <2>3, <2>4 DEF Calm
  <1> QED
    BY <1>5, <1>6, <1>7, <1>8 DEF TabInv

\* Sessions are added and end; whose they are never changes.
SessionsGrow ==
    /\ sessions' \in Seq(SessionRow) /\ Len(sessions') >= Len(sessions)
    /\ \A s \in DOMAIN sessions : s \in DOMAIN sessions'
          /\ sessions'[s].owner = sessions[s].owner /\ sessions'[s].by = sessions[s].by

LEMMA SessionEnds ==
    ASSUME SessionTypeOK, NEW s \in DOMAIN sessions,
           sessions' = [sessions EXCEPT ![s].valid = FALSE]
    PROVE  SessionsGrow /\ Len(sessions') = Len(sessions)
  <1>1. sessions \in Seq(SessionRow) /\ sessions[s] \in SessionRow
    BY TabTypes
  <1>2. [sessions[s] EXCEPT !.valid = FALSE] \in SessionRow
    BY <1>1 DEF SessionRow
  <1>3. sessions' = [sessions EXCEPT ![s] = [sessions[s] EXCEPT !.valid = FALSE]]
    OBVIOUS
  <1>4. sessions' \in Seq(SessionRow) /\ Len(sessions') = Len(sessions)
    BY <1>1, <1>2, <1>3
  <1>5. ASSUME NEW i \in DOMAIN sessions
        PROVE  /\ i \in DOMAIN sessions'
               /\ sessions'[i].owner = sessions[i].owner /\ sessions'[i].by = sessions[i].by
    <2>1. DOMAIN sessions' = DOMAIN sessions
      BY <1>3
    <2>2. CASE i = s
      <3>1. sessions'[i] = [sessions[s] EXCEPT !.valid = FALSE]
        BY <1>3, <2>2
      <3> QED
        BY <1>1, <2>1, <2>2, <3>1 DEF SessionRow
    <2>3. CASE i # s
      BY <1>3, <2>1, <2>3
    <2> QED
      BY <2>2, <2>3
  <1> QED
    BY <1>1, <1>4, <1>5, TabTypes DEF SessionsGrow

LEMMA FlowSetGrows ==
    ASSUME SessionTypeOK, SessionsGrow
    PROVE  FlowSet \subseteq FlowSet' /\ token \in 0..Len(sessions')
  <1>1. Len(sessions) \in Nat /\ Len(sessions') \in Nat /\ Len(sessions') >= Len(sessions)
        /\ token \in 0..Len(sessions)
    BY TabTypes DEF SessionsGrow
  <1>2. 0..Len(sessions) \subseteq 0..Len(sessions')
    BY <1>1
  <1> QED
    BY <1>1, <1>2 DEF FlowSet

LEMMA ExpiryKeeps ==
    ASSUME TabInv, NEW s \in DOMAIN sessions, Expire(s)
    PROVE  TabInv'
  <1>1. UNCHANGED <<token, user, loading, path, leaving, flows, signIns, acts, givenUp>>
    BY DEF Expire, thisTab, counters
  <1>2. /\ SessionTypeOK /\ FlowsOk /\ Numbered /\ Calm
        /\ SessionsGrow /\ Len(sessions') = Len(sessions)
    BY SessionEnds DEF TabInv, Expire
  <1>3. DOMAIN sessions' = DOMAIN sessions /\ flows \subseteq FlowSet /\ token \in 0..Len(sessions)
        /\ DOMAIN sessions = 1..Len(sessions)
    BY <1>2, TabTypes DEF SessionsGrow
  <1>4. SessionTypeOK'
    BY <1>1, <1>2 DEF SessionTypeOK, SessionsGrow, SessionRow
  <1>5. FlowsOk' /\ Numbered'
    BY <1>1, <1>2, <1>3 DEF FlowsOk, Numbered, SessionsGrow
  <1>6. \A i \in 0..Len(sessions) : i # 0 => sessions'[i].owner = sessions[i].owner
    BY <1>2, <1>3, TabTypes DEF SessionsGrow
  <1>7. \A f \in flows : f.tok \in 0..Len(sessions)
    BY <1>3 DEF FlowSet
  <1>8. Matches => Matches'
    BY <1>1, <1>3, <1>6 DEF Matches
  <1>9. UsersCalls => UsersCalls'
    BY <1>1, <1>6, <1>7 DEF UsersCalls
  <1>10. Calm'
    BY <1>1, <1>2, <1>8, <1>9 DEF Calm, OneTells, TellerAlone
  <1> QED
    BY <1>4, <1>5, <1>10 DEF TabInv

-----------------------------------------------------------------------------
(* A handler that goes on, and one that ends. *)

LEMMA FlowGoesOn ==
    ASSUME FlowsOk, Numbered, NEW f \in flows, NEW g, FlowOk(g), g.kind = f.kind, g.n = f.n,
           g.stage \in {"nonce", "sign"} => f.stage \in {"nonce", "sign"},
           flows' = (flows \ {f}) \cup {g}, UNCHANGED <<signIns, sessions, givenUp>>
    PROVE  FlowsOk' /\ Numbered'
  <1>1. FlowsOk'
    BY DEF FlowsOk
  <1>2. \A h \in flows' : h.kind \in SignInKinds => h.n \in 1..signIns /\ h.n \notin givenUp
    BY DEF Numbered
  <1>3. \A h, i \in flows' :
           h.kind \in SignInKinds /\ i.kind \in SignInKinds /\ h.n = i.n => h = i
    BY DEF Numbered
  <1>4. \A h \in flows', s \in DOMAIN sessions :
           h.stage \in {"nonce", "sign"} => sessions[s].by # h.n
    BY DEF Numbered
  <1> QED
    BY <1>1, <1>2, <1>3, <1>4 DEF Numbered

LEMMA FlowEnds ==
    ASSUME FlowsOk, Numbered, flows' \subseteq flows, UNCHANGED <<signIns, sessions, givenUp>>
    PROVE  FlowsOk' /\ Numbered'
  BY DEF FlowsOk, Numbered

\* What is told when keeps its order: a handler that goes on tells nobody anything yet.
LEMMA GoingOnIsCalm ==
    ASSUME SessionTypeOK, SessionsGrow, Calm, NEW f \in flows, NEW g, g.kind = f.kind,
           g.stage = "me" \/ f.stage = "me" => g.stage = f.stage /\ g.tok = f.tok,
           f.kind = "profile" => g.tok = f.tok,
           flows' = (flows \ {f}) \cup {g}, UNCHANGED thisTab
    PROVE  Calm'
  <1> SUFFICES ASSUME leaving = "no"
               PROVE  /\ OneTells' /\ TellerAlone' /\ UsersCalls'
                      /\ (\A h \in flows' : ~TellsUser(h)) => Matches'
    BY DEF Calm, thisTab
  <1>1. OneTells /\ TellerAlone /\ UsersCalls /\ ((\A h \in flows : ~TellsUser(h)) => Matches)
    BY DEF Calm
  <1>2. UNCHANGED <<token, user, loading, leaving>>
    BY DEF thisTab
  <1>3. TellsUser(g) = TellsUser(f)
    BY DEF TellsUser
  <1>4. OneTells'
    BY <1>1, <1>3 DEF OneTells
  <1>5. TellerAlone'
    <2>1. ASSUME NEW h \in flows', TellsUser(h)
          PROVE  loading /\ user = Nobody /\ (IF h.stage = "me" THEN token \in {0, h.tok} ELSE token = 0)
      <3>1. CASE h = g
        BY <1>1, <1>3, <2>1, <3>1 DEF TellerAlone
      <3>2. CASE h \in flows
        BY <1>1, <2>1, <3>2 DEF TellerAlone
      <3> QED
        BY <3>1, <3>2
    <2> QED
      BY <1>2, <2>1 DEF TellerAlone
  <1>6. \A i \in 0..Len(sessions) : i # 0 => sessions'[i].owner = sessions[i].owner
    BY TabTypes DEF SessionsGrow
  <1>7. UsersCalls'
    <2>1. \A h \in flows : h.tok \in 0..Len(sessions)
      BY TabTypes DEF FlowSet
    <2>2. \A h \in flows' : h.kind \in {"logout", "profile"} => user # Nobody
      BY <1>1 DEF UsersCalls
    <2>3. ASSUME NEW h \in flows', h.kind = "profile", h.tok # 0
          PROVE  sessions'[h.tok].owner = user
      <3>1. PICK i \in flows : i.kind = "profile" /\ i.tok = h.tok
        BY <2>3
      <3>2. sessions[h.tok].owner = user /\ h.tok \in 0..Len(sessions)
        BY <1>1, <2>1, <2>3, <3>1 DEF UsersCalls
      <3> QED
        BY <1>6, <2>3, <3>2
    <2> QED
      BY <1>2, <2>2, <2>3 DEF UsersCalls
  <1>8. (\A h \in flows' : ~TellsUser(h)) => Matches'
    <2>1. SUFFICES ASSUME \A h \in flows' : ~TellsUser(h) PROVE Matches'
      OBVIOUS
    <2>2. Matches
      BY <1>1, <1>3, <2>1
    <2> QED
      BY <1>2, <1>6, <2>2, TabTypes DEF Matches
  <1> QED
    BY <1>4, <1>5, <1>7, <1>8

\* A sign-in that fails before it has a token leaves nobody and nothing.
LEMMA GivingUpIsCalm ==
    ASSUME Calm, NEW f \in flows, TellsUser(f), f.stage # "me", flows' = flows \ {f},
           token' \in {0, token}, UNCHANGED <<user, leaving, sessions>>
    PROVE  Calm'
  <1> SUFFICES ASSUME leaving = "no"
               PROVE  OneTells' /\ TellerAlone' /\ UsersCalls' /\ Matches'
    BY DEF Calm
  <1>1. OneTells /\ TellerAlone /\ UsersCalls
    BY DEF Calm
  <1>2. user = Nobody /\ token' = 0
    BY <1>1 DEF TellerAlone
  <1>3. \A h \in flows' : ~TellsUser(h)
    BY <1>1 DEF OneTells
  <1> QED
    BY <1>1, <1>2, <1>3 DEF OneTells, TellerAlone, UsersCalls, Matches

LEMMA FlowTypesKept ==
    ASSUME SessionTypeOK, NEW f \in flows, NEW g \in FlowSet, flows' \subseteq (flows \ {f}) \cup {g},
           token' \in 0..Len(sessions), loading' \in BOOLEAN, givenUp' \subseteq 1..MaxSignIns,
           UNCHANGED <<user, path, leaving, counters, sessions>>
    PROVE  SessionTypeOK'
  BY DEF SessionTypeOK, FlowSet, counters

\* The states a handler's record passes through.
AnswerKinds == {"nothing", "ok", "unauthorized", "failed"}
LEMMA FlowRecords ==
    ASSUME NEW f \in FlowSet, NEW got \in AnswerKinds, NEW g, g = [f EXCEPT !.got = got]
    PROVE  /\ g \in FlowSet /\ g.got = got /\ g.kind = f.kind /\ g.stage = f.stage
           /\ g.n = f.n /\ g.who = f.who /\ g.tok = f.tok /\ g.session = f.session
  BY DEF FlowSet, AnswerKinds

\* The API answers a request made with a token; a log-out ends the session.
LEMMA ServeKeeps ==
    ASSUME TabInv, NEW f \in flows, Serve(f)
    PROVE  TabInv'
  <1>1. PICK got \in {"failed", "ok", "unauthorized"} :
            /\ Served(f, got)
            /\ got = "ok" => f.stage = "nonce" \/ Valid(f.tok)
    BY DEF Serve
  <1> DEFINE g == [f EXCEPT !.got = got]
  <1>10. g = [f EXCEPT !.got = got]
    OBVIOUS
  <1>4. flows' = (flows \ {f}) \cup {g}
    BY <1>1 DEF Served
  <1> HIDE DEF g
  <1>2. /\ SessionTypeOK /\ FlowsOk /\ Numbered /\ Calm /\ f \in FlowSet
        /\ f.got = "nothing" /\ f.stage # "sign" /\ ~AsksSession(f)
        /\ UNCHANGED <<thisTab, counters, givenUp>>
    BY TabTypes DEF TabInv, Serve
  <1>3. /\ g \in FlowSet /\ g.got = got /\ g.kind = f.kind /\ g.stage = f.stage
        /\ g.n = f.n /\ g.who = f.who /\ g.tok = f.tok /\ g.session = f.session
    <2>1. got \in AnswerKinds
      BY <1>1 DEF AnswerKinds
    <2> QED
      BY <1>2, <1>10, <2>1, FlowRecords
  <1>5. SessionsGrow /\ Len(sessions') = Len(sessions) /\ DOMAIN sessions' = DOMAIN sessions
    <2>1. CASE f.kind = "logout" /\ f.stage = "post" /\ Valid(f.tok)
      <3>1. f.tok \in DOMAIN sessions
        BY <1>2, <2>1, TabTypes DEF Valid, FlowSet
      <3>2. sessions' = [sessions EXCEPT ![f.tok].valid = FALSE]
        BY <2>1 DEF Serve
      <3>3. SessionsGrow /\ Len(sessions') = Len(sessions)
        BY <1>2, <3>1, <3>2, SessionEnds
      <3> QED
        BY <3>2, <3>3
    <2>2. CASE ~(f.kind = "logout" /\ f.stage = "post" /\ Valid(f.tok))
      BY <1>2, <2>2, TabTypes DEF Serve, SessionsGrow
    <2> QED
      BY <2>1, <2>2
  <1>6. FlowOk(g)
    <2>1. FlowOk(f)
      BY <1>2 DEF FlowsOk
    <2>2. f.kind = "profile" => f.stage = "post"
      BY <2>1 DEF FlowOk
    <2>3. ~AsksSession(g)
      BY <1>2, <1>3 DEF AsksSession
    <2>4. g.kind = "profile" /\ g.got = "ok" => g.tok # 0
      BY <1>1, <1>3, <2>2 DEF Valid
    <2> QED
      BY <1>3, <2>1, <2>3, <2>4 DEF FlowOk
  <1>7. FlowsOk' /\ Numbered'
    <2>1. FlowsOk'
      BY <1>2, <1>4, <1>6 DEF FlowsOk
    <2>2. \A h \in flows' : \E i \in flows : i.kind = h.kind /\ i.n = h.n /\ i.stage = h.stage
      BY <1>3, <1>4
    <2>3. \A s \in DOMAIN sessions' : sessions'[s].by = sessions[s].by
      BY <1>5 DEF SessionsGrow
    <2>4. UNCHANGED <<signIns, givenUp>>
      BY <1>2 DEF counters
    <2>5. \A h, i \in flows' :
             h.kind \in SignInKinds /\ i.kind \in SignInKinds /\ h.n = i.n => h = i
      BY <1>2, <1>3, <1>4 DEF Numbered
    <2>6. \A h \in flows' : h.kind \in SignInKinds => h.n \in 1..signIns /\ h.n \notin givenUp
      BY <1>2, <2>2 DEF Numbered
    <2>7. \A h \in flows', s \in DOMAIN sessions' :
             h.stage \in {"nonce", "sign"} => sessions'[s].by # h.n
      BY <1>2, <1>5, <2>2, <2>3 DEF Numbered
    <2>8. \A s \in DOMAIN sessions' : sessions'[s].by <= signIns /\ sessions'[s].by \notin givenUp
      BY <1>2, <1>5, <2>3 DEF Numbered
    <2>9. givenUp \subseteq 1..signIns
      BY <1>2 DEF Numbered
    <2> QED
      BY <2>1, <2>4, <2>5, <2>6, <2>7, <2>8, <2>9 DEF Numbered
  <1>8. Calm'
    BY <1>2, <1>3, <1>4, <1>5, GoingOnIsCalm
  <1>9. SessionTypeOK'
    BY <1>2, <1>3, <1>4, <1>5 DEF SessionTypeOK, SessionsGrow, FlowSet, SessionRow, thisTab, counters
  <1> QED
    BY <1>7, <1>8, <1>9 DEF TabInv

\* A handler that asks for a session is a sign-in.
LEMMA AskersSignIn ==
    ASSUME NEW f, FlowOk(f), f.kind \in SignInKinds \cup {"refresh", "logout", "profile", "page"}
    PROVE  /\ AsksSession(f) \/ f.stage \in {"nonce", "sign"} =>
                 f.kind \in SignInKinds /\ TellsUser(f) /\ f.stage # "me"
           /\ f.stage \in {"nonce", "sign", "verify"} => f.kind = "siwe"
           /\ f.stage = "me" => TellsUser(f)
  BY DEF FlowOk, AsksSession, TellsUser, SignInKinds

\* A sign-in gets a session of its own, or an error.
LEMMA ServeSignInKeeps ==
    ASSUME TabInv, NEW f \in flows, ServeSignIn(f)
    PROVE  TabInv'
  <1>1. /\ SessionTypeOK /\ FlowsOk /\ Numbered /\ Calm /\ f \in FlowSet /\ FlowOk(f)
        /\ f.got = "nothing" /\ AsksSession(f) /\ UNCHANGED <<thisTab, counters, givenUp>>
    BY TabTypes DEF TabInv, ServeSignIn, FlowsOk
  <1>2. f.kind \in SignInKinds /\ TellsUser(f) /\ f.stage \notin {"me", "nonce", "sign"}
    <2>1. f.kind \in SignInKinds \cup {"refresh", "logout", "profile", "page"}
      BY <1>1 DEF FlowSet
    <2> QED
      BY <1>1, <2>1, AskersSignIn DEF AsksSession
  <1>3. f.n \in 1..signIns /\ f.n \notin givenUp /\ f.n \in 1..MaxSignIns
    <2>1. signIns \in 0..MaxSignIns /\ MaxSignIns \in Nat
      BY <1>1, TabTypes
    <2> QED
      BY <1>1, <1>2, <2>1 DEF Numbered
  <1> DEFINE row == [owner |-> f.who, valid |-> TRUE, by |-> f.n]
  <1>4. ASSUME sessions' = Append(sessions, row)
        PROVE  /\ SessionsGrow /\ Len(sessions') = Len(sessions) + 1
               /\ \A s \in DOMAIN sessions' : sessions'[s].by = f.n \/
                      (s \in DOMAIN sessions /\ sessions'[s].by = sessions[s].by)
    <2>1. f.who \in Users
      BY <1>1, <1>2 DEF FlowOk
    <2>2. row \in SessionRow /\ row.by = f.n
      BY <1>3, <2>1, SessionAssumption DEF SessionRow
    <2>3. sessions \in Seq(SessionRow) /\ Len(sessions) \in Nat /\ DOMAIN sessions = 1..Len(sessions)
      BY <1>1, TabTypes
    <2> HIDE DEF row
    <2>4. /\ sessions' \in Seq(SessionRow) /\ Len(sessions') = Len(sessions) + 1
          /\ \A s \in 1..Len(sessions) : sessions'[s] = sessions[s]
          /\ sessions'[Len(sessions) + 1] = row
      BY <1>4, <2>2, <2>3
    <2>5. DOMAIN sessions' = 1..(Len(sessions) + 1)
      BY <2>4
    <2> QED
      BY <2>2, <2>3, <2>4, <2>5 DEF SessionsGrow
  <1>5. /\ SessionsGrow
        /\ \A s \in DOMAIN sessions' : sessions'[s].by = f.n \/
               (s \in DOMAIN sessions /\ sessions'[s].by = sessions[s].by)
    <2>1. CASE sessions' = sessions
      BY <1>1, <2>1, TabTypes DEF SessionsGrow
    <2> QED
      BY <1>1, <1>4, <2>1 DEF ServeSignIn
  <1>6. PICK g \in FlowSet' :
           /\ flows' = (flows \ {f}) \cup {g}
           /\ g.kind = f.kind /\ g.stage = f.stage /\ g.n = f.n /\ g.tok = f.tok /\ g.who = f.who
           /\ g.got = "ok" => g.session # 0
    <2>1. FlowSet \subseteq FlowSet'
      BY <1>1, <1>5, FlowSetGrows
    <2>2. ASSUME NEW got \in {"failed", "unauthorized"}, Served(f, got)
          PROVE  \E g \in FlowSet' :
                    /\ flows' = (flows \ {f}) \cup {g}
                    /\ g.kind = f.kind /\ g.stage = f.stage /\ g.n = f.n /\ g.tok = f.tok /\ g.who = f.who
                    /\ g.got = "ok" => g.session # 0
      <3> DEFINE g == [f EXCEPT !.got = got]
      <3>2. flows' = (flows \ {f}) \cup {g} /\ g = [f EXCEPT !.got = got]
        BY <2>2 DEF Served
      <3>3. got \in AnswerKinds /\ got # "ok"
        BY DEF AnswerKinds
      <3> HIDE DEF g
      <3>1. /\ g \in FlowSet /\ g.got = got /\ g.kind = f.kind /\ g.stage = f.stage
            /\ g.n = f.n /\ g.who = f.who /\ g.tok = f.tok
        BY <1>1, <3>2, <3>3, FlowRecords
      <3> QED
        BY <2>1, <3>1, <3>2, <3>3
    <2>3. ASSUME sessions' = Append(sessions, row),
                 flows' = (flows \ {f}) \cup {[f EXCEPT !.got = "ok", !.session = Len(sessions) + 1]}
          PROVE  \E g \in FlowSet' :
                    /\ flows' = (flows \ {f}) \cup {g}
                    /\ g.kind = f.kind /\ g.stage = f.stage /\ g.n = f.n /\ g.tok = f.tok /\ g.who = f.who
                    /\ g.got = "ok" => g.session # 0
      <3> DEFINE g == [f EXCEPT !.got = "ok", !.session = Len(sessions) + 1]
      <3>1. Len(sessions) \in Nat /\ Len(sessions') = Len(sessions) + 1 /\ f \in FlowSet'
        BY <1>1, <1>4, <2>1, <2>3, TabTypes
      <3>2. Len(sessions) + 1 \in 0..Len(sessions') /\ Len(sessions) + 1 # 0
        BY <3>1
      <3>3. /\ g \in FlowSet' /\ g.session # 0 /\ g.kind = f.kind /\ g.stage = f.stage
            /\ g.n = f.n /\ g.tok = f.tok /\ g.who = f.who
        BY <3>1, <3>2 DEF FlowSet
      <3> QED
        BY <2>3, <3>3
    <2> QED
      BY <1>1, <2>2, <2>3 DEF ServeSignIn
  <1> HIDE DEF row
  <1>7. FlowOk(g)
    BY <1>1, <1>2, <1>6 DEF FlowOk, SignInKinds
  <1>8. FlowsOk'
    BY <1>1, <1>6, <1>7 DEF FlowsOk
  <1>9. Numbered'
    <2>1. UNCHANGED <<signIns, givenUp>>
      BY <1>1 DEF counters
    <2>2. \A h \in flows' : h.kind \in SignInKinds => h.n \in 1..signIns /\ h.n \notin givenUp
      BY <1>1, <1>6 DEF Numbered
    <2>3. \A h, i \in flows' :
             h.kind \in SignInKinds /\ i.kind \in SignInKinds /\ h.n = i.n => h = i
      BY <1>1, <1>6 DEF Numbered
    <2>4. ASSUME NEW h \in flows', h.stage \in {"nonce", "sign"}
          PROVE  \A s \in DOMAIN sessions' : sessions'[s].by # h.n
      <3>1. h \in flows /\ h # f
        BY <1>2, <1>6, <2>4
      <3>2. h.kind \in SignInKinds
        <4>1. h \in FlowSet /\ FlowOk(h)
          BY <1>1, <3>1, TabTypes DEF FlowsOk
        <4> QED
          BY <2>4, <4>1, AskersSignIn DEF FlowSet
      <3>3. h.n # f.n
        BY <1>1, <1>2, <3>1, <3>2 DEF Numbered
      <3> QED
        BY <1>1, <1>5, <2>4, <3>1, <3>3 DEF Numbered
    <2>5. \A s \in DOMAIN sessions' : sessions'[s].by <= signIns /\ sessions'[s].by \notin givenUp
      BY <1>1, <1>3, <1>5 DEF Numbered
    <2>6. givenUp \subseteq 1..signIns
      BY <1>1 DEF Numbered
    <2> QED
      BY <2>1, <2>2, <2>3, <2>4, <2>5, <2>6 DEF Numbered
  <1>10. Calm'
    <2>1. f.kind # "profile"
      BY <1>2 DEF SignInKinds
    <2> QED
      BY <1>1, <1>2, <1>5, <1>6, <2>1, GoingOnIsCalm
  <1>11. SessionTypeOK'
    <2>1. FlowSet \subseteq FlowSet' /\ token \in 0..Len(sessions') /\ flows \subseteq FlowSet
      BY <1>1, <1>5, FlowSetGrows, TabTypes
    <2>2. flows' \subseteq FlowSet'
      BY <1>6, <2>1
    <2> QED
      BY <1>1, <1>5, <2>1, <2>2
      DEF SessionTypeOK, SessionsGrow, FlowSet, SessionRow, thisTab, counters
  <1> QED
    BY <1>8, <1>9, <1>10, <1>11 DEF TabInv

\* The nonce is there or the sign-in ends; the signature is there or it is given up.
LEMMA WalletKeeps ==
    ASSUME TabInv, NEW f \in flows, NonceAnswered(f) \/ Signs(f) \/ SignatureGivenUp(f)
    PROVE  TabInv'
  <1>1. /\ SessionTypeOK /\ FlowsOk /\ Numbered /\ Calm /\ f \in FlowSet /\ FlowOk(f)
        /\ f.stage \in {"nonce", "sign"}
        /\ UNCHANGED <<token, user, path, leaving, counters, sessions>>
    BY TabTypes
    DEF TabInv, FlowsOk, NonceAnswered, Signs, SignatureGivenUp, Answered, thisTab
  <1>2. f.kind = "siwe" /\ TellsUser(f) /\ f.n \in 1..signIns /\ f.n \in 1..MaxSignIns
    <2>1. f.kind = "siwe" /\ TellsUser(f)
      BY <1>1, AskersSignIn DEF FlowSet
    <2>2. signIns \in 0..MaxSignIns /\ MaxSignIns \in Nat
      BY <1>1, TabTypes
    <2> QED
      BY <1>1, <2>1, <2>2 DEF Numbered, SignInKinds
  <1>3. token \in 0..Len(sessions) /\ f.tok \in 0..Len(sessions) /\ UNCHANGED signIns
    BY <1>1, TabTypes DEF FlowSet, counters
  <1>4. givenUp \subseteq 1..MaxSignIns /\ loading \in BOOLEAN
    BY <1>1 DEF SessionTypeOK
  <1>5. ASSUME NEW stage \in {"sign", "verify"}, NEW tok \in {token, f.tok},
               stage = "sign" => f.stage = "nonce", Continue(f, stage, tok),
               UNCHANGED <<loading, givenUp>>
        PROVE  TabInv'
    <2> DEFINE g == [f EXCEPT !.stage = stage, !.tok = tok, !.got = "nothing"]
    <2>1. tok \in 0..Len(sessions)
      BY <1>3
    <2>3. /\ flows' = (flows \ {f}) \cup {g}
          /\ g = [f EXCEPT !.stage = stage, !.tok = tok, !.got = "nothing"]
      BY <1>5 DEF Continue
    <2> HIDE DEF g
    <2>2. /\ g \in FlowSet /\ g.got = "nothing" /\ g.kind = f.kind /\ g.stage = stage
          /\ g.n = f.n /\ g.who = f.who /\ g.tok = tok
      BY <1>1, <2>1, <2>3 DEF FlowSet
    <2>4. FlowOk(g)
      BY <1>1, <1>2, <2>2 DEF FlowOk, AsksSession
    <2>5. FlowsOk' /\ Numbered'
      BY <1>1, <1>3, <1>5, <2>2, <2>3, <2>4, FlowGoesOn
    <2>6. SessionsGrow /\ UNCHANGED thisTab
      BY <1>1, <1>5, TabTypes DEF SessionsGrow, thisTab
    <2>7. Calm'
      BY <1>1, <1>2, <2>2, <2>3, <2>6, GoingOnIsCalm
    <2>8. SessionTypeOK'
      BY <1>1, <1>3, <1>4, <1>5, <2>2, <2>3, FlowTypesKept
    <2> QED
      BY <2>5, <2>7, <2>8 DEF TabInv
  <1>6. ASSUME flows' = flows \ {f}, loading' = FALSE,
               givenUp' \in {givenUp, givenUp \cup {f.n}}, f.stage = "sign" \/ UNCHANGED givenUp
        PROVE  TabInv'
    <2>1. Calm'
      BY <1>1, <1>2, <1>6, GivingUpIsCalm
    <2>2. FlowsOk'
      BY <1>1, <1>6 DEF FlowsOk
    <2>3. Numbered'
      <3>1. CASE UNCHANGED givenUp
        BY <1>1, <1>3, <1>6, <3>1, FlowEnds
      <3>2. CASE f.stage = "sign" /\ givenUp' = givenUp \cup {f.n}
        <4>1. \A h \in flows' : h.kind \in SignInKinds => h.n \in 1..signIns /\ h.n \notin givenUp'
          BY <1>1, <1>2, <1>6, <3>2 DEF Numbered, SignInKinds
        <4>2. \A s \in DOMAIN sessions : sessions[s].by <= signIns /\ sessions[s].by \notin givenUp'
          BY <1>1, <3>2 DEF Numbered
        <4>3. givenUp' \subseteq 1..signIns
          BY <1>1, <1>2, <3>2 DEF Numbered
        <4> QED
          BY <1>1, <1>3, <1>6, <4>1, <4>2, <4>3 DEF Numbered
      <3> QED
        BY <1>6, <3>1, <3>2
    <2>4. SessionTypeOK'
      <3>1. givenUp' \subseteq 1..MaxSignIns
        BY <1>2, <1>4, <1>6
      <3> QED
        BY <1>1, <1>3, <1>6, <3>1, FlowTypesKept
    <2> QED
      BY <2>1, <2>2, <2>3, <2>4 DEF TabInv
  <1>7. CASE NonceAnswered(f)
    BY <1>5, <1>6, <1>7 DEF NonceAnswered, Answered
  <1>8. CASE Signs(f)
    BY <1>5, <1>8 DEF Signs, thisTab
  <1>9. CASE SignatureGivenUp(f)
    BY <1>6, <1>9 DEF SignatureGivenUp
  <1> QED
    BY <1>7, <1>8, <1>9

\* The session's token is stored before anybody knows whose it is.
LEMMA SessionGivenKeeps ==
    ASSUME TabInv, NEW f \in flows, SessionGiven(f)
    PROVE  TabInv'
  <1>1. /\ SessionTypeOK /\ FlowsOk /\ Numbered /\ Calm /\ f \in FlowSet /\ FlowOk(f)
        /\ AsksSession(f) /\ UNCHANGED <<user, path, leaving, counters, sessions, givenUp>>
    BY TabTypes DEF TabInv, FlowsOk, SessionGiven
  <1>2. f.kind \in SignInKinds /\ TellsUser(f) /\ f.stage # "me"
    <2>1. f.kind \in SignInKinds \cup {"refresh", "logout", "profile", "page"}
      BY <1>1 DEF FlowSet
    <2> QED
      BY <1>1, <2>1, AskersSignIn
  <1>3. /\ token \in 0..Len(sessions) /\ f.session \in 0..Len(sessions) /\ Len(sessions) \in Nat
        /\ loading \in BOOLEAN /\ givenUp \subseteq 1..MaxSignIns
        /\ UNCHANGED <<signIns, sessions, givenUp>>
    BY <1>1, TabTypes DEF FlowSet, counters, SessionTypeOK
  <1>4. CASE f.got = "ok"
    <2> DEFINE g == [f EXCEPT !.stage = "me", !.tok = f.session, !.got = "nothing"]
    <2>7. g = [f EXCEPT !.stage = "me", !.tok = f.session, !.got = "nothing"]
      OBVIOUS
    <2>2. /\ flows' = (flows \ {f}) \cup {g} /\ token' = f.session /\ UNCHANGED loading
          /\ f.session # 0
      BY <1>1, <1>4 DEF SessionGiven, Continue, FlowOk
    <2> HIDE DEF g
    <2>1. /\ g \in FlowSet /\ g.got = "nothing" /\ g.kind = f.kind /\ g.stage = "me"
          /\ g.n = f.n /\ g.who = f.who /\ g.tok = f.session
      BY <1>1, <1>3, <2>7 DEF FlowSet
    <2>3. FlowOk(g)
      BY <1>1, <1>2, <2>1, <2>2 DEF FlowOk, SignInKinds, AsksSession
    <2>4. FlowsOk' /\ Numbered'
      BY <1>1, <1>3, <2>1, <2>2, <2>3, FlowGoesOn
    <2>5. SessionTypeOK'
      BY <1>1, <1>3, <2>1, <2>2, FlowTypesKept
    <2>6. Calm'
      <3> SUFFICES ASSUME leaving = "no"
                   PROVE  /\ OneTells' /\ TellerAlone' /\ UsersCalls'
                          /\ (\A h \in flows' : ~TellsUser(h)) => Matches'
        BY <1>1 DEF Calm
      <3>1. OneTells /\ TellerAlone /\ UsersCalls
        BY <1>1 DEF Calm
      <3>2. user = Nobody /\ loading
        BY <1>2, <3>1 DEF TellerAlone
      <3>3. TellsUser(g)
        BY <1>2, <2>1 DEF TellsUser
      <3>4. \A h \in flows' : TellsUser(h) => h = g
        BY <1>2, <2>2, <3>1 DEF OneTells
      <3>5. OneTells' /\ TellerAlone'
        BY <1>1, <2>1, <2>2, <3>2, <3>4 DEF OneTells, TellerAlone
      <3>6. UsersCalls'
        BY <1>1, <1>2, <2>1, <2>2, <3>1 DEF UsersCalls, SignInKinds
      <3> QED
        BY <2>2, <3>3, <3>5, <3>6
    <2> QED
      BY <2>4, <2>5, <2>6 DEF TabInv
  <1>5. CASE f.got # "ok"
    <2>1. flows' = flows \ {f} /\ loading' = FALSE /\ token' \in {0, token}
      BY <1>5 DEF SessionGiven, Pruned
    <2>2. Calm'
      BY <1>1, <1>2, <2>1, GivingUpIsCalm
    <2>3. FlowsOk' /\ Numbered'
      BY <1>1, <1>3, <2>1, FlowEnds
    <2>4. token' \in 0..Len(sessions)
      BY <1>3, <2>1
    <2>5. SessionTypeOK'
      BY <1>1, <1>3, <2>1, <2>4, FlowTypesKept
    <2> QED
      BY <2>2, <2>3, <2>5 DEF TabInv
  <1> QED
    BY <1>4, <1>5

\* The user is told: the owner of the token that was asked about, or nobody and no token.
LEMMA MeAnsweredKeeps ==
    ASSUME TabInv, NEW f \in flows, MeAnswered(f)
    PROVE  TabInv'
  <1>1. /\ SessionTypeOK /\ FlowsOk /\ Numbered /\ Calm /\ f \in FlowSet /\ FlowOk(f)
        /\ f.stage = "me" /\ flows' = flows \ {f} /\ loading' = FALSE
        /\ UNCHANGED <<counters, sessions, givenUp>>
    BY TabTypes DEF TabInv, FlowsOk, MeAnswered, Answered
  <1>2. TellsUser(f) /\ f.tok \in DOMAIN sessions
    <2>1. f.tok \in 0..Len(sessions) /\ f.tok # 0
      BY <1>1 DEF FlowSet, FlowOk
    <2>2. f.kind \in SignInKinds \cup {"refresh", "logout", "profile", "page"}
      BY <1>1 DEF FlowSet
    <2> QED
      BY <1>1, <2>1, <2>2, AskersSignIn, TabTypes
  <1>3. sessions[f.tok].owner \in Users
    BY <1>1, <1>2, TabTypes
  <1>4. FlowsOk' /\ Numbered'
    BY <1>1, FlowEnds DEF counters
  <1>5. SessionTypeOK'
    <2>1. user' \in Users \cup {Nobody} /\ token' \in 0..Len(sessions)
      BY <1>1, <1>3, TabTypes DEF MeAnswered
    <2>2. path' \in Paths /\ leaving' \in Paths \cup {"no"}
      BY <1>1 DEF MeAnswered, SessionTypeOK, Paths, Home
    <2> QED
      BY <1>1, <2>1, <2>2 DEF SessionTypeOK, counters
  <1>6. Calm'
    <2> SUFFICES ASSUME leaving' = "no"
                 PROVE  OneTells' /\ TellerAlone' /\ UsersCalls' /\ Matches'
      BY DEF Calm
    <2>1. leaving = "no"
      BY DEF MeAnswered, Home
    <2>2. OneTells /\ TellerAlone /\ UsersCalls
      BY <1>1, <2>1 DEF Calm
    <2>3. \A h \in flows' : ~TellsUser(h)
      BY <1>1, <1>2, <2>2 DEF OneTells
    <2>4. user = Nobody /\ token \in {0, f.tok}
      BY <1>1, <1>2, <2>2 DEF TellerAlone
    <2>5. \A h \in flows' : h.kind \notin {"logout", "profile"}
      BY <1>1, <2>2, <2>4 DEF UsersCalls
    <2>6. Matches'
      <3>1. CASE f.got = "ok"
        <4>1. user' = sessions[f.tok].owner /\ token' = token /\ user' # Nobody
          BY <1>3, <3>1, SessionAssumption DEF MeAnswered
        <4> QED
          BY <1>1, <2>4, <4>1 DEF Matches
      <3>2. CASE f.got # "ok"
        BY <3>2 DEF MeAnswered, Matches
      <3> QED
        BY <3>1, <3>2
    <2> QED
      BY <2>3, <2>5, <2>6 DEF OneTells, TellerAlone, UsersCalls
  <1> QED
    BY <1>4, <1>5, <1>6 DEF TabInv

\* Log-out leaves the page; a call of the user leaves the user, and at most no token.
LEMMA LogoutKeeps ==
    ASSUME TabInv, NEW f \in flows, LogoutAnswered(f)
    PROVE  TabInv'
  <1>1. /\ SessionTypeOK /\ FlowsOk /\ Numbered /\ flows' = flows \ {f}
        /\ token' = 0 /\ user' = Nobody /\ loading' = FALSE /\ leaving' = "login"
        /\ UNCHANGED <<path, counters, sessions, givenUp>>
    BY DEF TabInv, LogoutAnswered
  <1>2. FlowsOk' /\ Numbered'
    BY <1>1, FlowEnds DEF counters
  <1>3. SessionTypeOK'
    <2>1. token' \in 0..Len(sessions) /\ leaving' \in Paths
      BY <1>1, TabTypes DEF Paths
    <2> QED
      BY <1>1, <2>1 DEF SessionTypeOK, counters
  <1>4. Calm'
    BY <1>1 DEF Calm
  <1> QED
    BY <1>2, <1>3, <1>4 DEF TabInv

LEMMA CallAnsweredKeeps ==
    ASSUME TabInv, NEW f \in flows, CallAnswered(f)
    PROVE  TabInv'
  <1>1. /\ SessionTypeOK /\ FlowsOk /\ Numbered /\ Calm /\ f \in FlowSet /\ FlowOk(f)
        /\ f.kind \in {"profile", "page"} /\ flows' = flows \ {f} /\ token' \in {0, token}
        /\ UNCHANGED <<loading, path, leaving, counters, sessions, givenUp>>
    BY TabTypes DEF TabInv, FlowsOk, CallAnswered, Pruned
  <1>2. FlowsOk' /\ Numbered'
    BY <1>1, FlowEnds DEF counters
  <1>3. SessionTypeOK'
    <2>1. f.tok # 0 => f.tok \in DOMAIN sessions /\ sessions[f.tok].owner \in Users
      <3>1. f.tok \in 0..Len(sessions)
        BY <1>1 DEF FlowSet
      <3> QED
        BY <1>1, <3>1, TabTypes
    <2>2. user' \in Users \cup {Nobody}
      BY <1>1, <2>1 DEF CallAnswered, FlowOk, SessionTypeOK
    <2>3. token' \in 0..Len(sessions)
      BY <1>1, TabTypes
    <2> QED
      BY <1>1, <2>2, <2>3 DEF SessionTypeOK, counters
  <1>4. Calm'
    <2> SUFFICES ASSUME leaving = "no"
                 PROVE  /\ OneTells' /\ TellerAlone' /\ UsersCalls'
                        /\ (\A h \in flows' : ~TellsUser(h)) => Matches'
      BY <1>1 DEF Calm
    <2>1. OneTells /\ TellerAlone /\ UsersCalls /\ ((\A h \in flows : ~TellsUser(h)) => Matches)
      BY <1>1 DEF Calm
    <2>2. user' = user
      BY <1>1, <2>1 DEF CallAnswered, FlowOk, UsersCalls
    <2>3. ~TellsUser(f)
      BY <1>1 DEF TellsUser, SignInKinds
    <2>4. OneTells' /\ UsersCalls'
      BY <1>1, <2>1, <2>2 DEF OneTells, UsersCalls
    <2>5. TellerAlone'
      BY <1>1, <2>1, <2>2 DEF TellerAlone
    <2>6. (\A h \in flows' : ~TellsUser(h)) => Matches'
      BY <1>1, <2>1, <2>2, <2>3 DEF Matches
    <2> QED
      BY <2>4, <2>5, <2>6
  <1> QED
    BY <1>2, <1>3, <1>4 DEF TabInv

LEMMA TabInvIsKept == TabInv /\ [SessionNext]_sessionVars => TabInv'
  <1> SUFFICES ASSUME TabInv, [SessionNext]_sessionVars PROVE TabInv'
    OBVIOUS
  <1>1. CASE UNCHANGED sessionVars
    BY <1>1 DEF TabInv, SessionTypeOK, FlowsOk, Numbered, Calm, OneTells, TellerAlone,
                UsersCalls, Matches, sessionVars
  <1>2. CASE SessionNext
    <2>1. ASSUME NEW f \in flows, FlowMoves(f) \/ Signs(f) PROVE TabInv'
      BY <2>1, ServeKeeps, ServeSignInKeeps, WalletKeeps, SessionGivenKeeps, MeAnsweredKeeps,
         LogoutKeeps, CallAnsweredKeeps DEF FlowMoves
    <2> QED
      BY <1>2, <2>1, TabLoadsKeeps, NavigationKeeps, SignInKeeps, CallKeeps, ExpiryKeeps
      DEF SessionNext
  <1> QED
    BY <1>1, <1>2

\* A tab at rest shows the owner of the token it holds, and no sign-in the user was told
\* had failed has a session, for any number of users, sign-ins, calls and expiries
\* (useAuth.tsx:51, siwe.ts:54).
THEOREM TabShowsItsOwner == SessionSpec => []SessionIsOwn
  <1>1. TabInv => SessionIsOwn
    <2> SUFFICES ASSUME TabInv PROVE SessionIsOwn
      OBVIOUS
    <2>1. TokenMatchesUser
      BY DEF TabInv, TokenMatchesUser, TabAtRest, Calm, Matches
    <2>2. GivenUpForGood
      BY DEF TabInv, GivenUpForGood, Numbered
    <2> QED
      BY <2>1, <2>2 DEF SessionIsOwn
  <1> QED
    BY <1>1, TabInvInitially, TabInvIsKept, PTL DEF SessionSpec
-----------------------------------------------------------------------------
(* The deploy page.  Up to the second deployment, and while its version    *)
(* has no second build, what the two channels carry is about the one build *)
(* and the one row: a build ends once, so what was sent stays true.        *)

DeployRequest ==
    {q \in [kind : {"github", "existing"}, stage : Stages, of : Repos \cup {NoRepo},
            as : Settings, ws : Nat] :
        q.kind = "github" \/ q.stage = "detail" => q.of \in Repos}
DeployStream == [of : Repos, ws : Nat, open : BOOLEAN, last : BuildStatus \cup {"none"},
                 mail : Seq(BuildStatus), polling : BOOLEAN, seen : BOOLEAN]
DeployRow == [of : Repos \cup {NoRepo}, as : Settings, status : RowStatus]

DeployTypes ==
    /\ settings \in Settings /\ repo \in Repos \cup {NoRepo} /\ live \in BOOLEAN
    /\ requests \in Seq(DeployRequest) /\ streams \in Seq(DeployStream)
    /\ rows \in Seq(DeployRow) /\ jobs \in [Repos -> Nat] /\ builds \in [Repos -> Seq(BuildStatus)]

NoneYet == Len(requests) = 0 => streams = <<>> /\ ~live

Built(r) == builds[r] = <<"SUCCEEDED">>
RowFor(result) == CASE result = "BUILDING" -> "PROVISIONING"
                    [] result = "SUCCEEDED" -> "RUNNING"
                    [] OTHER -> "ERROR"

\* The row of the deployment is where its job or its build is.
InPlace(q) ==
    /\ q.ws \in DOMAIN rows /\ rows[q.ws].of = q.of
    /\ \/ jobs[q.of] = 1 /\ builds[q.of] = <<>> /\ rows[q.ws].status = "PROVISIONING"
       \/ \E result \in BuildStatus :
             jobs[q.of] = 0 /\ builds[q.of] = <<result>> /\ rows[q.ws].status = RowFor(result)

ToldTruly(q) ==
    /\ live => Built(q.of)
    /\ \A s \in DOMAIN streams :
          /\ streams[s].of = q.of /\ streams[s].ws = q.ws
          /\ \A i \in DOMAIN streams[s].mail : streams[s].mail[i] = "SUCCEEDED" => Built(q.of)
          /\ streams[s].seen => Built(q.of)

FollowsFirst(q) ==
    /\ q.stage = "posted" => q.ws = 0
    /\ q.stage = "detail" => q.ws # 0
    /\ q.ws = 0 => streams = <<>> /\ ~live
    /\ q.ws # 0 => InPlace(q) /\ ToldTruly(q)

FollowsOne == FirstDeployment => FollowsFirst(requests[1])

DeployInv == DeployTypes /\ NoneYet /\ FollowsOne

LEMMA DeployInvInitially == DeployInit => DeployInv
  <1> SUFFICES ASSUME DeployInit PROVE DeployInv
    OBVIOUS
  <1>1. requests = <<>> /\ streams = <<>> /\ rows = <<>> /\ live = FALSE
        /\ settings \in Settings /\ repo = NoRepo
    BY DEF DeployInit
  <1>2. requests \in Seq(DeployRequest) /\ streams \in Seq(DeployStream) /\ rows \in Seq(DeployRow)
        /\ Len(requests) = 0
    BY <1>1
  <1>3. jobs \in [Repos -> Nat]
    BY DEF DeployInit
  <1>4. builds \in [Repos -> Seq(BuildStatus)]
    <2>1. \A s \in EarlierBuilds : (IF s = "none" THEN <<>> ELSE <<s>>) \in Seq(BuildStatus)
      <3>1. ASSUME NEW s \in EarlierBuilds, s # "none" PROVE <<s>> \in Seq(BuildStatus)
        <4>1. s \in BuildStatus
          BY <3>1, DeployAssumption DEF BuildStatus
        <4> QED
          BY <4>1
      <3> QED
        BY <3>1
    <2> QED
      BY <2>1 DEF DeployInit
  <1>5. DeployTypes
    BY <1>1, <1>2, <1>3, <1>4 DEF DeployTypes
  <1>6. NoneYet /\ FollowsOne
    BY <1>1, <1>2 DEF NoneYet, FollowsOne, FirstDeployment
  <1> QED
    BY <1>5, <1>6 DEF DeployInv

\* The forms are nowhere near the channels.
LEMMA FormsKeepDeployInv ==
    ASSUME DeployInv, settings' \in Settings, repo' \in Repos \cup {NoRepo},
           live' \in {FALSE, live}, UNCHANGED <<requests, streams, rows, jobs, builds>>
    PROVE  DeployInv'
  <1>1. DeployTypes /\ NoneYet /\ FollowsOne
    BY DEF DeployInv
  <1>2. live' => live
    OBVIOUS
  <1>3. DeployTypes'
    BY <1>1 DEF DeployTypes
  <1>4. NoneYet'
    BY <1>1, <1>2 DEF NoneYet
  <1>5. FollowsOne'
    <2>1. SUFFICES ASSUME FirstDeployment PROVE FollowsFirst(requests[1])'
      BY DEF FollowsOne, FirstDeployment
    <2>2. FollowsFirst(requests[1])
      BY <1>1, <2>1 DEF FollowsOne
    <2> QED
      BY <1>2, <2>2 DEF FollowsFirst, InPlace, ToldTruly, Built
  <1> QED
    BY <1>3, <1>4, <1>5 DEF DeployInv

\* A deployment begins with the console cleared, and the first with no channel open.
LEMMA SubmitKeepsDeployInv ==
    ASSUME DeployInv, SubmitGitHub \/ SubmitExisting
    PROVE  DeployInv'
  <1>1. DeployTypes /\ NoneYet
    BY DEF DeployInv
  <1>2. PICK kind \in {"github", "existing"}, r \in Repos \cup {NoRepo} :
           StartDeploy(kind, r) /\ (kind = "github" => r \in Repos)
    <2>1. CASE SubmitGitHub
      BY <1>1, <2>1 DEF SubmitGitHub, DeployOffered, DeployTypes
    <2>2. CASE SubmitExisting
      BY <2>2 DEF SubmitExisting
    <2> QED
      BY <2>1, <2>2
  <1> DEFINE q == [kind |-> kind, stage |-> "posted", of |-> r, as |-> settings, ws |-> 0]
  <1>3. /\ requests' = Append(requests, q) /\ live' = FALSE
        /\ UNCHANGED <<settings, repo, streams, rows, jobs, builds>>
    BY <1>2 DEF StartDeploy, forms, api
  <1>4. q \in DeployRequest /\ q.kind = kind /\ q.stage = "posted" /\ q.of = r /\ q.ws = 0
    BY <1>1, <1>2 DEF DeployRequest, Stages, DeployTypes
  <1> HIDE DEF q
  <1>5. /\ requests' \in Seq(DeployRequest) /\ Len(requests') = Len(requests) + 1
        /\ Len(requests) \in Nat /\ requests'[Len(requests) + 1] = q
    BY <1>1, <1>3, <1>4 DEF DeployTypes
  <1>6. DeployTypes'
    BY <1>1, <1>3, <1>5 DEF DeployTypes
  <1>7. NoneYet'
    BY <1>5 DEF NoneYet
  <1>8. FollowsOne'
    <2>1. SUFFICES ASSUME Len(requests') = 1, requests'[1].kind = "github"
                   PROVE  FollowsFirst(requests[1])'
      BY DEF FollowsOne, FirstDeployment
    <2>2. Len(requests) = 0 /\ requests'[1] = q
      <3>1. Len(requests) = 0
        <4>1. Len(requests) \in Nat /\ Len(requests) + 1 = 1
          BY <1>5, <2>1
        <4> QED
          BY <4>1
      <3> QED
        BY <1>5, <3>1
    <2>3. streams' = <<>> /\ ~live'
      BY <1>1, <1>3, <2>2 DEF NoneYet
    <2> QED
      BY <1>2, <1>4, <2>1, <2>2, <2>3 DEF FollowsFirst
  <1> QED
    BY <1>6, <1>7, <1>8 DEF DeployInv

\* A request moves to its next stage.
LEMMA RequestMoves ==
    ASSUME requests \in Seq(DeployRequest), NEW i \in DOMAIN requests, NEW stage \in Stages,
           NEW ws \in Nat, stage = "detail" => requests[i].kind = "github",
           \/ requests' = [requests EXCEPT ![i].stage = stage, ![i].ws = ws]
           \/ requests' = [requests EXCEPT ![i].stage = stage] /\ ws = requests[i].ws
    PROVE  /\ requests' \in Seq(DeployRequest) /\ Len(requests') = Len(requests)
           /\ requests'[i].kind = requests[i].kind /\ requests'[i].of = requests[i].of
           /\ requests'[i].stage = stage /\ requests'[i].ws = ws
           /\ Len(requests) = 1 => i = 1
  <1> DEFINE q == [requests[i] EXCEPT !.stage = stage, !.ws = ws]
  <1>1. requests[i] \in DeployRequest
    OBVIOUS
  <1>2. /\ q \in DeployRequest /\ q.kind = requests[i].kind /\ q.of = requests[i].of
        /\ q.stage = stage /\ q.ws = ws
    BY <1>1 DEF DeployRequest
  <1>3. requests' = [requests EXCEPT ![i] = q]
    <2>1. CASE requests' = [requests EXCEPT ![i].stage = stage, ![i].ws = ws]
      BY <2>1
    <2>2. CASE requests' = [requests EXCEPT ![i].stage = stage] /\ ws = requests[i].ws
      <3>1. q = [requests[i] EXCEPT !.stage = stage]
        BY <1>1, <2>2 DEF DeployRequest
      <3>2. requests' = [requests EXCEPT ![i] = [requests[i] EXCEPT !.stage = stage]]
        BY <2>2
      <3> QED
        BY <3>1, <3>2
    <2> QED
      BY <2>1, <2>2
  <1> HIDE DEF q
  <1>4. requests' \in Seq(DeployRequest) /\ Len(requests') = Len(requests) /\ requests'[i] = q
    BY <1>2, <1>3
  <1>5. Len(requests) = 1 => i = 1
    OBVIOUS
  <1> QED
    BY <1>2, <1>4, <1>5

\* The one request of a first deployment, before and after a step that adds none.
LEMMA StillFirst ==
    ASSUME FirstDeployment', Len(requests') = Len(requests), requests'[1].kind = requests[1].kind,
           requests'[1].of = requests[1].of, NEW added \in Nat,
           Len(builds'[requests[1].of]) + jobs'[requests[1].of]
               = Len(builds[requests[1].of]) + jobs[requests[1].of] + added,
           Len(builds[requests[1].of]) \in Nat, jobs[requests[1].of] \in Nat
    PROVE  FirstDeployment /\ Len(builds[requests[1].of]) + jobs[requests[1].of] + added <= 1
  <1>1. Len(builds'[requests[1].of]) + jobs'[requests[1].of] <= 1
    BY DEF FirstDeployment
  <1>2. Len(builds[requests[1].of]) + jobs[requests[1].of] + added <= 1
    BY <1>1
  <1>3. Len(builds[requests[1].of]) + jobs[requests[1].of] <= 1
    BY <1>2
  <1> QED
    BY <1>2, <1>3 DEF FirstDeployment

\* A workspace is added at the end; a deployment from GitHub also queues a build job.
LEMMA RowIsAdded ==
    ASSUME DeployTypes, NEW q \in DeployRequest, PostsGitHub(q) \/ PostsExisting(q)
    PROVE  /\ rows' \in Seq(DeployRow) /\ jobs' \in [Repos -> Nat] /\ UNCHANGED builds
           /\ Len(rows') = Len(rows) + 1 /\ rows'[Len(rows) + 1].of = q.of
           /\ PostsGitHub(q) => /\ rows'[Len(rows) + 1].status = "PROVISIONING"
                                /\ q.of \in Repos => jobs'[q.of] = jobs[q.of] + 1
  <1>1. PICK result \in {"PROVISIONING", "RUNNING"} :
           /\ rows' = Append(rows, [of |-> q.of, as |-> q.as, status |-> result])
           /\ PostsGitHub(q) => result = "PROVISIONING"
    <2>1. CASE PostsGitHub(q)
      BY <2>1 DEF PostsGitHub
    <2>2. CASE PostsExisting(q) /\ ~PostsGitHub(q)
      BY <2>2 DEF PostsExisting
    <2> QED
      BY <2>1, <2>2
  <1> DEFINE new == [of |-> q.of, as |-> q.as, status |-> result]
  <1>2. new \in DeployRow /\ new.of = q.of /\ new.status = result
    BY DEF DeployRow, DeployRequest, RowStatus
  <1>3. rows \in Seq(DeployRow) /\ Len(rows) \in Nat /\ jobs \in [Repos -> Nat]
        /\ rows' = Append(rows, new)
    BY <1>1 DEF DeployTypes
  <1> HIDE DEF new
  <1>4. /\ rows' \in Seq(DeployRow) /\ Len(rows') = Len(rows) + 1
        /\ rows'[Len(rows) + 1] = new
    BY <1>2, <1>3
  <1>5. jobs' \in [Repos -> Nat] /\ UNCHANGED builds
        /\ (PostsGitHub(q) /\ q.of \in Repos => jobs'[q.of] = jobs[q.of] + 1)
    <2>1. CASE PostsGitHub(q)
      <3>1. jobs' = [jobs EXCEPT ![q.of] = jobs[q.of] + 1] /\ UNCHANGED builds
        BY <2>1 DEF PostsGitHub
      <3>2. q.of \in Repos => jobs[q.of] + 1 \in Nat
        BY <1>3
      <3> QED
        BY <1>3, <3>1, <3>2
    <2>2. CASE PostsExisting(q) /\ ~PostsGitHub(q)
      BY <1>3, <2>2 DEF PostsExisting
    <2> QED
      BY <2>1, <2>2
  <1> QED
    BY <1>1, <1>2, <1>4, <1>5

LEMMA RepoTypes ==
    ASSUME DeployTypes, NEW r \in Repos
    PROVE  jobs[r] \in Nat /\ builds[r] \in Seq(BuildStatus) /\ Len(builds[r]) \in Nat
  <1>1. jobs[r] \in Nat /\ builds[r] \in Seq(BuildStatus)
    BY DEF DeployTypes
  <1> QED
    BY <1>1

\* The job of the first deployment is queued: there was no build before it.
LEMMA GitHubAnsweredKeeps ==
    ASSUME DeployInv, NEW i \in DOMAIN requests, GitHubAnswered(i)
    PROVE  DeployInv'
  <1>1. /\ DeployTypes /\ NoneYet /\ FollowsOne /\ requests \in Seq(DeployRequest)
        /\ requests[i] \in DeployRequest /\ rows \in Seq(DeployRow) /\ Len(rows) \in Nat
    BY DEF DeployInv, DeployTypes
  <1>2. /\ requests[i].kind = "github" /\ requests[i].stage = "posted" /\ PostsGitHub(requests[i])
        /\ requests' = [requests EXCEPT ![i].stage = "detail", ![i].ws = Len(rows) + 1]
        /\ UNCHANGED <<settings, repo, live, streams>>
    BY DEF GitHubAnswered, forms
  <1>3. /\ rows' \in Seq(DeployRow) /\ jobs' \in [Repos -> Nat] /\ UNCHANGED builds
        /\ Len(rows') = Len(rows) + 1 /\ rows'[Len(rows) + 1].of = requests[i].of
        /\ rows'[Len(rows) + 1].status = "PROVISIONING"
        /\ requests[i].of \in Repos => jobs'[requests[i].of] = jobs[requests[i].of] + 1
    BY <1>1, <1>2, RowIsAdded
  <1>4. /\ requests' \in Seq(DeployRequest) /\ Len(requests') = Len(requests)
        /\ requests'[i].kind = requests[i].kind /\ requests'[i].of = requests[i].of
        /\ requests'[i].stage = "detail" /\ requests'[i].ws = Len(rows) + 1
        /\ Len(requests) = 1 => i = 1
    <2>1. "detail" \in Stages /\ Len(rows) + 1 \in Nat
      BY <1>1 DEF Stages
    <2> QED
      BY <1>1, <1>2, <2>1, RequestMoves
  <1>5. DeployTypes'
    BY <1>1, <1>2, <1>3, <1>4 DEF DeployTypes
  <1>6. NoneYet'
    BY <1>1, <1>2, <1>4 DEF NoneYet
  <1>7. FollowsOne'
    <2>1. SUFFICES ASSUME FirstDeployment' PROVE FollowsFirst(requests[1])'
      BY DEF FollowsOne
    <2>2. i = 1
      BY <1>4, <2>1 DEF FirstDeployment
    <2> DEFINE r == requests[1].of
    <2>3. r \in Repos
      BY <1>1, <1>2, <2>2 DEF DeployRequest
    <2>4. jobs[r] \in Nat /\ Len(builds[r]) \in Nat /\ builds[r] \in Seq(BuildStatus)
      BY <1>1, <2>3, RepoTypes
    <2>5. jobs'[r] = jobs[r] + 1 /\ builds'[r] = builds[r]
      BY <1>3, <2>2, <2>3
    <2>6. FirstDeployment /\ Len(builds[r]) + jobs[r] + 1 <= 1
      <3>1. Len(builds'[r]) + jobs'[r] = Len(builds[r]) + jobs[r] + 1
        BY <2>4, <2>5
      <3>2. requests'[1].kind = requests[1].kind /\ requests'[1].of = requests[1].of
        BY <1>4, <2>2
      <3> QED
        BY <1>4, <2>1, <2>4, <3>1, <3>2, StillFirst
    <2>7. jobs'[r] = 1 /\ builds'[r] = <<>>
      <3>1. Len(builds[r]) = 0 /\ jobs[r] = 0
        BY <2>4, <2>6
      <3> QED
        BY <2>4, <2>5, <3>1
    <2>8. streams = <<>> /\ ~live
      BY <1>1, <1>2, <2>2, <2>6 DEF FollowsOne, FollowsFirst
    <2>9. requests'[1].of = r /\ requests'[1].ws = Len(rows) + 1 /\ requests'[1].stage = "detail"
      BY <1>4, <2>2
    <2> HIDE DEF r
    <2>10. InPlace(requests[1])'
      <3>1. Len(rows) + 1 \in DOMAIN rows'
        BY <1>1, <1>3
      <3>2. rows'[Len(rows) + 1].of = r
        BY <1>3, <2>2 DEF r
      <3> QED
        BY <1>3, <2>7, <2>9, <3>1, <3>2 DEF InPlace
    <2>11. ToldTruly(requests[1])'
      BY <1>2, <2>8 DEF ToldTruly
    <2>12. Len(rows) + 1 # 0
      BY <1>1
    <2> QED
      BY <2>9, <2>10, <2>11, <2>12 DEF FollowsFirst
  <1> QED
    BY <1>5, <1>6, <1>7 DEF DeployInv

\* The channels are opened for the request that was answered.
LEMMA DetailAnsweredKeeps ==
    ASSUME DeployInv, NEW i \in DOMAIN requests, DetailAnswered(i)
    PROVE  DeployInv'
  <1>1. /\ DeployTypes /\ NoneYet /\ FollowsOne /\ requests \in Seq(DeployRequest)
        /\ requests[i] \in DeployRequest /\ streams \in Seq(DeployStream) /\ Len(streams) \in Nat
    BY DEF DeployInv, DeployTypes
  <1> DEFINE new == [of |-> requests[i].of, ws |-> requests[i].ws, open |-> TRUE, last |-> "none",
                     mail |-> <<>>, polling |-> TRUE, seen |-> FALSE]
  <1>2. /\ requests[i].stage = "detail" /\ requests' = [requests EXCEPT ![i].stage = "done"]
        /\ streams' = Append(streams, new)
        /\ UNCHANGED <<settings, repo, live, rows, jobs, builds>>
    BY DEF DetailAnswered, forms, console, api
  <1>3. /\ new \in DeployStream /\ new.of = requests[i].of /\ new.ws = requests[i].ws
        /\ new.mail = <<>> /\ new.seen = FALSE
    <2>1. requests[i].of \in Repos /\ requests[i].ws \in Nat
      BY <1>1, <1>2 DEF DeployRequest
    <2>2. <<>> \in Seq(BuildStatus)
      OBVIOUS
    <2> QED
      BY <2>1, <2>2 DEF DeployStream
  <1> HIDE DEF new
  <1>4. /\ requests' \in Seq(DeployRequest) /\ Len(requests') = Len(requests)
        /\ requests'[i].kind = requests[i].kind /\ requests'[i].of = requests[i].of
        /\ requests'[i].stage = "done" /\ requests'[i].ws = requests[i].ws
        /\ Len(requests) = 1 => i = 1
    <2>1. "done" \in Stages /\ "done" # "detail" /\ requests[i].ws \in Nat
      BY <1>1 DEF Stages, DeployRequest
    <2>2. requests \in Seq(DeployRequest) /\ requests' = [requests EXCEPT ![i].stage = "done"]
      BY <1>1, <1>2
    <2> QED
      BY <2>1, <2>2, RequestMoves
  <1>5. /\ streams' \in Seq(DeployStream) /\ DOMAIN streams' = 1..(Len(streams) + 1)
        /\ streams'[Len(streams) + 1] = new /\ DOMAIN streams = 1..Len(streams)
        /\ \A s \in DOMAIN streams : streams'[s] = streams[s]
    BY <1>1, <1>2, <1>3
  <1>6. DeployTypes'
    BY <1>1, <1>2, <1>4, <1>5 DEF DeployTypes
  <1>7. NoneYet'
    BY <1>1, <1>2, <1>4 DEF NoneYet
  <1>8. FollowsOne'
    <2>1. SUFFICES ASSUME FirstDeployment' PROVE FollowsFirst(requests[1])'
      BY DEF FollowsOne
    <2>2. i = 1 /\ FirstDeployment
      BY <1>2, <1>4, <2>1 DEF FirstDeployment
    <2>3. requests[1].ws # 0 /\ InPlace(requests[1]) /\ ToldTruly(requests[1])
      <3>1. FollowsFirst(requests[1]) /\ requests[1].stage = "detail"
        BY <1>1, <1>2, <2>2 DEF FollowsOne
      <3> QED
        BY <3>1 DEF FollowsFirst
    <2>4. InPlace(requests[1])'
      <3>1. requests'[1].of = requests[1].of /\ requests'[1].ws = requests[1].ws
        BY <1>4, <2>2
      <3> QED
        BY <1>2, <2>3, <3>1 DEF InPlace
    <2>5. ToldTruly(requests[1])'
      <3>1. ASSUME NEW s \in DOMAIN streams'
            PROVE  /\ streams'[s].of = requests[1].of /\ streams'[s].ws = requests[1].ws
                   /\ \A j \in DOMAIN streams'[s].mail :
                         streams'[s].mail[j] = "SUCCEEDED" => Built(requests[1].of)
                   /\ streams'[s].seen => Built(requests[1].of)
        <4>1. CASE s \in DOMAIN streams
          BY <1>5, <2>3, <4>1 DEF ToldTruly
        <4>2. CASE s \notin DOMAIN streams
          <5>1. s = Len(streams) + 1
            BY <1>1, <1>5, <4>2
          <5> QED
            BY <1>3, <1>5, <2>2, <5>1
        <4> QED
          BY <4>1, <4>2
      <3>2. requests'[1].of = requests[1].of /\ requests'[1].ws = requests[1].ws
        BY <1>4, <2>2
      <3>3. live' => Built(requests[1].of)
        BY <1>2, <2>3 DEF ToldTruly
      <3>4. Built(requests[1].of)' = Built(requests[1].of)
        BY <1>2, <3>2 DEF Built
      <3> QED
        BY <3>1, <3>2, <3>3, <3>4 DEF ToldTruly, Built
    <2> QED
      BY <1>4, <2>2, <2>3, <2>4, <2>5 DEF FollowsFirst
  <1> QED
    BY <1>6, <1>7, <1>8 DEF DeployInv

\* An existing agent's answer shows "STATUS: LIVE" at once; the page then follows no build.
LEMMA ExistingAnsweredKeeps ==
    ASSUME DeployInv, NEW i \in DOMAIN requests, ExistingAnswered(i)
    PROVE  DeployInv'
  <1>1. /\ DeployTypes /\ requests \in Seq(DeployRequest)
        /\ requests[i] \in DeployRequest /\ rows \in Seq(DeployRow) /\ Len(rows) \in Nat
    BY DEF DeployInv, DeployTypes
  <1>2. /\ requests[i].kind = "existing" /\ PostsExisting(requests[i])
        /\ requests' = [requests EXCEPT ![i].stage = "done", ![i].ws = Len(rows) + 1]
        /\ live' = TRUE /\ UNCHANGED <<settings, repo, streams>>
    BY DEF ExistingAnswered, forms
  <1>3. rows' \in Seq(DeployRow) /\ jobs' \in [Repos -> Nat] /\ UNCHANGED builds
    BY <1>1, <1>2, RowIsAdded
  <1>4. /\ requests' \in Seq(DeployRequest) /\ Len(requests') = Len(requests)
        /\ requests'[i].kind = "existing"
        /\ Len(requests) = 1 => i = 1
    <2>1. "done" \in Stages /\ "done" # "detail" /\ Len(rows) + 1 \in Nat
      BY <1>1 DEF Stages
    <2> QED
      BY <1>1, <1>2, <2>1, RequestMoves
  <1>5. DeployTypes'
    BY <1>1, <1>2, <1>3, <1>4 DEF DeployTypes
  <1>6. NoneYet' /\ ~FirstDeployment'
    BY <1>1, <1>4 DEF NoneYet, FirstDeployment
  <1> QED
    BY <1>5, <1>6 DEF DeployInv, FollowsOne

\* A refused or lost answer: whatever the API did, the page opens no channel.
LEMMA RequestFailedKeeps ==
    ASSUME DeployInv, NEW i \in DOMAIN requests, RequestFailed(i)
    PROVE  DeployInv'
  <1>1. /\ DeployTypes /\ NoneYet /\ FollowsOne /\ requests \in Seq(DeployRequest)
        /\ requests[i] \in DeployRequest
    BY DEF DeployInv, DeployTypes
  <1>2. /\ requests[i].stage # "done" /\ requests' = [requests EXCEPT ![i].stage = "done"]
        /\ UNCHANGED <<settings, repo, live, streams>>
        /\ \/ UNCHANGED <<rows, jobs, builds>>
           \/ requests[i].stage = "posted" /\ requests[i].kind = "github" /\ PostsGitHub(requests[i])
           \/ requests[i].stage = "posted" /\ requests[i].kind = "existing" /\ PostsExisting(requests[i])
    BY DEF RequestFailed, forms, api
  <1>3. /\ requests' \in Seq(DeployRequest) /\ Len(requests') = Len(requests)
        /\ requests'[i].kind = requests[i].kind /\ requests'[i].of = requests[i].of
        /\ requests'[i].stage = "done" /\ requests'[i].ws = requests[i].ws
        /\ Len(requests) = 1 => i = 1
    <2>1. "done" \in Stages /\ "done" # "detail" /\ requests[i].ws \in Nat
      BY <1>1 DEF Stages, DeployRequest
    <2> QED
      BY <1>1, <1>2, <2>1, RequestMoves
  <1>4. rows' \in Seq(DeployRow) /\ jobs' \in [Repos -> Nat] /\ UNCHANGED builds
    BY <1>1, <1>2, RowIsAdded DEF DeployTypes
  <1>5. DeployTypes'
    BY <1>1, <1>2, <1>3, <1>4 DEF DeployTypes
  <1>6. NoneYet'
    BY <1>1, <1>2, <1>3 DEF NoneYet
  <1>7. FollowsOne'
    <2>1. SUFFICES ASSUME FirstDeployment' PROVE FollowsFirst(requests[1])'
      BY DEF FollowsOne
    <2>2. i = 1 /\ requests[1].kind = "github"
      BY <1>3, <2>1 DEF FirstDeployment
    <2>3. CASE UNCHANGED <<rows, jobs, builds>>
      <3>1. FollowsFirst(requests[1])
        BY <1>1, <1>3, <2>1, <2>2, <2>3 DEF FollowsOne, FirstDeployment
      <3>2. /\ requests'[1].of = requests[1].of /\ requests'[1].ws = requests[1].ws
            /\ requests'[1].stage = "done"
        BY <1>3, <2>2
      <3>3. InPlace(requests[1]) => InPlace(requests[1])'
        BY <2>3, <3>2 DEF InPlace
      <3>4. ToldTruly(requests[1]) => ToldTruly(requests[1])'
        BY <1>2, <2>3, <3>2 DEF ToldTruly, Built
      <3> QED
        BY <1>2, <3>1, <3>2, <3>3, <3>4 DEF FollowsFirst
    <2>4. CASE requests[1].stage = "posted" /\ PostsGitHub(requests[1])
      <3> DEFINE r == requests[1].of
      <3>1. r \in Repos
        BY <1>1, <2>2 DEF DeployRequest
      <3>2. jobs[r] \in Nat /\ Len(builds[r]) \in Nat
        BY <1>1, <3>1, RepoTypes
      <3>3. jobs'[r] = jobs[r] + 1 /\ builds'[r] = builds[r]
        BY <1>1, <2>2, <2>4, <3>1, RowIsAdded
      <3>4. FirstDeployment
        <4>1. Len(builds'[r]) + jobs'[r] = Len(builds[r]) + jobs[r] + 1
          BY <3>2, <3>3
        <4>2. requests'[1].kind = requests[1].kind /\ requests'[1].of = requests[1].of
          BY <1>3, <2>2
        <4> QED
          BY <1>3, <2>1, <3>2, <4>1, <4>2, StillFirst
      <3>5. requests[1].ws = 0 /\ streams = <<>> /\ ~live
        BY <1>1, <2>4, <3>4 DEF FollowsOne, FollowsFirst
      <3> QED
        BY <1>2, <1>3, <2>2, <3>5 DEF FollowsFirst
    <2> QED
      BY <1>2, <2>2, <2>3, <2>4
  <1> QED
    BY <1>5, <1>6, <1>7 DEF DeployInv

\* A turn of a channel keeps what it says to the one build.
LEMMA ChannelMoves ==
    ASSUME DeployInv, NEW s \in DOMAIN streams, NEW new \in DeployStream,
           streams' = [streams EXCEPT ![s] = new],
           new.of = streams[s].of, new.ws = streams[s].ws, live' \in BOOLEAN,
           UNCHANGED <<settings, repo, requests, rows, jobs, builds>>,
           ASSUME FirstDeployment, InPlace(requests[1]), ToldTruly(requests[1])
           PROVE  /\ \A i \in DOMAIN new.mail : new.mail[i] = "SUCCEEDED" => Built(requests[1].of)
                  /\ new.seen => Built(requests[1].of)
                  /\ live' => Built(requests[1].of)
    PROVE  DeployInv'
  <1>1. /\ DeployTypes /\ NoneYet /\ FollowsOne /\ streams \in Seq(DeployStream) /\ streams # <<>>
    BY DEF DeployInv, DeployTypes
  <1>2. /\ streams' \in Seq(DeployStream) /\ DOMAIN streams' = DOMAIN streams /\ streams'[s] = new
        /\ \A t \in DOMAIN streams : t # s => streams'[t] = streams[t]
    BY <1>1
  <1>3. DeployTypes'
    BY <1>1, <1>2 DEF DeployTypes
  <1>4. NoneYet'
    BY <1>1 DEF NoneYet
  <1>5. FollowsOne'
    <2>1. SUFFICES ASSUME FirstDeployment PROVE FollowsFirst(requests[1])'
      BY DEF FollowsOne, FirstDeployment
    <2>2. FollowsFirst(requests[1])
      BY <1>1, <2>1 DEF FollowsOne
    <2>3. requests[1].ws # 0 /\ InPlace(requests[1]) /\ ToldTruly(requests[1])
      BY <1>1, <2>2 DEF FollowsFirst
    <2>4. /\ \A i \in DOMAIN new.mail : new.mail[i] = "SUCCEEDED" => Built(requests[1].of)
          /\ new.seen => Built(requests[1].of)
          /\ live' => Built(requests[1].of)
      BY <2>1, <2>3
    <2>5. ToldTruly(requests[1])'
      <3>1. Built(requests[1].of)' = Built(requests[1].of)
        BY DEF Built
      <3> QED
        BY <1>2, <2>3, <2>4, <3>1 DEF ToldTruly
    <2>6. InPlace(requests[1])'
      BY <2>3 DEF InPlace
    <2> QED
      BY <2>2, <2>3, <2>5, <2>6 DEF FollowsFirst
  <1> QED
    BY <1>3, <1>4, <1>5 DEF DeployInv

LEMMA ChannelsKeepDeployInv ==
    ASSUME DeployInv, NEW s \in DOMAIN streams,
           SocketSends(s) \/ SocketDies(s) \/ OnMessage(s) \/ PollSees(s) \/ PollAnswers(s)
    PROVE  DeployInv'
  <1>1. /\ DeployTypes /\ streams \in Seq(DeployStream) /\ streams[s] \in DeployStream
        /\ UNCHANGED <<settings, repo, requests, rows, jobs, builds>> /\ live \in BOOLEAN
    BY DEF DeployInv, DeployTypes, SocketSends, SocketDies, OnMessage, PollSees, PollAnswers,
           forms, console, api
  <1>2. /\ streams[s].mail \in Seq(BuildStatus) /\ streams[s].of \in Repos
        /\ streams[s].open \in BOOLEAN /\ streams[s].seen \in BOOLEAN
        /\ streams[s].polling \in BOOLEAN /\ streams[s].last \in BuildStatus \cup {"none"}
        /\ streams[s].ws \in Nat
    BY <1>1 DEF DeployStream
  <1>3. ASSUME FirstDeployment, ToldTruly(requests[1])
        PROVE  /\ streams[s].of = requests[1].of /\ streams[s].ws = requests[1].ws
               /\ \A i \in DOMAIN streams[s].mail :
                     streams[s].mail[i] = "SUCCEEDED" => Built(requests[1].of)
               /\ streams[s].seen => Built(requests[1].of)
               /\ live => Built(requests[1].of)
    BY <1>3 DEF ToldTruly
  <1>4. CASE SocketSends(s)
    <2> DEFINE now == builds[streams[s].of]
    <2>1. now \in Seq(BuildStatus) /\ Len(now) = 1
      BY <1>1, <1>2, <1>4, RepoTypes DEF SocketSends
    <2>2. now[1] \in BuildStatus
      BY <2>1
    <2> DEFINE new == [streams[s] EXCEPT !.last = now[1], !.mail = Append(streams[s].mail, now[1]),
                                         !.open = (now[1] = "BUILDING")]
    <2>3. streams' = [streams EXCEPT ![s] = new] /\ live' = live
      BY <1>1, <1>4 DEF SocketSends, console, DeployStream
    <2>4. Append(streams[s].mail, now[1]) \in Seq(BuildStatus)
      BY <1>2, <2>2
    <2>5. /\ new \in DeployStream /\ new.of = streams[s].of /\ new.ws = streams[s].ws
          /\ new.mail = Append(streams[s].mail, now[1]) /\ new.seen = streams[s].seen
      BY <1>1, <2>2, <2>4 DEF DeployStream
    <2>6. ASSUME FirstDeployment, ToldTruly(requests[1])
          PROVE  /\ \A i \in DOMAIN new.mail : new.mail[i] = "SUCCEEDED" => Built(requests[1].of)
                 /\ new.seen => Built(requests[1].of)
                 /\ live' => Built(requests[1].of)
      <3>1. now[1] = "SUCCEEDED" => Built(requests[1].of)
        <4>1. now = <<now[1]>>
          BY <2>1
        <4> QED
          BY <1>3, <2>6, <4>1 DEF Built
      <3>2. ASSUME NEW i \in DOMAIN new.mail, new.mail[i] = "SUCCEEDED"
            PROVE  Built(requests[1].of)
        <4> HIDE DEF new
        <4>1. \/ i \in DOMAIN streams[s].mail /\ new.mail[i] = streams[s].mail[i]
              \/ new.mail[i] = now[1]
          BY <1>2, <2>2, <2>5
        <4> QED
          BY <1>3, <2>6, <3>1, <3>2, <4>1
      <3> HIDE DEF new
      <3> QED
        BY <1>3, <2>3, <2>5, <2>6, <3>2
    <2> HIDE DEF new
    <2> QED
      BY <1>1, <2>3, <2>5, <2>6, ChannelMoves
  <1>5. CASE SocketDies(s)
    <2> DEFINE new == [streams[s] EXCEPT !.open = FALSE]
    <2>1. streams' = [streams EXCEPT ![s] = new] /\ live' = live
      BY <1>5 DEF SocketDies, console
    <2>2. /\ new \in DeployStream /\ new.of = streams[s].of /\ new.ws = streams[s].ws
          /\ new.mail = streams[s].mail /\ new.seen = streams[s].seen
      BY <1>1 DEF DeployStream
    <2> HIDE DEF new
    <2> QED
      BY <1>1, <1>3, <2>1, <2>2, ChannelMoves
  <1>6. CASE OnMessage(s)
    <2> DEFINE new == [streams[s] EXCEPT !.mail = Tail(streams[s].mail)]
    <2>1. streams[s].mail # <<>> /\ streams' = [streams EXCEPT ![s] = new]
      BY <1>1, <1>6 DEF OnMessage, DeployStream
    <2>2. Tail(streams[s].mail) \in Seq(BuildStatus)
      BY <1>2, <2>1
    <2>3. /\ new \in DeployStream /\ new.of = streams[s].of /\ new.ws = streams[s].ws
          /\ new.mail = Tail(streams[s].mail) /\ new.seen = streams[s].seen
      BY <1>1, <2>2 DEF DeployStream
    <2> HIDE DEF new
    <2>4. live' \in BOOLEAN /\ (live' => live \/ streams[s].mail[1] = "SUCCEEDED")
      <3>1. Head(streams[s].mail) = streams[s].mail[1]
        BY <1>2, <2>1
      <3>2. CASE UNCHANGED live
        BY <1>1, <3>2
      <3>3. CASE live' = TRUE /\ Head(streams[s].mail) = "SUCCEEDED"
        BY <3>1, <3>3
      <3> QED
        BY <1>6, <3>2, <3>3 DEF OnMessage, OnSucceeded
    <2>5. 1 \in DOMAIN streams[s].mail
      BY <1>2, <2>1
    <2>6. \A i \in DOMAIN new.mail : \E j \in DOMAIN streams[s].mail : new.mail[i] = streams[s].mail[j]
      <3> TAKE i \in DOMAIN new.mail
      <3>1. i + 1 \in DOMAIN streams[s].mail /\ new.mail[i] = streams[s].mail[i + 1]
        BY <1>2, <2>1, <2>3
      <3> QED
        BY <3>1
    <2>7. ASSUME FirstDeployment, ToldTruly(requests[1])
          PROVE  /\ \A i \in DOMAIN new.mail : new.mail[i] = "SUCCEEDED" => Built(requests[1].of)
                 /\ new.seen => Built(requests[1].of)
                 /\ live' => Built(requests[1].of)
      BY <1>3, <2>3, <2>4, <2>5, <2>6, <2>7
    <2> QED
      BY <1>1, <2>1, <2>3, <2>4, <2>7, ChannelMoves
  <1>7. CASE PollSees(s)
    <2> DEFINE new == [streams[s] EXCEPT !.seen = TRUE]
    <2>1. streams' = [streams EXCEPT ![s] = new] /\ live' = live
          /\ rows[streams[s].ws].status = "RUNNING"
      BY <1>7 DEF PollSees, console
    <2>2. /\ new \in DeployStream /\ new.of = streams[s].of /\ new.ws = streams[s].ws
          /\ new.mail = streams[s].mail
      BY <1>1 DEF DeployStream
    <2> HIDE DEF new
    <2>3. ASSUME FirstDeployment, InPlace(requests[1]), ToldTruly(requests[1])
          PROVE  Built(requests[1].of)
      BY <1>3, <2>1, <2>3 DEF InPlace, RowFor, Built
    <2> QED
      BY <1>1, <1>3, <2>1, <2>2, <2>3, ChannelMoves
  <1>8. CASE PollAnswers(s)
    <2> DEFINE new == [streams[s] EXCEPT !.seen = FALSE, !.polling = FALSE]
    <2>1. streams' = [streams EXCEPT ![s] = new] /\ live' = TRUE /\ streams[s].seen
      BY <1>1, <1>8 DEF PollAnswers, OnSucceeded, DeployStream
    <2>2. /\ new \in DeployStream /\ new.of = streams[s].of /\ new.ws = streams[s].ws
          /\ new.mail = streams[s].mail /\ new.seen = FALSE
      BY <1>1 DEF DeployStream
    <2> HIDE DEF new
    <2> QED
      BY <1>1, <1>3, <2>1, <2>2, ChannelMoves
  <1> QED
    BY <1>4, <1>5, <1>6, <1>7, <1>8

LEMMA FirstIsOfARepo ==
    ASSUME DeployTypes, Len(requests) = 1, requests[1].kind = "github"
    PROVE  requests[1].of \in Repos
  <1>1. requests \in Seq(DeployRequest)
    BY DEF DeployTypes
  <1>2. requests[1] \in DeployRequest
    BY <1>1
  <1> QED
    BY <1>2 DEF DeployRequest

\* A build of the version starts from its job.
LEMMA BuildStartsKeeps ==
    ASSUME DeployInv, NEW r \in Repos, BuildStarts(r)
    PROVE  DeployInv'
  <1>1. /\ DeployTypes /\ NoneYet /\ FollowsOne
        /\ jobs[r] > 0 /\ UNCHANGED <<settings, repo, live, requests, streams, rows>>
        /\ jobs' = [jobs EXCEPT ![r] = jobs[r] - 1]
        /\ builds' = [builds EXCEPT ![r] = Append(builds[r], "BUILDING")]
    BY DEF DeployInv, BuildStarts, forms, console
  <1>2. jobs[r] \in Nat /\ builds[r] \in Seq(BuildStatus) /\ Len(builds[r]) \in Nat
    BY <1>1, RepoTypes
  <1>3. jobs[r] - 1 \in Nat
    BY <1>1, <1>2
  <1>4. /\ Append(builds[r], "BUILDING") \in Seq(BuildStatus)
        /\ Len(Append(builds[r], "BUILDING")) = Len(builds[r]) + 1
    BY <1>2 DEF BuildStatus
  <1>5. DeployTypes'
    BY <1>1, <1>3, <1>4 DEF DeployTypes
  <1>6. NoneYet'
    BY <1>1 DEF NoneYet
  <1>7. FollowsOne'
    <2>1. SUFFICES ASSUME FirstDeployment' PROVE FollowsFirst(requests[1])'
      BY DEF FollowsOne
    <2> DEFINE of == requests[1].of
    <2>2. of \in Repos
      <3>1. Len(requests) = 1 /\ requests[1].kind = "github"
        BY <1>1, <2>1 DEF FirstDeployment
      <3> QED
        BY <1>1, <3>1, FirstIsOfARepo
    <2>3. jobs[of] \in Nat /\ Len(builds[of]) \in Nat
      BY <1>1, <2>2, RepoTypes
    <2>4. of # r => jobs'[of] = jobs[of] /\ builds'[of] = builds[of]
      BY <1>1, <2>2 DEF DeployTypes
    <2>5. jobs'[r] = jobs[r] - 1 /\ builds'[r] = Append(builds[r], "BUILDING")
      BY <1>1 DEF DeployTypes
    <2>6. Len(builds'[of]) + jobs'[of] = Len(builds[of]) + jobs[of] + 0
      <3>1. CASE of = r
        <4>1. Len(builds'[of]) = Len(builds[of]) + 1 /\ jobs'[of] = jobs[of] - 1
          BY <1>4, <2>5, <3>1
        <4> HIDE DEF of
        <4>2. Len(builds[of]) + 1 + (jobs[of] - 1) = Len(builds[of]) + jobs[of] + 0
          BY <2>3
        <4> QED
          BY <4>1, <4>2
      <3>2. CASE of # r
        BY <2>3, <2>4, <3>2
      <3> QED
        BY <3>1, <3>2
    <2>7. FirstDeployment
      BY <1>1, <2>1, <2>3, <2>6, StillFirst
    <2>8. FollowsFirst(requests[1])
      BY <1>1, <2>7 DEF FollowsOne
    <2>9. CASE of # r
      BY <1>1, <2>4, <2>8, <2>9 DEF FollowsFirst, InPlace, ToldTruly, Built
    <2>10. CASE of = r
      <3>1. SUFFICES ASSUME requests[1].ws # 0
                     PROVE  InPlace(requests[1])' /\ ToldTruly(requests[1])'
        BY <1>1, <2>8 DEF FollowsFirst
      <3>2. InPlace(requests[1]) /\ ToldTruly(requests[1])
        BY <2>8, <3>1 DEF FollowsFirst
      <3>3. /\ jobs[of] = 1 /\ builds[of] = <<>>
            /\ requests[1].ws \in DOMAIN rows /\ rows[requests[1].ws].of = of
            /\ rows[requests[1].ws].status = "PROVISIONING"
        BY <1>1, <2>10, <3>2 DEF InPlace
      <3>4. jobs'[of] = 0 /\ builds'[of] = <<"BUILDING">>
        BY <2>5, <2>10, <3>3
      <3>5. InPlace(requests[1])'
        BY <1>1, <3>3, <3>4 DEF InPlace, RowFor, BuildStatus
      <3>6. ~Built(of)
        BY <3>3 DEF Built
      <3>7. ToldTruly(requests[1])'
        BY <1>1, <3>2, <3>6 DEF ToldTruly
      <3> QED
        BY <3>5, <3>7
    <2> QED
      BY <2>9, <2>10
  <1> QED
    BY <1>5, <1>6, <1>7 DEF DeployInv

\* It ends, and the rows that waited for it say how.
LEMMA BuildEndsKeeps ==
    ASSUME DeployInv, NEW r \in Repos, NEW result \in BuildStatus \ {"BUILDING"},
           BuildEnds(r, result)
    PROVE  DeployInv'
  <1>1. /\ DeployTypes /\ NoneYet /\ FollowsOne
        /\ UNCHANGED <<settings, repo, live, requests, streams, jobs>>
        /\ rows \in Seq(DeployRow) /\ Len(rows) \in Nat
    BY DEF DeployInv, BuildEnds, forms, console, DeployTypes
  <1>2. PICK i \in DOMAIN builds[r] : builds[r][i] = "BUILDING" /\ builds' = [builds EXCEPT ![r][i] = result]
    BY DEF BuildEnds
  <1>3. builds[r] \in Seq(BuildStatus) /\ Len(builds[r]) \in Nat
    BY <1>1, RepoTypes
  <1> DEFINE ended == [builds[r] EXCEPT ![i] = result]
  <1>4. ended \in Seq(BuildStatus) /\ Len(ended) = Len(builds[r]) /\ ended[i] = result
    BY <1>3
  <1>5. builds' = [builds EXCEPT ![r] = ended]
    BY <1>2
  <1> HIDE DEF ended
  <1> DEFINE RowThen(w) == IF rows[w].of = r /\ rows[w].status = "PROVISIONING"
                           THEN [rows[w] EXCEPT !.status =
                                    IF result = "SUCCEEDED" THEN "RUNNING" ELSE "ERROR"]
                           ELSE rows[w]
  <1>6. rows' = [w \in DOMAIN rows |-> RowThen(w)]
    BY DEF BuildEnds
  <1>7. ASSUME NEW w \in DOMAIN rows
        PROVE  /\ RowThen(w) \in DeployRow /\ RowThen(w).of = rows[w].of
               /\ rows[w].of # r => RowThen(w) = rows[w]
               /\ rows[w].of = r /\ rows[w].status = "PROVISIONING" => RowThen(w).status = RowFor(result)
    <2>1. rows[w] \in DeployRow
      BY <1>1
    <2> QED
      BY <2>1 DEF DeployRow, RowStatus, RowFor
  <1> HIDE DEF RowThen
  <1>8. rows' \in Seq(DeployRow) /\ DOMAIN rows' = DOMAIN rows
    <2>1. DOMAIN rows = 1..Len(rows)
      BY <1>1
    <2>2. rows' \in [1..Len(rows) -> DeployRow]
      BY <1>6, <1>7, <2>1
    <2> QED
      BY <1>1, <2>1, <2>2, SeqDef
  <1>9. builds' \in [Repos -> Seq(BuildStatus)] /\ builds'[r] = ended
        /\ \A o \in Repos : o # r => builds'[o] = builds[o]
    BY <1>1, <1>4, <1>5 DEF DeployTypes
  <1>10. DeployTypes'
    BY <1>1, <1>8, <1>9 DEF DeployTypes
  <1>11. NoneYet'
    BY <1>1 DEF NoneYet
  <1>12. FollowsOne'
    <2>1. SUFFICES ASSUME FirstDeployment' PROVE FollowsFirst(requests[1])'
      BY DEF FollowsOne
    <2> DEFINE of == requests[1].of
    <2>2. of \in Repos
      <3>1. Len(requests) = 1 /\ requests[1].kind = "github"
        BY <1>1, <2>1 DEF FirstDeployment
      <3> QED
        BY <1>1, <3>1, FirstIsOfARepo
    <2>3. jobs[of] \in Nat /\ Len(builds[of]) \in Nat
      BY <1>1, <2>2, RepoTypes
    <2>4. Len(builds'[of]) + jobs'[of] = Len(builds[of]) + jobs[of] + 0
      <3>1. Len(builds'[of]) = Len(builds[of])
        BY <1>4, <1>9, <2>2
      <3> QED
        BY <1>1, <2>3, <3>1
    <2>5. FirstDeployment
      BY <1>1, <2>1, <2>3, <2>4, StillFirst
    <2>6. FollowsFirst(requests[1])
      BY <1>1, <2>5 DEF FollowsOne
    <2>7. SUFFICES ASSUME requests[1].ws # 0
                   PROVE  InPlace(requests[1])' /\ ToldTruly(requests[1])'
      BY <1>1, <2>6 DEF FollowsFirst
    <2>8. /\ InPlace(requests[1]) /\ ToldTruly(requests[1])
          /\ requests[1].ws \in DOMAIN rows /\ rows[requests[1].ws].of = of
      BY <2>6, <2>7 DEF FollowsFirst, InPlace
    <2>9. CASE of # r
      <3>1. builds'[of] = builds[of] /\ rows'[requests[1].ws] = rows[requests[1].ws]
        BY <1>6, <1>7, <1>9, <2>2, <2>8, <2>9
      <3>2. InPlace(requests[1])'
        BY <1>1, <1>8, <2>8, <3>1 DEF InPlace
      <3>3. ToldTruly(requests[1])'
        BY <1>1, <2>8, <3>1 DEF ToldTruly, Built
      <3> QED
        BY <3>2, <3>3
    <2>10. CASE of = r
      <3>1. builds[of] # <<>>
        BY <1>2, <2>10
      <3>2. jobs[of] = 0 /\ rows[requests[1].ws].status = "PROVISIONING"
            /\ builds[of] = <<"BUILDING">>
        <4>1. PICK now \in BuildStatus :
                 jobs[of] = 0 /\ builds[of] = <<now>> /\ rows[requests[1].ws].status = RowFor(now)
          BY <2>8, <3>1 DEF InPlace
        <4>2. i = 1 /\ now = "BUILDING"
          BY <1>2, <2>10, <4>1
        <4> QED
          BY <4>1, <4>2 DEF RowFor
      <3>3. builds'[of] = <<result>>
        <4>1. Len(ended) = 1 /\ i = 1
          BY <1>2, <1>4, <2>10, <3>2
        <4> QED
          BY <1>4, <1>9, <2>10, <4>1
      <3>4. rows'[requests[1].ws].of = of /\ rows'[requests[1].ws].status = RowFor(result)
        BY <1>6, <1>7, <2>8, <2>10, <3>2
      <3>5. InPlace(requests[1])'
        BY <1>1, <1>8, <2>8, <3>2, <3>3, <3>4 DEF InPlace
      <3>6. ~Built(of)
        BY <3>2 DEF Built
      <3>7. ToldTruly(requests[1])'
        BY <1>1, <2>8, <3>6 DEF ToldTruly
      <3> QED
        BY <3>5, <3>7
    <2> QED
      BY <2>9, <2>10
  <1> QED
    BY <1>10, <1>11, <1>12 DEF DeployInv

LEMMA DeployInvIsKept == DeployInv /\ [DeployNext]_deployVars => DeployInv'
  <1> SUFFICES ASSUME DeployInv, [DeployNext]_deployVars PROVE DeployInv'
    OBVIOUS
  <1>1. settings \in Settings /\ repo \in Repos \cup {NoRepo}
    BY DEF DeployInv, DeployTypes
  <1>2. CASE UNCHANGED deployVars
    BY <1>1, <1>2, FormsKeepDeployInv DEF deployVars
  <1>3. CASE SwitchTab \/ DismissError \/ AgentsLoaded \/ DeployAnother
    BY <1>1, <1>3, FormsKeepDeployInv
    DEF SwitchTab, DismissError, AgentsLoaded, DeployAnother, forms, hub, console, api
  <1>4. ASSUME (\E r \in Repos : PickRepo(r)) \/ \E s \in Settings : EditSettings(s)
        PROVE  DeployInv'
    BY <1>1, <1>4, FormsKeepDeployInv DEF PickRepo, EditSettings, hub, console, api
  <1>5. CASE ClickConnect \/ ConnectAnswered \/ ConnectFailed
    BY <1>1, <1>5, FormsKeepDeployInv
    DEF ClickConnect, ConnectAnswered, ConnectFailed, forms, console, api
  <1>6. ASSUME NEW l \in loads, LoadAnswered(l) PROVE DeployInv'
    BY <1>1, <1>6, FormsKeepDeployInv DEF LoadAnswered, console, api
  <1>7. CASE Answers
    BY <1>7, GitHubAnsweredKeeps, DetailAnsweredKeeps, ExistingAnsweredKeeps, RequestFailedKeeps
    DEF Answers
  <1>8. CASE Worker
    BY <1>8, BuildStartsKeeps, BuildEndsKeeps DEF Worker
  <1>9. CASE Channels
    BY <1>9, ChannelsKeepDeployInv DEF Channels
  <1> QED
    BY <1>2, <1>3, <1>4, <1>5, <1>6, <1>7, <1>8, <1>9, SubmitKeepsDeployInv DEF DeployNext

\* The first deployment of a version is shown as live only when its build succeeded and its
\* workspace runs, for any number of repositories, builds of others and lost answers, and in
\* whatever order the socket, the poll and the worker take their turns (DeployForm.tsx:252).
THEOREM LiveIsReal == DeploySpec => []FirstLiveIsReal
  <1>1. DeployInv => FirstLiveIsReal
    <2> SUFFICES ASSUME DeployInv, live, FirstDeployment
                 PROVE  /\ builds[requests[1].of] = <<"SUCCEEDED">>
                        /\ rows[requests[1].ws].status = "RUNNING"
      BY DEF FirstLiveIsReal
    <2>1. InPlace(requests[1]) /\ ToldTruly(requests[1])
      BY DEF DeployInv, FollowsOne, FollowsFirst
    <2>2. builds[requests[1].of] = <<"SUCCEEDED">>
      BY <2>1 DEF ToldTruly, Built
    <2>3. rows[requests[1].ws].status = RowFor("SUCCEEDED")
      BY <2>1, <2>2 DEF InPlace
    <2> QED
      BY <2>2, <2>3 DEF RowFor
  <1> QED
    BY <1>1, DeployInvInitially, DeployInvIsKept, PTL DEF DeploySpec
-----------------------------------------------------------------------------
(* The form that creates an agent.  One submission is under way at a time, *)
(* a slug is given once, and an agent with a repository is only reported   *)
(* as created when its build is queued.                                    *)

DraftCall == [name : DraftNames, repo : RepoField,
              at : {"sent", "stored", "ok", "failed", "over"}]

FormOk == agentName \in DraftNames /\ selectedRepo \in RepoField

\* Only the last submission can be open, and only while the button is disabled.
OneSubmission ==
    \A c \in DOMAIN draftCalls :
        draftCalls[c].at # "over" => c = Len(draftCalls) /\ submitting
SlugsAreUnique == \A a, b \in agents : a.name = b.name => a = b
StoredFirst ==
    \A c \in DOMAIN draftCalls :
        /\ draftCalls[c].at = "stored" =>
              \E a \in agents : a.call = c /\ a.repo = draftCalls[c].repo
        /\ draftCalls[c].at = "ok" =>
              \E a \in agents : a.call = c /\ (a.repo # NoRepository => c \in buildQueue)
LeftForIt ==
    left => /\ ~submitting
            /\ \E a \in agents : a.call = Len(draftCalls) /\ (a.repo # NoRepository => a.call \in buildQueue)

DraftInv ==
    /\ draftCalls \in Seq(DraftCall) /\ submitting \in BOOLEAN
    /\ OneSubmission /\ SlugsAreUnique /\ StoredFirst /\ LeftForIt

LEMMA DraftInvInitially == DraftInit => DraftInv
  <1> SUFFICES ASSUME DraftInit PROVE DraftInv
    OBVIOUS
  <1>1. draftCalls = <<>> /\ agents = {} /\ submitting = FALSE /\ left = FALSE
    BY DEF DraftInit
  <1>2. draftCalls \in Seq(DraftCall) /\ DOMAIN draftCalls = {}
    BY <1>1
  <1>3. OneSubmission /\ StoredFirst
    BY <1>2 DEF OneSubmission, StoredFirst
  <1> QED
    BY <1>1, <1>2, <1>3 DEF DraftInv, SlugsAreUnique, LeftForIt

\* A call moves on; its name and repository stay.
LEMMA CallMoves ==
    ASSUME draftCalls \in Seq(DraftCall), NEW c \in DOMAIN draftCalls,
           NEW at \in {"sent", "stored", "ok", "failed", "over"},
           draftCalls' = [draftCalls EXCEPT ![c].at = at]
    PROVE  /\ draftCalls' \in Seq(DraftCall) /\ Len(draftCalls') = Len(draftCalls)
           /\ DOMAIN draftCalls' = DOMAIN draftCalls
           /\ draftCalls'[c].at = at /\ draftCalls'[c].repo = draftCalls[c].repo
           /\ \A d \in DOMAIN draftCalls : d # c => draftCalls'[d] = draftCalls[d]
  <1>1. draftCalls[c] \in DraftCall
    OBVIOUS
  <1>2. [draftCalls[c] EXCEPT !.at = at] \in DraftCall
    BY <1>1 DEF DraftCall
  <1>3. draftCalls' = [draftCalls EXCEPT ![c] = [draftCalls[c] EXCEPT !.at = at]]
    OBVIOUS
  <1>4. draftCalls' \in Seq(DraftCall) /\ Len(draftCalls') = Len(draftCalls)
        /\ DOMAIN draftCalls' = DOMAIN draftCalls
    BY <1>2, <1>3
  <1>5. draftCalls'[c] = [draftCalls[c] EXCEPT !.at = at]
    BY <1>3
  <1>6. draftCalls'[c].at = at /\ draftCalls'[c].repo = draftCalls[c].repo
    BY <1>1, <1>5 DEF DraftCall
  <1> QED
    BY <1>3, <1>4, <1>6

LEMMA ClickCreateKeeps ==
    ASSUME FormOk, DraftInv, ClickCreate
    PROVE  DraftInv'
  <1> DEFINE entry == [name |-> agentName, at |-> "sent",
                      repo |-> IF agentMode = "REPO_BACKED" THEN selectedRepo ELSE NoRepository]
  <1>1. /\ draftCalls \in Seq(DraftCall) /\ OneSubmission /\ SlugsAreUnique /\ StoredFirst
        /\ ~left /\ ~submitting /\ submitting' = TRUE
        /\ draftCalls' = Append(draftCalls, entry) /\ UNCHANGED <<left, agents, buildQueue>>
    BY DEF DraftInv, ClickCreate, SubmitOffered, Mounted
  <1>2. entry \in DraftCall /\ entry.at = "sent"
    BY DEF FormOk, DraftCall, RepoField
  <1> HIDE DEF entry
  <1>3. /\ draftCalls' \in Seq(DraftCall) /\ Len(draftCalls') = Len(draftCalls) + 1
        /\ Len(draftCalls) \in Nat /\ draftCalls'[Len(draftCalls) + 1] = entry
        /\ \A d \in 1..Len(draftCalls) : draftCalls'[d] = draftCalls[d]
    BY <1>1, <1>2
  <1>4. /\ DOMAIN draftCalls = 1..Len(draftCalls)
        /\ \A d \in DOMAIN draftCalls' : d \in DOMAIN draftCalls \/ d = Len(draftCalls')
    BY <1>1, <1>3
  <1>5. \A d \in DOMAIN draftCalls : draftCalls[d].at = "over" /\ draftCalls'[d] = draftCalls[d]
    BY <1>1, <1>3, <1>4 DEF OneSubmission
  <1>6. OneSubmission'
    BY <1>1, <1>4, <1>5 DEF OneSubmission
  <1>7. StoredFirst'
    BY <1>2, <1>3, <1>4, <1>5 DEF StoredFirst
  <1> QED
    BY <1>1, <1>3, <1>6, <1>7 DEF DraftInv, SlugsAreUnique, LeftForIt

LEMMA CreateServedKeeps ==
    ASSUME DraftInv, NEW c \in DOMAIN draftCalls, CreateServed(c)
    PROVE  DraftInv'
  <1>1. /\ draftCalls \in Seq(DraftCall) /\ submitting \in BOOLEAN
        /\ OneSubmission /\ SlugsAreUnique /\ StoredFirst /\ LeftForIt
        /\ draftCalls[c].at = "sent" /\ UNCHANGED <<submitting, left, buildQueue>>
    BY DEF DraftInv, CreateServed
  <1>2. c = Len(draftCalls) /\ submitting /\ ~left
    BY <1>1 DEF OneSubmission, LeftForIt
  <1>3. PICK at \in {"ok", "stored", "failed"} : draftCalls' = [draftCalls EXCEPT ![c].at = at]
    BY DEF CreateServed
  <1>4. /\ draftCalls' \in Seq(DraftCall) /\ Len(draftCalls') = Len(draftCalls)
        /\ DOMAIN draftCalls' = DOMAIN draftCalls
        /\ draftCalls'[c].at = at /\ draftCalls'[c].repo = draftCalls[c].repo
        /\ \A d \in DOMAIN draftCalls : d # c => draftCalls'[d] = draftCalls[d]
    BY <1>1, <1>3, CallMoves
  <1>5. OneSubmission'
    BY <1>1, <1>2, <1>4 DEF OneSubmission
  <1>6. LeftForIt'
    BY <1>1, <1>2 DEF LeftForIt
  <1>7. SlugsAreUnique' /\ agents \subseteq agents' /\
        (at # "failed" => \E a \in agents' : a.call = c /\ a.repo = draftCalls[c].repo /\
                             (at = "ok" => a.repo = NoRepository))
    <2>1. CASE UNCHANGED agents /\ draftCalls' = [draftCalls EXCEPT ![c].at = "failed"]
      <3>1. draftCalls'[c].at = "failed"
        BY <1>1, <2>1, CallMoves
      <3> QED
        BY <1>1, <1>4, <2>1, <3>1 DEF SlugsAreUnique
    <2>2. CASE ~SlugTaken(draftCalls[c].name) /\
               agents' = agents \cup {[name |-> draftCalls[c].name,
                                       repo |-> draftCalls[c].repo, call |-> c]} /\
               draftCalls' = [draftCalls EXCEPT ![c].at =
                                IF draftCalls[c].repo = NoRepository THEN "ok" ELSE "stored"]
      <3>1. draftCalls'[c].at = IF draftCalls[c].repo = NoRepository THEN "ok" ELSE "stored"
        BY <1>1, <2>2, CallMoves
      <3>2. SlugsAreUnique'
        BY <1>1, <2>2 DEF SlugsAreUnique, SlugTaken
      <3> DEFINE new == [name |-> draftCalls[c].name, repo |-> draftCalls[c].repo, call |-> c]
      <3>3. new \in agents' /\ new.call = c /\ new.repo = draftCalls[c].repo
        BY <2>2
      <3> HIDE DEF new
      <3>4. at = "ok" => draftCalls[c].repo = NoRepository
        BY <1>4, <3>1
      <3>5. agents \subseteq agents'
        BY <2>2
      <3> QED
        BY <3>2, <3>3, <3>4, <3>5
    <2> QED
      BY <2>1, <2>2 DEF CreateServed
  <1>8. StoredFirst'
    <2>1. ASSUME NEW d \in DOMAIN draftCalls', d # c
          PROVE  /\ draftCalls'[d].at = "stored" =>
                       \E a \in agents' : a.call = d /\ a.repo = draftCalls'[d].repo
                 /\ draftCalls'[d].at = "ok" =>
                       \E a \in agents' : a.call = d /\ (a.repo # NoRepository => d \in buildQueue')
      BY <1>1, <1>4, <1>7, <2>1 DEF StoredFirst
    <2>2. /\ draftCalls'[c].at = "stored" =>
                \E a \in agents' : a.call = c /\ a.repo = draftCalls'[c].repo
          /\ draftCalls'[c].at = "ok" =>
                \E a \in agents' : a.call = c /\ (a.repo # NoRepository => c \in buildQueue')
      BY <1>4, <1>7
    <2> QED
      BY <2>1, <2>2 DEF StoredFirst
  <1> QED
    BY <1>1, <1>4, <1>5, <1>6, <1>7, <1>8 DEF DraftInv

LEMMA BuildEnqueuedKeeps ==
    ASSUME DraftInv, NEW c \in DOMAIN draftCalls, BuildEnqueued(c)
    PROVE  DraftInv'
  <1>1. /\ draftCalls \in Seq(DraftCall) /\ submitting \in BOOLEAN
        /\ OneSubmission /\ SlugsAreUnique /\ StoredFirst /\ LeftForIt
        /\ draftCalls[c].at = "stored" /\ UNCHANGED <<submitting, left, agents>>
    BY DEF DraftInv, BuildEnqueued
  <1>2. c = Len(draftCalls) /\ submitting /\ ~left
    BY <1>1 DEF OneSubmission, LeftForIt
  <1>3. PICK at \in {"ok", "failed"} :
           /\ draftCalls' = [draftCalls EXCEPT ![c].at = at] /\ buildQueue \subseteq buildQueue'
           /\ at = "ok" => c \in buildQueue'
    BY DEF BuildEnqueued
  <1>4. /\ draftCalls' \in Seq(DraftCall) /\ Len(draftCalls') = Len(draftCalls)
        /\ DOMAIN draftCalls' = DOMAIN draftCalls
        /\ draftCalls'[c].at = at
        /\ \A d \in DOMAIN draftCalls : d # c => draftCalls'[d] = draftCalls[d]
    BY <1>1, <1>3, CallMoves
  <1>5. OneSubmission' /\ SlugsAreUnique'
    BY <1>1, <1>2, <1>4 DEF OneSubmission, SlugsAreUnique
  <1>6. LeftForIt'
    BY <1>1, <1>2 DEF LeftForIt
  <1>7. StoredFirst'
    <2>1. \A d \in DOMAIN draftCalls : d # c =>
            /\ draftCalls[d].at = "stored" =>
                  \E a \in agents : a.call = d /\ a.repo = draftCalls[d].repo
            /\ draftCalls[d].at = "ok" =>
                  \E a \in agents : a.call = d /\ (a.repo # NoRepository => d \in buildQueue')
      BY <1>1, <1>3 DEF StoredFirst
    <2>2. \E a \in agents : a.call = c
      BY <1>1 DEF StoredFirst
    <2> QED
      BY <1>1, <1>3, <1>4, <2>1, <2>2 DEF StoredFirst
  <1> QED
    BY <1>1, <1>4, <1>5, <1>6, <1>7 DEF DraftInv

LEMMA CreateAnsweredKeeps ==
    ASSUME DraftInv, NEW c \in DOMAIN draftCalls, CreateAnswered(c)
    PROVE  DraftInv'
  <1>1. /\ draftCalls \in Seq(DraftCall) /\ OneSubmission /\ SlugsAreUnique /\ StoredFirst
        /\ LeftForIt /\ draftCalls[c].at \in {"ok", "failed"}
        /\ submitting' = FALSE /\ UNCHANGED <<buildQueue, agents>>
        /\ draftCalls' = [draftCalls EXCEPT ![c].at = "over"]
    BY DEF DraftInv, CreateAnswered, gitHub
  <1>2. c = Len(draftCalls) /\ ~left /\ \A d \in DOMAIN draftCalls : d # c => draftCalls[d].at = "over"
    BY <1>1 DEF OneSubmission, LeftForIt
  <1>3. /\ draftCalls' \in Seq(DraftCall) /\ Len(draftCalls') = Len(draftCalls)
        /\ \A d \in DOMAIN draftCalls' : draftCalls'[d].at = "over"
    BY <1>1, <1>2, CallMoves
  <1>4. OneSubmission' /\ StoredFirst' /\ SlugsAreUnique'
    BY <1>1, <1>3 DEF OneSubmission, StoredFirst, SlugsAreUnique
  <1>5. LeftForIt'
    <2>1. left' => draftCalls[c].at = "ok"
      BY <1>2 DEF CreateAnswered
    <2> QED
      BY <1>1, <1>2, <1>3, <2>1 DEF LeftForIt, StoredFirst
  <1> QED
    BY <1>1, <1>3, <1>4, <1>5 DEF DraftInv

LEMMA FormOkIsKept == FormOk /\ [DraftNext]_draftVars => FormOk'
  <1> SUFFICES ASSUME FormOk, [DraftNext]_draftVars PROVE FormOk'
    OBVIOUS
  <1>1. ASSUME UNCHANGED <<agentName, selectedRepo>> PROVE FormOk'
    BY <1>1 DEF FormOk
  <1>2. ASSUME NEW c \in repoChecks, QuickConnectServed(c) \/ RepoListServed(c) \/ RepoListAnswered(c)
        PROVE  FormOk'
    BY <1>2 DEF FormOk, RepoField, QuickConnectServed, RepoListServed, RepoListAnswered, fields
  <1>3. ASSUME NEW c \in DOMAIN draftCalls, CreateServed(c) \/ BuildEnqueued(c) \/ CreateAnswered(c)
        PROVE  FormOk'
    BY <1>1, <1>3 DEF CreateServed, BuildEnqueued, CreateAnswered, fields
  <1>4. ASSUME \/ \E n \in DraftNames : PickName(n)
               \/ \E m \in AgentModes : PickMode(m)
               \/ ToggleCustom \/ \E r \in RepoField : PickRepository(r)
        PROVE  FormOk'
    BY <1>4 DEF FormOk, PickName, PickMode, ToggleCustom, PickRepository
  <1>5. CASE ClickQuickConnect \/ SubmitBlocked \/ ClickCreate
    BY <1>1, <1>5 DEF ClickQuickConnect, SubmitBlocked, ClickCreate, fields
  <1>6. CASE UNCHANGED draftVars
    BY <1>1, <1>6 DEF draftVars
  <1> QED
    BY <1>2, <1>3, <1>4, <1>5, <1>6 DEF DraftNext, DraftStep

LEMMA DraftInvIsKept == FormOk /\ DraftInv /\ [DraftNext]_draftVars => DraftInv'
  <1> SUFFICES ASSUME FormOk, DraftInv, [DraftNext]_draftVars PROVE DraftInv'
    OBVIOUS
  <1>1. ASSUME UNCHANGED <<submitting, left, draftCalls, agents, buildQueue>> PROVE DraftInv'
    BY <1>1 DEF DraftInv, OneSubmission, SlugsAreUnique, StoredFirst, LeftForIt
  <1>2. CASE UNCHANGED draftVars
    BY <1>1, <1>2 DEF draftVars
  <1>3. ASSUME NEW c \in repoChecks, QuickConnectServed(c) \/ RepoListServed(c) \/ RepoListAnswered(c)
        PROVE  DraftInv'
    BY <1>1, <1>3 DEF QuickConnectServed, RepoListServed, RepoListAnswered, submission
  <1>4. ASSUME \/ \E n \in DraftNames : PickName(n)
               \/ \E m \in AgentModes : PickMode(m)
               \/ ToggleCustom \/ \E r \in RepoField : PickRepository(r)
        PROVE  DraftInv'
    BY <1>1, <1>4 DEF PickName, PickMode, ToggleCustom, PickRepository, Type, submission
  <1>5. CASE ClickQuickConnect \/ SubmitBlocked
    BY <1>1, <1>5 DEF ClickQuickConnect, SubmitBlocked
  <1> QED
    BY <1>2, <1>3, <1>4, <1>5, ClickCreateKeeps, CreateServedKeeps, BuildEnqueuedKeeps,
       CreateAnsweredKeeps DEF DraftNext, DraftStep

\* The publish page the form leaves for shows an agent that is stored once, by the last
\* submission, and with its build queued, for any number of submissions, lost answers and
\* crashes between the two transactions (agents.py:158).
THEOREM OwnerFindsTheAgent == DraftSpec => []LeavesForStoredAgent
  <1>1. DraftInv => LeavesForStoredAgent
    BY DEF DraftInv, LeavesForStoredAgent, LeftForIt, SlugsAreUnique
  <1>2. DraftInit => FormOk
    BY DEF DraftInit, FormOk, RepoField
  <1> QED
    BY <1>1, <1>2, DraftInvInitially, DraftInvIsKept, FormOkIsKept, PTL DEF DraftSpec

-----------------------------------------------------------------------------
(* Types of the deploy page.                                               *)

Load == [by : {"mount", "connect"}, linked : BOOLEAN]
PageTypes ==
    /\ tab \in {"GITHUB", "EXISTING"} /\ access \in BOOLEAN /\ connecting \in BOOLEAN
    /\ agentsLoaded \in BOOLEAN /\ deploying \in BOOLEAN /\ failed \in BOOLEAN /\ linked \in BOOLEAN
    /\ stepNo \in 0..5 /\ connects \in 0..MaxConnects /\ loads \subseteq Load

\* A request or a channel names a workspace that exists.
RequestsPlaced ==
    \A i \in 1..Len(requests) : /\ requests[i].ws <= Len(rows)
                                /\ requests[i].stage = "detail" => requests[i].ws >= 1
StreamsPlaced == \A s \in 1..Len(streams) : streams[s].ws \in 1..Len(rows)
Placed == Len(requests) <= MaxDeploys /\ RequestsPlaced /\ StreamsPlaced

LEMMA SeqOfLess ==
    ASSUME NEW S, NEW T, NEW s \in Seq(S), \A i \in 1..Len(s) : s[i] \in T
    PROVE  s \in Seq(T)
  <1>1. Len(s) \in Nat /\ s = [i \in 1..Len(s) |-> s[i]]
    OBVIOUS
  <1>2. s \in [1..Len(s) -> T]
    BY <1>1
  <1> QED
    BY <1>1, <1>2

LEMMA TypedDeploy == DeployInv /\ PageTypes /\ Placed => DeployTypeOK
  <1> SUFFICES ASSUME DeployInv, PageTypes, Placed PROVE DeployTypeOK
    OBVIOUS
  <1>1. DeployTypes /\ requests \in Seq(DeployRequest) /\ streams \in Seq(DeployStream)
        /\ rows \in Seq(DeployRow) /\ Len(rows) \in Nat
    BY DEF DeployInv, DeployTypes
  <1> DEFINE Sent == [kind : {"github", "existing"}, stage : Stages,
                      of : Repos \cup {NoRepo}, as : Settings, ws : 0..Len(rows)]
             Open == [of : Repos, ws : 1..Len(rows), open : BOOLEAN,
                      last : BuildStatus \cup {"none"},
                      mail : Seq(BuildStatus), polling : BOOLEAN, seen : BOOLEAN]
  <1>2. requests \in Seq(Sent)
    <2>1. ASSUME NEW i \in 1..Len(requests) PROVE requests[i] \in Sent
      <3>1. requests[i] \in DeployRequest
        BY <1>1
      <3>2. requests[i].ws \in 0..Len(rows)
        BY <1>1, <3>1 DEF DeployRequest, Placed, RequestsPlaced
      <3> QED
        BY <3>1, <3>2 DEF DeployRequest
    <2> HIDE DEF Sent
    <2> QED
      BY <1>1, <2>1, SeqOfLess
  <1>3. streams \in Seq(Open)
    <2>1. ASSUME NEW s \in 1..Len(streams) PROVE streams[s] \in Open
      <3>1. streams[s] \in DeployStream /\ streams[s].ws \in 1..Len(rows)
        BY <1>1 DEF Placed, StreamsPlaced
      <3> QED
        BY <3>1 DEF DeployStream
    <2> HIDE DEF Open
    <2> QED
      BY <1>1, <2>1, SeqOfLess
  <1> HIDE DEF Sent, Open
  <1>4. {access, connecting, agentsLoaded, deploying, live, failed, linked} \subseteq BOOLEAN
    BY <1>1 DEF PageTypes, DeployTypes
  <1>5. rows \in Seq([of : Repos \cup {NoRepo}, as : Settings, status : RowStatus])
    BY <1>1 DEF DeployRow
  <1> QED
    BY <1>1, <1>2, <1>3, <1>4, <1>5 DEF DeployTypeOK, DeployTypes, PageTypes, Placed, Load, Sent, Open

LEMMA DeployPageInitially == DeployInit => PageTypes /\ Placed
  <1> SUFFICES ASSUME DeployInit PROVE PageTypes /\ Placed
    OBVIOUS
  <1>1. PageTypes
    <2>1. linked \in BOOLEAN /\ loads = {[by |-> "mount", linked |-> linked]} /\ connects = 0
          /\ 0 \in 0..MaxConnects
      BY DeployAssumption DEF DeployInit
    <2>2. [by |-> "mount", linked |-> linked] \in Load
      BY <2>1 DEF Load
    <2>3. loads \subseteq Load
      BY <2>1, <2>2
    <2> QED
      <3>1. /\ tab \in {"GITHUB", "EXISTING"} /\ access \in BOOLEAN /\ connecting \in BOOLEAN
            /\ agentsLoaded \in BOOLEAN /\ deploying \in BOOLEAN /\ failed \in BOOLEAN
        BY DEF DeployInit
      <3>2. stepNo \in 0..5
        BY DEF DeployInit
      <3> QED
        BY <2>1, <2>3, <3>1, <3>2 DEF PageTypes
  <1>2. Placed
    BY DeployAssumption DEF DeployInit, Placed, RequestsPlaced, StreamsPlaced
  <1> QED
    BY <1>1, <1>2

LEMMA PageTypesAreKept == PageTypes /\ [DeployNext]_deployVars => PageTypes'
  <1> SUFFICES ASSUME PageTypes, [DeployNext]_deployVars PROVE PageTypes'
    OBVIOUS
  <1>1. CASE UNCHANGED deployVars
    BY <1>1 DEF deployVars, PageTypes
  <1>2. CASE SwitchTab \/ DismissError \/ AgentsLoaded \/ DeployAnother
    BY <1>2 DEF SwitchTab, DismissError, AgentsLoaded, DeployAnother, forms, hub, console, PageTypes
  <1>3. ASSUME NEW r \in Repos, PickRepo(r) PROVE PageTypes'
    BY <1>3 DEF PickRepo, hub, console, PageTypes
  <1>4. ASSUME NEW s \in Settings, EditSettings(s) PROVE PageTypes'
    BY <1>4 DEF EditSettings, hub, console, PageTypes
  <1>5. CASE ClickConnect
    <2>1. connects' \in 0..MaxConnects
      BY <1>5, DeployAssumption DEF ClickConnect, PageTypes
    <2> QED
      BY <1>5, <2>1 DEF ClickConnect, forms, PageTypes
  <1>6. CASE ConnectAnswered
    <2>1. loads' \subseteq Load
      <3>1. [by |-> "connect", linked |-> TRUE] \in Load
        BY DEF Load
      <3> QED
        BY <1>6, <3>1 DEF ConnectAnswered, PageTypes
    <2> QED
      BY <1>6, <2>1 DEF ConnectAnswered, forms, console, PageTypes
  <1>7. CASE ConnectFailed
    BY <1>7 DEF ConnectFailed, forms, PageTypes
  <1>8. ASSUME NEW l \in loads, LoadAnswered(l) PROVE PageTypes'
    <2>1. l \in Load
      BY DEF PageTypes
    <2>2. access' \in BOOLEAN
      BY <1>8, <2>1 DEF LoadAnswered, Load
    <2>3. connecting' \in BOOLEAN
      BY <1>8 DEF LoadAnswered, PageTypes
    <2>4. loads' \subseteq Load
      BY <1>8 DEF LoadAnswered, PageTypes
    <2> QED
      BY <1>8, <2>2, <2>3, <2>4 DEF LoadAnswered, console, PageTypes
  <1>9. CASE SubmitGitHub \/ SubmitExisting
    <2>1. /\ stepNo' \in {2, 3} /\ deploying' = TRUE /\ failed' = FALSE
          /\ UNCHANGED <<forms, hub>>
      <3>1. CASE SubmitGitHub
        BY <3>1 DEF SubmitGitHub, StartDeploy
      <3>2. CASE SubmitExisting
        BY <3>2 DEF SubmitExisting, StartDeploy
      <3> QED
        BY <1>9, <3>1, <3>2
    <2>2. UNCHANGED <<tab, access, connecting, agentsLoaded, linked, connects, loads>>
      BY <2>1 DEF forms, hub
    <2>3. stepNo' \in 0..5
      BY <2>1
    <2> QED
      BY <2>1, <2>2, <2>3 DEF PageTypes
  <1>10. ASSUME NEW i \in DOMAIN requests,
                GitHubAnswered(i) \/ DetailAnswered(i) \/ ExistingAnswered(i) \/ RequestFailed(i)
         PROVE  PageTypes'
    <2>1. /\ stepNo' \in {stepNo, 3, 5} /\ deploying' \in {deploying, FALSE} /\ failed' \in {failed, TRUE}
          /\ UNCHANGED <<tab, access, connecting, agentsLoaded, linked, connects, loads>>
      BY <1>10 DEF GitHubAnswered, DetailAnswered, ExistingAnswered, RequestFailed, forms, hub, console
    <2>2. stepNo' \in 0..5
      BY <2>1 DEF PageTypes
    <2> QED
      BY <2>1, <2>2 DEF PageTypes
  <1>11. CASE Worker
    BY <1>11 DEF Worker, BuildStarts, BuildEnds, forms, hub, console, PageTypes
  <1>12. ASSUME NEW s \in DOMAIN streams,
                SocketSends(s) \/ SocketDies(s) \/ OnMessage(s) \/ PollSees(s) \/ PollAnswers(s)
         PROVE  PageTypes'
    <2>1. /\ stepNo' \in {stepNo, 3, 5} /\ deploying' \in {deploying, FALSE} /\ failed' \in {failed, TRUE}
          /\ UNCHANGED <<tab, access, connecting, agentsLoaded, linked, connects, loads>>
      BY <1>12 DEF SocketSends, SocketDies, OnMessage, PollSees, PollAnswers, OnSucceeded, forms, hub,
         console
    <2>2. stepNo' \in 0..5
      BY <2>1 DEF PageTypes
    <2> QED
      BY <2>1, <2>2 DEF PageTypes
  <1> QED
    BY <1>1, <1>2, <1>3, <1>4, <1>5, <1>6, <1>7, <1>8, <1>9, <1>10, <1>11, <1>12
    DEF DeployNext, Answers, Channels

LEMMA AnswersArePlaced ==
    ASSUME DeployInv, Placed, NEW i \in 1..Len(requests),
           GitHubAnswered(i) \/ DetailAnswered(i) \/ ExistingAnswered(i) \/ RequestFailed(i)
    PROVE  Placed'
  <1>1. /\ DeployTypes /\ requests \in Seq(DeployRequest) /\ streams \in Seq(DeployStream)
        /\ rows \in Seq(DeployRow) /\ Len(rows) \in Nat /\ Len(requests) \in Nat
        /\ Len(streams) \in Nat /\ requests[i] \in DeployRequest /\ i \in DOMAIN requests
    BY DEF DeployInv, DeployTypes
  <1>2. ASSUME NEW q \in DeployRequest, PostsGitHub(q) \/ PostsExisting(q)
        PROVE  Len(rows') = Len(rows) + 1
    BY <1>1, <1>2, RowIsAdded
  <1>3. /\ Len(requests') = Len(requests)
        /\ \A k \in 1..Len(requests) : k # i => requests'[k] = requests[k]
    BY <1>1 DEF GitHubAnswered, DetailAnswered, ExistingAnswered, RequestFailed
  <1>4. Len(rows') \in {Len(rows), Len(rows) + 1}
    BY <1>1, <1>2 DEF GitHubAnswered, DetailAnswered, ExistingAnswered, RequestFailed, api
  <1>5. Len(rows') \in Nat /\ Len(rows) <= Len(rows')
    BY <1>1, <1>4
  <1>6. requests[i].ws \in Nat /\ requests[i].ws <= Len(rows)
        /\ (requests[i].stage = "detail" => requests[i].ws >= 1)
    BY <1>1 DEF Placed, RequestsPlaced, DeployRequest
  <1>7. requests'[i].ws <= Len(rows') /\ (requests'[i].stage = "detail" => requests'[i].ws >= 1)
    <2>1. CASE GitHubAnswered(i) \/ ExistingAnswered(i)
      <3>1. Len(rows') = Len(rows) + 1
        BY <1>1, <1>2, <2>1 DEF GitHubAnswered, ExistingAnswered
      <3>2. PICK stage \in {"detail", "done"} :
               requests' = [requests EXCEPT ![i].stage = stage, ![i].ws = Len(rows) + 1]
        BY <2>1 DEF GitHubAnswered, ExistingAnswered
      <3>3. requests'[i].ws = Len(rows) + 1
        BY <1>1, <3>2 DEF DeployRequest
      <3> QED
        BY <1>1, <3>1, <3>3
    <2>2. CASE DetailAnswered(i) \/ RequestFailed(i)
      <3>1. requests' = [requests EXCEPT ![i].stage = "done"]
        BY <2>2 DEF DetailAnswered, RequestFailed
      <3>2. requests'[i].ws = requests[i].ws /\ requests'[i].stage = "done"
        BY <1>1, <3>1 DEF DeployRequest
      <3> QED
        BY <1>5, <1>6, <3>2
    <2> QED
      BY <2>1, <2>2
  <1>8. RequestsPlaced'
    <2>1. ASSUME NEW k \in 1..Len(requests), k # i
          PROVE  requests'[k].ws <= Len(rows') /\ (requests'[k].stage = "detail" => requests'[k].ws >= 1)
      <3>1. requests[k] \in DeployRequest
        BY <1>1
      <3>2. requests[k].ws \in Nat /\ requests[k].ws <= Len(rows)
            /\ (requests[k].stage = "detail" => requests[k].ws >= 1)
        BY <3>1 DEF Placed, RequestsPlaced, DeployRequest
      <3> QED
        BY <1>1, <1>3, <1>5, <2>1, <3>2
    <2> QED
      BY <1>3, <1>7, <2>1 DEF RequestsPlaced
  <1>9. StreamsPlaced'
    <2>1. ASSUME NEW n \in 1..Len(rows) PROVE n \in 1..Len(rows')
      BY <1>1, <1>5
    <2>2. CASE DetailAnswered(i)
      <3> DEFINE new == [of |-> requests[i].of, ws |-> requests[i].ws, open |-> TRUE, last |-> "none",
                         mail |-> <<>>, polling |-> TRUE, seen |-> FALSE]
      <3>1. streams' = Append(streams, new) /\ requests[i].stage = "detail"
        BY <2>2 DEF DetailAnswered
      <3>2. new.ws = requests[i].ws
        OBVIOUS
      <3> HIDE DEF new
      <3>3. new.ws \in 1..Len(rows)
        BY <1>1, <1>6, <3>1, <3>2
      <3>4. /\ Len(streams') = Len(streams) + 1 /\ streams'[Len(streams) + 1] = new
            /\ \A s \in 1..Len(streams) : streams'[s] = streams[s]
        BY <1>1, <3>1
      <3>5. ASSUME NEW s \in 1..Len(streams') PROVE streams'[s].ws \in 1..Len(rows)
        <4>1. s \in 1..Len(streams) \/ s = Len(streams) + 1
          BY <1>1, <3>4
        <4> QED
          BY <3>3, <3>4, <4>1 DEF Placed, StreamsPlaced
      <3> QED
        BY <2>1, <3>5 DEF StreamsPlaced
    <2>3. CASE GitHubAnswered(i) \/ ExistingAnswered(i) \/ RequestFailed(i)
      <3>1. streams' = streams
        BY <2>3 DEF GitHubAnswered, ExistingAnswered, RequestFailed
      <3> QED
        BY <2>1, <3>1 DEF Placed, StreamsPlaced
    <2> QED
      BY <2>2, <2>3
  <1> QED
    BY <1>3, <1>8, <1>9 DEF Placed

LEMMA ChannelsArePlaced ==
    ASSUME DeployInv, Placed, NEW s \in 1..Len(streams),
           SocketSends(s) \/ SocketDies(s) \/ OnMessage(s) \/ PollSees(s) \/ PollAnswers(s)
    PROVE  Placed'
  <1>1. streams \in Seq(DeployStream) /\ streams[s] \in DeployStream
    BY DEF DeployInv, DeployTypes
  <1>2. UNCHANGED <<requests, rows>>
    BY DEF SocketSends, SocketDies, OnMessage, PollSees, PollAnswers, api
  <1>3. /\ Len(streams') = Len(streams)
        /\ \A t \in 1..Len(streams) : t # s => streams'[t] = streams[t]
    BY <1>1 DEF SocketSends, SocketDies, OnMessage, PollSees, PollAnswers
  <1>4. streams'[s].ws = streams[s].ws
    <2>1. CASE SocketSends(s)
      <3>1. PICK now, stays :
               streams' = [streams EXCEPT ![s].last = now, ![s].mail = Append(@, now), ![s].open = stays]
        BY <2>1 DEF SocketSends
      <3> QED
        BY <1>1, <3>1 DEF DeployStream
    <2>2. CASE SocketDies(s)
      BY <1>1, <2>2 DEF SocketDies, DeployStream
    <2>3. CASE OnMessage(s)
      BY <1>1, <2>3 DEF OnMessage, DeployStream
    <2>4. CASE PollSees(s)
      BY <1>1, <2>4, SMTT(30) DEF PollSees, DeployStream
    <2>5. CASE PollAnswers(s)
      BY <1>1, <2>5, SMTT(30) DEF PollAnswers, DeployStream
    <2> QED
      BY <2>1, <2>2, <2>3, <2>4, <2>5
  <1>5. ASSUME NEW t \in 1..Len(streams) PROVE streams'[t].ws = streams[t].ws
    BY <1>3, <1>4
  <1>6. StreamsPlaced'
    BY <1>2, <1>3, <1>5 DEF Placed, StreamsPlaced
  <1> QED
    BY <1>2, <1>6 DEF Placed, RequestsPlaced

LEMMA PlacedIsKept == DeployInv /\ Placed /\ [DeployNext]_deployVars => Placed'
  <1> SUFFICES ASSUME DeployInv, Placed, [DeployNext]_deployVars PROVE Placed'
    OBVIOUS
  <1>1. /\ requests \in Seq(DeployRequest) /\ streams \in Seq(DeployStream) /\ rows \in Seq(DeployRow)
        /\ Len(rows) \in Nat /\ Len(requests) \in Nat
        /\ DOMAIN requests = 1..Len(requests) /\ DOMAIN streams = 1..Len(streams)
        /\ DOMAIN rows = 1..Len(rows)
    BY DEF DeployInv, DeployTypes
  <1>2. ASSUME UNCHANGED <<requests, streams, rows>> PROVE Placed'
    BY <1>2 DEF Placed, RequestsPlaced, StreamsPlaced
  <1>3. CASE \/ UNCHANGED deployVars \/ SwitchTab \/ DismissError \/ AgentsLoaded \/ DeployAnother
             \/ \E r \in Repos : PickRepo(r)
             \/ \E s \in Settings : EditSettings(s)
             \/ ClickConnect \/ ConnectAnswered \/ ConnectFailed
             \/ \E l \in loads : LoadAnswered(l)
    <2>1. UNCHANGED <<requests, streams, rows>>
      BY <1>3 DEF deployVars, SwitchTab, DismissError, AgentsLoaded, DeployAnother, PickRepo, EditSettings,
         ClickConnect, ConnectAnswered, ConnectFailed, LoadAnswered, api
    <2> QED
      BY <1>2, <2>1
  <1>4. CASE SubmitGitHub \/ SubmitExisting
    <2>1. PICK new : /\ Len(requests) < MaxDeploys /\ requests' = Append(requests, new)
                     /\ new.ws = 0 /\ new.stage = "posted" /\ UNCHANGED <<streams, rows>>
      BY <1>4 DEF SubmitGitHub, SubmitExisting, StartDeploy, api
    <2>2. /\ Len(requests') = Len(requests) + 1 /\ requests'[Len(requests) + 1] = new
          /\ \A k \in 1..Len(requests) : requests'[k] = requests[k]
      BY <1>1, <2>1
    <2>3. ASSUME NEW k \in 1..Len(requests')
          PROVE  requests'[k].ws <= Len(rows) /\ (requests'[k].stage = "detail" => requests'[k].ws >= 1)
      <3>1. k \in 1..Len(requests) \/ k = Len(requests) + 1
        BY <1>1, <2>2
      <3>2. CASE k \in 1..Len(requests)
        BY <2>2, <3>2 DEF Placed, RequestsPlaced
      <3>3. CASE k = Len(requests) + 1
        BY <1>1, <2>1, <2>2, <3>3
      <3> QED
        BY <3>1, <3>2, <3>3
    <2>4. Len(requests') <= MaxDeploys
      BY <1>1, <2>1, <2>2, DeployAssumption
    <2> QED
      BY <2>1, <2>3, <2>4 DEF Placed, RequestsPlaced, StreamsPlaced
  <1>5. CASE Worker
    <2>1. UNCHANGED <<requests, streams>>
      BY <1>5 DEF Worker, BuildStarts, BuildEnds
    <2>2. DOMAIN rows' = DOMAIN rows
      BY <1>5 DEF Worker, BuildStarts, BuildEnds
    <2>3. rows' \in Seq(DeployRow)
      BY DeployInvIsKept DEF DeployInv, DeployTypes
    <2>4. Len(rows') = Len(rows)
      <3>1. Len(rows') \in Nat /\ 1..Len(rows') = 1..Len(rows)
        BY <1>1, <2>2, <2>3
      <3> QED
        BY <1>1, <3>1
    <2> QED
      BY <2>1, <2>4 DEF Placed, RequestsPlaced, StreamsPlaced
  <1>6. CASE Answers
    BY <1>1, <1>6, AnswersArePlaced DEF Answers
  <1>7. CASE Channels
    BY <1>1, <1>7, ChannelsArePlaced DEF Channels
  <1> QED
    BY <1>3, <1>4, <1>5, <1>6, <1>7 DEF DeployNext

LEMMA DeployIsTyped == DeploySpec => []DeployTypeOK
  BY DeployInvInitially, DeployPageInitially, DeployInvIsKept, PageTypesAreKept, PlacedIsKept,
     TypedDeploy, PTL DEF DeploySpec

-----------------------------------------------------------------------------
(* The marketplace.                                                        *)

\* What is left when one element of a sequence is removed.
LEMMA RemovedAt ==
    ASSUME NEW S, NEW s \in Seq(S), NEW i \in 1..Len(s)
    PROVE  /\ RemoveAt(s, i) \in Seq(S) /\ Len(RemoveAt(s, i)) = Len(s) - 1
           /\ \A j \in 1..Len(s) - 1 : RemoveAt(s, i)[j] = IF j < i THEN s[j] ELSE s[j + 1]
  <1> DEFINE a == SubSeq(s, 1, i - 1)
             b == SubSeq(s, i + 1, Len(s))
  <1>1. Len(s) \in Nat /\ \A j \in 1..Len(s) : s[j] \in S
    OBVIOUS
  <1>2. a \in Seq(S) /\ Len(a) = i - 1 /\ \A j \in 1..i - 1 : a[j] = s[j]
    BY <1>1
  <1>3. b \in Seq(S) /\ Len(b) = Len(s) - i /\ \A j \in 1..Len(s) - i : b[j] = s[j + i]
    BY <1>1
  <1>4. RemoveAt(s, i) = a \o b
    BY DEF RemoveAt
  <1> HIDE DEF a, b
  <1>5. Len(a) \in Nat /\ Len(b) \in Nat /\ Len(a) + Len(b) = Len(s) - 1
    BY <1>1, <1>2, <1>3
  <1>6. /\ a \o b \in Seq(S) /\ Len(a \o b) = Len(a) + Len(b)
        /\ \A j \in 1..Len(a) + Len(b) : (a \o b)[j] = IF j <= Len(a) THEN a[j] ELSE b[j - Len(a)]
    BY <1>2, <1>3, ConcatProperties
  <1>7. ASSUME NEW j \in 1..Len(s) - 1
        PROVE  (a \o b)[j] = IF j < i THEN s[j] ELSE s[j + 1]
    <2>1. CASE j < i
      BY <1>1, <1>2, <1>5, <1>6, <2>1
    <2>2. CASE ~(j < i)
      <3>1. j - Len(a) \in 1..Len(s) - i /\ (j - Len(a)) + i = j + 1 /\ ~(j <= Len(a))
        BY <1>1, <1>2, <2>2
      <3> QED
        BY <1>3, <1>5, <1>6, <2>2, <3>1
    <2> QED
      BY <2>1, <2>2
  <1> QED
    BY <1>4, <1>5, <1>6, <1>7

-----------------------------------------------------------------------------
(* The marketplace page. *)

\* The pages of a grid: one at least, no more than there are agents, and every page
\* but those after the last has one.
LEMMA PagesOf ==
    ASSUME NEW total \in Nat
    PROVE  /\ Pages(total) \in Nat /\ Pages(total) >= 1
           /\ total <= PageSize => Pages(total) = 1
           /\ total > 0 => Pages(total) <= total
           /\ \A p \in Nat : total > 0 /\ p < Pages(total) => p * PageSize < total
  <1> DEFINE n == total + PageSize - 1
             q == n \div PageSize
  <1>1. PageSize \in Nat /\ PageSize >= 1
    BY BrowseAssumption
  <1>2. CASE total = 0
    BY <1>1, <1>2 DEF Pages
  <1>3. CASE total > 0
    <2>1. n \in Nat /\ n >= PageSize /\ n = total + PageSize - 1
      BY <1>1, <1>3
    <2> HIDE DEF n
    <2>2. q \in Nat /\ q * PageSize <= n /\ n < q * PageSize + PageSize
      BY <1>1, <2>1
    <2>3. Pages(total) = q
      BY <1>3 DEF Pages, n
    <2> HIDE DEF q
    <2>4. q >= 1
      BY <1>1, <2>1, <2>2
    <2>5. ASSUME total <= PageSize PROVE q = 1
      <3>1. CASE q >= 2
        <4>1. q * PageSize >= 2 * PageSize
          BY <1>1, <2>2, <3>1
        <4> QED
          BY <1>1, <2>1, <2>2, <2>5, <4>1
      <3> QED
        BY <2>2, <2>4, <3>1
    <2>6. q <= total
      <3>1. CASE q >= total + 1
        <4>1. q * PageSize >= (total + 1) * PageSize
          BY <1>1, <2>2, <3>1
        <4>2. (total + 1) * PageSize = total * PageSize + PageSize /\ total * PageSize >= total
          BY <1>1
        <4> QED
          BY <1>1, <2>1, <2>2, <4>1, <4>2
      <3> QED
        BY <2>2, <3>1
    <2>7. ASSUME NEW p \in Nat, p < q PROVE p * PageSize < total
      <3>1. (p + 1) * PageSize <= q * PageSize
        BY <1>1, <2>2, <2>7
      <3>2. (p + 1) * PageSize = p * PageSize + PageSize /\ p * PageSize \in Nat
        BY <1>1
      <3> QED
        BY <1>1, <2>1, <2>2, <3>1, <3>2
    <2> QED
      BY <1>3, <2>2, <2>3, <2>4, <2>5, <2>6, <2>7
  <1> QED
    BY <1>2, <1>3

BrowseCall == [for : Filters, got : BOOLEAN, cards : 0..PageSize, total : Nat]

\* No grid has more agents than are published or made up.
FewAgents(c) == c.total <= MaxStock \/ c.total <= PageSize
FewEverywhere == FewAgents(grid) /\ \A i \in 1..Len(queryCalls) : FewAgents(queryCalls[i])

\* Unless an answer overtook another, the request made last answers the filters.
LastIsCurrent ==
    ~overtook => IF queryCalls = <<>> THEN grid.for = filters /\ ~gridLoading
                 ELSE queryCalls[Len(queryCalls)].for = filters

\* What an undisturbed request for a query finds, on every page there is.
FoundTotal(q) == IF stock[q] > 0 THEN stock[q] ELSE Samples[q]

\* Undisturbed, there is one request at most, for a page that exists.
OnAPage ==
    ~unsettled =>
        /\ filters.page < Pages(FoundTotal(filters.of)) /\ Len(queryCalls) <= 1
        /\ \A i \in 1..Len(queryCalls) :
              queryCalls[i].for = filters
              /\ (queryCalls[i].got => queryCalls[i].total = FoundTotal(filters.of))
        /\ queryCalls = <<>> => grid.total = FoundTotal(filters.of)

BrowseInv == BrowseTypeOK /\ FewEverywhere /\ LastIsCurrent /\ OnAPage

LEMMA BrowseNumbers ==
    /\ PageSize \in Nat /\ PageSize >= 1 /\ MaxStock \in Nat /\ MaxPicks \in Nat
    /\ AllAgents \in Queries /\ \A q \in Queries : Samples[q] \in 0..PageSize
  BY BrowseAssumption

LEMMA TotalsOf ==
    ASSUME NEW q \in Queries, stock \in [Queries -> 0..MaxStock]
    PROVE  /\ FoundTotal(q) \in Nat /\ stock[q] \in Nat /\ stock[q] <= MaxStock
           /\ Samples[q] \in Nat /\ Samples[q] <= PageSize
  BY BrowseNumbers DEF FoundTotal

\* The first page of a query exists, whatever it finds.
LEMMA FirstPageExists ==
    ASSUME NEW q \in Queries, stock \in [Queries -> 0..MaxStock]
    PROVE  /\ FirstPage(q) \in Filters /\ FirstPage(q).of = q
           /\ FirstPage(q).page < Pages(FoundTotal(q))
  <1>1. Pages(FoundTotal(q)) \in Nat /\ Pages(FoundTotal(q)) >= 1
    BY TotalsOf, PagesOf
  <1>2. FirstPage(q) = [of |-> q, page |-> 0] /\ 0 \in 0..MaxStock
    BY BrowseNumbers DEF FirstPage
  <1> QED
    BY <1>1, <1>2 DEF Filters

LEMMA BrowseInvInitially == BrowseInit => BrowseInv
  <1> SUFFICES ASSUME BrowseInit PROVE BrowseInv
    OBVIOUS
  <1> DEFINE f == FirstPage(AllAgents)
  <1>1. /\ f \in Filters /\ f.of = AllAgents /\ f.page < Pages(FoundTotal(AllAgents))
    BY BrowseNumbers, FirstPageExists DEF BrowseInit
  <1>2. /\ filters = f /\ grid = [for |-> f, got |-> FALSE, cards |-> 0, total |-> 0]
        /\ queryCalls = <<[for |-> f, got |-> FALSE, cards |-> 0, total |-> 0]>>
        /\ sheetOpen = FALSE /\ gridLoading = TRUE /\ overtook = FALSE /\ unsettled = FALSE
        /\ stock \in [Queries -> 0..MaxStock] /\ picks = 0
    BY DEF BrowseInit, Unloaded, Query
  <1> HIDE DEF f
  <1>3. grid \in BrowseCall /\ 0 \in 0..PageSize
    BY <1>1, <1>2, BrowseNumbers DEF BrowseCall
  <1>4. /\ queryCalls \in Seq(BrowseCall) /\ Len(queryCalls) = 1
        /\ queryCalls[1] = grid /\ queryCalls # <<>> /\ grid.for = f /\ grid.got = FALSE
        /\ grid.total = 0
    <2>1. queryCalls = <<grid>> /\ grid.for = f /\ grid.got = FALSE /\ grid.total = 0
      BY <1>2
    <2> QED
      BY <1>3, <2>1
  <1>5. BrowseTypeOK
    <2>1. grid \in [for : Filters, got : BOOLEAN, cards : 0..PageSize, total : Nat]
          /\ queryCalls \in Seq([for : Filters, got : BOOLEAN, cards : 0..PageSize, total : Nat])
      BY <1>3, <1>4 DEF BrowseCall
    <2>2. /\ filters \in Filters /\ {sheetOpen, gridLoading, overtook, unsettled} \subseteq BOOLEAN
          /\ stock \in [Queries -> 0..MaxStock] /\ picks = 0
      BY <1>1, <1>2
    <2>3. 0 \in 0..MaxPicks
      BY BrowseNumbers
    <2> QED
      BY <2>1, <2>2, <2>3 DEF BrowseTypeOK
  <1>6. FewEverywhere
    BY <1>4, BrowseNumbers DEF FewEverywhere, FewAgents
  <1>7. LastIsCurrent /\ OnAPage
    BY <1>1, <1>2, <1>4 DEF LastIsCurrent, OnAPage
  <1> QED
    BY <1>5, <1>6, <1>7 DEF BrowseInv

\* A change of the filters to a page that exists.
LEMMA FiltersChangeKeeps ==
    ASSUME BrowseInv, NEW f \in Filters, FiltersChange(f), sheetOpen' \in BOOLEAN,
           ~unsettled /\ queryCalls = <<>> => f.page < Pages(FoundTotal(f.of))
    PROVE  BrowseInv'
  <1>1. /\ filters' = f /\ gridLoading' = TRUE /\ queryCalls' = Append(queryCalls, Query(f))
        /\ unsettled' = (unsettled \/ queryCalls # <<>>) /\ picks' = picks + 1 /\ picks < MaxPicks
        /\ UNCHANGED <<grid, stock, overtook>>
    BY DEF FiltersChange, Pick
  <1>2. Query(f) \in BrowseCall /\ Query(f).for = f /\ Query(f).got = FALSE /\ Query(f).total = 0
    BY BrowseNumbers DEF BrowseCall, Query
  <1>3. queryCalls \in Seq(BrowseCall) /\ Len(queryCalls) \in Nat
    BY DEF BrowseInv, BrowseTypeOK, BrowseCall
  <1>4. /\ queryCalls' \in Seq(BrowseCall) /\ Len(queryCalls') = Len(queryCalls) + 1
        /\ \A i \in 1..Len(queryCalls) : queryCalls'[i] = queryCalls[i]
        /\ queryCalls'[Len(queryCalls) + 1] = Query(f)
    BY <1>1, <1>2, <1>3, AppendProperties
  <1>5. BrowseTypeOK'
    BY <1>1, <1>4, BrowseNumbers DEF BrowseInv, BrowseTypeOK, BrowseCall
  <1>6. FewEverywhere'
    <2>1. ASSUME NEW i \in 1..Len(queryCalls') PROVE FewAgents(queryCalls'[i])
      <3>1. i \in 1..Len(queryCalls) \/ i = Len(queryCalls) + 1
        BY <1>3, <1>4
      <3> QED
        BY <1>2, <1>4, <3>1, BrowseNumbers DEF BrowseInv, FewEverywhere, FewAgents
    <2> QED
      BY <1>1, <2>1 DEF BrowseInv, FewEverywhere, FewAgents
  <1>7. LastIsCurrent'
    BY <1>1, <1>2, <1>3, <1>4 DEF LastIsCurrent
  <1>8. OnAPage'
    <2> SUFFICES ASSUME ~unsettled' PROVE OnAPage'
      BY DEF OnAPage
    <2>1. ~unsettled /\ queryCalls = <<>> /\ Len(queryCalls) = 0
      BY <1>1
    <2>2. FoundTotal(f.of)' = FoundTotal(f.of)
      BY <1>1 DEF FoundTotal
    <2>3. Len(queryCalls') = 1 /\ queryCalls'[1] = Query(f) /\ queryCalls' # <<>>
      <3>1. Len(queryCalls') = 1
        BY <1>4, <2>1
      <3>2. queryCalls'[1] = Query(f)
        BY <1>4, <2>1
      <3>3. queryCalls' # <<>>
        BY <3>1
      <3> QED
        BY <3>1, <3>2, <3>3
    <2>4. filters'.page < Pages(FoundTotal(filters.of))'
      BY <1>1, <2>1, <2>2 DEF Pages
    <2> QED
      BY <1>1, <1>2, <2>3, <2>4 DEF OnAPage
  <1> QED
    BY <1>5, <1>6, <1>7, <1>8 DEF BrowseInv

LEMMA PickQueryKeeps ==
    ASSUME BrowseInv, NEW q \in Queries, PickQuery(q) PROVE BrowseInv'
  <1>1. sheetOpen' \in BOOLEAN /\ stock \in [Queries -> 0..MaxStock]
    BY DEF BrowseInv, BrowseTypeOK, PickQuery
  <1> QED
    BY <1>1, FirstPageExists, FiltersChangeKeeps DEF PickQuery

LEMMA ResetKeeps == ASSUME BrowseInv, ResetFilters PROVE BrowseInv'
  <1>1. sheetOpen' \in BOOLEAN /\ stock \in [Queries -> 0..MaxStock]
    BY DEF BrowseInv, BrowseTypeOK, ResetFilters
  <1> QED
    BY <1>1, FirstPageExists, FiltersChangeKeeps, BrowseNumbers DEF ResetFilters

\* The page buttons lead to a page that exists, as long as nothing disturbed the grid.
LEMMA PageButtonsKeep == ASSUME BrowseInv, NextPage \/ PreviousPage PROVE BrowseInv'
  <1>1. /\ filters \in Filters /\ filters.of \in Queries /\ filters.page \in 0..MaxStock
        /\ grid.total \in Nat /\ FewAgents(grid) /\ MaxStock \in Nat
        /\ stock \in [Queries -> 0..MaxStock] /\ sheetOpen' \in BOOLEAN
    BY BrowseNumbers DEF BrowseInv, BrowseTypeOK, FewEverywhere, Filters, NextPage, PreviousPage
  <1>2. CASE NextPage
    <2> DEFINE f == [filters EXCEPT !.page = filters.page + 1]
    <2>1. /\ FiltersChange(f) /\ filters.page + 1 < Pages(grid.total) /\ Pages(grid.total) > 1
      BY <1>2 DEF NextPage, PagingShown
    <2>2. /\ Pages(grid.total) \in Nat /\ ~(grid.total <= PageSize) /\ Pages(grid.total) <= grid.total
      <3>1. PageSize \in Nat /\ grid.total <= PageSize => Pages(grid.total) = 1
        BY <1>1, PagesOf, BrowseNumbers
      <3>2. grid.total > 0
        BY <1>1, <2>1, <3>1, BrowseNumbers
      <3> QED
        BY <1>1, <2>1, <3>1, <3>2, PagesOf
    <2>3. grid.total <= MaxStock
      BY <1>1, <2>2 DEF FewAgents
    <2>4. filters.page + 1 \in 0..MaxStock
      BY <1>1, <2>1, <2>2, <2>3
    <2>5. f \in Filters /\ f.of = filters.of /\ f.page = filters.page + 1
      BY <1>1, <2>4 DEF Filters
    <2> HIDE DEF f
    <2>6. ~unsettled /\ queryCalls = <<>> => grid.total = FoundTotal(filters.of)
      BY DEF BrowseInv, OnAPage
    <2> QED
      BY <1>1, <2>1, <2>5, <2>6, FiltersChangeKeeps
  <1>3. CASE PreviousPage
    <2> DEFINE f == [filters EXCEPT !.page = filters.page - 1]
    <2>1. FiltersChange(f) /\ filters.page > 0
      BY <1>3 DEF PreviousPage
    <2>2. filters.page - 1 \in 0..MaxStock
      BY <1>1, <2>1
    <2>3. f \in Filters /\ f.of = filters.of /\ f.page = filters.page - 1
      BY <1>1, <2>2 DEF Filters
    <2> HIDE DEF f
    <2>4. ~unsettled => filters.page < Pages(FoundTotal(filters.of))
      BY DEF BrowseInv, OnAPage
    <2>5. Pages(FoundTotal(filters.of)) \in Nat
      BY <1>1, TotalsOf, PagesOf
    <2>6. ~unsettled => f.page < Pages(FoundTotal(f.of))
      BY <1>1, <2>3, <2>4, <2>5
    <2> QED
      BY <1>1, <2>1, <2>3, <2>6, FiltersChangeKeeps
  <1> QED
    BY <1>2, <1>3

\* What a request is answered with.
LEMMA AnswersOf ==
    ASSUME NEW f \in Filters, stock \in [Queries -> 0..MaxStock]
    PROVE  /\ PublishedOn(f) \in BrowseCall /\ MadeUp(f) \in BrowseCall
           /\ FewAgents(PublishedOn(f)) /\ FewAgents(MadeUp(f))
           /\ PublishedOn(f).for = f /\ MadeUp(f).for = f
           /\ f.page < Pages(FoundTotal(f.of)) =>
                 (IF PublishedOn(f).cards > 0 THEN PublishedOn(f) ELSE MadeUp(f)).total
                    = FoundTotal(f.of)
  <1> DEFINE all == stock[f.of]
             skip == f.page * PageSize
             rest == IF all > skip THEN all - skip ELSE 0
             cards == IF rest < PageSize THEN rest ELSE PageSize
  <1>1. f.of \in Queries /\ f.page \in Nat
    BY BrowseNumbers DEF Filters
  <1>2. /\ all \in Nat /\ all <= MaxStock /\ Samples[f.of] \in 0..PageSize
        /\ Samples[f.of] \in Nat /\ Samples[f.of] <= PageSize
    BY <1>1, TotalsOf, BrowseNumbers
  <1>3. PublishedOn(f) = [for |-> f, got |-> TRUE, cards |-> cards, total |-> all]
    BY DEF PublishedOn
  <1>4. skip \in Nat
    BY <1>1, BrowseNumbers
  <1>5. f.page < Pages(FoundTotal(f.of)) /\ all > 0 => skip < all
    BY <1>1, <1>2, PagesOf DEF FoundTotal
  <1> HIDE DEF all, skip
  <1>6. cards \in 0..PageSize /\ (cards > 0 <=> all > skip)
    BY <1>2, <1>4, BrowseNumbers
  <1> HIDE DEF cards
  <1>7. MadeUp(f) = [for |-> f, got |-> TRUE, cards |-> Samples[f.of], total |-> Samples[f.of]]
    BY DEF MadeUp
  <1>8. /\ PublishedOn(f) \in BrowseCall /\ MadeUp(f) \in BrowseCall
        /\ PublishedOn(f).for = f /\ MadeUp(f).for = f
        /\ PublishedOn(f).total = all /\ MadeUp(f).total = Samples[f.of]
        /\ PublishedOn(f).cards = cards
    BY <1>2, <1>3, <1>6, <1>7 DEF BrowseCall
  <1>9. FoundTotal(f.of) = IF all > 0 THEN all ELSE Samples[f.of]
    BY DEF FoundTotal, all
  <1>10. f.page < Pages(FoundTotal(f.of)) => (cards > 0 <=> all > 0)
    BY <1>2, <1>4, <1>5, <1>6
  <1> QED
    BY <1>2, <1>8, <1>9, <1>10 DEF FewAgents

LEMMA QueryServedKeeps ==
    ASSUME BrowseInv, NEW i \in 1..Len(queryCalls), QueryServed(i) PROVE BrowseInv'
  <1> DEFINE f == queryCalls[i].for
             found == IF PublishedOn(f).cards > 0 THEN PublishedOn(f) ELSE MadeUp(f)
  <1>1. queryCalls \in Seq(BrowseCall) /\ Len(queryCalls) \in Nat /\ i \in 1..Len(queryCalls)
        /\ stock \in [Queries -> 0..MaxStock]
    <2>1. queryCalls \in Seq(BrowseCall) /\ stock \in [Queries -> 0..MaxStock]
      BY DEF BrowseInv, BrowseTypeOK, BrowseCall
    <2> QED
      BY <2>1
  <1>2. f \in Filters
    <2>1. queryCalls[i] \in BrowseCall
      BY <1>1
    <2> QED
      BY <2>1 DEF BrowseCall
  <1>3. PICK c \in {found, MadeUp(f)} :
           /\ queryCalls' = [queryCalls EXCEPT ![i] = c]
           /\ \/ c = found /\ UNCHANGED <<picks, unsettled>>
              \/ Pick /\ unsettled' = TRUE
    BY DEF QueryServed
  <1>4. /\ c \in BrowseCall /\ FewAgents(c) /\ c.for = f
        /\ c = found /\ f.page < Pages(FoundTotal(f.of)) => c.total = FoundTotal(f.of)
    BY <1>1, <1>2, AnswersOf
  <1>5. UNCHANGED <<filters, sheetOpen, gridLoading, grid, stock, overtook>>
    BY DEF QueryServed
  <1> HIDE DEF found
  <1>6. /\ queryCalls' \in Seq(BrowseCall) /\ Len(queryCalls') = Len(queryCalls)
        /\ \A j \in 1..Len(queryCalls) : queryCalls'[j] = IF j = i THEN c ELSE queryCalls[j]
    BY <1>1, <1>3, <1>4, ExceptSeq
  <1>7. \A j \in 1..Len(queryCalls) : queryCalls'[j].for = queryCalls[j].for
    BY <1>4, <1>6
  <1>8. queryCalls # <<>> /\ queryCalls' # <<>>
    <2>1. Len(queryCalls) # 0 /\ Len(queryCalls') # 0
      BY <1>1, <1>6
    <2> QED
      BY <2>1
  <1>9. BrowseTypeOK'
    <2>1. picks' \in 0..MaxPicks /\ unsettled' \in BOOLEAN
      <3>1. CASE UNCHANGED <<picks, unsettled>>
        BY <3>1 DEF BrowseInv, BrowseTypeOK
      <3>2. CASE Pick /\ unsettled' = TRUE
        <4>1. picks' \in 0..MaxPicks
          BY <3>2, BrowseNumbers DEF BrowseInv, BrowseTypeOK, Pick
        <4> QED
          BY <3>2, <4>1
      <3> QED
        BY <1>3, <3>1, <3>2
    <2> QED
      BY <1>5, <1>6, <2>1 DEF BrowseInv, BrowseTypeOK, BrowseCall
  <1>10. FewEverywhere'
    BY <1>4, <1>5, <1>6 DEF BrowseInv, FewEverywhere, FewAgents
  <1>11. LastIsCurrent'
    BY <1>1, <1>5, <1>6, <1>7, <1>8 DEF BrowseInv, LastIsCurrent
  <1>12. OnAPage'
    <2> SUFFICES ASSUME ~unsettled' PROVE OnAPage'
      BY DEF OnAPage
    <2>1. c = found /\ ~unsettled
      BY <1>3
    <2>2. FoundTotal(filters.of)' = FoundTotal(filters.of)
      BY <1>5 DEF FoundTotal
    <2>3. filters'.page < Pages(FoundTotal(filters.of))'
      BY <1>5, <2>1, <2>2 DEF BrowseInv, OnAPage, Pages
    <2>4. f = filters
      BY <1>1, <2>1 DEF BrowseInv, OnAPage
    <2> HIDE DEF f
    <2>5. c.total = FoundTotal(filters.of)
      BY <1>4, <2>1, <2>4 DEF BrowseInv, OnAPage
    <2>6. ASSUME NEW j \in 1..Len(queryCalls')
          PROVE  queryCalls'[j].for = filters'
                 /\ (queryCalls'[j].got => queryCalls'[j].total = FoundTotal(filters.of)')
      BY <1>5, <1>6, <1>7, <2>1, <2>2, <2>5 DEF BrowseInv, OnAPage
    <2> QED
      BY <1>6, <1>8, <2>1, <2>3, <2>6 DEF BrowseInv, OnAPage
  <1> QED
    BY <1>9, <1>10, <1>11, <1>12 DEF BrowseInv

LEMMA QueryAnsweredKeeps ==
    ASSUME BrowseInv, NEW i \in 1..Len(queryCalls), QueryAnswered(i) PROVE BrowseInv'
  <1>1. queryCalls \in Seq(BrowseCall) /\ Len(queryCalls) \in Nat /\ i \in 1..Len(queryCalls)
    BY DEF BrowseInv, BrowseTypeOK, BrowseCall
  <1>2. /\ queryCalls[i].got /\ grid' = queryCalls[i] /\ gridLoading' = FALSE
        /\ queryCalls' = RemoveAt(queryCalls, i) /\ overtook' = (overtook \/ i # 1)
        /\ UNCHANGED <<filters, sheetOpen, stock, picks, unsettled>>
    BY DEF QueryAnswered
  <1>3. /\ queryCalls' \in Seq(BrowseCall) /\ Len(queryCalls') = Len(queryCalls) - 1
        /\ \A j \in 1..Len(queryCalls) - 1 :
              queryCalls'[j] = IF j < i THEN queryCalls[j] ELSE queryCalls[j + 1]
    BY <1>1, <1>2, RemovedAt
  <1>4. grid' \in BrowseCall
    BY <1>1, <1>2
  <1>5. BrowseTypeOK'
    BY <1>2, <1>3, <1>4 DEF BrowseInv, BrowseTypeOK, BrowseCall
  <1>6. FewEverywhere'
    <2>1. ASSUME NEW j \in 1..Len(queryCalls') PROVE FewAgents(queryCalls'[j])
      <3>1. j \in 1..Len(queryCalls) /\ j + 1 \in 1..Len(queryCalls) /\ j \in 1..Len(queryCalls) - 1
        BY <1>1, <1>3
      <3> QED
        BY <1>3, <3>1 DEF BrowseInv, FewEverywhere
    <2> QED
      BY <1>1, <1>2, <2>1 DEF BrowseInv, FewEverywhere, FewAgents
  <1>7. LastIsCurrent'
    <2> SUFFICES ASSUME ~overtook' PROVE LastIsCurrent'
      BY DEF LastIsCurrent
    <2>1. i = 1 /\ ~overtook /\ queryCalls # <<>>
      <3>1. i = 1 /\ ~overtook
        BY <1>2
      <3>2. Len(queryCalls) # 0
        BY <1>1
      <3> QED
        BY <3>1, <3>2
    <2>2. queryCalls[Len(queryCalls)].for = filters
      BY <2>1 DEF BrowseInv, LastIsCurrent
    <2>3. CASE Len(queryCalls) = 1
      <3>1. queryCalls' = <<>>
        BY <1>3, <2>3
      <3> QED
        BY <1>2, <2>1, <2>2, <2>3, <3>1 DEF LastIsCurrent
    <2>4. CASE Len(queryCalls) > 1
      <3>1. Len(queryCalls') \in 1..Len(queryCalls) - 1 /\ Len(queryCalls') + 1 = Len(queryCalls)
            /\ queryCalls' # <<>>
        BY <1>1, <1>3, <2>4
      <3>2. queryCalls'[Len(queryCalls')] = queryCalls[Len(queryCalls)]
        BY <1>1, <1>3, <2>1, <3>1
      <3> QED
        BY <1>2, <2>2, <3>1, <3>2 DEF LastIsCurrent
    <2>5. Len(queryCalls) = 1 \/ Len(queryCalls) > 1
      <3> DEFINE n == Len(queryCalls)
      <3>1. n \in Nat /\ n # 0
        BY <1>1
      <3> HIDE DEF n
      <3>2. n = 1 \/ n > 1
        BY <3>1
      <3> QED
        BY <3>2 DEF n
    <2> QED
      BY <2>3, <2>4, <2>5
  <1>8. OnAPage'
    <2> SUFFICES ASSUME ~unsettled' PROVE OnAPage'
      BY DEF OnAPage
    <2>1. ~unsettled /\ Len(queryCalls) = 1 /\ i = 1 /\ Len(queryCalls') = 0
      BY <1>1, <1>2, <1>3 DEF BrowseInv, OnAPage
    <2>2. FoundTotal(filters.of)' = FoundTotal(filters.of)
      BY <1>2 DEF FoundTotal
    <2>3. grid'.total = FoundTotal(filters.of)'
      BY <1>2, <2>1, <2>2 DEF BrowseInv, OnAPage
    <2>4. filters'.page < Pages(FoundTotal(filters.of))'
      BY <1>2, <2>1, <2>2 DEF BrowseInv, OnAPage, Pages
    <2> QED
      BY <2>1, <2>3, <2>4 DEF OnAPage
  <1> QED
    BY <1>5, <1>6, <1>7, <1>8 DEF BrowseInv

LEMMA CatalogKeeps ==
    ASSUME BrowseInv, NEW q \in Queries, CatalogChanges(q) PROVE BrowseInv'
  <1>1. /\ UNCHANGED <<filters, sheetOpen, gridLoading, grid, queryCalls, overtook>>
        /\ unsettled' = TRUE /\ picks' = picks + 1 /\ picks < MaxPicks
        /\ \E n \in 0..MaxStock : stock' = [stock EXCEPT ![q] = n]
    BY DEF CatalogChanges, Pick
  <1>2. stock' \in [Queries -> 0..MaxStock]
    BY <1>1 DEF BrowseInv, BrowseTypeOK
  <1>3. BrowseTypeOK'
    BY <1>1, <1>2, BrowseNumbers DEF BrowseInv, BrowseTypeOK
  <1> QED
    BY <1>1, <1>3 DEF BrowseInv, FewEverywhere, FewAgents, LastIsCurrent, OnAPage

LEMMA BrowseInvIsKept == BrowseInv /\ [BrowseNext]_browseVars => BrowseInv'
  <1> SUFFICES ASSUME BrowseInv, [BrowseNext]_browseVars PROVE BrowseInv'
    OBVIOUS
  <1>0. DOMAIN queryCalls = 1..Len(queryCalls)
    BY DEF BrowseInv, BrowseTypeOK
  <1>1. CASE ToggleSheet \/ UNCHANGED browseVars
    <2>1. /\ UNCHANGED <<filters, gridLoading, grid, queryCalls, stock, picks, overtook, unsettled>>
          /\ sheetOpen' \in BOOLEAN
      BY <1>1 DEF ToggleSheet, browseVars, BrowseInv, BrowseTypeOK
    <2> QED
      BY <2>1 DEF BrowseInv, BrowseTypeOK, FewEverywhere, FewAgents, LastIsCurrent, OnAPage,
         FoundTotal, Pages
  <1> QED
    BY <1>0, <1>1, PickQueryKeeps, ResetKeeps, PageButtonsKeep, QueryServedKeeps, QueryAnsweredKeeps,
       CatalogKeeps DEF BrowseNext, BrowseStep

\* The marketplace page keeps its types, and at rest its grid is that of the filters, on a
\* page that exists, for every page size and catalog (marketplace/page.tsx:33 and 167).
THEOREM GridFollowsFilters == BrowseSpec => [](BrowseTypeOK /\ GridIsCurrent /\ PageExists)
  <1>1. BrowseInv => BrowseTypeOK /\ GridIsCurrent /\ PageExists
    BY DEF BrowseInv, LastIsCurrent, OnAPage, GridIsCurrent, PageExists
  <1> QED
    BY <1>1, BrowseInvInitially, BrowseInvIsKept, PTL DEF BrowseSpec

-----------------------------------------------------------------------------
(* The connected accounts.                                                 *)

HubReload == [by : {"mount", "sync", "connect"}, n : 0..MaxHubActs,
              at : {"list", "listed", "repos", "reading", "counted"}, seen : SUBSET Insts]
HubCall == [op : {"sync", "connect", "disconnect"}, id : Insts, n : 0..MaxHubActs,
            got : {"nothing", "ok", "failed"}]

\* What the page waits for is under way.
MarksAreDue ==
    /\ accountsLoading => reloads # {}
    /\ linking => (\E c \in hubCalls : c.op = "connect") \/ \E r \in reloads : r.by = "connect"
    /\ syncing => (\E c \in hubCalls : c.op = "sync") \/ \E r \in reloads : r.by = "sync"

\* One reload at a time, and what it has read is what there is.
ReloadIsRight ==
    /\ \A r, s \in reloads : r = s
    /\ \A r \in reloads : /\ r.at = "listed" => r.seen = installed
                          /\ r.at \in {"repos", "reading", "counted"} => shownInsts = installed

\* One request of a button is served and not answered, and no reload meets it.
CallIsAlone ==
    /\ \A c \in hubCalls : c.got # "failed"
    /\ \A c, d \in hubCalls : c.got = "ok" /\ d.got = "ok" => c = d
    /\ \A c \in hubCalls : c.got = "ok" =>
          reloads = {} /\ (c.op = "disconnect" => installed = shownInsts \ {c.id})

ListIsRight == reloads = {} /\ (\A c \in hubCalls : c.got # "ok") => shownInsts = installed

AccountsInv ==
    /\ AccountsTypeOK /\ IsFiniteSet(hubCalls) /\ MarksAreDue
    /\ ~muddled => ReloadIsRight /\ CallIsAlone /\ ListIsRight

LEMMA OnlyElement ==
    ASSUME NEW S, IsFiniteSet(S), NEW x \in S, ~(Cardinality(S) > 1)
    PROVE  S = {x}
  <1>1. IsFiniteSet(S \ {x}) /\ Cardinality(S \ {x}) = Cardinality(S) - 1 /\ Cardinality(S) \in Nat
        /\ Cardinality(S \ {x}) \in Nat
    BY FS_RemoveElement, FS_CardinalityType
  <1>2. Cardinality(S \ {x}) = 0
    BY <1>1
  <1>3. S \ {x} = {}
    BY <1>1, <1>2, FS_EmptySet
  <1> QED
    BY <1>3

LEMMA AccountsInitially == AccountsInit => AccountsInv
  <1> SUFFICES ASSUME AccountsInit PROVE AccountsInv
    OBVIOUS
  <1>1. MaxHubActs \in Nat /\ 0 \in 0..MaxHubActs
    BY AccountsAssumption
  <1>2. Reload("mount", 0) = [by |-> "mount", n |-> 0, at |-> "list", seen |-> {}]
    BY DEF Reload
  <1>3. Reload("mount", 0) \in HubReload
    BY <1>1, <1>2 DEF HubReload
  <1>4. AccountsTypeOK
    BY <1>1, <1>3 DEF AccountsInit, AccountsTypeOK, HubReload
  <1>5. IsFiniteSet(hubCalls)
    BY FS_EmptySet DEF AccountsInit
  <1>6. MarksAreDue /\ ReloadIsRight /\ CallIsAlone /\ ListIsRight
    BY <1>2 DEF AccountsInit, MarksAreDue, ReloadIsRight, CallIsAlone, ListIsRight
  <1> QED
    BY <1>4, <1>5, <1>6 DEF AccountsInv

\* A reload moves on.
LEMMA ReloadMoves ==
    ASSUME AccountsInv, NEW r \in reloads, NEW q \in HubReload, q.by = r.by,
           reloads' = (reloads \ {r}) \cup {q},
           UNCHANGED <<countedInsts, accountsLoading, linking, syncing, hubCalls>>,
           installed' \subseteq Insts, repoCache' \in (SUBSET Insts) \cup {NotCached},
           shownInsts' \subseteq Insts, hubActs' \in 0..MaxHubActs, muddled' \in BOOLEAN,
           ~muddled' =>
               /\ ~muddled
               /\ installed' = installed \/ r.at = "list"
               /\ q.at = "listed" => q.seen = installed'
               /\ q.at \in {"repos", "reading", "counted"} => shownInsts' = installed'
    PROVE  AccountsInv'
  <1>1. AccountsTypeOK'
    BY DEF AccountsInv, AccountsTypeOK, HubReload
  <1>2. MarksAreDue'
    BY DEF AccountsInv, MarksAreDue
  <1>3. ASSUME ~muddled' PROVE ReloadIsRight' /\ CallIsAlone' /\ ListIsRight'
    <2>1. ReloadIsRight /\ CallIsAlone /\ ListIsRight
      BY <1>3 DEF AccountsInv
    <2>2. \A s \in reloads' : s = q
      BY <2>1 DEF ReloadIsRight
    <2>3. reloads # {} /\ reloads' # {} /\ \A c \in hubCalls : c.got # "ok"
      BY <2>1 DEF CallIsAlone
    <2> QED
      BY <1>3, <2>1, <2>2, <2>3 DEF ReloadIsRight, CallIsAlone, ListIsRight
  <1> QED
    BY <1>1, <1>2, <1>3 DEF AccountsInv

LEMMA ReloadTypes ==
    ASSUME AccountsInv, NEW r \in reloads
    PROVE  /\ r \in HubReload /\ installed \subseteq Insts /\ shownInsts \subseteq Insts
           /\ repoCache \in (SUBSET Insts) \cup {NotCached} /\ hubActs \in 0..MaxHubActs
           /\ muddled \in BOOLEAN /\ MaxHubActs \in Nat
           /\ ~muddled /\ r.at \in {"repos", "reading", "counted"} => shownInsts = installed
           /\ ~muddled /\ r.at = "listed" => r.seen = installed
  BY AccountsAssumption DEF AccountsInv, AccountsTypeOK, HubReload, ReloadIsRight

LEMMA Counted == ASSUME hubActs \in 0..MaxHubActs, MaxHubActs \in Nat, HubAct
                 PROVE  hubActs' \in 0..MaxHubActs /\ hubActs + 1 \in 0..MaxHubActs
  BY DEF HubAct

LEMMA SyncedRows ==
    ASSUME NEW given \in SUBSET Insts, NEW new \in AutoSynced(given)
    PROVE  new \subseteq Insts /\ RepoOwners(new) \subseteq Insts
  BY DEF AutoSynced, RepoOwners, Insts

LEMMA ListServedKeeps ==
    ASSUME AccountsInv, NEW r \in reloads, ListServed(r) PROVE AccountsInv'
  <1>1. /\ r.at = "list" /\ UNCHANGED <<repoCache, shownInsts, countedInsts, accountsLoading,
                                        linking, syncing, hubCalls>>
    BY DEF ListServed, accountsPage
  <1>2. CASE /\ installed' \in AutoSynced(installed) /\ UNCHANGED <<hubActs, muddled>>
             /\ reloads' = (reloads \ {r}) \cup {[r EXCEPT !.at = "listed", !.seen = installed']}
    <2>1. installed' \subseteq Insts
      BY <1>2, ReloadTypes, SyncedRows
    <2> DEFINE q == [r EXCEPT !.at = "listed", !.seen = installed']
    <2>2. q \in HubReload /\ q.by = r.by /\ q.at = "listed" /\ q.seen = installed'
      BY <2>1, ReloadTypes DEF HubReload
    <2>3. reloads' = (reloads \ {r}) \cup {q}
      BY <1>2
    <2> HIDE DEF q
    <2> QED
      BY <1>1, <1>2, <2>1, <2>2, <2>3, ReloadTypes, ReloadMoves
  <1>3. CASE /\ HubAct /\ muddled' = TRUE /\ UNCHANGED installed
             /\ reloads' = (reloads \ {r}) \cup {[r EXCEPT !.at = "listed", !.seen = {}]}
    <2>1. hubActs' \in 0..MaxHubActs
      BY <1>3, ReloadTypes, Counted
    <2>2. {} \in SUBSET Insts
      OBVIOUS
    <2> DEFINE q == [r EXCEPT !.at = "listed", !.seen = {}]
    <2>3. q \in HubReload /\ q.by = r.by
      BY <2>2, ReloadTypes DEF HubReload
    <2>4. reloads' = (reloads \ {r}) \cup {q}
      BY <1>3
    <2> HIDE DEF q
    <2> QED
      BY <1>1, <1>3, <2>1, <2>3, <2>4, ReloadTypes, ReloadMoves
  <1> QED
    BY <1>2, <1>3 DEF ListServed

LEMMA ReposFromCacheKeeps ==
    ASSUME AccountsInv, NEW r \in reloads, ReposFromCache(r) PROVE AccountsInv'
  <1>1. /\ r.at = "repos" /\ repoCache # NotCached
        /\ reloads' = (reloads \ {r}) \cup {[r EXCEPT !.at = "counted", !.seen = repoCache]}
        /\ UNCHANGED <<installed, repoCache, shownInsts, countedInsts, accountsLoading, linking,
                       syncing, hubCalls, hubActs, muddled>>
    BY DEF ReposFromCache, accountsPage
  <1>2. repoCache \in SUBSET Insts
    BY <1>1, ReloadTypes
  <1> DEFINE q == [r EXCEPT !.at = "counted", !.seen = repoCache]
  <1>3. q \in HubReload /\ q.by = r.by /\ q.at = "counted"
    BY <1>2, ReloadTypes DEF HubReload
  <1>4. reloads' = (reloads \ {r}) \cup {q}
    BY <1>1
  <1> HIDE DEF q
  <1> QED
    BY <1>1, <1>3, <1>4, ReloadTypes, ReloadMoves

LEMMA ReposReadKeeps ==
    ASSUME AccountsInv, NEW r \in reloads, ReposRead(r) PROVE AccountsInv'
  <1>1. /\ r.at = "repos" /\ installed' \in AutoSynced(installed)
        /\ reloads' = (reloads \ {r})
                        \cup {[r EXCEPT !.at = "reading", !.seen = RepoOwners(installed')]}
        /\ muddled' = (muddled \/ installed' # installed)
        /\ UNCHANGED <<repoCache, shownInsts, countedInsts, accountsLoading, linking, syncing,
                       hubCalls, hubActs>>
    BY DEF ReposRead, accountsPage
  <1>2. installed' \subseteq Insts /\ RepoOwners(installed') \subseteq Insts
    BY <1>1, ReloadTypes, SyncedRows
  <1>3. muddled' \in BOOLEAN /\ (~muddled' => ~muddled /\ installed' = installed)
    BY <1>1
  <1> DEFINE q == [r EXCEPT !.at = "reading", !.seen = RepoOwners(installed')]
  <1>4. q \in HubReload /\ q.by = r.by /\ q.at = "reading"
    BY <1>2, ReloadTypes DEF HubReload
  <1>5. reloads' = (reloads \ {r}) \cup {q}
    BY <1>1
  <1> HIDE DEF q
  <1> QED
    BY <1>1, <1>2, <1>3, <1>4, <1>5, ReloadTypes, ReloadMoves

LEMMA ReposStoredKeeps ==
    ASSUME AccountsInv, NEW r \in reloads, ReposStored(r) PROVE AccountsInv'
  <1>1. /\ r.at = "reading" /\ repoCache' = r.seen
        /\ reloads' = (reloads \ {r}) \cup {[r EXCEPT !.at = "counted"]}
        /\ UNCHANGED <<installed, shownInsts, countedInsts, accountsLoading, linking, syncing,
                       hubCalls, hubActs, muddled>>
    BY DEF ReposStored, accountsPage
  <1>2. r.seen \in SUBSET Insts
    BY ReloadTypes DEF HubReload
  <1> DEFINE q == [r EXCEPT !.at = "counted"]
  <1>3. q \in HubReload /\ q.by = r.by /\ q.at = "counted"
    BY ReloadTypes DEF HubReload
  <1>4. reloads' = (reloads \ {r}) \cup {q}
    BY <1>1
  <1> HIDE DEF q
  <1> QED
    BY <1>1, <1>2, <1>3, <1>4, ReloadTypes, ReloadMoves

LEMMA ListAnsweredKeeps ==
    ASSUME AccountsInv, NEW r \in reloads, ListAnswered(r) PROVE AccountsInv'
  <1>1. /\ r.at = "listed" /\ shownInsts' = r.seen
        /\ reloads' = (reloads \ {r}) \cup {[r EXCEPT !.at = "repos", !.seen = {}]}
        /\ UNCHANGED <<installed, repoCache, countedInsts, accountsLoading, linking, syncing,
                       hubCalls, hubActs, muddled>>
    BY DEF ListAnswered
  <1>2. r.seen \in SUBSET Insts /\ {} \in SUBSET Insts
    BY ReloadTypes DEF HubReload
  <1> DEFINE q == [r EXCEPT !.at = "repos", !.seen = {}]
  <1>3. q \in HubReload /\ q.by = r.by /\ q.at = "repos"
    BY <1>2, ReloadTypes DEF HubReload
  <1>4. reloads' = (reloads \ {r}) \cup {q}
    BY <1>1
  <1> HIDE DEF q
  <1> QED
    BY <1>1, <1>2, <1>3, <1>4, ReloadTypes, ReloadMoves

LEMMA CountsAnsweredKeeps ==
    ASSUME AccountsInv, NEW r \in reloads, CountsAnswered(r) PROVE AccountsInv'
  <1>1. /\ reloads' = reloads \ {r} /\ accountsLoading' = FALSE
        /\ linking' = (linking /\ r.by # "connect") /\ syncing' = (syncing /\ r.by # "sync")
        /\ UNCHANGED <<installed, repoCache, shownInsts, hubCalls>>
    BY DEF CountsAnswered
  <1>2. /\ countedInsts' \subseteq Insts /\ hubActs' \in 0..MaxHubActs /\ muddled' \in BOOLEAN
        /\ ~muddled' => ~muddled /\ r.at = "counted"
    <2>1. CASE r.at = "counted" /\ countedInsts' = r.seen /\ UNCHANGED <<hubActs, muddled>>
      BY <2>1, ReloadTypes DEF HubReload
    <2>2. CASE HubAct /\ countedInsts' = {} /\ muddled' = TRUE
      BY <2>2, ReloadTypes, Counted
    <2> QED
      BY <2>1, <2>2 DEF CountsAnswered
  <1>3. AccountsTypeOK'
    BY <1>1, <1>2 DEF AccountsInv, AccountsTypeOK
  <1>4. MarksAreDue'
    BY <1>1 DEF AccountsInv, MarksAreDue
  <1>5. ASSUME ~muddled' PROVE ReloadIsRight' /\ CallIsAlone' /\ ListIsRight'
    BY <1>1, <1>2, <1>5 DEF AccountsInv, ReloadIsRight, CallIsAlone, ListIsRight
  <1> QED
    BY <1>1, <1>3, <1>4, <1>5 DEF AccountsInv

\* The API acts on a button's request.
LEMMA CallServedKeeps ==
    ASSUME AccountsInv, NEW c \in hubCalls, CallServed(c) PROVE AccountsInv'
  <1>1. /\ c.got = "nothing"
        /\ UNCHANGED <<shownInsts, countedInsts, accountsLoading, linking, syncing, reloads, hubActs>>
    BY DEF CallServed, accountsPage
  <1>2. /\ c \in HubCall /\ installed \subseteq Insts /\ muddled \in BOOLEAN
        /\ repoCache \in (SUBSET Insts) \cup {NotCached} /\ IsFiniteSet(hubCalls)
    BY DEF AccountsInv, AccountsTypeOK, HubCall
  <1>3. PICK got \in {"ok", "failed"} :
           /\ hubCalls' = (hubCalls \ {c}) \cup {[c EXCEPT !.got = got]}
           /\ muddled' \in BOOLEAN
           /\ installed' \subseteq Insts /\ repoCache' \in (SUBSET Insts) \cup {NotCached}
           /\ ~muddled' => /\ ~muddled /\ got = "ok" /\ reloads = {} /\ hubCalls = {c}
                           /\ c.op = "disconnect" => installed' = installed \ {c.id}
    <2>1. ASSUME NEW got \in {"ok", "failed"},
                 /\ hubCalls' = (hubCalls \ {c}) \cup {[c EXCEPT !.got = got]}
                 /\ muddled' = (muddled \/ got = "failed" \/ reloads # {}
                                  \/ Cardinality(hubCalls) > 1),
                 \/ c.op = "connect" /\ installed' = installed \cup {DevInst} /\ repoCache' = NotCached
                 \/ c.op = "sync" /\ installed' \in AutoSynced(installed) /\ UNCHANGED repoCache
                 \/ /\ c.op = "disconnect" /\ c.id \in installed
                    /\ installed' = installed \ {c.id} /\ repoCache' = NotCached
          PROVE  /\ hubCalls' = (hubCalls \ {c}) \cup {[c EXCEPT !.got = got]}
                 /\ muddled' \in BOOLEAN
                 /\ installed' \subseteq Insts /\ repoCache' \in (SUBSET Insts) \cup {NotCached}
                 /\ ~muddled' => /\ ~muddled /\ got = "ok" /\ reloads = {} /\ hubCalls = {c}
                                 /\ c.op = "disconnect" => installed' = installed \ {c.id}
      <3>1. installed' \subseteq Insts /\ repoCache' \in (SUBSET Insts) \cup {NotCached}
        <4>1. DevInst \in Insts /\ \A s \in AutoSynced(installed) : s \subseteq Insts
          BY <1>2, SyncedRows DEF Insts
        <4> QED
          BY <1>2, <2>1, <4>1
      <3>2. ~muddled' => ~muddled /\ got = "ok" /\ reloads = {} /\ ~(Cardinality(hubCalls) > 1)
        BY <2>1
      <3>3. ~muddled' => hubCalls = {c}
        BY <1>2, <3>2, OnlyElement
      <3>4. muddled' \in BOOLEAN
        BY <2>1
      <3>5. c.op = "disconnect" => installed' = installed \ {c.id}
        BY <2>1
      <3> QED
        BY <2>1, <3>1, <3>2, <3>3, <3>4, <3>5
    <2>2. CASE /\ hubCalls' = (hubCalls \ {c}) \cup {[c EXCEPT !.got = "failed"]}
               /\ muddled' = TRUE /\ UNCHANGED <<installed, repoCache>>
      BY <1>2, <2>2
    <2> QED
      BY <2>1, <2>2 DEF CallServed
  <1> DEFINE d == [c EXCEPT !.got = got]
  <1>4. d \in HubCall /\ d.got = got /\ d.op = c.op /\ d.id = c.id
    BY <1>2 DEF HubCall
  <1>5. hubCalls' = (hubCalls \ {c}) \cup {d}
    BY <1>3
  <1> HIDE DEF d
  <1>6. AccountsTypeOK'
    BY <1>1, <1>3, <1>4, <1>5 DEF AccountsInv, AccountsTypeOK, HubCall
  <1>7. IsFiniteSet(hubCalls')
    <2>1. IsFiniteSet(hubCalls \ {c})
      BY <1>2, FS_RemoveElement
    <2> QED
      BY <1>5, <2>1, FS_AddElement
  <1>8. MarksAreDue'
    BY <1>1, <1>4, <1>5 DEF AccountsInv, MarksAreDue
  <1>9. ASSUME ~muddled' PROVE ReloadIsRight' /\ CallIsAlone' /\ ListIsRight'
    <2>1. hubCalls' = {d} /\ d.got = "ok" /\ reloads = {} /\ reloads' = {} /\ ~muddled
      BY <1>1, <1>3, <1>4, <1>5, <1>9
    <2>2. shownInsts' = installed
      BY <1>1, <1>3, <1>9, <2>1 DEF AccountsInv, ListIsRight
    <2>3. d.op = "disconnect" => installed' = shownInsts' \ {d.id}
      BY <1>3, <1>4, <1>9, <2>2
    <2> QED
      BY <2>1, <2>3 DEF ReloadIsRight, CallIsAlone, ListIsRight
  <1> QED
    BY <1>6, <1>7, <1>8, <1>9 DEF AccountsInv

\* A button is pressed.
LEMMA PressKeeps ==
    ASSUME AccountsInv, NEW op \in {"sync", "connect", "disconnect"}, NEW id \in Insts,
           Press(op, id), linking' \in BOOLEAN, syncing' \in BOOLEAN,
           linking' => linking \/ op = "connect", syncing' => syncing \/ op = "sync"
    PROVE  AccountsInv'
  <1> DEFINE c == [op |-> op, id |-> id, n |-> hubActs + 1, got |-> "nothing"]
  <1>1. /\ HubAct /\ hubCalls' = hubCalls \cup {c}
        /\ UNCHANGED <<installed, repoCache, shownInsts, countedInsts, accountsLoading, reloads,
                       muddled>>
    BY DEF Press
  <1>2. hubActs' \in 0..MaxHubActs /\ hubActs + 1 \in 0..MaxHubActs
    BY <1>1, Counted, AccountsAssumption DEF AccountsInv, AccountsTypeOK
  <1>3. c \in HubCall /\ c.got = "nothing" /\ c.op = op
    BY <1>2 DEF HubCall
  <1> HIDE DEF c
  <1>4. AccountsTypeOK'
    BY <1>1, <1>2, <1>3 DEF AccountsInv, AccountsTypeOK, HubCall
  <1>5. IsFiniteSet(hubCalls')
    BY <1>1, FS_AddElement DEF AccountsInv
  <1>6. MarksAreDue'
    BY <1>1, <1>3 DEF AccountsInv, MarksAreDue
  <1>7. ASSUME ~muddled' PROVE ReloadIsRight' /\ CallIsAlone' /\ ListIsRight'
    BY <1>1, <1>3, <1>7 DEF AccountsInv, ReloadIsRight, CallIsAlone, ListIsRight
  <1> QED
    BY <1>4, <1>5, <1>6, <1>7 DEF AccountsInv

\* A request of a button has succeeded: the list is loaded again.
LEMMA ReloadAfterKeeps ==
    ASSUME AccountsInv, NEW c \in hubCalls, c.op \in {"sync", "connect"}, c.got = "ok",
           ReloadAfter(c), hubCalls' = hubCalls \ {c},
           UNCHANGED <<installed, repoCache, countedInsts, hubActs>>
    PROVE  AccountsInv'
  <1> DEFINE r == Reload(c.op, c.n)
  <1>1. /\ reloads' = reloads \cup {r} /\ accountsLoading' = TRUE
        /\ muddled' = (muddled \/ hubCalls # {c}) /\ UNCHANGED <<shownInsts, linking, syncing>>
    BY DEF ReloadAfter
  <1>2. c \in HubCall
    BY DEF AccountsInv, AccountsTypeOK, HubCall
  <1>3. r \in HubReload /\ r.by = c.op /\ r.at = "list"
    BY <1>2 DEF HubCall, HubReload, Reload
  <1> HIDE DEF r
  <1>4. AccountsTypeOK'
    <2>1. muddled' \in BOOLEAN
      BY <1>1
    <2> QED
      BY <1>1, <1>3, <2>1 DEF AccountsInv, AccountsTypeOK, HubReload
  <1>5. IsFiniteSet(hubCalls')
    BY FS_RemoveElement DEF AccountsInv
  <1>6. MarksAreDue'
    BY <1>1, <1>3 DEF AccountsInv, MarksAreDue
  <1>7. ASSUME ~muddled' PROVE ReloadIsRight' /\ CallIsAlone' /\ ListIsRight'
    <2>1. ~muddled /\ hubCalls' = {} /\ reloads = {} /\ reloads' = {r}
      BY <1>1, <1>7 DEF AccountsInv, CallIsAlone
    <2> QED
      BY <1>3, <2>1 DEF ReloadIsRight, CallIsAlone, ListIsRight
  <1> QED
    BY <1>4, <1>5, <1>6, <1>7 DEF AccountsInv

LEMMA AnswersKeep ==
    ASSUME AccountsInv, NEW c \in hubCalls,
           SyncAnswered(c) \/ LinkAnswered(c) \/ DisconnectAnswered(c)
    PROVE  AccountsInv'
  <1>1. c.got # "nothing" /\ hubCalls' = hubCalls \ {c}
        /\ UNCHANGED <<installed, repoCache, countedInsts, hubActs>>
    BY DEF SyncAnswered, LinkAnswered, DisconnectAnswered
  <1>2. c \in HubCall /\ c.got \in {"ok", "failed"} /\ c.op \in {"sync", "connect", "disconnect"}
    BY <1>1 DEF AccountsInv, AccountsTypeOK, HubCall
  <1>3. IsFiniteSet(hubCalls')
    BY <1>1, FS_RemoveElement DEF AccountsInv
  <1>4. CASE c.op \in {"sync", "connect"} /\ c.got = "ok"
    <2>1. ReloadAfter(c)
      BY <1>4 DEF SyncAnswered, LinkAnswered, DisconnectAnswered
    <2> QED
      BY <1>1, <1>4, <2>1, ReloadAfterKeeps
  <1>5. CASE c.op \in {"sync", "connect"} /\ c.got # "ok"
    <2>1. /\ UNCHANGED <<shownInsts, accountsLoading, reloads, muddled>>
          /\ \/ c.op = "sync" /\ syncing' = FALSE /\ UNCHANGED linking
             \/ c.op = "connect" /\ linking' = FALSE /\ UNCHANGED syncing
      BY <1>5 DEF SyncAnswered, LinkAnswered, DisconnectAnswered
    <2>2. AccountsTypeOK'
      BY <1>1, <2>1 DEF AccountsInv, AccountsTypeOK
    <2>3. MarksAreDue'
      BY <1>1, <2>1 DEF AccountsInv, MarksAreDue
    <2>4. muddled'
      BY <1>2, <1>5, <2>1 DEF AccountsInv, CallIsAlone
    <2> QED
      BY <1>3, <2>2, <2>3, <2>4 DEF AccountsInv
  <1>6. CASE c.op = "disconnect"
    <2>1. /\ UNCHANGED <<accountsLoading, linking, syncing, reloads, muddled>>
          /\ shownInsts' = IF c.got = "ok" THEN shownInsts \ {c.id} ELSE shownInsts
      BY <1>6 DEF SyncAnswered, LinkAnswered, DisconnectAnswered
    <2>2. AccountsTypeOK'
      BY <1>1, <2>1 DEF AccountsInv, AccountsTypeOK
    <2>3. MarksAreDue'
      BY <1>1, <1>6, <2>1 DEF AccountsInv, MarksAreDue
    <2>4. ASSUME ~muddled' PROVE ReloadIsRight' /\ CallIsAlone' /\ ListIsRight'
      <3>1. ReloadIsRight /\ CallIsAlone /\ ListIsRight
        BY <2>1, <2>4 DEF AccountsInv
      <3>2. c.got = "ok" /\ reloads' = {} /\ installed' = shownInsts'
        BY <1>1, <1>2, <1>6, <2>1, <3>1 DEF CallIsAlone
      <3>3. \A d \in hubCalls' : d.got # "ok" /\ d.got # "failed"
        BY <1>1, <3>1, <3>2 DEF CallIsAlone
      <3> QED
        BY <3>2, <3>3 DEF ReloadIsRight, CallIsAlone, ListIsRight
    <2> QED
      BY <1>3, <2>2, <2>3, <2>4 DEF AccountsInv
  <1> QED
    BY <1>2, <1>4, <1>5, <1>6

LEMMA AccountsInvIsKept == AccountsInv /\ [AccountsNext]_accountsVars => AccountsInv'
  <1> SUFFICES ASSUME AccountsInv, [AccountsNext]_accountsVars PROVE AccountsInv'
    OBVIOUS
  <1>1. CASE CacheExpires
    <2>1. hubActs' \in 0..MaxHubActs
      BY <1>1, Counted, AccountsAssumption DEF CacheExpires, AccountsInv, AccountsTypeOK
    <2> QED
      BY <1>1, <2>1 DEF CacheExpires, accountsPage, AccountsInv, AccountsTypeOK, MarksAreDue,
         ReloadIsRight, CallIsAlone, ListIsRight
  <1>2. CASE ClickSync \/ ClickLink \/ \E id \in Insts : ClickDisconnect(id)
    <2>1. linking \in BOOLEAN /\ syncing \in BOOLEAN /\ DevInst \in Insts
      BY DEF AccountsInv, AccountsTypeOK, Insts
    <2>2. CASE ClickSync
      BY <2>1, <2>2, PressKeeps DEF ClickSync
    <2>3. CASE ClickLink
      BY <2>1, <2>3, PressKeeps DEF ClickLink
    <2>4. ASSUME NEW id \in Insts, ClickDisconnect(id) PROVE AccountsInv'
      BY <2>1, <2>4, PressKeeps DEF ClickDisconnect
    <2> QED
      BY <1>2, <2>2, <2>3, <2>4
  <1>3. CASE UNCHANGED accountsVars
    BY <1>3 DEF accountsVars, AccountsInv, AccountsTypeOK, MarksAreDue, ReloadIsRight, CallIsAlone,
       ListIsRight
  <1>4. CASE ReloadStep
    BY <1>4, ListServedKeeps, ReposFromCacheKeeps, ReposReadKeeps, ReposStoredKeeps,
       ListAnsweredKeeps, CountsAnsweredKeeps DEF ReloadStep
  <1>5. CASE HubCallStep
    BY <1>5, CallServedKeeps, AnswersKeep DEF HubCallStep
  <1> QED
    BY <1>1, <1>2, <1>3, <1>4, <1>5 DEF AccountsNext

\* The connected accounts keep their types, and at rest, undisturbed, the page lists the
\* user's installations, for any number of them (connected-accounts/page.tsx:153).
THEOREM AccountsAreListed == AccountsSpec => [](AccountsTypeOK /\ AccountsCurrent)
  <1>1. ASSUME AccountsInv PROVE AccountsTypeOK /\ AccountsCurrent
    BY <1>1 DEF AccountsInv, AccountsTypeOK, MarksAreDue, ListIsRight, AccountsCurrent
  <1> QED
    BY <1>1, AccountsInitially, AccountsInvIsKept, PTL DEF AccountsSpec

-----------------------------------------------------------------------------
(* The administrators' user table.                                         *)

UserRead == [got : {"nothing", "rows"}, seen : SUBSET People]
UserToggle == [who : People, to : BOOLEAN, n : 1..MaxToggles, got : {"nothing", "ok", "failed"}]

\* One read at most, and no row is busy without a toggle.
OneRead ==
    /\ \A r, s \in userReads : r = s
    /\ usersLoading <=> userReads # {}
    /\ toggles = {} => actionLoadingId = "none"

\* Undisturbed, a read meets no toggle, toggles are about different accounts, and one is
\* only refused that would change nothing.
TogglesApart ==
    /\ userReads # {} => toggles = {}
    /\ \A r \in userReads : r.got = "rows" => r.seen = activeUsers
    /\ \A s, t \in toggles : s.who = t.who => s = t
    /\ \A t \in toggles : t.got = "failed" => ~t.to

\* An account is as the table shows it, or as the toggle served will.
RowsFollow ==
    userReads = {} =>
        /\ \A t \in toggles : t.got = "ok" => (t.who \in activeUsers <=> t.to)
        /\ \A u \in People : (\A t \in toggles : t.who = u => t.got # "ok")
                                => (u \in activeUsers <=> u \in listedActive)

UsersInv == UsersTypeOK /\ OneRead /\ (~usersMuddled => TogglesApart /\ RowsFollow)

LEMMA UsersInitially == UsersInit => UsersInv
  <1> SUFFICES ASSUME UsersInit PROVE UsersInv
    OBVIOUS
  <1>1. Unread = [got |-> "nothing", seen |-> {}] /\ MaxToggles \in Nat
    BY UsersAssumption DEF Unread
  <1>2. UsersTypeOK
    <2>1. Unread \in UserRead /\ 0 \in 0..MaxToggles
      BY <1>1 DEF UserRead
    <2>2. /\ userReads = {Unread} /\ toggles = {} /\ toggleActs = 0
          /\ activeUsers \subseteq People /\ listedUsers = {} /\ listedActive = {}
          /\ {usersLoading, usersError, usersMuddled} \subseteq BOOLEAN
          /\ statusFilter = "ALL" /\ actionLoadingId = "none"
      BY DEF UsersInit
    <2> QED
      BY <2>1, <2>2 DEF UsersTypeOK, UserFilters, UserRead
  <1> QED
    BY <1>1, <1>2 DEF UsersInit, UsersInv, OneRead, TogglesApart, RowsFollow

LEMMA ToggleCounted ==
    ASSUME UsersInv, ToggleAct
    PROVE  toggleActs' \in 0..MaxToggles /\ toggleActs + 1 \in 1..MaxToggles
  BY UsersAssumption DEF ToggleAct, UsersInv, UsersTypeOK

LEMMA ReadsKeep ==
    ASSUME UsersInv,
           \/ ClickRefresh \/ UsersFailed
           \/ \E r \in userReads : UsersServed(r) \/ UsersAnswered(r)
    PROVE  UsersInv'
  <1>1. CASE ClickRefresh
    <2>1. /\ ~usersLoading /\ usersLoading' = TRUE /\ usersError' = FALSE /\ userReads' = {Unread}
          /\ usersMuddled' = (usersMuddled \/ toggles # {})
          /\ UNCHANGED <<activeUsers, listedUsers, listedActive, statusFilter, actionLoadingId,
                         toggles>>
          /\ toggleActs' \in 0..MaxToggles
      BY <1>1, ToggleCounted DEF ClickRefresh
    <2>2. /\ Unread = [got |-> "nothing", seen |-> {}] /\ Unread \in UserRead
          /\ usersMuddled' \in BOOLEAN
      BY <2>1 DEF Unread, UserRead
    <2>3. UsersTypeOK'
      BY <2>1, <2>2 DEF UsersInv, UsersTypeOK, UserRead
    <2>4. OneRead'
      BY <2>1 DEF UsersInv, OneRead
    <2>5. ASSUME ~usersMuddled' PROVE TogglesApart' /\ RowsFollow'
      <3>1. /\ toggles' = {} /\ userReads' = {Unread} /\ Unread.got = "nothing"
        BY <2>1, <2>2, <2>5
      <3> QED
        BY <3>1 DEF TogglesApart, RowsFollow
    <2> QED
      BY <2>3, <2>4, <2>5 DEF UsersInv
  <1>2. CASE UsersFailed
    <2>1. /\ userReads' = {} /\ usersLoading' = FALSE /\ usersError' = TRUE /\ usersMuddled' = TRUE
          /\ UNCHANGED <<activeUsers, listedUsers, listedActive, statusFilter, actionLoadingId,
                         toggles>>
          /\ toggleActs' \in 0..MaxToggles
      BY <1>2, ToggleCounted DEF UsersFailed
    <2> QED
      BY <2>1 DEF UsersInv, UsersTypeOK, OneRead
  <1>3. ASSUME NEW r \in userReads, UsersServed(r) PROVE UsersInv'
    <2>1. /\ r.got = "nothing" /\ userReads' = {[got |-> "rows", seen |-> activeUsers]}
          /\ UNCHANGED <<activeUsers, listedUsers, listedActive, usersLoading, usersError,
                         statusFilter, actionLoadingId, toggles, toggleActs, usersMuddled>>
      BY <1>3 DEF UsersServed
    <2>2. UsersTypeOK'
      <3>1. [got |-> "rows", seen |-> activeUsers] \in UserRead
        BY DEF UsersInv, UsersTypeOK, UserRead
      <3> QED
        BY <2>1, <3>1 DEF UsersInv, UsersTypeOK, UserRead
    <2> QED
      <3>1. userReads # {} /\ userReads' # {}
        BY <2>1
      <3>2. OneRead'
        BY <2>1, <3>1 DEF UsersInv, OneRead
      <3>3. ASSUME ~usersMuddled' PROVE TogglesApart' /\ RowsFollow'
        <4>1. TogglesApart /\ UNCHANGED <<toggles, activeUsers>>
          BY <2>1, <3>3 DEF UsersInv
        <4>2. \A q \in userReads' : q.seen = activeUsers
          BY <2>1
        <4>3. TogglesApart'
          BY <3>1, <4>1, <4>2 DEF TogglesApart
        <4> QED
          BY <3>1, <4>3 DEF RowsFollow
      <3> QED
        BY <2>2, <3>2, <3>3 DEF UsersInv
  <1>4. ASSUME NEW r \in userReads, UsersAnswered(r) PROVE UsersInv'
    <2>1. /\ r.got = "rows" /\ userReads' = {} /\ usersLoading' = FALSE
          /\ listedUsers' = People /\ listedActive' = r.seen
          /\ UNCHANGED <<activeUsers, usersError, statusFilter, actionLoadingId, toggles,
                         toggleActs, usersMuddled>>
      BY <1>4 DEF UsersAnswered
    <2>2. UsersTypeOK'
      BY <1>4, <2>1 DEF UsersInv, UsersTypeOK
    <2>3. OneRead'
      BY <2>1 DEF UsersInv, OneRead
    <2>4. ASSUME ~usersMuddled' PROVE TogglesApart' /\ RowsFollow'
      BY <1>4, <2>1, <2>4 DEF UsersInv, TogglesApart, RowsFollow
    <2> QED
      BY <2>2, <2>3, <2>4 DEF UsersInv
  <1> QED
    BY <1>1, <1>2, <1>3, <1>4

LEMMA ClickToggleKeeps ==
    ASSUME UsersInv, NEW u \in People, ClickToggle(u) PROVE UsersInv'
  <1> DEFINE t == [who |-> u, to |-> u \notin listedActive, n |-> toggleActs + 1, got |-> "nothing"]
  <1>1. /\ ~usersLoading /\ actionLoadingId' = u /\ toggles' = toggles \cup {t}
        /\ usersMuddled' = (usersMuddled \/ \E s \in toggles : s.who = u)
        /\ UNCHANGED <<activeUsers, listedUsers, listedActive, usersLoading, usersError,
                       statusFilter, userReads>>
    BY DEF ClickToggle, RowsShown
  <1>2. toggleActs' \in 0..MaxToggles /\ toggleActs + 1 \in 1..MaxToggles
    BY ToggleCounted DEF ClickToggle
  <1>3. t \in UserToggle /\ t.who = u /\ t.got = "nothing"
    BY <1>2 DEF UserToggle
  <1> HIDE DEF t
  <1>4. UsersTypeOK'
    <2>1. usersMuddled' \in BOOLEAN
      BY <1>1
    <2> QED
      BY <1>1, <1>2, <1>3, <2>1 DEF UsersInv, UsersTypeOK, UserToggle
  <1>5. OneRead'
    BY <1>1 DEF UsersInv, OneRead
  <1>6. ASSUME ~usersMuddled' PROVE TogglesApart' /\ RowsFollow'
    <2>1. ~usersMuddled /\ userReads = {} /\ \A s \in toggles : s.who # u
      BY <1>1, <1>6 DEF UsersInv, OneRead
    <2>2. TogglesApart /\ RowsFollow
      BY <2>1 DEF UsersInv
    <2>3. TogglesApart'
      BY <1>1, <1>3, <2>1, <2>2 DEF TogglesApart
    <2>4. RowsFollow'
      BY <1>1, <1>3, <2>1, <2>2 DEF RowsFollow
    <2> QED
      BY <2>3, <2>4
  <1> QED
    BY <1>4, <1>5, <1>6 DEF UsersInv

LEMMA ToggleServedKeeps ==
    ASSUME UsersInv, NEW t \in toggles, ToggleServed(t) PROVE UsersInv'
  <1>1. /\ t.got = "nothing"
        /\ UNCHANGED <<listedUsers, listedActive, usersLoading, usersError, statusFilter,
                       actionLoadingId, userReads, toggleActs>>
    BY DEF ToggleServed
  <1>2. t \in UserToggle /\ t.who \in People /\ t.to \in BOOLEAN
    BY DEF UsersInv, UsersTypeOK, UserToggle
  <1>3. PICK got \in {"ok", "failed"} :
           /\ toggles' = (toggles \ {t}) \cup {[t EXCEPT !.got = got]}
           /\ \/ t.who = Myself /\ ~t.to /\ got = "failed" /\ UNCHANGED <<activeUsers, usersMuddled>>
              \/ /\ activeUsers' = IF t.to THEN activeUsers \cup {t.who} ELSE activeUsers \ {t.who}
                 /\ usersMuddled' = (usersMuddled \/ got = "failed" \/ userReads # {})
    BY DEF ToggleServed
  <1> DEFINE s == [t EXCEPT !.got = got]
  <1>4. s \in UserToggle /\ s.got = got /\ s.who = t.who /\ s.to = t.to
    BY <1>2 DEF UserToggle
  <1>5. toggles' = (toggles \ {t}) \cup {s}
    BY <1>3
  <1> HIDE DEF s
  <1>6. UsersTypeOK'
    <2>1. activeUsers' \subseteq People
      BY <1>2, <1>3 DEF UsersInv, UsersTypeOK
    <2>2. usersMuddled' \in BOOLEAN
      BY <1>3 DEF UsersInv, UsersTypeOK
    <2> QED
      BY <1>1, <1>4, <1>5, <2>1, <2>2 DEF UsersInv, UsersTypeOK, UserToggle
  <1>7. OneRead'
    BY <1>1, <1>5 DEF UsersInv, OneRead
  <1>8. ASSUME ~usersMuddled' PROVE TogglesApart' /\ RowsFollow'
    <2>1. ~usersMuddled /\ userReads = {}
      <3>1. ~usersMuddled
        BY <1>3, <1>8
      <3> QED
        BY <3>1 DEF UsersInv, TogglesApart
    <2>2. TogglesApart /\ RowsFollow
      BY <2>1 DEF UsersInv
    <2>3. \A x \in toggles \ {t} : x.who # t.who
      BY <2>2 DEF TogglesApart
    <2>4. CASE got = "failed"
      <3>1. ~t.to /\ UNCHANGED activeUsers
        BY <1>3, <1>8, <2>4
      <3> QED
        BY <1>1, <1>4, <1>5, <2>1, <2>2, <2>3, <2>4, <3>1 DEF TogglesApart, RowsFollow
    <2>5. CASE got = "ok"
      <3>1. activeUsers' = IF t.to THEN activeUsers \cup {t.who} ELSE activeUsers \ {t.who}
        BY <1>3, <2>5
      <3>2. TogglesApart'
        BY <1>1, <1>4, <1>5, <2>1, <2>2, <2>3, <2>5 DEF TogglesApart
      <3>3. \A x \in toggles' : x.got = "ok" => (x.who \in activeUsers' <=> x.to)
        BY <1>4, <1>5, <2>1, <2>2, <2>3, <3>1 DEF RowsFollow
      <3>4. ASSUME NEW u \in People, \A x \in toggles' : x.who = u => x.got # "ok"
            PROVE  u \in activeUsers' <=> u \in listedActive'
        <4>1. u # t.who
          BY <1>4, <1>5, <2>5, <3>4
        <4>2. \A x \in toggles : x.who = u => x.got # "ok"
          BY <1>5, <3>4, <4>1
        <4> QED
          BY <1>1, <2>1, <2>2, <3>1, <4>1, <4>2 DEF RowsFollow
      <3> QED
        BY <3>2, <3>3, <3>4 DEF RowsFollow
    <2> QED
      BY <2>4, <2>5
  <1> QED
    BY <1>6, <1>7, <1>8 DEF UsersInv

LEMMA ToggleAnsweredKeeps ==
    ASSUME UsersInv, NEW t \in toggles, ToggleAnswered(t) PROVE UsersInv'
  <1>1. /\ t.got # "nothing" /\ toggles' = toggles \ {t} /\ actionLoadingId' = "none"
        /\ UNCHANGED <<activeUsers, listedUsers, usersLoading, usersError, statusFilter, userReads,
                       toggleActs, usersMuddled>>
    BY DEF ToggleAnswered
  <1>2. t.who \in People /\ t.to \in BOOLEAN /\ t.got \in {"ok", "failed"}
    BY <1>1 DEF UsersInv, UsersTypeOK
  <1>3. /\ t.got = "ok" => listedActive' = IF t.to THEN listedActive \cup {t.who}
                                           ELSE listedActive \ {t.who}
        /\ t.got = "failed" /\ ~t.to => listedActive' = listedActive
        /\ listedActive' \in {listedActive, listedActive \cup {t.who}, listedActive \ {t.who}}
    BY <1>2 DEF ToggleAnswered
  <1>4. UsersTypeOK'
    <2>1. listedActive' \subseteq People
      BY <1>2, <1>3 DEF UsersInv, UsersTypeOK
    <2> QED
      BY <1>1, <2>1 DEF UsersInv, UsersTypeOK
  <1>5. OneRead'
    BY <1>1 DEF UsersInv, OneRead
  <1>6. ASSUME ~usersMuddled' PROVE TogglesApart' /\ RowsFollow'
    <2>1. TogglesApart /\ RowsFollow
      BY <1>1, <1>6 DEF UsersInv
    <2>2. TogglesApart'
      BY <1>1, <2>1 DEF TogglesApart
    <2>3. userReads = {} /\ userReads' = {} /\ \A x \in toggles' : x.who # t.who /\ x \in toggles
      BY <1>1, <2>1 DEF TogglesApart
    <2>4. ASSUME NEW u \in People, \A x \in toggles' : x.who = u => x.got # "ok"
          PROVE  u \in activeUsers' <=> u \in listedActive'
      <3>1. CASE u = t.who /\ t.got = "ok"
        BY <1>1, <1>3, <2>1, <2>3, <3>1 DEF RowsFollow
      <3>2. CASE u = t.who /\ t.got = "failed"
        <4>1. \A x \in toggles : x.who = u => x.got # "ok"
          BY <1>1, <2>3, <3>2
        <4>2. listedActive' = listedActive
          BY <1>3, <2>1, <3>2 DEF TogglesApart
        <4> QED
          BY <1>1, <2>1, <2>3, <4>1, <4>2 DEF RowsFollow
      <3>3. CASE u # t.who
        <4>1. \A x \in toggles : x.who = u => x.got # "ok"
          BY <1>1, <2>4, <3>3
        <4>2. u \in listedActive' <=> u \in listedActive
          BY <1>3, <3>3
        <4> QED
          BY <1>1, <2>1, <2>3, <4>1, <4>2 DEF RowsFollow
      <3> QED
        BY <1>2, <3>1, <3>2, <3>3
    <2>5. RowsFollow'
      BY <1>1, <2>1, <2>3, <2>4 DEF RowsFollow
    <2> QED
      BY <2>2, <2>5
  <1> QED
    BY <1>4, <1>5, <1>6 DEF UsersInv

LEMMA UsersInvIsKept == UsersInv /\ [UsersNext]_usersVars => UsersInv'
  <1> SUFFICES ASSUME UsersInv, [UsersNext]_usersVars PROVE UsersInv'
    OBVIOUS
  <1>1. ASSUME NEW s \in UserFilters, PickStatus(s) PROVE UsersInv'
    BY <1>1 DEF PickStatus, UsersInv, UsersTypeOK, OneRead, TogglesApart, RowsFollow
  <1>2. ASSUME NEW u \in People, OtherAdmin(u) PROVE UsersInv'
    <2>1. toggleActs' \in 0..MaxToggles
      BY <1>2, ToggleCounted DEF OtherAdmin
    <2> QED
      BY <1>2, <2>1 DEF OtherAdmin, UsersInv, UsersTypeOK, OneRead
  <1>3. CASE UNCHANGED usersVars
    BY <1>3 DEF usersVars, UsersInv, UsersTypeOK, OneRead, TogglesApart, RowsFollow
  <1> QED
    BY <1>1, <1>2, <1>3, ReadsKeep, ClickToggleKeeps, ToggleServedKeeps, ToggleAnsweredKeeps
    DEF UsersNext, UsersStep

\* The user table keeps its types, and at rest, undisturbed, it shows who may sign in as the
\* API has it, whatever was toggled in whatever order (UserTable.tsx:426).
THEOREM TableShowsUsers == UsersSpec => [](UsersTypeOK /\ UsersCurrent)
  <1>1. ASSUME UsersInv PROVE UsersTypeOK /\ UsersCurrent
    <2>1. ASSUME userReads = {}, toggles = {}, ~usersMuddled
          PROVE  listedActive = activeUsers /\ actionLoadingId = "none"
      <3>1. \A u \in People : u \in activeUsers <=> u \in listedActive
        BY <1>1, <2>1 DEF UsersInv, RowsFollow
      <3> QED
        BY <1>1, <2>1, <3>1 DEF UsersInv, UsersTypeOK, OneRead
    <2> QED
      BY <1>1, <2>1 DEF UsersInv, UsersCurrent
  <1> QED
    BY <1>1, UsersInitially, UsersInvIsKept, PTL DEF UsersSpec

-----------------------------------------------------------------------------
(* The moderation queue.                                                   *)

PendingRead == [n : 0..MaxDecisions, got : {"nothing", "rows"}, seen : SUBSET Submissions]
Decision == [on : Submissions, to : {"APPROVED", "REJECTED"}, n : 1..MaxDecisions,
             got : {"nothing", "ok", "failed"}]

\* A rejection that was served stands, and one's own agents are never approved.
RejectionsStand ==
    /\ \A d \in decisions : d.got = "ok" /\ d.to = "REJECTED" => review[d.on] = "REJECTED"
    /\ \A a \in rejectedHere : review[a] = "REJECTED"
    /\ \A a \in MyAgents : review[a] # "APPROVED"

\* Undisturbed, there is one load at most, what it has read is what there is, and a
\* decision that was served will start another.
LoadsFollow ==
    /\ \A r, s \in queueReads : r = s
    /\ \A r \in queueReads : r.got = "rows" => r.seen = Reviewable
    /\ queueReads = {} => pendingAgents = Reviewable \/ \E d \in decisions : d.got = "ok"

QueueInv ==
    /\ QueueTypeOK /\ RejectionsStand /\ (queueLoading => queueReads # {})
    /\ ~queueMuddled => LoadsFollow

LEMMA QueueInitially == QueueInit => QueueInv
  <1> SUFFICES ASSUME QueueInit PROVE QueueInv
    OBVIOUS
  <1>1. MaxDecisions \in Nat /\ MyAgents \subseteq Submissions
    BY QueueAssumption
  <1>2. /\ QueueRead(0) \in PendingRead /\ QueueRead(0).got = "nothing" /\ 0 \in 0..MaxDecisions
    BY <1>1 DEF QueueRead, PendingRead
  <1>3. /\ review \in [Submissions -> ReviewStates]
        /\ \A a \in Submissions : review[a] # "APPROVED"
    BY DEF QueueInit, ReviewStates
  <1>4. QueueTypeOK
    BY <1>2, <1>3 DEF QueueInit, QueueTypeOK, PendingRead
  <1> QED
    BY <1>1, <1>2, <1>3, <1>4 DEF QueueInit, QueueInv, RejectionsStand, LoadsFollow

LEMMA DecisionCounted ==
    ASSUME QueueInv, DecisionAct
    PROVE  decisionActs' \in 0..MaxDecisions /\ decisionActs + 1 \in 1..MaxDecisions
  BY QueueAssumption DEF DecisionAct, QueueInv, QueueTypeOK

LEMMA QueueServedKeeps ==
    ASSUME QueueInv, NEW r \in queueReads, QueueServed(r) PROVE QueueInv'
  <1> DEFINE q == [r EXCEPT !.got = "rows", !.seen = Reviewable]
  <1>1. /\ queueReads' = (queueReads \ {r}) \cup {q}
        /\ UNCHANGED <<review, pendingAgents, queueLoading, decisions, decisionActs, approvedHere,
                       rejectedHere, queueMuddled>>
    BY DEF QueueServed
  <1>2. r \in PendingRead /\ Reviewable \subseteq Submissions
    BY DEF QueueInv, QueueTypeOK, PendingRead, Reviewable
  <1>3. q \in PendingRead /\ q.seen = Reviewable
    BY <1>2 DEF PendingRead
  <1> HIDE DEF q
  <1>4. QueueTypeOK'
    BY <1>1, <1>3 DEF QueueInv, QueueTypeOK, PendingRead
  <1>5. RejectionsStand' /\ queueReads' # {}
    BY <1>1 DEF QueueInv, RejectionsStand
  <1>6. ASSUME ~queueMuddled' PROVE LoadsFollow'
    <2>1. Reviewable' = Reviewable
      BY <1>1 DEF Reviewable
    <2> QED
      BY <1>1, <1>3, <1>6, <2>1 DEF QueueInv, LoadsFollow
  <1> QED
    BY <1>4, <1>5, <1>6 DEF QueueInv

LEMMA QueueAnsweredKeeps ==
    ASSUME QueueInv, NEW r \in queueReads, QueueAnswered(r) PROVE QueueInv'
  <1>1. /\ queueReads' = queueReads \ {r} /\ queueLoading' = FALSE
        /\ UNCHANGED <<review, decisions, approvedHere, rejectedHere>>
    BY DEF QueueAnswered
  <1>2. /\ pendingAgents' \subseteq Submissions /\ decisionActs' \in 0..MaxDecisions
        /\ queueMuddled' \in BOOLEAN
        /\ ~queueMuddled' => ~queueMuddled /\ r.got = "rows" /\ pendingAgents' = r.seen
    <2>1. CASE r.got = "rows" /\ pendingAgents' = r.seen /\ UNCHANGED <<decisionActs, queueMuddled>>
      BY <2>1 DEF QueueInv, QueueTypeOK
    <2>2. CASE DecisionAct /\ pendingAgents' = {} /\ queueMuddled' = TRUE
      BY <2>2, DecisionCounted
    <2> QED
      BY <2>1, <2>2 DEF QueueAnswered
  <1>3. QueueTypeOK'
    BY <1>1, <1>2 DEF QueueInv, QueueTypeOK
  <1>4. RejectionsStand'
    BY <1>1 DEF QueueInv, RejectionsStand
  <1>5. ASSUME ~queueMuddled' PROVE LoadsFollow'
    <2>1. Reviewable' = Reviewable
      BY <1>1 DEF Reviewable
    <2> QED
      BY <1>1, <1>2, <1>5, <2>1 DEF QueueInv, LoadsFollow
  <1> QED
    BY <1>1, <1>3, <1>4, <1>5 DEF QueueInv

LEMMA DecideKeeps ==
    ASSUME QueueInv, NEW a \in Submissions, NEW to \in {"APPROVED", "REJECTED"}, Decide(a, to)
    PROVE  QueueInv'
  <1> DEFINE d == [on |-> a, to |-> to, n |-> decisionActs + 1, got |-> "nothing"]
  <1>1. /\ DecisionAct /\ decisions' = decisions \cup {d}
        /\ UNCHANGED <<review, pendingAgents, queueLoading, queueReads, approvedHere, rejectedHere,
                       queueMuddled>>
    BY DEF Decide
  <1>2. decisionActs' \in 0..MaxDecisions /\ decisionActs + 1 \in 1..MaxDecisions
    BY <1>1, DecisionCounted
  <1>3. d \in Decision /\ d.got = "nothing"
    BY <1>2 DEF Decision
  <1> HIDE DEF d
  <1>4. QueueTypeOK'
    BY <1>1, <1>2, <1>3 DEF QueueInv, QueueTypeOK, Decision
  <1>5. RejectionsStand'
    BY <1>1, <1>3 DEF QueueInv, RejectionsStand
  <1>6. ASSUME ~queueMuddled' PROVE LoadsFollow'
    <2>1. Reviewable' = Reviewable
      BY <1>1 DEF Reviewable
    <2> QED
      BY <1>1, <1>6, <2>1 DEF QueueInv, LoadsFollow
  <1> QED
    BY <1>1, <1>4, <1>5, <1>6 DEF QueueInv

\* The API decides.
LEMMA DecisionServedKeeps ==
    ASSUME QueueInv, NEW d \in decisions, DecisionServed(d) PROVE QueueInv'
  <1>1. /\ d.got = "nothing"
        /\ UNCHANGED <<pendingAgents, queueLoading, queueReads, decisionActs, approvedHere,
                       rejectedHere>>
    BY DEF DecisionServed
  <1>2. /\ d \in Decision /\ d.on \in Submissions /\ d.to \in {"APPROVED", "REJECTED"}
        /\ review \in [Submissions -> ReviewStates] /\ MyAgents \subseteq Submissions
        /\ rejectedHere \subseteq Submissions /\ \A c \in decisions : c.on \in Submissions
    BY QueueAssumption DEF QueueInv, QueueTypeOK, Decision
  <1>3. PICK got \in {"ok", "failed"} :
           /\ decisions' = (decisions \ {d}) \cup {[d EXCEPT !.got = got]}
           /\ \/ /\ DecisionAllowed(d) /\ review' = [review EXCEPT ![d.on] = d.to]
                 /\ queueMuddled' = (queueMuddled \/ got = "failed" \/ queueReads # {})
              \/ got = "failed" /\ UNCHANGED <<review, queueMuddled>>
    BY DEF DecisionServed
  <1> DEFINE e == [d EXCEPT !.got = got]
  <1>4. e \in Decision /\ e.got = got /\ e.on = d.on /\ e.to = d.to
    BY <1>2 DEF Decision
  <1>5. decisions' = (decisions \ {d}) \cup {e}
    BY <1>3
  <1> HIDE DEF e
  <1>6. review' \in [Submissions -> ReviewStates] /\ queueMuddled' \in BOOLEAN
    BY <1>2, <1>3 DEF ReviewStates, QueueInv, QueueTypeOK
  <1>7. QueueTypeOK'
    BY <1>1, <1>4, <1>5, <1>6 DEF QueueInv, QueueTypeOK, Decision
  <1>8. CASE DecisionAllowed(d) /\ review' = [review EXCEPT ![d.on] = d.to]
             /\ queueMuddled' = (queueMuddled \/ got = "failed" \/ queueReads # {})
    <2>1. \A a \in Submissions : review'[a] = IF a = d.on THEN d.to ELSE review[a]
      BY <1>2, <1>8
    <2>2. d.to = "APPROVED" => review[d.on] = "PENDING_REVIEW" /\ d.on \notin MyAgents
      BY <1>8 DEF DecisionAllowed, Reviewable
    <2>3. \A a \in Submissions : review[a] = "REJECTED" => review'[a] = "REJECTED"
      BY <1>2, <2>1, <2>2
    <2>4. \A c \in decisions' : c.got = "ok" /\ c.to = "REJECTED" => review'[c.on] = "REJECTED"
      <3>1. CASE d.to = "REJECTED"
        BY <1>2, <1>4, <1>5, <2>1, <2>3, <3>1 DEF QueueInv, RejectionsStand
      <3>2. CASE d.to # "REJECTED"
        BY <1>2, <1>4, <1>5, <2>3, <3>2 DEF QueueInv, RejectionsStand
      <3> QED
        BY <3>1, <3>2
    <2>5. \A a \in rejectedHere' : review'[a] = "REJECTED"
      BY <1>1, <1>2, <2>3 DEF QueueInv, RejectionsStand
    <2>6. \A a \in MyAgents : review'[a] # "APPROVED"
      BY <1>2, <2>1, <2>2 DEF QueueInv, RejectionsStand
    <2>7. RejectionsStand'
      BY <2>4, <2>5, <2>6 DEF RejectionsStand
    <2>8. ASSUME ~queueMuddled' PROVE LoadsFollow'
      <3>1. queueReads' = {} /\ e \in decisions' /\ e.got = "ok"
        BY <1>1, <1>4, <1>5, <1>8, <2>8
      <3> QED
        BY <3>1 DEF LoadsFollow
    <2> QED
      BY <1>1, <1>7, <2>7, <2>8 DEF QueueInv
  <1>9. CASE got = "failed" /\ UNCHANGED <<review, queueMuddled>>
    <2>1. RejectionsStand'
      BY <1>1, <1>4, <1>5, <1>9 DEF QueueInv, RejectionsStand
    <2>2. ASSUME ~queueMuddled' PROVE LoadsFollow'
      <3>1. Reviewable' = Reviewable /\ LoadsFollow
        BY <1>9, <2>2 DEF Reviewable, QueueInv
      <3>2. \A c \in decisions : c.got = "ok" => c \in decisions'
        BY <1>1, <1>5
      <3> QED
        BY <1>1, <3>1, <3>2 DEF LoadsFollow
    <2> QED
      BY <1>1, <1>7, <2>1, <2>2 DEF QueueInv
  <1> QED
    BY <1>3, <1>8, <1>9

LEMMA DecisionAnsweredKeeps ==
    ASSUME QueueInv, NEW d \in decisions, DecisionAnswered(d) PROVE QueueInv'
  <1>1. /\ d.got # "nothing" /\ decisions' = decisions \ {d}
        /\ UNCHANGED <<review, pendingAgents, decisionActs>>
    BY DEF DecisionAnswered
  <1>2. d \in Decision /\ d.on \in Submissions /\ d.n \in 1..MaxDecisions
    BY DEF QueueInv, QueueTypeOK, Decision
  <1>3. Reviewable' = Reviewable
    BY <1>1 DEF Reviewable
  <1>4. CASE d.got = "ok"
    <2>1. /\ queueReads' = queueReads \cup {QueueRead(d.n)} /\ queueLoading' = TRUE
          /\ approvedHere' = IF d.to = "APPROVED" THEN approvedHere \cup {d.on} ELSE approvedHere
          /\ rejectedHere' = IF d.to = "REJECTED" THEN rejectedHere \cup {d.on} ELSE rejectedHere
          /\ queueMuddled' = (queueMuddled \/ queueReads # {})
      BY <1>4 DEF DecisionAnswered
    <2>2. QueueRead(d.n) \in PendingRead /\ QueueRead(d.n).got = "nothing"
      <3>1. d.n \in 0..MaxDecisions
        BY <1>2, QueueAssumption
      <3> QED
        BY <3>1 DEF QueueRead, PendingRead
    <2>3. QueueTypeOK'
      <3>1. queueMuddled' \in BOOLEAN
        BY <2>1
      <3> QED
        BY <1>1, <1>2, <2>1, <2>2, <3>1 DEF QueueInv, QueueTypeOK, PendingRead
    <2>4. RejectionsStand'
      BY <1>1, <1>4, <2>1 DEF QueueInv, RejectionsStand
    <2>5. ASSUME ~queueMuddled' PROVE LoadsFollow'
      <3>1. queueReads' = {QueueRead(d.n)}
        BY <2>1, <2>5
      <3> QED
        BY <2>2, <3>1 DEF LoadsFollow
    <2> QED
      BY <2>1, <2>3, <2>4, <2>5 DEF QueueInv
  <1>5. CASE d.got # "ok"
    <2>1. UNCHANGED <<queueReads, queueLoading, approvedHere, rejectedHere, queueMuddled>>
      BY <1>5 DEF DecisionAnswered
    <2>2. QueueTypeOK' /\ RejectionsStand'
      BY <1>1, <2>1 DEF QueueInv, QueueTypeOK, RejectionsStand
    <2>3. ASSUME ~queueMuddled' PROVE LoadsFollow'
      BY <1>1, <1>3, <1>5, <2>1, <2>3 DEF QueueInv, LoadsFollow
    <2> QED
      BY <2>1, <2>2, <2>3 DEF QueueInv
  <1> QED
    BY <1>4, <1>5

LEMMA SubmittedKeeps ==
    ASSUME QueueInv, NEW a \in Submissions, Submitted(a) PROVE QueueInv'
  <1>1. /\ review[a] = "DRAFT" /\ queueMuddled' = TRUE
        /\ review' = [review EXCEPT ![a] = "PENDING_REVIEW"]
        /\ UNCHANGED <<pendingAgents, queueLoading, queueReads, decisions, approvedHere,
                       rejectedHere>>
        /\ decisionActs' \in 0..MaxDecisions
    BY DecisionCounted DEF Submitted
  <1>2. /\ review \in [Submissions -> ReviewStates] /\ MyAgents \subseteq Submissions
        /\ rejectedHere \subseteq Submissions /\ \A d \in decisions : d.on \in Submissions
    BY QueueAssumption DEF QueueInv, QueueTypeOK
  <1>3. \A b \in Submissions : review'[b] = IF b = a THEN "PENDING_REVIEW" ELSE review[b]
    BY <1>1, <1>2
  <1>4. review' \in [Submissions -> ReviewStates]
    BY <1>1, <1>2 DEF ReviewStates
  <1>5. QueueTypeOK'
    BY <1>1, <1>4 DEF QueueInv, QueueTypeOK
  <1>6. RejectionsStand'
    BY <1>1, <1>2, <1>3 DEF QueueInv, RejectionsStand
  <1> QED
    BY <1>1, <1>5, <1>6 DEF QueueInv

LEMMA QueueInvIsKept == QueueInv /\ [QueueNext]_queueVars => QueueInv'
  <1> SUFFICES ASSUME QueueInv, [QueueNext]_queueVars PROVE QueueInv'
    OBVIOUS
  <1>1. ASSUME NEW a \in Submissions, ClickApproveAgent(a) \/ ClickRejectAgent(a) PROVE QueueInv'
    BY <1>1, DecideKeeps DEF ClickApproveAgent, ClickRejectAgent
  <1>2. CASE UNCHANGED queueVars
    BY <1>2 DEF queueVars, QueueInv, QueueTypeOK, RejectionsStand, LoadsFollow, Reviewable
  <1> QED
    BY <1>1, <1>2, QueueServedKeeps, QueueAnsweredKeeps, DecisionServedKeeps,
       DecisionAnsweredKeeps, SubmittedKeeps DEF QueueNext, QueueStep

\* The moderation queue keeps its types, at rest, undisturbed, lists what waits for a review
\* (ModerationQueue.tsx:49), and leaves no agent approved that it has reported as rejected,
\* whatever the order of the decisions (admin.py:166).
THEOREM QueueIsRight == QueueSpec => [](QueueTypeOK /\ QueueCurrent /\ RejectedStaysOut)
  <1>1. ASSUME QueueInv PROVE QueueTypeOK /\ QueueCurrent /\ RejectedStaysOut
    <2>1. QueueTypeOK
      BY <1>1 DEF QueueInv
    <2>2. QueueCurrent
      BY <1>1 DEF QueueInv, LoadsFollow, QueueCurrent
    <2>3. RejectedStaysOut
      BY <1>1 DEF QueueInv, RejectionsStand, RejectedStaysOut
    <2> QED
      BY <2>1, <2>2, <2>3
  <1> QED
    BY <1>1, QueueInitially, QueueInvIsKept, PTL DEF QueueSpec

-----------------------------------------------------------------------------
(* The dialog that watches a task.                                         *)

ReadAnswer == TaskStatus \cup {"asked"}

\* Polling goes on only as long as no read has come back since the last one allowed.
PollsAreCounted == ticking => attempts <= MaxPolls + Len(reads)

\* Answers are on the way in the order of the reads, the end of the task stays its end,
\* and once polling has stopped for it, it is what is shown and all that is to come.
AnswersInOrder ==
    /\ \A i, j \in 1..Len(reads) : i < j /\ reads[j] # "asked" => reads[i] # "asked"
    /\ \A i, j \in 1..Len(reads) : i < j /\ reads[i] \in FinalStatus =>
          reads[j] \in {"asked", task}
    /\ \A i \in 1..Len(reads) : reads[i] \in FinalStatus => reads[i] = task
    /\ ~ticking => /\ task \in FinalStatus /\ shownTask = task
                   /\ \A i \in 1..Len(reads) : reads[i] \in {"asked", task}

WatchInv == WatchTypeOK /\ PollsAreCounted /\ (inOrder /\ ~GiveUp => AnswersInOrder)

LEMMA WatchNumbers ==
    /\ MaxPolls \in Nat /\ MaxReads \in Nat /\ MaxPolls >= 1 /\ MaxReads >= 1
    /\ TaskStatus = {"QUEUED", "VERIFYING", "SETTLING", "COMPLETED", "CANCELLED"}
  <1>1. /\ Progress = <<"QUEUED", "VERIFYING", "SETTLING", "COMPLETED">> /\ DOMAIN Progress = 1..4
        /\ Progress[1] = "QUEUED" /\ Progress[2] = "VERIFYING" /\ Progress[3] = "SETTLING"
        /\ Progress[4] = "COMPLETED"
    BY DEF Progress
  <1>2. 1..4 = {1, 2, 3, 4}
    OBVIOUS
  <1>3. {Progress[i] : i \in DOMAIN Progress} = {"QUEUED", "VERIFYING", "SETTLING", "COMPLETED"}
    BY <1>1, <1>2
  <1> QED
    BY <1>3, WatchAssumption DEF TaskStatus

LEMMA WatchInitially == WatchInit => WatchInv
  BY WatchNumbers DEF WatchInit, WatchInv, WatchTypeOK, PollsAreCounted, AnswersInOrder

LEMMA TaskMovesKeeps == ASSUME WatchInv, TaskMoves PROVE WatchInv'
  <1>1. /\ task \notin FinalStatus
        /\ UNCHANGED <<shownTask, ticking, spinning, attempts, reads, inOrder>>
    BY DEF TaskMoves
  <1>2. task' \in TaskStatus
    <2>1. Progress[2] = "VERIFYING" /\ Progress[3] = "SETTLING" /\ Progress[4] = "COMPLETED"
      BY DEF Progress
    <2>2. ASSUME NEW i \in 1..3 PROVE Progress[i + 1] \in TaskStatus
      <3>1. i = 1 \/ i = 2 \/ i = 3
        OBVIOUS
      <3> QED
        BY <2>1, <3>1, WatchNumbers
    <2> QED
      BY <2>2, WatchNumbers DEF TaskMoves
  <1>3. WatchTypeOK' /\ PollsAreCounted'
    BY <1>1, <1>2 DEF WatchInv, WatchTypeOK, PollsAreCounted
  <1>4. ASSUME inOrder', ~GiveUp' PROVE AnswersInOrder'
    <2>1. AnswersInOrder
      BY <1>1, <1>4 DEF WatchInv, GiveUp
    <2>2. ticking /\ \A i \in 1..Len(reads) : reads[i] \notin FinalStatus
      BY <1>1, <2>1 DEF AnswersInOrder
    <2> QED
      BY <1>1, <2>1, <2>2 DEF AnswersInOrder
  <1> QED
    BY <1>3, <1>4 DEF WatchInv

LEMMA TickKeeps == ASSUME WatchInv, Tick PROVE WatchInv'
  <1>1. /\ ticking /\ Len(reads) < MaxReads /\ attempts' = attempts + 1
        /\ reads' = Append(reads, "asked")
        /\ UNCHANGED <<task, shownTask, ticking, spinning, inOrder>>
    BY DEF Tick
  <1>2. /\ reads \in Seq(ReadAnswer) /\ Len(reads) \in Nat /\ attempts \in Nat
        /\ attempts <= MaxPolls + Len(reads)
    BY <1>1, WatchNumbers DEF WatchInv, WatchTypeOK, PollsAreCounted, ReadAnswer
  <1>3. /\ reads' \in Seq(ReadAnswer) /\ Len(reads') = Len(reads) + 1
        /\ \A i \in 1..Len(reads) : reads'[i] = reads[i]
        /\ reads'[Len(reads) + 1] = "asked"
    <2>1. "asked" \in ReadAnswer
      BY DEF ReadAnswer
    <2> QED
      BY <1>1, <1>2, <2>1, AppendProperties
  <1>4. WatchTypeOK' /\ PollsAreCounted'
    <2>1. attempts' \in 0..(MaxPolls + MaxReads) /\ Len(reads') <= MaxReads
          /\ attempts' <= MaxPolls + Len(reads')
      BY <1>1, <1>2, <1>3, WatchNumbers
    <2> QED
      BY <1>1, <1>3, <2>1 DEF WatchInv, WatchTypeOK, PollsAreCounted, ReadAnswer
  <1>5. ASSUME inOrder', ~GiveUp' PROVE AnswersInOrder'
    <2>1. AnswersInOrder
      <3>1. ~GiveUp
        BY <1>1, <1>2, <1>5, WatchNumbers DEF GiveUp
      <3> QED
        BY <1>1, <1>5, <3>1 DEF WatchInv
    <2>2. \A i \in 1..Len(reads') : i \in 1..Len(reads) \/ (i = Len(reads) + 1 /\ reads'[i] = "asked")
      BY <1>2, <1>3
    <2>3. "asked" \notin FinalStatus
      BY DEF FinalStatus
    <2>4. \A i \in 1..Len(reads), j \in 1..Len(reads') : j < i => j \in 1..Len(reads)
      BY <1>2, <1>3
    <2> QED
      BY <1>1, <1>2, <1>3, <2>1, <2>2, <2>3, <2>4 DEF AnswersInOrder
  <1> QED
    BY <1>4, <1>5 DEF WatchInv

LEMMA ServerAnswersKeeps ==
    ASSUME WatchInv, NEW i \in 1..Len(reads), ServerAnswers(i) PROVE WatchInv'
  <1>1. /\ reads[i] = "asked" /\ reads' = [reads EXCEPT ![i] = task]
        /\ inOrder' = (inOrder /\ \A j \in 1..(i - 1) : reads[j] # "asked")
        /\ UNCHANGED <<task, shownTask, ticking, spinning, attempts>>
    BY DEF ServerAnswers
  <1>2. reads \in Seq(ReadAnswer) /\ Len(reads) \in Nat /\ task \in ReadAnswer /\ task \in TaskStatus
    BY DEF WatchInv, WatchTypeOK, ReadAnswer
  <1>3. /\ reads' \in Seq(ReadAnswer) /\ Len(reads') = Len(reads)
        /\ \A j \in 1..Len(reads) : reads'[j] = IF j = i THEN task ELSE reads[j]
    BY <1>1, <1>2, ExceptSeq
  <1>4. WatchTypeOK' /\ PollsAreCounted'
    <2>1. inOrder' \in BOOLEAN
      BY <1>1
    <2> QED
      BY <1>1, <1>3, <2>1 DEF WatchInv, WatchTypeOK, PollsAreCounted, ReadAnswer
  <1>5. ASSUME inOrder', ~GiveUp' PROVE AnswersInOrder'
    <2>1. inOrder /\ \A j \in 1..(i - 1) : reads[j] # "asked"
      BY <1>1, <1>5
    <2>2. AnswersInOrder
      BY <1>1, <1>5, <2>1 DEF WatchInv, GiveUp
    <2>3. \A j \in 1..Len(reads) : j < i => reads[j] # "asked"
      BY <1>2, <2>1
    <2>4. \A j \in 1..Len(reads) : i < j => reads[j] = "asked"
      BY <1>1, <2>2 DEF AnswersInOrder
    <2>5. ASSUME NEW j \in 1..Len(reads'), NEW k \in 1..Len(reads'), j < k
          PROVE  /\ reads'[k] # "asked" => reads'[j] # "asked"
                 /\ reads'[j] \in FinalStatus => reads'[k] \in {"asked", task'}
      <3>1. task # "asked"
        BY <1>2, WatchNumbers
      <3>2. CASE k = i
        BY <1>1, <1>2, <1>3, <2>3, <2>5, <3>1, <3>2
      <3>3. CASE j = i
        BY <1>1, <1>2, <1>3, <2>4, <2>5, <3>1, <3>3
      <3>4. CASE j # i /\ k # i
        BY <1>1, <1>2, <1>3, <2>2, <2>5, <3>4 DEF AnswersInOrder
      <3> QED
        BY <3>2, <3>3, <3>4
    <2> QED
      BY <1>1, <1>3, <2>2, <2>5 DEF AnswersInOrder
  <1> QED
    BY <1>4, <1>5 DEF WatchInv

\* An answer or a failure takes its read off the list.
LEMMA ReadLeaves ==
    ASSUME WatchInv, NEW i \in 1..Len(reads), reads' = RemoveAt(reads, i)
    PROVE  /\ reads \in Seq(ReadAnswer) /\ Len(reads) \in Nat /\ reads[i] \in ReadAnswer
           /\ reads' \in Seq(ReadAnswer) /\ Len(reads') = Len(reads) - 1
           /\ \A j \in 1..Len(reads') :
                 /\ j \in 1..Len(reads) /\ j + 1 \in 1..Len(reads)
                 /\ reads'[j] = IF j < i THEN reads[j] ELSE reads[j + 1]
           /\ attempts \in Nat
  <1>1. reads \in Seq(ReadAnswer) /\ Len(reads) \in Nat /\ attempts \in Nat
    BY WatchNumbers DEF WatchInv, WatchTypeOK, ReadAnswer
  <1>2. /\ reads' \in Seq(ReadAnswer) /\ Len(reads') = Len(reads) - 1
        /\ \A j \in 1..Len(reads) - 1 : reads'[j] = IF j < i THEN reads[j] ELSE reads[j + 1]
    BY <1>1, RemovedAt
  <1>3. reads[i] \in ReadAnswer
    BY <1>1
  <1>4. \A j \in 1..Len(reads') : j \in 1..Len(reads) /\ j + 1 \in 1..Len(reads)
                                  /\ j \in 1..Len(reads) - 1
    BY <1>1, <1>2
  <1> QED
    BY <1>1, <1>2, <1>3, <1>4

\* The answers that are left are in order, too.
LEMMA OrderLeft ==
    ASSUME WatchInv, NEW i \in 1..Len(reads), reads' = RemoveAt(reads, i), AnswersInOrder, task' = task
    PROVE  /\ \A j, k \in 1..Len(reads') : j < k /\ reads'[k] # "asked" => reads'[j] # "asked"
           /\ \A j, k \in 1..Len(reads') : j < k /\ reads'[j] \in FinalStatus =>
                 reads'[k] \in {"asked", task'}
           /\ \A j \in 1..Len(reads') : reads'[j] \in FinalStatus => reads'[j] = task'
  <1>1. \A j, k \in 1..Len(reads') : j < k =>
           \E m, n \in 1..Len(reads) : m < n /\ reads'[j] = reads[m] /\ reads'[k] = reads[n]
    <2> SUFFICES ASSUME NEW j \in 1..Len(reads'), NEW k \in 1..Len(reads'), j < k
                 PROVE  \E m, n \in 1..Len(reads) :
                           m < n /\ reads'[j] = reads[m] /\ reads'[k] = reads[n]
      OBVIOUS
    <2> DEFINE m == IF j < i THEN j ELSE j + 1
               n == IF k < i THEN k ELSE k + 1
    <2>1. m \in 1..Len(reads) /\ n \in 1..Len(reads) /\ m < n
      BY ReadLeaves
    <2>2. reads'[j] = reads[m] /\ reads'[k] = reads[n]
      BY ReadLeaves
    <2> HIDE DEF m, n
    <2> QED
      BY <2>1, <2>2
  <1>2. \A j \in 1..Len(reads') : \E m \in 1..Len(reads) : reads'[j] = reads[m]
    BY ReadLeaves
  <1>3. \A m, n \in 1..Len(reads) : m < n =>
           /\ reads[n] # "asked" => reads[m] # "asked"
           /\ reads[m] \in FinalStatus => reads[n] \in {"asked", task'}
    BY DEF AnswersInOrder
  <1>4. \A j, k \in 1..Len(reads') : j < k =>
           /\ reads'[k] # "asked" => reads'[j] # "asked"
           /\ reads'[j] \in FinalStatus => reads'[k] \in {"asked", task'}
    <2> SUFFICES ASSUME NEW j \in 1..Len(reads'), NEW k \in 1..Len(reads'), j < k
                 PROVE  /\ reads'[k] # "asked" => reads'[j] # "asked"
                        /\ reads'[j] \in FinalStatus => reads'[k] \in {"asked", task'}
      OBVIOUS
    <2>1. PICK m \in 1..Len(reads), n \in 1..Len(reads) :
             m < n /\ reads'[j] = reads[m] /\ reads'[k] = reads[n]
      BY <1>1
    <2> QED
      BY <1>3, <2>1
  <1>5. ASSUME NEW j \in 1..Len(reads'), reads'[j] \in FinalStatus PROVE reads'[j] = task'
    <2>1. PICK m \in 1..Len(reads) : reads'[j] = reads[m]
      BY <1>2
    <2> QED
      BY <1>5, <2>1 DEF AnswersInOrder
  <1> QED
    BY <1>4, <1>5

LEMMA ReadAnsweredKeeps ==
    ASSUME WatchInv, NEW i \in 1..Len(reads), ReadAnswered(i) PROVE WatchInv'
  <1> DEFINE done == reads[i] \in FinalStatus \/ GiveUp
  <1>1. /\ reads[i] # "asked" /\ shownTask' = reads[i] /\ reads' = RemoveAt(reads, i)
        /\ ticking' = (ticking /\ ~done) /\ spinning' = (spinning /\ ~done)
        /\ inOrder' = (inOrder /\ i = 1) /\ UNCHANGED <<task, attempts>>
    BY DEF ReadAnswered, StopIf
  <1>2. /\ reads \in Seq(ReadAnswer) /\ Len(reads) \in Nat /\ reads[i] \in ReadAnswer
        /\ reads' \in Seq(ReadAnswer) /\ Len(reads') = Len(reads) - 1 /\ attempts \in Nat
    BY <1>1, ReadLeaves
  <1>3. WatchTypeOK'
    <2>1. {ticking', spinning', inOrder'} \subseteq BOOLEAN
      BY <1>1
    <2>2. shownTask' \in TaskStatus
      BY <1>1, <1>2 DEF ReadAnswer
    <2>3. Len(reads') <= MaxReads
      BY <1>2, WatchNumbers DEF WatchInv, WatchTypeOK
    <2> QED
      BY <1>1, <1>2, <2>1, <2>2, <2>3 DEF WatchInv, WatchTypeOK, ReadAnswer
  <1>4. PollsAreCounted'
    <2>1. ticking' => ~GiveUp
      BY <1>1
    <2>2. ~GiveUp => attempts <= MaxPolls + Len(reads')
      BY <1>2, WatchNumbers DEF GiveUp
    <2> QED
      BY <1>1, <2>1, <2>2 DEF PollsAreCounted
  <1>5. ASSUME inOrder', ~GiveUp' PROVE AnswersInOrder'
    <2>1. inOrder /\ i = 1 /\ ~GiveUp
      BY <1>1, <1>5 DEF GiveUp
    <2>2. AnswersInOrder
      BY <2>1 DEF WatchInv
    <2>3. ASSUME ~ticking'
          PROVE  /\ task \in FinalStatus /\ shownTask' = task
                 /\ \A j \in 1..Len(reads') : reads'[j] \in {"asked", task}
      <3>1. reads[i] \in FinalStatus \/ ~ticking
        BY <1>1, <2>1, <2>3
      <3>2. task \in FinalStatus /\ reads[i] = task
        BY <1>1, <2>2, <3>1 DEF AnswersInOrder
      <3>3. ASSUME NEW j \in 1..Len(reads') PROVE reads'[j] \in {"asked", task}
        <4>1. j + 1 \in 1..Len(reads) /\ reads'[j] = reads[j + 1] /\ i < j + 1
          BY <1>1, <2>1, ReadLeaves
        <4> QED
          BY <2>2, <3>2, <4>1 DEF AnswersInOrder
      <3> QED
        BY <1>1, <3>2, <3>3
    <2> QED
      BY <1>1, <2>2, <2>3, OrderLeft DEF AnswersInOrder
  <1> QED
    BY <1>3, <1>4, <1>5 DEF WatchInv

LEMMA ReadLostKeeps ==
    ASSUME WatchInv, NEW i \in 1..Len(reads), ReadLost(i) PROVE WatchInv'
  <1>1. /\ reads' = RemoveAt(reads, i)
        /\ ticking' = (ticking /\ ~GiveUp) /\ spinning' = (spinning /\ ~GiveUp)
        /\ UNCHANGED <<task, shownTask, attempts, inOrder>>
    BY DEF ReadLost, StopIf
  <1>2. /\ reads \in Seq(ReadAnswer) /\ Len(reads) \in Nat
        /\ reads' \in Seq(ReadAnswer) /\ Len(reads') = Len(reads) - 1 /\ attempts \in Nat
    BY <1>1, ReadLeaves
  <1>3. WatchTypeOK'
    <2>1. {ticking', spinning'} \subseteq BOOLEAN
      BY <1>1
    <2>2. Len(reads') <= MaxReads
      BY <1>2, WatchNumbers DEF WatchInv, WatchTypeOK
    <2> QED
      BY <1>1, <1>2, <2>1, <2>2 DEF WatchInv, WatchTypeOK, ReadAnswer
  <1>4. PollsAreCounted'
    <2>1. ticking' => ~GiveUp
      BY <1>1
    <2>2. ~GiveUp => attempts <= MaxPolls + Len(reads')
      BY <1>2, WatchNumbers DEF GiveUp
    <2> QED
      BY <1>1, <2>1, <2>2 DEF PollsAreCounted
  <1>5. ASSUME inOrder', ~GiveUp' PROVE AnswersInOrder'
    <2>1. inOrder /\ ~GiveUp
      BY <1>1, <1>5 DEF GiveUp
    <2>2. AnswersInOrder /\ (ticking' <=> ticking)
      BY <1>1, <2>1 DEF WatchInv
    <2>3. \A j \in 1..Len(reads') : \E m \in 1..Len(reads) : reads'[j] = reads[m]
      BY <1>1, ReadLeaves
    <2> QED
      BY <1>1, <2>2, <2>3, OrderLeft DEF AnswersInOrder
  <1> QED
    BY <1>3, <1>4, <1>5 DEF WatchInv

LEMMA WatchInvIsKept == WatchInv /\ [WatchNext]_watchVars => WatchInv'
  <1> SUFFICES ASSUME WatchInv, [WatchNext]_watchVars PROVE WatchInv'
    OBVIOUS
  <1>1. DOMAIN reads = 1..Len(reads)
    BY DEF WatchInv, WatchTypeOK
  <1>2. CASE UNCHANGED watchVars
    BY <1>2 DEF watchVars, WatchInv, WatchTypeOK, PollsAreCounted, AnswersInOrder, GiveUp
  <1> QED
    BY <1>1, <1>2, TaskMovesKeeps, TickKeeps, ServerAnswersKeeps, ReadAnsweredKeeps, ReadLostKeeps
    DEF WatchNext, Answer

\* The dialog keeps its types, and when it has stopped polling for the end of its task it
\* shows that end, for every number of reads, overlapping as they like (HireAgentModal.tsx:180).
THEOREM WatchShowsTheEnd == WatchSpec => [](WatchTypeOK /\ EndIsShown)
  <1>1. ASSUME WatchInv PROVE WatchTypeOK /\ EndIsShown
    <2>1. ASSUME inOrder, ~ticking, ~GiveUp PROVE WatchPanel # "executing" /\ shownTask = task
      <3>1. task \in FinalStatus /\ shownTask = task
        BY <1>1, <2>1 DEF WatchInv, AnswersInOrder
      <3>2. shownTask \notin {"QUEUED", "RUNNING", "VERIFYING", "SETTLING"}
        BY <3>1 DEF FinalStatus
      <3>3. shownTask = "COMPLETED" => WatchPanel = "deliverable"
        BY DEF WatchPanel
      <3>4. shownTask # "COMPLETED" => WatchPanel = "none"
        BY <3>2 DEF WatchPanel
      <3> QED
        BY <3>1, <3>3, <3>4
    <2> QED
      BY <1>1, <2>1 DEF WatchInv, EndIsShown
  <1> QED
    BY <1>1, WatchInitially, WatchInvIsKept, PTL DEF WatchSpec

-----------------------------------------------------------------------------
(* The build console.                                                      *)

StatusFetch == [got : ReadOut \cup {"asked", "error"}, stale : BOOLEAN]
BuildFeed == [open : BOOLEAN, queued : BOOLEAN, last : JobState \cup {"none"},
              mail : Seq(JobState)]

\* An answer that would not put an older status over the end of the build.
HarmlessTo(fetch, end) == fetch.stale \/ fetch.got \in {"asked", "error", end}

\* Once the socket has closed on the only build, its end is the last message on the way or
\* what is shown, and no answer on the way is older without being known to be.
EndIsLast ==
    /\ Len(buildRows) <= 1
    /\ ~feed.open =>
        /\ Len(buildRows) = 1 /\ buildRows[1] \in FinalBuild
        /\ feed.mail # <<>> => feed.mail[Len(feed.mail)] = buildRows[1]
        /\ feed.mail = <<>> =>
             /\ ~lateFetch => shownBuild = buildRows[1]
             /\ \A i \in 1..Len(fetches) : HarmlessTo(fetches[i], buildRows[1])

ConsoleInv == ConsoleTypeOK /\ (OnlyBuild => EndIsLast)

LEMMA ConsoleSets ==
    /\ MaxBuilds \in Nat /\ MaxFetches \in Nat
    /\ {"QUEUED", "BUILDING", "SUCCEEDED", "FAILED"} = JobState
    /\ FinalBuild = {"SUCCEEDED", "FAILED"}
    /\ FinalBuild \subseteq JobState \ {"QUEUED"} /\ JobState \subseteq ReadOut
    /\ "PROMPT_ONLY" \in ReadOut
  BY ConsoleAssumption DEF JobState, FinalBuild, ReadOut

LEMMA ConsoleTypes ==
    ASSUME ConsoleInv
    PROVE  /\ buildJobs \in Seq(JobState) /\ Len(buildJobs) \in Nat /\ Len(buildJobs) <= MaxBuilds
           /\ buildRows \in Seq(JobState \ {"QUEUED"}) /\ Len(buildRows) \in Nat
           /\ Len(buildRows) <= Len(buildJobs)
           /\ \A j \in 1..Len(buildJobs) : buildJobs[j] \in JobState
           /\ \A j \in 1..Len(buildRows) : buildRows[j] \in JobState \ {"QUEUED"}
           /\ shownBuild \in ReadOut \cup {"none"} /\ buildLoading \in BOOLEAN /\ lateFetch \in BOOLEAN
           /\ fetches \in Seq(StatusFetch) /\ Len(fetches) \in Nat
           /\ \A i \in 1..Len(fetches) : fetches[i] \in StatusFetch
           /\ feed \in BuildFeed /\ feed.mail \in Seq(JobState) /\ fetchActs \in 0..MaxFetches
  <1>1. /\ buildJobs \in Seq(JobState) /\ Len(buildJobs) <= MaxBuilds
        /\ buildRows \in Seq(JobState \ {"QUEUED"}) /\ Len(buildRows) <= Len(buildJobs)
        /\ shownBuild \in ReadOut \cup {"none"} /\ {buildLoading, lateFetch} \subseteq BOOLEAN
        /\ fetches \in Seq(StatusFetch) /\ feed \in BuildFeed /\ fetchActs \in 0..MaxFetches
    BY DEF ConsoleInv, ConsoleTypeOK, StatusFetch, BuildFeed
  <1>2. feed.mail \in Seq(JobState)
    BY <1>1 DEF BuildFeed
  <1>3. \A j \in 1..Len(buildJobs) : buildJobs[j] \in JobState
    BY <1>1
  <1>4. \A j \in 1..Len(buildRows) : buildRows[j] \in JobState \ {"QUEUED"}
    BY <1>1
  <1>5. \A i \in 1..Len(fetches) : fetches[i] \in StatusFetch
    BY <1>1
  <1>6. buildLoading \in BOOLEAN /\ lateFetch \in BOOLEAN
    BY <1>1
  <1> QED
    BY <1>1, <1>2, <1>3, <1>4, <1>5, <1>6

LEMMA ConsoleInitially == ConsoleInit => ConsoleInv
  <1> SUFFICES ASSUME ConsoleInit PROVE ConsoleInv
    OBVIOUS
  <1>1. "QUEUED" \in JobState /\ Fetch \in StatusFetch
    BY ConsoleSets DEF Fetch, StatusFetch
  <1>2. feed \in BuildFeed /\ feed.open
    BY DEF ConsoleInit, BuildFeed
  <1>3. buildJobs \in Seq(JobState) /\ Len(buildJobs) \in Nat
    <2>1. <<"QUEUED">> \in Seq(JobState) /\ <<>> \in Seq(JobState)
      BY <1>1
    <2>2. buildJobs \in Seq(JobState)
      BY <2>1 DEF ConsoleInit
    <2> QED
      BY <2>2
  <1>4. fetches \in Seq(StatusFetch)
    BY <1>1 DEF ConsoleInit
  <1>5. /\ buildRows \in Seq(JobState \ {"QUEUED"}) /\ Len(buildRows) = 0
        /\ Len(buildRows) <= Len(buildJobs)
    BY <1>3 DEF ConsoleInit
  <1>6. {buildLoading, lateFetch} \subseteq BOOLEAN
    BY Zenon DEF ConsoleInit
  <1>8. fetchActs \in 0..MaxFetches
    BY ConsoleSets DEF ConsoleInit
  <1>7. ConsoleTypeOK
    BY <1>2, <1>3, <1>4, <1>5, <1>6, <1>8
    DEF ConsoleInit, ConsoleTypeOK, StatusFetch, BuildFeed
  <1> QED
    BY <1>2, <1>5, <1>7 DEF ConsoleInv, EndIsLast

LEMMA RebuildQueuedKeeps == ASSUME ConsoleInv, RebuildQueued PROVE ConsoleInv'
  <1>1. /\ Len(buildJobs) < MaxBuilds /\ buildJobs # <<>> /\ buildJobs' = Append(buildJobs, "QUEUED")
        /\ UNCHANGED <<buildRows, shownBuild, buildLoading, fetches, feed, fetchActs, lateFetch>>
    BY DEF RebuildQueued
  <1>2. "QUEUED" \in JobState
    BY ConsoleSets
  <1>3. buildJobs' \in Seq(JobState) /\ Len(buildJobs') = Len(buildJobs) + 1
    BY <1>1, <1>2, ConsoleTypes, AppendProperties
  <1>4. Len(buildJobs) # 0
    BY <1>1, ConsoleTypes
  <1>5. ~OnlyBuild' /\ Len(buildJobs') <= MaxBuilds /\ Len(buildRows) <= Len(buildJobs')
    BY <1>1, <1>3, <1>4, ConsoleTypes, ConsoleSets DEF OnlyBuild
  <1> QED
    BY <1>1, <1>3, <1>5 DEF ConsoleInv, ConsoleTypeOK

LEMMA JobLeasedKeeps ==
    ASSUME ConsoleInv, NEW j \in 1..Len(buildJobs), JobLeased(j) PROVE ConsoleInv'
  <1>1. /\ buildJobs' = [buildJobs EXCEPT ![j] = "BUILDING"]
        /\ UNCHANGED <<buildRows, shownBuild, buildLoading, fetches, feed, fetchActs, lateFetch>>
    BY DEF JobLeased
  <1>2. buildJobs' \in Seq(JobState) /\ Len(buildJobs') = Len(buildJobs)
    BY <1>1, ConsoleTypes, ConsoleSets, ExceptSeq
  <1> QED
    BY <1>1, <1>2 DEF ConsoleInv, ConsoleTypeOK, EndIsLast, OnlyBuild, HarmlessTo

LEMMA RowAddedKeeps ==
    ASSUME ConsoleInv, NEW j \in 1..Len(buildJobs), RowAdded(j) PROVE ConsoleInv'
  <1>1. /\ j = Len(buildRows) + 1 /\ buildRows' = Append(buildRows, "BUILDING")
        /\ UNCHANGED <<buildJobs, shownBuild, buildLoading, fetches, feed, fetchActs, lateFetch>>
    BY DEF RowAdded
  <1>2. "BUILDING" \in JobState \ {"QUEUED"}
    BY ConsoleSets
  <1>3. buildRows' \in Seq(JobState \ {"QUEUED"}) /\ Len(buildRows') = Len(buildRows) + 1
    BY <1>1, <1>2, ConsoleTypes, AppendProperties
  <1>4. Len(buildRows') <= Len(buildJobs)
    BY <1>1, <1>3, ConsoleTypes
  <1>5. ASSUME OnlyBuild PROVE EndIsLast'
    <2>1. feed.open
      BY <1>1, <1>5, ConsoleTypes DEF OnlyBuild, ConsoleInv, EndIsLast
    <2> QED
      BY <1>1, <1>3, <1>4, <1>5, <2>1, ConsoleTypes DEF OnlyBuild, EndIsLast
  <1> QED
    BY <1>1, <1>3, <1>4, <1>5 DEF ConsoleInv, ConsoleTypeOK, OnlyBuild

LEMMA BuildRecordedKeeps ==
    ASSUME ConsoleInv, NEW j \in 1..Len(buildJobs), NEW end \in FinalBuild, BuildRecorded(j, end)
    PROVE  ConsoleInv'
  <1>1. /\ j \in 1..Len(buildRows) /\ buildRows[j] = "BUILDING"
        /\ buildRows' = [buildRows EXCEPT ![j] = end] /\ buildJobs' = [buildJobs EXCEPT ![j] = end]
        /\ UNCHANGED <<shownBuild, buildLoading, fetches, feed, fetchActs, lateFetch>>
    <2>1. DOMAIN buildRows = 1..Len(buildRows)
      BY ConsoleTypes
    <2> QED
      BY <2>1 DEF BuildRecorded
  <1>2. end \in JobState /\ end \in JobState \ {"QUEUED"}
    BY ConsoleSets
  <1>3. buildRows' \in Seq(JobState \ {"QUEUED"}) /\ Len(buildRows') = Len(buildRows)
    BY <1>1, <1>2, ConsoleTypes, ExceptSeq
  <1>4. buildJobs' \in Seq(JobState) /\ Len(buildJobs') = Len(buildJobs)
    BY <1>1, <1>2, ConsoleTypes, ExceptSeq
  <1>5. ASSUME OnlyBuild PROVE EndIsLast'
    <2>1. j = 1 /\ Len(buildRows) = 1
      BY <1>1, <1>5, ConsoleTypes DEF OnlyBuild
    <2>2. feed.open
      BY <1>1, <1>5, <2>1, ConsoleSets DEF ConsoleInv, EndIsLast
    <2>3. Len(buildRows') = 1 /\ feed'.open
      BY <1>1, <1>3, <2>1, <2>2
    <2> QED
      BY <2>3 DEF EndIsLast
  <1> QED
    BY <1>1, <1>3, <1>4, <1>5 DEF ConsoleInv, ConsoleTypeOK, OnlyBuild

LEMMA ClickReloadKeeps == ASSUME ConsoleInv, ClickReload PROVE ConsoleInv'
  <1>1. /\ fetchActs < MaxFetches /\ fetchActs' = fetchActs + 1 /\ buildLoading' = TRUE
        /\ fetches' = Append(fetches, Fetch)
        /\ UNCHANGED <<buildJobs, buildRows, shownBuild, feed, lateFetch>>
    BY DEF ClickReload, FetchAct
  <1>2. Fetch \in StatusFetch /\ Fetch.got = "asked"
    BY DEF Fetch, StatusFetch
  <1>3. /\ fetches' \in Seq(StatusFetch) /\ Len(fetches') = Len(fetches) + 1
        /\ \A i \in 1..Len(fetches) : fetches'[i] = fetches[i]
        /\ fetches'[Len(fetches) + 1] = Fetch
    BY <1>1, <1>2, ConsoleTypes, AppendProperties
  <1>4. fetchActs' \in 0..MaxFetches
    BY <1>1, ConsoleTypes, ConsoleSets
  <1>5. \A i \in 1..Len(fetches') : i \in 1..Len(fetches) \/ fetches'[i] = Fetch
    BY <1>3, ConsoleTypes
  <1>6. ConsoleTypeOK'
    BY <1>1, <1>3, <1>4 DEF ConsoleInv, ConsoleTypeOK, StatusFetch
  <1>7. ASSUME EndIsLast PROVE EndIsLast'
    BY <1>1, <1>2, <1>3, <1>5, <1>7 DEF EndIsLast, HarmlessTo
  <1> QED
    BY <1>1, <1>6, <1>7 DEF ConsoleInv, OnlyBuild

\* The endpoint answers with the row of the only build once there is one.
LEMMA ReadOutIsTyped ==
    ASSUME ConsoleInv
    PROVE  /\ BuildReadOut \in ReadOut \cup {"error"}
           /\ Len(buildRows) = 1 => BuildReadOut = buildRows[1]
  <1>. DEFINE rowCount == Len(buildRows)
              jobCount == Len(buildJobs)
  <1>n. rowCount \in Nat /\ jobCount \in Nat
    BY ConsoleTypes
  <1>d. BuildReadOut = CASE rowCount > 1 -> "error"
                         [] rowCount = 1 -> buildRows[1]
                         [] rowCount = 0 /\ jobCount > 1 -> "error"
                         [] rowCount = 0 /\ jobCount = 1 -> buildJobs[1]
                         [] OTHER -> "PROMPT_ONLY"
    <2>1. buildRows = <<>> <=> rowCount = 0
      BY ConsoleTypes
    <2> QED
      BY <2>1 DEF BuildReadOut
  <1>r. rowCount = 1 => buildRows[1] \in ReadOut
    BY ConsoleTypes, ConsoleSets
  <1>j. jobCount = 1 => buildJobs[1] \in ReadOut
    BY ConsoleTypes, ConsoleSets
  <1> HIDE DEF rowCount, jobCount
  <1>1. CASE rowCount > 1
    <2>1. rowCount # 0 /\ rowCount # 1
      BY <1>n, <1>1
    <2>2. BuildReadOut = "error"
      BY <1>d, <1>1, <2>1
    <2>3. ~(Len(buildRows) = 1)
      BY <2>1 DEF rowCount
    <2> QED
      BY <2>2, <2>3
  <1>2. CASE rowCount = 1
    BY <1>n, <1>d, <1>r, <1>2 DEF rowCount
  <1>3. CASE rowCount = 0
    BY <1>n, <1>d, <1>j, <1>3, ConsoleSets DEF rowCount
  <1> QED
    BY <1>n, <1>1, <1>2, <1>3

LEMMA FetchServedKeeps ==
    ASSUME ConsoleInv, NEW i \in 1..Len(fetches), FetchServed(i) PROVE ConsoleInv'
  <1>1. PICK read : /\ read \in {BuildReadOut, "error"}
                    /\ fetches' = [fetches EXCEPT ![i].got = read]
    BY DEF FetchServed
  <1>2. /\ fetchActs' = fetchActs \/ (fetchActs < MaxFetches /\ fetchActs' = fetchActs + 1)
        /\ UNCHANGED <<buildJobs, buildRows, shownBuild, buildLoading, feed, lateFetch>>
    BY DEF FetchServed, FetchAct
  <1> DEFINE f == [fetches[i] EXCEPT !.got = read]
  <1>3. /\ f \in StatusFetch /\ f.got = read
        /\ fetches' = [fetches EXCEPT ![i] = f]
    <2>1. fetches[i] \in StatusFetch /\ read \in ReadOut \cup {"asked", "error"}
      BY <1>1, ConsoleTypes, ReadOutIsTyped
    <2> QED
      BY <1>1, <2>1 DEF StatusFetch
  <1> HIDE DEF f
  <1>4. /\ fetches' \in Seq(StatusFetch) /\ Len(fetches') = Len(fetches)
        /\ \A k \in 1..Len(fetches) : fetches'[k] = IF k = i THEN f ELSE fetches[k]
    BY <1>3, ConsoleTypes, ExceptSeq
  <1>5. fetchActs' \in 0..MaxFetches
    BY <1>2, ConsoleTypes, ConsoleSets
  <1>6. ConsoleTypeOK'
    BY <1>2, <1>4, <1>5 DEF ConsoleInv, ConsoleTypeOK, StatusFetch
  <1>7. ASSUME EndIsLast PROVE EndIsLast'
    <2>1. Len(buildRows) = 1 => HarmlessTo(f, buildRows[1])
      BY <1>1, <1>3, ReadOutIsTyped DEF HarmlessTo
    <2>2. ASSUME ~feed.open, feed.mail = <<>>, NEW k \in 1..Len(fetches')
          PROVE  HarmlessTo(fetches'[k], buildRows[1])
      BY <1>4, <1>7, <2>1, <2>2 DEF EndIsLast
    <2> QED
      BY <1>2, <1>7, <2>2 DEF EndIsLast
  <1> QED
    BY <1>2, <1>6, <1>7 DEF ConsoleInv, OnlyBuild

LEMMA FetchAnsweredKeeps ==
    ASSUME ConsoleInv, NEW i \in 1..Len(fetches), FetchAnswered(i) PROVE ConsoleInv'
  <1>1. /\ fetches[i].got # "asked" /\ fetches' = RemoveAt(fetches, i) /\ buildLoading' = FALSE
        /\ IF fetches[i].got = "error" THEN UNCHANGED <<shownBuild, lateFetch>>
           ELSE shownBuild' = fetches[i].got /\ lateFetch' = (lateFetch \/ fetches[i].stale)
        /\ UNCHANGED <<buildJobs, buildRows, feed, fetchActs>>
    BY DEF FetchAnswered
  <1>2. fetches \in Seq(StatusFetch) /\ Len(fetches) \in Nat /\ fetches[i] \in StatusFetch
    BY ConsoleTypes
  <1>3. /\ fetches' \in Seq(StatusFetch) /\ Len(fetches') = Len(fetches) - 1
        /\ \A k \in 1..Len(fetches) - 1 : fetches'[k] = IF k < i THEN fetches[k] ELSE fetches[k + 1]
    BY <1>1, <1>2, RemovedAt
  <1>4. \A k \in 1..Len(fetches') : \E m \in 1..Len(fetches) : fetches'[k] = fetches[m]
    <2> SUFFICES ASSUME NEW k \in 1..Len(fetches')
                 PROVE  \E m \in 1..Len(fetches) : fetches'[k] = fetches[m]
      OBVIOUS
    <2>1. k \in 1..Len(fetches) /\ k + 1 \in 1..Len(fetches) /\ k \in 1..Len(fetches) - 1
      BY <1>2, <1>3
    <2> QED
      BY <1>3, <2>1
  <1>5. /\ fetches[i].got \in ReadOut \cup {"asked", "error"} /\ fetches[i].stale \in BOOLEAN
        /\ shownBuild' \in ReadOut \cup {"none"} /\ lateFetch' \in BOOLEAN
    <2>1. fetches[i].got \in ReadOut \cup {"asked", "error"} /\ fetches[i].stale \in BOOLEAN
      BY <1>2 DEF StatusFetch
    <2> QED
      BY <1>1, <2>1, ConsoleTypes
  <1>6. ConsoleTypeOK'
    BY <1>1, <1>3, <1>5 DEF ConsoleInv, ConsoleTypeOK, StatusFetch
  <1>7. ASSUME EndIsLast PROVE EndIsLast'
    <2>1. ASSUME ~feed.open, feed.mail = <<>>, NEW k \in 1..Len(fetches')
          PROVE  HarmlessTo(fetches'[k], buildRows[1])
      BY <1>4, <1>7, <2>1 DEF EndIsLast
    <2>2. ASSUME ~feed.open, feed.mail = <<>>, ~lateFetch' PROVE shownBuild' = buildRows[1]
      BY <1>1, <1>5, <1>7, <2>2 DEF EndIsLast, HarmlessTo
    <2> QED
      BY <1>1, <1>7, <2>1, <2>2 DEF EndIsLast
  <1> QED
    BY <1>1, <1>6, <1>7 DEF ConsoleInv, OnlyBuild

LEMMA FeedTurnsKeeps == ASSUME ConsoleInv, FeedTurns PROVE ConsoleInv'
  <1>1. feed.open /\ UNCHANGED <<buildJobs, buildRows, shownBuild, buildLoading, fetches, fetchActs, lateFetch>>
    BY DEF FeedTurns
  <1>2. feed \in BuildFeed /\ feed.mail \in Seq(JobState) /\ Len(feed.mail) \in Nat
    BY ConsoleTypes
  <1>3. ASSUME Len(buildRows) = 1,
               feed' = [feed EXCEPT !.last = buildRows[1], !.mail = Append(@, buildRows[1]),
                                    !.open = buildRows[1] \notin FinalBuild]
        PROVE  ConsoleInv'
    <2>1. buildRows[1] \in JobState
      BY <1>3, ConsoleTypes
    <2>2. /\ Append(feed.mail, buildRows[1]) \in Seq(JobState)
          /\ Len(Append(feed.mail, buildRows[1])) = Len(feed.mail) + 1
          /\ Append(feed.mail, buildRows[1])[Len(feed.mail) + 1] = buildRows[1]
      BY <1>2, <2>1, AppendProperties
    <2>3. /\ feed' \in BuildFeed /\ feed'.mail = Append(feed.mail, buildRows[1])
          /\ feed'.open = (buildRows[1] \notin FinalBuild)
      BY <1>2, <1>3, <2>1, <2>2 DEF BuildFeed
    <2>4. feed'.mail # <<>> /\ feed'.mail[Len(feed'.mail)] = buildRows[1]
      BY <1>2, <2>2, <2>3
    <2>5. ConsoleTypeOK'
      BY <1>1, <2>3 DEF ConsoleInv, ConsoleTypeOK, BuildFeed
    <2>6. EndIsLast'
      <3>1. Len(buildRows') = 1 /\ buildRows' = buildRows
        BY <1>1, <1>3
      <3>2. feed'.open \/ buildRows[1] \in FinalBuild
        BY <2>3
      <3> QED
        BY <2>4, <3>1, <3>2 DEF EndIsLast
    <2> QED
      BY <2>5, <2>6 DEF ConsoleInv
  <1>4. ASSUME Len(buildJobs) = 1,
               feed' = [feed EXCEPT !.queued = TRUE, !.mail = Append(@, buildJobs[1])]
        PROVE  ConsoleInv'
    <2>1. buildJobs[1] \in JobState
      BY <1>4, ConsoleTypes
    <2>2. Append(feed.mail, buildJobs[1]) \in Seq(JobState)
      BY <1>2, <2>1, AppendProperties
    <2>3. feed' \in BuildFeed /\ feed'.open = feed.open
      BY <1>2, <1>4, <2>2 DEF BuildFeed
    <2>4. ConsoleTypeOK'
      BY <1>1, <2>3 DEF ConsoleInv, ConsoleTypeOK, BuildFeed
    <2>5. OnlyBuild' => EndIsLast'
      BY <1>1, <2>3 DEF ConsoleInv, OnlyBuild, EndIsLast
    <2> QED
      BY <2>4, <2>5 DEF ConsoleInv
  <1> QED
    BY <1>3, <1>4 DEF FeedTurns

LEMMA FeedDiesKeeps == ASSUME ConsoleInv, FeedDies PROVE ConsoleInv'
  <1>1. /\ feed' = [feed EXCEPT !.open = FALSE]
        /\ UNCHANGED <<buildJobs, buildRows, shownBuild, buildLoading, fetches, fetchActs, lateFetch>>
        /\ Len(buildRows) > 1 \/ Len(buildJobs) > 1
    BY DEF FeedDies
  <1>2. ~OnlyBuild'
    BY <1>1, ConsoleTypes DEF OnlyBuild
  <1>3. feed' \in BuildFeed
    BY <1>1, ConsoleTypes DEF BuildFeed
  <1> QED
    BY <1>1, <1>2, <1>3 DEF ConsoleInv, ConsoleTypeOK, BuildFeed

LEMMA FeedDeliversKeeps == ASSUME ConsoleInv, FeedDelivers PROVE ConsoleInv'
  <1> DEFINE mail == feed.mail
             Kept(k) == IF fetches[k].got \in {"asked", "error", Head(mail)} THEN fetches[k]
                        ELSE [fetches[k] EXCEPT !.stale = TRUE]
  <1>1. /\ mail # <<>> /\ feed' = [feed EXCEPT !.mail = Tail(mail)] /\ shownBuild' = Head(mail)
        /\ fetches' = [k \in DOMAIN fetches |-> Kept(k)]
        /\ UNCHANGED <<buildJobs, buildRows, buildLoading, fetchActs, lateFetch>>
    BY DEF FeedDelivers
  <1>2. /\ mail \in Seq(JobState) /\ Len(mail) \in Nat /\ Len(mail) >= 1
        /\ Head(mail) = mail[1] /\ mail[1] \in JobState
        /\ Tail(mail) \in Seq(JobState) /\ Len(Tail(mail)) = Len(mail) - 1
        /\ \A k \in 1..Len(mail) - 1 : Tail(mail)[k] = mail[k + 1]
    <2>1. mail \in Seq(JobState)
      BY ConsoleTypes
    <2> HIDE DEF mail
    <2> QED
      BY <1>1, <2>1, HeadTailProperties
  <1>3. feed' \in BuildFeed /\ feed'.open = feed.open /\ feed'.mail = Tail(mail)
    <2>1. Tail(mail) \in Seq(JobState) /\ feed \in BuildFeed
      BY <1>2, ConsoleTypes
    <2>2. feed' = [feed EXCEPT !.mail = Tail(mail)]
      BY <1>1
    <2> HIDE DEF mail
    <2> QED
      BY <2>1, <2>2 DEF BuildFeed
  <1>4. \A k \in 1..Len(fetches) : /\ Kept(k) \in StatusFetch
                                   /\ HarmlessTo(Kept(k), Head(mail))
    <2> SUFFICES ASSUME NEW k \in 1..Len(fetches)
                 PROVE  Kept(k) \in StatusFetch /\ HarmlessTo(Kept(k), Head(mail))
      OBVIOUS
    <2>1. fetches[k] \in StatusFetch
      BY ConsoleTypes
    <2> HIDE DEF mail
    <2> QED
      BY <2>1 DEF StatusFetch, HarmlessTo
  <1> HIDE DEF Kept
  <1>5. /\ fetches' \in Seq(StatusFetch) /\ Len(fetches') = Len(fetches)
        /\ \A k \in 1..Len(fetches) : fetches'[k] = Kept(k)
    <2>1. DOMAIN fetches = 1..Len(fetches) /\ Len(fetches) \in Nat
      BY ConsoleTypes
    <2>2. fetches' \in [1..Len(fetches) -> StatusFetch]
      BY <1>1, <1>4, <2>1
    <2> QED
      BY <1>1, <2>1, <2>2
  <1> HIDE DEF mail
  <1>6. shownBuild' \in ReadOut \cup {"none"}
    BY <1>1, <1>2, ConsoleSets
  <1>7. ConsoleTypeOK'
    BY <1>1, <1>3, <1>5, <1>6 DEF ConsoleInv, ConsoleTypeOK, StatusFetch, BuildFeed
  <1>8. ASSUME EndIsLast PROVE EndIsLast'
    <2>1. feed.open \/ mail[Len(mail)] = buildRows[1]
      BY <1>1, <1>8 DEF EndIsLast, mail
    <2>2. ASSUME ~feed.open, Tail(mail) # <<>>
          PROVE  Tail(mail)[Len(Tail(mail))] = buildRows[1]
      <3>1. Len(Tail(mail)) # 0
        BY <1>2, <2>2
      <3>2. Len(mail) - 1 \in 1..Len(mail) - 1 /\ Len(mail) - 1 + 1 = Len(mail)
        BY <1>2, <3>1
      <3>3. Tail(mail)[Len(Tail(mail))] = mail[Len(mail)]
        BY <1>2, <3>2
      <3> QED
        BY <2>1, <2>2, <3>3
    <2>3. ASSUME ~feed.open, Tail(mail) = <<>> PROVE Head(mail) = buildRows[1]
      <3>1. \A s : s = <<>> => Len(s) = 0
        OBVIOUS
      <3>2. Len(Tail(mail)) = 0
        BY <2>3, <3>1
      <3>3. Len(mail) \in Nat /\ Len(Tail(mail)) = Len(mail) - 1
        BY <1>2
      <3>4. Len(mail) = 1
        BY <3>2, <3>3
      <3> QED
        BY <1>2, <2>1, <2>3, <3>4
    <2>4. ASSUME ~feed.open, Tail(mail) = <<>>, NEW k \in 1..Len(fetches')
          PROVE  HarmlessTo(fetches'[k], buildRows[1])
      BY <1>4, <1>5, <2>3, <2>4
    <2>5. Len(buildRows) <= 1 /\ (~feed.open => Len(buildRows) = 1 /\ buildRows[1] \in FinalBuild)
      BY <1>8 DEF EndIsLast
    <2>6. buildRows' = buildRows /\ feed'.open = feed.open /\ feed'.mail = Tail(mail)
          /\ shownBuild' = Head(mail)
      BY <1>1, <1>3
    <2> QED
      BY <2>2, <2>3, <2>4, <2>5, <2>6 DEF EndIsLast
  <1> QED
    BY <1>1, <1>7, <1>8 DEF ConsoleInv, OnlyBuild

LEMMA ConsoleInvIsKept == ConsoleInv /\ [ConsoleNext]_consoleVars => ConsoleInv'
  <1> SUFFICES ASSUME ConsoleInv, [ConsoleNext]_consoleVars PROVE ConsoleInv'
    OBVIOUS
  <1>1. DOMAIN fetches = 1..Len(fetches) /\ DOMAIN buildJobs = 1..Len(buildJobs)
    BY ConsoleTypes
  <1>2. CASE UNCHANGED consoleVars
    BY <1>2 DEF consoleVars, ConsoleInv, ConsoleTypeOK, OnlyBuild, EndIsLast, HarmlessTo
  <1>3. CASE BuilderStep
    BY <1>1, <1>3, JobLeasedKeeps, RowAddedKeeps, BuildRecordedKeeps DEF BuilderStep
  <1>4. CASE ConsoleStep
    BY <1>1, <1>4, FetchServedKeeps, FetchAnsweredKeeps, FeedTurnsKeeps, FeedDiesKeeps,
       FeedDeliversKeeps DEF ConsoleStep
  <1> QED
    BY <1>2, <1>3, <1>4, RebuildQueuedKeeps, ClickReloadKeeps DEF ConsoleNext

\* The console keeps its types, and once the socket has brought the end of a version's only
\* build and nothing older was put over it, the page shows that end (build/page.tsx:31).
THEOREM ConsoleShowsTheEnd == ConsoleSpec => [](ConsoleTypeOK /\ EndOfBuildStands)
  <1>1. ASSUME ConsoleInv PROVE ConsoleTypeOK /\ EndOfBuildStands
    BY <1>1 DEF ConsoleInv, EndIsLast, EndOfBuildStands
  <1> QED
    BY <1>1, ConsoleInitially, ConsoleInvIsKept, PTL DEF ConsoleSpec

-----------------------------------------------------------------------------
(* An agent's page.                                                        *)

Peeked == {"asked", "open", "COMPLETED"}
PlayQuery == [stage : {"posting", "polling", "over"}, checks : 0..(MaxChecks + MaxPeeks),
              task : {"open", "COMPLETED"}, peeks : Seq(Peeked)]

\* A query is read only as long as no read has come back since the last one allowed.
IsCounted(r) ==
    /\ Len(r.peeks) <= MaxPeeks
    /\ r.stage # "over" => r.checks <= MaxChecks + Len(r.peeks)
    /\ r.stage = "posting" => r.peeks = <<>>

\* As long as no query has left reads behind it, only the last one is under way.
OneAtATime ==
    \A q \in 1..Len(queries) :
        /\ q < Len(queries) => queries[q].stage = "over"
        /\ queries[q].stage = "over" => queries[q].peeks = <<>>

ReviewsAreCounted ==
    /\ profileLoads + (IF reviewCall = "none" THEN 0 ELSE 1) <= reviewsSent + 1
    /\ reviews + (IF reviewCall = "asked" THEN 1 ELSE 0) <= reviewsSent

ProfileInv ==
    /\ ProfileTypeOK /\ \A q \in 1..Len(queries) : IsCounted(queries[q])
    /\ ReviewsAreCounted /\ (~stray => OneAtATime) /\ OutputIsLatest

LEMMA ProfileNumbers ==
    MaxChecks \in Nat /\ MaxPeeks \in Nat /\ MaxQueries \in Nat /\ MaxReviews \in Nat
  BY ProfileAssumption

LEMMA ProfileTypes ==
    ASSUME ProfileInv
    PROVE  /\ queries \in Seq(PlayQuery) /\ Len(queries) \in Nat /\ Len(queries) <= MaxQueries
           /\ \A q \in 1..Len(queries) : queries[q] \in PlayQuery /\ IsCounted(queries[q])
           /\ output \in 0..Len(queries) /\ profileLoads \in Nat /\ reviewsSent \in Nat /\ reviews \in Nat
  <1>1. queries \in Seq(PlayQuery) /\ Len(queries) <= MaxQueries /\ output \in 0..Len(queries)
    BY DEF ProfileInv, ProfileTypeOK, PlayQuery, Peeked
  <1>2. \A q \in 1..Len(queries) : queries[q] \in PlayQuery /\ IsCounted(queries[q])
    BY <1>1 DEF ProfileInv
  <1>3. profileLoads \in Nat /\ reviewsSent \in Nat /\ reviews \in Nat
    BY ProfileNumbers DEF ProfileInv, ProfileTypeOK
  <1> QED
    BY <1>1, <1>2, <1>3

LEMMA ProfileInitially == ProfileInit => ProfileInv
  <1> SUFFICES ASSUME ProfileInit PROVE ProfileInv
    OBVIOUS
  <1>1. queries = <<>> /\ Len(queries) = 0 /\ output = 0 /\ testing = FALSE
    BY DEF ProfileInit
  <1>2. queries \in Seq(PlayQuery) /\ output \in 0..Len(queries) /\ Len(queries) <= MaxQueries
    BY <1>1, ProfileNumbers
  <1>3. {signedIn, testing, stray} \subseteq BOOLEAN
    BY Zenon DEF ProfileInit
  <1>4. /\ profile \in {"loading", "agent", "sample"} /\ profileLoads \in 0..(MaxReviews + 1)
        /\ reviewing \in {"no", "busy", "thanks", "error"}
        /\ reviewCall \in {"none", "asked", "stored", "failed"}
        /\ reviewsSent \in 0..MaxReviews /\ reviews \in 0..MaxReviews
    BY ProfileNumbers DEF ProfileInit
  <1>5. ProfileTypeOK
    BY <1>2, <1>3, <1>4 DEF ProfileTypeOK, PlayQuery, Peeked
  <1>6. ReviewsAreCounted
    BY DEF ProfileInit, ReviewsAreCounted
  <1>7. OneAtATime
    BY <1>1 DEF OneAtATime
  <1>8. OutputIsLatest
    <2>1. testing = (queries # <<>> /\ queries[Len(queries)].stage # "over")
      BY <1>1, Zenon
    <2> QED
      BY <1>1, <2>1, Zenon DEF OutputIsLatest
  <1> QED
    BY <1>1, <1>5, <1>6, <1>7, <1>8 DEF ProfileInv

\* What the rest of the page does to the queries is nothing.
LEMMA PlaygroundRests ==
    ASSUME ProfileInv, ProfileTypeOK', ReviewsAreCounted', UNCHANGED playground PROVE ProfileInv'
  BY DEF ProfileInv, playground, OneAtATime, OutputIsLatest, IsCounted

LEMMA ProfileAnsweredKeeps == ASSUME ProfileInv, ProfileAnswered PROVE ProfileInv'
  <1>1. /\ profileLoads > 0 /\ profileLoads' = profileLoads - 1 /\ profile' \in {"agent", "sample"}
        /\ UNCHANGED <<signedIn, testing, output, queries, stray, reviewing, reviewCall, reviewsSent, reviews>>
    BY DEF ProfileAnswered, playground, reviewForm
  <1>2. profileLoads' \in 0..(MaxReviews + 1)
    BY <1>1, ProfileNumbers DEF ProfileInv, ProfileTypeOK
  <1>3. ProfileTypeOK'
    BY <1>1, <1>2 DEF ProfileInv, ProfileTypeOK
  <1>4. ReviewsAreCounted'
    <2>1. profileLoads' <= profileLoads /\ profileLoads' \in Int /\ profileLoads \in Int
          /\ reviewsSent \in Int
      BY <1>1, ProfileTypes
    <2> QED
      BY <1>1, <2>1 DEF ProfileInv, ReviewsAreCounted
  <1> QED
    BY <1>1, <1>3, <1>4, PlaygroundRests DEF playground

LEMMA ReviewKeeps ==
    ASSUME ProfileInv, ClickReview \/ ReviewServed \/ ReviewAnswered PROVE ProfileInv'
  <1>1. UNCHANGED <<testing, output, queries, stray>> /\ UNCHANGED signedIn
    BY DEF ClickReview, ReviewServed, ReviewAnswered, playground
  <1>2. /\ profileLoads \in Nat /\ reviewsSent \in Nat /\ reviews \in Nat
        /\ profileLoads \in 0..(MaxReviews + 1) /\ reviewsSent \in 0..MaxReviews
        /\ reviews \in 0..MaxReviews
        /\ profileLoads + (IF reviewCall = "none" THEN 0 ELSE 1) <= reviewsSent + 1
        /\ reviews + (IF reviewCall = "asked" THEN 1 ELSE 0) <= reviewsSent
    BY ProfileTypes DEF ProfileInv, ProfileTypeOK, ReviewsAreCounted
  <1>3. /\ profile \in {"loading", "agent", "sample"} /\ reviewing \in {"no", "busy", "thanks", "error"}
        /\ {signedIn, testing, stray} \subseteq BOOLEAN
    BY DEF ProfileInv, ProfileTypeOK
  <1>4. CASE ClickReview
    <2>1. /\ reviewCall = "none" /\ reviewsSent < MaxReviews /\ reviewing' = "busy"
          /\ reviewCall' = "asked" /\ reviewsSent' = reviewsSent + 1
          /\ UNCHANGED <<profile, profileLoads, reviews>>
      BY <1>4 DEF ClickReview
    <2>2. ReviewsAreCounted'
      BY <1>2, <2>1 DEF ReviewsAreCounted
    <2>3. reviewsSent' \in 0..MaxReviews
      BY <1>2, <2>1, ProfileNumbers
    <2>4. ProfileTypeOK'
      BY <1>1, <2>1, <2>3 DEF ProfileInv, ProfileTypeOK
    <2> QED
      BY <1>1, <2>2, <2>4, PlaygroundRests DEF playground
  <1>5. CASE ReviewServed
    <2>1. /\ reviewCall = "asked" /\ reviewCall' \in {"stored", "failed"}
          /\ reviews' \in {reviews, reviews + 1}
          /\ UNCHANGED <<profile, profileLoads, reviewing, reviewsSent>>
      BY <1>5 DEF ReviewServed
    <2>4. /\ profileLoads + 1 <= reviewsSent + 1 /\ reviews + 1 <= reviewsSent
          /\ reviewCall' # "none" /\ reviewCall' # "asked"
      BY <1>2, <2>1
    <2>6. reviews' = reviews \/ reviews' = reviews + 1
      BY <2>1
    <2>7. reviews \in Nat /\ reviewsSent \in Nat /\ reviewsSent <= MaxReviews
      BY <1>2
    <2>5. reviews' \in 0..MaxReviews /\ reviews' + 0 <= reviewsSent
      BY <2>4, <2>6, <2>7, ProfileNumbers
    <2>2. ReviewsAreCounted' /\ reviews' \in 0..MaxReviews
      BY <2>1, <2>4, <2>5 DEF ReviewsAreCounted
    <2>3. ProfileTypeOK'
      BY <1>1, <2>1, <2>2 DEF ProfileInv, ProfileTypeOK
    <2> QED
      BY <1>1, <2>2, <2>3, PlaygroundRests DEF playground
  <1>6. CASE ReviewAnswered
    <2>1. /\ reviewCall \in {"stored", "failed"} /\ reviewCall' = "none"
          /\ profile' \in {profile, "loading"} /\ profileLoads' \in {profileLoads, profileLoads + 1}
          /\ reviewing' \in {"no", "error"} /\ UNCHANGED <<reviewsSent, reviews>>
      BY <1>6 DEF ReviewAnswered
    <2>4. /\ profileLoads + 1 <= reviewsSent + 1 /\ reviews + 0 <= reviewsSent
          /\ reviewCall' # "asked"
      BY <1>2, <2>1
    <2>6. profileLoads' = profileLoads \/ profileLoads' = profileLoads + 1
      BY <2>1
    <2>7. profileLoads \in Nat /\ reviewsSent \in Nat /\ reviewsSent <= MaxReviews
      BY <1>2
    <2>5. profileLoads' \in 0..(MaxReviews + 1) /\ profileLoads' + 0 <= reviewsSent + 1
      BY <2>4, <2>6, <2>7, ProfileNumbers
    <2>2. ReviewsAreCounted' /\ profileLoads' \in 0..(MaxReviews + 1)
      BY <2>1, <2>4, <2>5 DEF ReviewsAreCounted
    <2>3. ProfileTypeOK'
      BY <1>1, <1>3, <2>1, <2>2 DEF ProfileInv, ProfileTypeOK
    <2> QED
      BY <1>1, <2>2, <2>3, PlaygroundRests DEF playground
  <1> QED
    BY <1>4, <1>5, <1>6

LEMMA ClickTestKeeps == ASSUME ProfileInv, ClickTest PROVE ProfileInv'
  <1> DEFINE r == [stage |-> "posting", checks |-> 0, task |-> "open", peeks |-> <<>>]
  <1>1. /\ ~testing /\ Len(queries) < MaxQueries /\ testing' = TRUE /\ output' = 0
        /\ queries' = Append(queries, r)
        /\ UNCHANGED <<profile, profileLoads, signedIn, stray, reviewing, reviewCall, reviewsSent, reviews>>
    BY DEF ClickTest, TestOffered, reviewForm
  <1>2. r \in PlayQuery /\ r.stage = "posting" /\ r.stage # "over" /\ IsCounted(r)
    BY ProfileNumbers DEF PlayQuery, IsCounted
  <1> HIDE DEF r
  <1>3. /\ queries' \in Seq(PlayQuery) /\ Len(queries') = Len(queries) + 1
        /\ \A q \in 1..Len(queries) : queries'[q] = queries[q]
        /\ queries'[Len(queries) + 1] = r
    BY <1>1, <1>2, ProfileTypes, AppendProperties
  <1>4. \A q \in 1..Len(queries') : q \in 1..Len(queries) \/ (q = Len(queries') /\ queries'[q] = r)
    BY <1>3, ProfileTypes
  <1>5. \A q \in 1..Len(queries') : IsCounted(queries'[q])
    BY <1>2, <1>3, <1>4, ProfileTypes
  <1>6. output' \in 0..Len(queries') /\ Len(queries') <= MaxQueries /\ Len(queries') >= 1
    BY <1>1, <1>3, ProfileTypes, ProfileNumbers
  <1>7. {signedIn', testing', stray'} \subseteq BOOLEAN
    BY <1>1 DEF ProfileInv, ProfileTypeOK
  <1>8. ProfileTypeOK'
    BY <1>1, <1>3, <1>6, <1>7 DEF ProfileInv, ProfileTypeOK, PlayQuery, Peeked
  <1>9. ReviewsAreCounted'
    BY <1>1 DEF ProfileInv, ReviewsAreCounted
  <1>10. ASSUME ~stray PROVE OneAtATime'
    <2>1. \A q \in 1..Len(queries) : queries[q].stage = "over" /\ queries[q].peeks = <<>>
      <3>3. ~(queries # <<>> /\ queries[Len(queries)].stage # "over")
        BY <1>1, <1>10, Zenon DEF ProfileInv, OutputIsLatest
      <3>4. Len(queries) >= 1 => queries # <<>>
        BY ProfileTypes
      <3>1. Len(queries) >= 1 => queries[Len(queries)].stage = "over"
        BY <3>3, <3>4
      <3>2. \A q \in 1..Len(queries) : q < Len(queries) \/ q = Len(queries)
        BY ProfileTypes
      <3> QED
        BY <1>10, <3>1, <3>2, ProfileTypes DEF ProfileInv, OneAtATime
    <2> SUFFICES ASSUME NEW q \in 1..Len(queries')
                 PROVE  /\ q < Len(queries') => queries'[q].stage = "over"
                        /\ queries'[q].stage = "over" => queries'[q].peeks = <<>>
      BY DEF OneAtATime
    <2>2. CASE q \in 1..Len(queries)
      BY <1>3, <2>1, <2>2
    <2>3. CASE q = Len(queries') /\ queries'[q] = r
      BY <1>2, <1>3, <2>3, ProfileTypes
    <2> QED
      BY <1>4, <2>2, <2>3
  <1>11. OutputIsLatest'
    <2>1. queries' # <<>> /\ queries'[Len(queries')].stage # "over"
      BY <1>2, <1>3, <1>6
    <2> QED
      BY <1>1, <2>1 DEF OutputIsLatest
  <1> QED
    BY <1>1, <1>5, <1>8, <1>9, <1>10, <1>11 DEF ProfileInv

\* A step that changes one query and leaves the rest of the page alone but for what
\* the playground shows.
LEMMA QueryChanges ==
    ASSUME ProfileInv, NEW q \in 1..Len(queries), NEW r \in PlayQuery, IsCounted(r),
           queries' = [queries EXCEPT ![q] = r],
           testing' \in BOOLEAN, stray' \in BOOLEAN, output' \in {output, q},
           UNCHANGED <<profile, profileLoads, signedIn, reviewing, reviewCall, reviewsSent, reviews>>
    PROVE  /\ Len(queries') = Len(queries)
           /\ \A k \in 1..Len(queries) : queries'[k] = IF k = q THEN r ELSE queries[k]
           /\ ProfileTypeOK' /\ \A k \in 1..Len(queries') : IsCounted(queries'[k])
           /\ ReviewsAreCounted'
  <1>1. /\ queries' \in Seq(PlayQuery) /\ Len(queries') = Len(queries)
        /\ \A k \in 1..Len(queries) : queries'[k] = IF k = q THEN r ELSE queries[k]
    BY ProfileTypes, ExceptSeq
  <1>2. output' \in 0..Len(queries') /\ Len(queries') <= MaxQueries
    BY <1>1, ProfileTypes
  <1>3. {signedIn', testing', stray'} \subseteq BOOLEAN
    BY DEF ProfileInv, ProfileTypeOK
  <1>4. ProfileTypeOK'
    BY <1>1, <1>2, <1>3 DEF ProfileInv, ProfileTypeOK, PlayQuery, Peeked
  <1>5. \A k \in 1..Len(queries') : IsCounted(queries'[k])
    BY <1>1, ProfileTypes
  <1>6. ReviewsAreCounted'
    BY DEF ProfileInv, ReviewsAreCounted
  <1> QED
    BY <1>1, <1>4, <1>5, <1>6

\* ... of a query that goes on,
LEMMA QueryGoesOn ==
    ASSUME ProfileInv, NEW q \in 1..Len(queries), NEW r \in PlayQuery, IsCounted(r),
           queries' = [queries EXCEPT ![q] = r],
           ~stray => r.stage # "over" /\ queries[q].stage # "over",
           UNCHANGED <<profile, profileLoads, signedIn, testing, output, stray,
                       reviewing, reviewCall, reviewsSent, reviews>>
    PROVE  ProfileInv'
  <1>1. testing \in BOOLEAN /\ stray \in BOOLEAN
    BY DEF ProfileInv, ProfileTypeOK
  <1>2. /\ Len(queries') = Len(queries)
        /\ \A k \in 1..Len(queries) : queries'[k] = IF k = q THEN r ELSE queries[k]
        /\ ProfileTypeOK' /\ \A k \in 1..Len(queries') : IsCounted(queries'[k])
        /\ ReviewsAreCounted'
    BY <1>1, QueryChanges
  <1>3. ASSUME ~stray PROVE OneAtATime' /\ OutputIsLatest'
    <2>1. OneAtATime /\ OutputIsLatest
      BY <1>3 DEF ProfileInv
    <2>2. q = Len(queries)
      BY <1>3, <2>1, ProfileTypes DEF OneAtATime
    <2>3. OneAtATime'
      BY <1>2, <1>3, <2>1 DEF OneAtATime
    <2>4. Len(queries) # 0 /\ queries # <<>> /\ queries' # <<>>
      BY <1>2, ProfileTypes
    <2>5. queries'[Len(queries')].stage # "over" /\ queries[Len(queries)].stage # "over"
      BY <1>2, <1>3, <2>2
    <2>6. testing
      BY <1>1, <1>3, <2>1, <2>4, <2>5 DEF OutputIsLatest
    <2> QED
      BY <1>2, <1>3, <2>1, <2>3, <2>4, <2>5, <2>6 DEF OutputIsLatest
  <1>4. stray => OutputIsLatest'
    BY DEF OutputIsLatest
  <1> QED
    BY <1>1, <1>2, <1>3, <1>4 DEF ProfileInv

\* ... and of one that ends.
LEMMA QueryEnds ==
    ASSUME ProfileInv, NEW q \in 1..Len(queries), NEW r \in PlayQuery, IsCounted(r),
           queries' = [queries EXCEPT ![q] = r], r.stage = "over",
           testing' = FALSE, output' \in {output, q}, stray' \in BOOLEAN,
           ~stray' => ~stray /\ queries[q].stage # "over" /\ r.peeks = <<>>,
           UNCHANGED <<profile, profileLoads, signedIn, reviewing, reviewCall, reviewsSent, reviews>>
    PROVE  ProfileInv'
  <1>1. /\ Len(queries') = Len(queries)
        /\ \A k \in 1..Len(queries) : queries'[k] = IF k = q THEN r ELSE queries[k]
        /\ ProfileTypeOK' /\ \A k \in 1..Len(queries') : IsCounted(queries'[k])
        /\ ReviewsAreCounted'
    BY QueryChanges
  <1>2. ASSUME ~stray' PROVE OneAtATime' /\ OutputIsLatest'
    <2>1. OneAtATime /\ OutputIsLatest
      BY <1>2 DEF ProfileInv
    <2>2. q = Len(queries)
      BY <1>2, <2>1, ProfileTypes DEF OneAtATime
    <2>3. OneAtATime'
      BY <1>1, <1>2, <2>1 DEF OneAtATime
    <2>4. queries'[Len(queries')].stage = "over"
      BY <1>1, <2>2
    <2>5. output' # 0 => output' = Len(queries')
      BY <1>1, <1>2, <2>1, <2>2 DEF OutputIsLatest
    <2> QED
      BY <2>3, <2>4, <2>5 DEF OutputIsLatest
  <1>3. stray' => OutputIsLatest'
    BY DEF OutputIsLatest
  <1> QED
    BY <1>1, <1>2, <1>3 DEF ProfileInv

LEMMA TestPostedKeeps ==
    ASSUME ProfileInv, NEW q \in 1..Len(queries), TestPosted(q) PROVE ProfileInv'
  <1> DEFINE r == [queries[q] EXCEPT !.stage = "polling"]
  <1>1. queries[q] \in PlayQuery /\ IsCounted(queries[q]) /\ queries[q].stage = "posting"
    BY ProfileTypes DEF TestPosted
  <1>2. r \in PlayQuery /\ IsCounted(r) /\ r.stage # "over"
    BY <1>1 DEF PlayQuery, IsCounted
  <1>3. queries' = [queries EXCEPT ![q] = r]
    BY DEF TestPosted
  <1> HIDE DEF r
  <1> QED
    BY <1>1, <1>2, <1>3, QueryGoesOn DEF TestPosted, reviewForm

LEMMA TaskEndsKeeps ==
    ASSUME ProfileInv, NEW q \in 1..Len(queries), TaskEnds(q) PROVE ProfileInv'
  <1> DEFINE r == [queries[q] EXCEPT !.task = "COMPLETED"]
  <1>1. queries[q] \in PlayQuery /\ IsCounted(queries[q]) /\ queries[q].stage = "polling"
    BY ProfileTypes DEF TaskEnds
  <1>2. r \in PlayQuery /\ IsCounted(r) /\ r.stage # "over"
    BY <1>1 DEF PlayQuery, IsCounted
  <1>3. queries' = [queries EXCEPT ![q] = r]
    BY DEF TaskEnds
  <1> HIDE DEF r
  <1> QED
    BY <1>1, <1>2, <1>3, QueryGoesOn DEF TaskEnds, reviewForm

LEMMA PeekKeeps == ASSUME ProfileInv, NEW q \in 1..Len(queries), Peek(q) PROVE ProfileInv'
  <1> DEFINE now == queries[q].peeks
             r == [queries[q] EXCEPT !.checks = @ + 1, !.peeks = Append(@, "asked")]
  <1>1. /\ queries[q] \in PlayQuery /\ IsCounted(queries[q]) /\ queries[q].stage = "polling"
        /\ Len(now) < MaxPeeks
    BY ProfileTypes DEF Peek
  <1>2. now \in Seq(Peeked) /\ queries[q].checks \in Nat /\ queries[q].checks <= MaxChecks + Len(now)
    BY <1>1, ProfileNumbers DEF PlayQuery, IsCounted
  <1>3. Append(now, "asked") \in Seq(Peeked) /\ Len(Append(now, "asked")) = Len(now) + 1
        /\ Len(now) \in Nat
    BY <1>2, AppendProperties DEF Peeked
  <1>4. queries[q].checks + 1 \in 0..(MaxChecks + MaxPeeks)
        /\ queries[q].checks + 1 <= MaxChecks + (Len(now) + 1) /\ Len(now) + 1 <= MaxPeeks
    BY <1>1, <1>2, <1>3, ProfileNumbers
  <1>5. /\ r \in PlayQuery /\ r.stage = "polling" /\ r.checks = queries[q].checks + 1
        /\ r.peeks = Append(now, "asked")
    BY <1>1, <1>3, <1>4 DEF PlayQuery
  <1>6. queries' = [queries EXCEPT ![q] = r]
    BY ProfileTypes DEF Peek
  <1> HIDE DEF r, now
  <1>7. IsCounted(r)
    BY <1>3, <1>4, <1>5 DEF IsCounted
  <1> QED
    BY <1>1, <1>5, <1>6, <1>7, QueryGoesOn DEF Peek, reviewForm

LEMMA PeekServedKeeps ==
    ASSUME ProfileInv, NEW q \in 1..Len(queries), NEW i \in 1..Len(queries[q].peeks), PeekServed(q, i)
    PROVE  ProfileInv'
  <1> DEFINE now == [queries[q].peeks EXCEPT ![i] = queries[q].task]
             r == [queries[q] EXCEPT !.peeks = now]
  <1>1. queries[q] \in PlayQuery /\ IsCounted(queries[q])
    BY ProfileTypes
  <1>2. queries[q].peeks \in Seq(Peeked) /\ queries[q].task \in Peeked /\ Len(queries[q].peeks) # 0
    BY <1>1 DEF PlayQuery, Peeked
  <1>3. now \in Seq(Peeked) /\ Len(now) = Len(queries[q].peeks)
    BY <1>2, ExceptSeq
  <1>4. queries' = [queries EXCEPT ![q] = r]
    BY DEF PeekServed
  <1> HIDE DEF now
  <1>5. r \in PlayQuery /\ r.stage = queries[q].stage /\ r.peeks = now /\ r.checks = queries[q].checks
    BY <1>1, <1>3 DEF PlayQuery
  <1> HIDE DEF r
  <1>6. queries[q].peeks # <<>>
    BY <1>2
  <1>7. queries[q].stage # "posting"
    BY <1>1, <1>6 DEF IsCounted
  <1>8. IsCounted(r)
    BY <1>1, <1>3, <1>5, <1>7 DEF IsCounted
  <1>9. ~stray => queries[q].stage # "over"
    BY <1>6 DEF ProfileInv, OneAtATime
  <1> QED
    BY <1>4, <1>5, <1>8, <1>9, QueryGoesOn DEF PeekServed, reviewForm

\* Taking a read off the list.
LEMMA PeekLeaves ==
    ASSUME ProfileInv, NEW q \in 1..Len(queries), NEW i \in 1..Len(queries[q].peeks)
    PROVE  /\ queries[q] \in PlayQuery /\ queries[q].peeks \in Seq(Peeked)
           /\ Len(queries[q].peeks) \in Nat /\ queries[q].checks \in Nat
           /\ RemoveAt(queries[q].peeks, i) \in Seq(Peeked)
           /\ Len(RemoveAt(queries[q].peeks, i)) = Len(queries[q].peeks) - 1
           /\ Len(queries[q].peeks) <= MaxPeeks
           /\ queries[q].stage # "posting" /\ (~stray => queries[q].stage # "over")
  <1>1. queries[q] \in PlayQuery /\ IsCounted(queries[q])
    BY ProfileTypes
  <1>2. queries[q].peeks \in Seq(Peeked) /\ queries[q].checks \in Nat
    BY <1>1, ProfileNumbers DEF PlayQuery
  <1>3. Len(queries[q].peeks) \in Nat /\ queries[q].peeks # <<>>
    BY <1>2
  <1>4. /\ RemoveAt(queries[q].peeks, i) \in Seq(Peeked)
        /\ Len(RemoveAt(queries[q].peeks, i)) = Len(queries[q].peeks) - 1
    BY <1>2, RemovedAt
  <1>5. queries[q].stage # "posting" /\ Len(queries[q].peeks) <= MaxPeeks
    BY <1>1, <1>3 DEF IsCounted
  <1>6. ~stray => queries[q].stage # "over"
    BY <1>3 DEF ProfileInv, OneAtATime
  <1> QED
    BY <1>1, <1>2, <1>3, <1>4, <1>5, <1>6

LEMMA EndQueryKeeps ==
    ASSUME ProfileInv, NEW q \in 1..Len(queries), NEW i \in 1..Len(queries[q].peeks), EndQuery(q, i),
           output' \in {output, q},
           UNCHANGED <<profile, profileLoads, signedIn, reviewing, reviewCall, reviewsSent, reviews>>
    PROVE  ProfileInv'
  <1> DEFINE now == RemoveAt(queries[q].peeks, i)
             r == [queries[q] EXCEPT !.stage = "over", !.peeks = now]
  <1>1. now \in Seq(Peeked) /\ Len(now) = Len(queries[q].peeks) - 1
    BY PeekLeaves
  <1>2. queries' = [queries EXCEPT ![q] = r] /\ testing' = FALSE
        /\ stray' = (stray \/ Len(queries[q].peeks) > 1)
    BY ProfileTypes DEF EndQuery
  <1> HIDE DEF now
  <1>3. r \in PlayQuery /\ r.stage = "over" /\ r.peeks = now
    BY <1>1, PeekLeaves DEF PlayQuery
  <1> HIDE DEF r
  <1>4. IsCounted(r)
    <2>1. Len(now) <= MaxPeeks
      BY <1>1, PeekLeaves, ProfileNumbers
    <2> QED
      BY <1>3, <2>1 DEF IsCounted
  <1>5. ASSUME ~stray' PROVE ~stray /\ queries[q].stage # "over" /\ r.peeks = <<>>
    <2>1. ~stray /\ ~(Len(queries[q].peeks) > 1)
      BY <1>2, <1>5
    <2>4. Len(queries[q].peeks) \in Nat
      BY PeekLeaves
    <2>6. Len(queries[q].peeks) # 0
      BY <2>4
    <2>7. \A n \in Nat : n = 0 \/ n = 1 \/ n > 1
      OBVIOUS
    <2>5. Len(queries[q].peeks) = 1
      BY <2>1, <2>4, <2>6, <2>7
    <2>2. Len(now) = 0
      BY <1>1, <2>5
    <2>3. now = <<>>
      BY <1>1, <2>2
    <2> QED
      BY <1>3, <2>1, <2>3, PeekLeaves
  <1>6. stray' \in BOOLEAN
    BY <1>2
  <1> QED
    BY <1>2, <1>3, <1>4, <1>5, <1>6, QueryEnds

LEMMA PeekAnsweredKeeps ==
    ASSUME ProfileInv, NEW q \in 1..Len(queries), NEW i \in 1..Len(queries[q].peeks), PeekAnswered(q, i)
    PROVE  ProfileInv'
  <1>1. UNCHANGED <<profile, profileLoads, signedIn, reviewing, reviewCall, reviewsSent, reviews>>
    BY DEF PeekAnswered, reviewForm
  <1>2. CASE EndQuery(q, i) /\ output' = q
    BY <1>1, <1>2, EndQueryKeeps
  <1>3. CASE /\ ~TooManyChecks(q) /\ queries' = [queries EXCEPT ![q].peeks = RemoveAt(@, i)]
             /\ UNCHANGED <<testing, output, stray>>
    <2> DEFINE now == RemoveAt(queries[q].peeks, i)
               r == [queries[q] EXCEPT !.peeks = now]
    <2>1. now \in Seq(Peeked) /\ Len(now) = Len(queries[q].peeks) - 1
      BY PeekLeaves
    <2>2. queries' = [queries EXCEPT ![q] = r]
      BY <1>3, ProfileTypes
    <2> HIDE DEF now
    <2>3. /\ r \in PlayQuery /\ r.stage = queries[q].stage /\ r.peeks = now
          /\ r.checks = queries[q].checks
      BY <2>1, PeekLeaves DEF PlayQuery
    <2> HIDE DEF r
    <2>4. IsCounted(r)
      <3>1. Len(now) <= MaxPeeks
        BY <2>1, PeekLeaves, ProfileNumbers
      <3>2. queries[q].checks <= MaxChecks + Len(now)
        BY <1>3, <2>1, PeekLeaves, ProfileNumbers, SMTT(30) DEF TooManyChecks
      <3> QED
        BY <2>3, <3>1, <3>2, PeekLeaves DEF IsCounted
    <2> QED
      BY <1>1, <1>3, <2>2, <2>3, <2>4, PeekLeaves, QueryGoesOn
  <1> QED
    BY <1>2, <1>3 DEF PeekAnswered

LEMMA TestRefusedKeeps ==
    ASSUME ProfileInv, NEW q \in 1..Len(queries), TestRefused(q) PROVE ProfileInv'
  <1> DEFINE r == [queries[q] EXCEPT !.stage = "over"]
  <1>1. queries[q] \in PlayQuery /\ IsCounted(queries[q]) /\ queries[q].stage = "posting"
    BY ProfileTypes DEF TestRefused
  <1>2. r \in PlayQuery /\ IsCounted(r) /\ r.stage = "over" /\ r.peeks = <<>>
    BY <1>1 DEF PlayQuery, IsCounted
  <1>3. queries' = [queries EXCEPT ![q] = r]
    BY DEF TestRefused
  <1>4. stray' = stray /\ stray \in BOOLEAN /\ testing' = FALSE /\ output' = q
    BY DEF TestRefused, ProfileInv, ProfileTypeOK
  <1>5. UNCHANGED <<profile, profileLoads, signedIn, reviewing, reviewCall, reviewsSent, reviews>>
    BY DEF TestRefused, reviewForm
  <1> HIDE DEF r
  <1> QED
    BY <1>1, <1>2, <1>3, <1>4, <1>5, QueryEnds

LEMMA ProfileInvIsKept == ProfileInv /\ [ProfileNext]_profileVars => ProfileInv'
  <1> SUFFICES ASSUME ProfileInv, [ProfileNext]_profileVars PROVE ProfileInv'
    OBVIOUS
  <1>1. DOMAIN queries = 1..Len(queries)
    BY ProfileTypes
  <1>2. \A q \in 1..Len(queries) : DOMAIN queries[q].peeks = 1..Len(queries[q].peeks)
    BY ProfileTypes DEF PlayQuery
  <1>3. CASE UNCHANGED profileVars
    BY <1>3 DEF profileVars, ProfileInv, ProfileTypeOK, IsCounted, ReviewsAreCounted, OneAtATime,
       OutputIsLatest
  <1>4. ASSUME NEW q \in 1..Len(queries), NEW i \in 1..Len(queries[q].peeks), PeekFailed(q, i)
        PROVE  ProfileInv'
    BY <1>4, EndQueryKeeps DEF PeekFailed, reviewForm
  <1> QED
    BY <1>1, <1>2, <1>3, <1>4, ProfileAnsweredKeeps, ReviewKeeps, ClickTestKeeps, TestPostedKeeps,
       TestRefusedKeeps, TaskEndsKeeps, PeekKeeps, PeekServedKeeps, PeekAnsweredKeeps
    DEF ProfileNext, ProfileStep

\* The page keeps its types, and unless a query has left reads behind it, the spinner and
\* the output are those of the query asked last (agents/[id]/page.tsx:97).
THEOREM PlaygroundShowsTheLast == ProfileSpec => [](ProfileTypeOK /\ OutputIsLatest)
  <1>1. ProfileInv => ProfileTypeOK /\ OutputIsLatest
    BY DEF ProfileInv
  <1> QED
    BY <1>1, ProfileInitially, ProfileInvIsKept, PTL DEF ProfileSpec

-----------------------------------------------------------------------------
(* The workspaces page.                                                    *)

BoardCall == [op : {"stop", "settle", "rebuild"}, id : Containers \cup Leases,
              n : 1..MaxEvents, done : BOOLEAN]
BoardRefresh == [rows : {"idle", "asked", "answered"}, seen : Tables,
                 rented : {"idle", "asked", "answered"}, leases : LeaseTables,
                 settling : BOOLEAN]

LEMMA BoardTypes ==
    BoardTypeOK <=>
    /\ view \in {"deployed", "rented"} /\ table \in Tables /\ leaseTable \in LeaseTables
    /\ stoppingId \in Containers \cup {"none"} /\ redeployingId \in Containers \cup {"none"}
    /\ settlingId \in Leases \cup {"none"}
    /\ refreshes \in [Slots -> BoardRefresh] /\ calls \subseteq BoardCall
    /\ events \in 0..MaxEvents
    /\ container \in [Containers -> ContainerStatus] /\ lease \in [Leases -> LeaseStatus]
  BY DEF BoardTypeOK, BoardRefresh, BoardCall

LEMMA EmptyTables ==
    /\ NoRows \in Tables /\ NoLeases \in LeaseTables
    /\ Idle \in BoardRefresh /\ Asked \in BoardRefresh
    /\ [Containers -> ContainerStatus] \subseteq Tables /\ [Leases -> LeaseStatus] \subseteq LeaseTables
  <1>1. NoRows \in Tables /\ NoLeases \in LeaseTables
    BY DEF NoRows, NoLeases, Tables, LeaseTables
  <1>2. Idle \in BoardRefresh
    BY <1>1 DEF Idle, BoardRefresh
  <1>3. Asked \in BoardRefresh
    BY <1>2 DEF Asked, BoardRefresh
  <1>4. [Containers -> ContainerStatus] \subseteq Tables /\ [Leases -> LeaseStatus] \subseteq LeaseTables
    BY DEF Tables, LeaseTables
  <1> QED
    BY <1>1, <1>2, <1>3, <1>4

LEMMA BoardTypesInitially == BoardInit => BoardTypeOK
  <1> SUFFICES ASSUME BoardInit PROVE BoardTypeOK
    OBVIOUS
  <1>1. refreshes \in [Slots -> BoardRefresh]
    BY EmptyTables DEF BoardInit
  <1>2. events \in 0..MaxEvents
    BY BoardAssumption DEF BoardInit
  <1>3. container \in [Containers -> ContainerStatus] /\ lease \in [Leases -> LeaseStatus]
    BY DEF BoardInit, ContainerStatus, LeaseStatus
  <1>4. table \in Tables /\ leaseTable \in LeaseTables
    BY EmptyTables DEF BoardInit
  <1> QED
    BY <1>1, <1>2, <1>3, <1>4, BoardTypes DEF BoardInit

LEMMA RefreshIsTyped ==
    ASSUME BoardTypeOK, NEW waits \in BOOLEAN, StartRefresh(waits)
    PROVE  refreshes' \in [Slots -> BoardRefresh]
  <1>1. PICK s \in Slots : refreshes' = [refreshes EXCEPT ![s] = [Asked EXCEPT !.settling = waits]]
    BY DEF StartRefresh
  <1>2. [Asked EXCEPT !.settling = waits] \in BoardRefresh
    BY EmptyTables DEF BoardRefresh
  <1>3. refreshes \in [Slots -> BoardRefresh]
    BY BoardTypes
  <1> QED
    BY <1>1, <1>2, <1>3

LEMMA EventIsCounted ==
    ASSUME BoardTypeOK, Event PROVE events' \in 0..MaxEvents /\ events + 1 \in 1..MaxEvents
  <1>1. events \in 0..MaxEvents /\ MaxEvents \in Nat /\ events < MaxEvents /\ events' = events + 1
    BY BoardAssumption, BoardTypes DEF Event
  <1> QED
    BY <1>1

LEMMA RefreshStepKeepsTypes ==
    ASSUME BoardTypeOK, NEW s \in Slots, RowsRead(s) \/ LeasesRead(s) \/ RefreshEnds(s)
    PROVE  BoardTypeOK'
  <1> USE BoardTypes
  <1>1. refreshes \in [Slots -> BoardRefresh] /\ refreshes[s] \in BoardRefresh
    OBVIOUS
  <1>2. CASE RowsRead(s)
    <2>1. PICK answer \in {container, NoRows} :
             /\ refreshes' = [refreshes EXCEPT ![s].rows = "answered", ![s].seen = answer]
             /\ events' = events \/ Event
      BY <1>2 DEF RowsRead
    <2> DEFINE r == [refreshes[s] EXCEPT !.rows = "answered", !.seen = answer]
    <2>2. answer \in Tables
      BY EmptyTables
    <2>3. r \in BoardRefresh
      BY <1>1, <2>2 DEF BoardRefresh
    <2>4. refreshes' = [refreshes EXCEPT ![s] = r]
      BY <1>1, <2>1
    <2> HIDE DEF r
    <2>5. refreshes' \in [Slots -> BoardRefresh]
      BY <1>1, <2>3, <2>4
    <2>6. events' \in 0..MaxEvents
      BY <2>1, EventIsCounted
    <2>7. UNCHANGED <<view, table, leaseTable, stoppingId, settlingId, redeployingId, calls, container, lease>>
      BY <1>2 DEF RowsRead, shownBoard, pending, server
    <2> QED
      BY <2>5, <2>6, <2>7 DEF BoardTypeOK, BoardRefresh, BoardCall
  <1>3. CASE LeasesRead(s)
    <2>1. PICK answer \in {lease, NoLeases} :
             /\ refreshes' = [refreshes EXCEPT ![s].rented = "answered", ![s].leases = answer]
             /\ events' = events \/ Event
      BY <1>3 DEF LeasesRead
    <2> DEFINE r == [refreshes[s] EXCEPT !.rented = "answered", !.leases = answer]
    <2>2. answer \in LeaseTables
      BY EmptyTables
    <2>3. r \in BoardRefresh
      BY <1>1, <2>2 DEF BoardRefresh
    <2>4. refreshes' = [refreshes EXCEPT ![s] = r]
      BY <1>1, <2>1
    <2> HIDE DEF r
    <2>5. refreshes' \in [Slots -> BoardRefresh]
      BY <1>1, <2>3, <2>4
    <2>6. events' \in 0..MaxEvents
      BY <2>1, EventIsCounted
    <2>7. UNCHANGED <<view, table, leaseTable, stoppingId, settlingId, redeployingId, calls, container, lease>>
      BY <1>3 DEF LeasesRead, shownBoard, pending, server
    <2> QED
      BY <2>5, <2>6, <2>7 DEF BoardTypeOK, BoardRefresh, BoardCall
  <1>4. CASE RefreshEnds(s)
    <2>1. /\ table' = refreshes[s].seen /\ leaseTable' = refreshes[s].leases
          /\ refreshes' = [refreshes EXCEPT ![s] = Idle] /\ settlingId' \in {"none", settlingId}
          /\ UNCHANGED <<view, stoppingId, redeployingId, calls, events, container, lease>>
      BY <1>4 DEF RefreshEnds, server
    <2>2. table' \in Tables /\ leaseTable' \in LeaseTables
      BY <1>1, <2>1 DEF BoardRefresh
    <2>3. refreshes' \in [Slots -> BoardRefresh]
      BY <1>1, <2>1, EmptyTables
    <2> QED
      BY <2>1, <2>2, <2>3 DEF BoardTypeOK, BoardRefresh, BoardCall
  <1> QED
    BY <1>2, <1>3, <1>4

LEMMA ClickKeepsTypes ==
    ASSUME BoardTypeOK, NEW op \in {"stop", "settle", "rebuild"}, NEW id \in Containers \cup Leases,
           Click(op, id), stoppingId' \in Containers \cup {"none"},
           redeployingId' \in Containers \cup {"none"}, settlingId' \in Leases \cup {"none"}
    PROVE  BoardTypeOK'
  <1> DEFINE new == [op |-> op, id |-> id, n |-> events + 1, done |-> FALSE]
  <1>1. calls' = calls \cup {new} /\ Event
        /\ UNCHANGED <<view, table, leaseTable, refreshes, container, lease>>
    BY DEF Click, shownBoard, server
  <1>2. new \in BoardCall
    BY <1>1, EventIsCounted DEF BoardCall
  <1> HIDE DEF new
  <1>3. calls' \subseteq BoardCall /\ events' \in 0..MaxEvents
    BY <1>1, <1>2, BoardTypes, EventIsCounted
  <1> QED
    BY <1>1, <1>3, BoardTypes DEF BoardTypeOK, BoardRefresh, BoardCall

LEMMA CallStepKeepsTypes ==
    ASSUME BoardTypeOK, NEW c \in calls,
           CallActs(c) \/ StopAnswered(c) \/ SettleAnswered(c) \/ RedeployAnswered(c) \/ CallFailed(c)
    PROVE  BoardTypeOK'
  <1>1. c \in BoardCall /\ calls \subseteq BoardCall
    BY BoardTypes
  <1>2. CASE CallActs(c)
    <2> DEFINE d == [c EXCEPT !.done = TRUE]
    <2>1. calls' = (calls \ {c}) \cup {d}
      BY <1>2 DEF CallActs
    <2>2. d \in BoardCall
      BY <1>1 DEF BoardCall
    <2> HIDE DEF d
    <2>3. calls' \subseteq BoardCall
      BY <1>1, <2>1, <2>2
    <2>4. /\ container' = container \/ container' = [container EXCEPT ![c.id] = "STOPPED"]
          /\ lease' = lease \/ lease' = [lease EXCEPT ![c.id] = "SETTLED"]
      BY <1>2 DEF CallActs, server
    <2>5. container' \in [Containers -> ContainerStatus] /\ lease' \in [Leases -> LeaseStatus]
      BY <2>4, BoardTypes DEF ContainerStatus, LeaseStatus
    <2>6. UNCHANGED <<view, table, leaseTable, stoppingId, settlingId, redeployingId, refreshes, events>>
      BY <1>2 DEF CallActs, shownBoard, pending
    <2> QED
      BY <2>3, <2>5, <2>6, BoardTypes DEF BoardTypeOK, BoardRefresh, BoardCall
  <1>3. CASE StopAnswered(c)
    <2>1. /\ calls' = calls \ {c} /\ stoppingId' = "none"
          /\ table' = table \/ table' = [table EXCEPT ![c.id] = "STOPPED"]
          /\ UNCHANGED <<view, leaseTable, settlingId, redeployingId, refreshes, events, container, lease>>
      BY <1>3 DEF StopAnswered, server
    <2>2. table' \in Tables
      BY <2>1, BoardTypes DEF Tables, ContainerStatus
    <2> QED
      BY <1>1, <2>1, <2>2, BoardTypes DEF BoardTypeOK, BoardRefresh, BoardCall
  <1>4. CASE SettleAnswered(c) \/ RedeployAnswered(c)
    <2>1. /\ calls' = calls \ {c} /\ redeployingId' \in {redeployingId, "none"}
          /\ UNCHANGED <<view, table, leaseTable, stoppingId, settlingId, events, container, lease>>
      BY <1>4 DEF SettleAnswered, RedeployAnswered, shownBoard, pending, server
    <2>2. refreshes' \in [Slots -> BoardRefresh]
      BY <1>4, RefreshIsTyped DEF SettleAnswered, RedeployAnswered
    <2> QED
      BY <1>1, <2>1, <2>2, BoardTypes DEF BoardTypeOK, BoardRefresh, BoardCall
  <1>5. CASE CallFailed(c)
    <2>1. /\ calls' = calls \ {c} /\ stoppingId' \in {stoppingId, "none"}
          /\ settlingId' \in {settlingId, "none"} /\ redeployingId' \in {redeployingId, "none"}
          /\ UNCHANGED <<view, table, leaseTable, refreshes, container, lease>>
          /\ events' = events \/ Event
      BY <1>5 DEF CallFailed, shownBoard, server
    <2>2. events' \in 0..MaxEvents
      BY <2>1, BoardTypes, EventIsCounted
    <2> QED
      BY <1>1, <2>1, <2>2, BoardTypes DEF BoardTypeOK, BoardRefresh, BoardCall
  <1> QED
    BY <1>2, <1>3, <1>4, <1>5

LEMMA ContainerMovesKeepsTypes ==
    ASSUME BoardTypeOK, NEW w \in Containers, ContainerMoves(w) PROVE BoardTypeOK'
  <1>1. /\ Event /\ UNCHANGED <<view, table, leaseTable, stoppingId, settlingId, redeployingId,
                                refreshes, calls, lease>>
    BY DEF ContainerMoves, shownBoard, pending
  <1>2. PICK to \in ContainerStatus : container' = [container EXCEPT ![w] = to]
    <2>1. CASE container[w] = "PROVISIONING"
      BY <2>1 DEF ContainerMoves, ContainerStatus
    <2>2. CASE container[w] = "RUNNING"
      BY <2>2 DEF ContainerMoves, ContainerStatus
    <2>3. CASE container[w] # "PROVISIONING" /\ container[w] # "RUNNING"
      BY <2>3 DEF ContainerMoves
    <2> QED
      BY <2>1, <2>2, <2>3
  <1>3. container' \in [Containers -> ContainerStatus]
    BY <1>2, BoardTypes
  <1>4. events' \in 0..MaxEvents
    BY <1>1, EventIsCounted
  <1> QED
    BY <1>1, <1>3, <1>4, BoardTypes DEF BoardTypeOK, BoardRefresh, BoardCall

LEMMA BoardTypesAreKept == BoardTypeOK /\ [BoardNext]_boardVars => BoardTypeOK'
  <1> SUFFICES ASSUME BoardTypeOK, [BoardNext]_boardVars PROVE BoardTypeOK'
    OBVIOUS
  <1>1. CASE UNCHANGED boardVars
    BY <1>1, BoardTypes DEF boardVars, BoardTypeOK
  <1>2. CASE PollTick
    <2>1. refreshes' \in [Slots -> BoardRefresh]
      BY <1>2, RefreshIsTyped DEF PollTick
    <2>2. UNCHANGED <<view, table, leaseTable, stoppingId, settlingId, redeployingId, calls, events,
                      container, lease>>
      BY <1>2 DEF PollTick, shownBoard, pending, server
    <2> QED
      BY <2>1, <2>2, BoardTypes DEF BoardTypeOK, BoardRefresh, BoardCall
  <1>3. CASE SwitchView
    <2>1. view' \in {"deployed", "rented"}
          /\ UNCHANGED <<table, leaseTable, stoppingId, settlingId, redeployingId, refreshes, calls,
                         events, container, lease>>
      BY <1>3 DEF SwitchView, pending, server
    <2> QED
      BY <2>1, BoardTypes DEF BoardTypeOK, BoardRefresh, BoardCall
  <1>4. ASSUME NEW w \in Containers, ClickStop(w) PROVE BoardTypeOK'
    BY <1>4, ClickKeepsTypes, BoardTypes DEF ClickStop
  <1>5. ASSUME NEW w \in Containers, ClickRedeploy(w) PROVE BoardTypeOK'
    BY <1>5, ClickKeepsTypes, BoardTypes DEF ClickRedeploy
  <1>6. ASSUME NEW l \in Leases, ClickSettle(l) PROVE BoardTypeOK'
    BY <1>6, ClickKeepsTypes, BoardTypes DEF ClickSettle
  <1> QED
    BY <1>1, <1>2, <1>3, <1>4, <1>5, <1>6, RefreshStepKeepsTypes, CallStepKeepsTypes,
       ContainerMovesKeepsTypes DEF BoardNext, RefreshStep, CallStep

\* The tables, the marks and the calls of the workspaces page keep their types, whichever
\* answers come late or fail (fetchWorkspaces and its buttons).
LEMMA BoardIsTyped == BoardSpec => []BoardTypeOK
  BY BoardTypesInitially, BoardTypesAreKept, PTL DEF BoardSpec

-----------------------------------------------------------------------------
(* Types of the creation form.                                             *)

HubCheck == [by : {"mount", "connect"}, at : {"linking", "asked", "read"}, found : BOOLEAN]
StoredAgent == [name : DraftNames, repo : RepoField, call : 1..MaxDrafts]
DraftFlags == {customRepo, hasGitHubAccess, connectingGitHub, hubLinked, submitting, draftError, left}
              \subseteq BOOLEAN

\* The parts of the type invariant that the form's, GitHub's and the API's steps change.
FieldTypes == FormOk /\ agentMode \in AgentModes /\ typed \in 0..MaxTyped
StoreTypes ==
    /\ draftCalls \in Seq(DraftCall) /\ Len(draftCalls) <= MaxDrafts
    /\ agents \subseteq StoredAgent /\ buildQueue \subseteq 1..MaxDrafts

LEMMA DraftTypes ==
    DraftTypeOK <=> FieldTypes /\ DraftFlags /\ repoChecks \subseteq HubCheck /\ StoreTypes
  BY DEF DraftTypeOK, FieldTypes, FormOk, DraftFlags, HubCheck, StoreTypes, DraftCall, StoredAgent

LEMMA DraftTypesInitially == DraftInit => DraftTypeOK
  <1> SUFFICES ASSUME DraftInit PROVE DraftTypeOK
    OBVIOUS
  <1>1. FieldTypes
    BY DraftAssumption DEF DraftInit, FieldTypes, FormOk, RepoField
  <1>2. DraftFlags
    BY Zenon DEF DraftInit, DraftFlags
  <1>3. repoChecks \subseteq HubCheck
    BY DEF DraftInit, HubCheck
  <1>4. draftCalls = <<>> /\ agents = {} /\ buildQueue = {} /\ MaxDrafts \in Nat
    BY DraftAssumption DEF DraftInit
  <1>5. StoreTypes
    BY <1>4 DEF StoreTypes
  <1> QED
    BY <1>1, <1>2, <1>3, <1>5, DraftTypes

LEMMA FormKeepsTypes ==
    ASSUME DraftTypeOK,
           \/ \E n \in DraftNames : PickName(n)
           \/ \E m \in AgentModes : PickMode(m)
           \/ ToggleCustom \/ \E r \in RepoField : PickRepository(r)
    PROVE  DraftTypeOK'
  <1>1. /\ typed < MaxTyped /\ typed' = typed + 1
        /\ UNCHANGED <<hasGitHubAccess, connectingGitHub, repoChecks, hubLinked, submitting,
                       draftError, left, draftCalls, agents, buildQueue>>
    BY DEF PickName, PickMode, ToggleCustom, PickRepository, Type, UseForm, gitHub, submission
  <1>2. typed' \in 0..MaxTyped
    BY <1>1, DraftAssumption DEF DraftTypeOK
  <1>3. agentName' \in DraftNames /\ agentMode' \in AgentModes /\ selectedRepo' \in RepoField
        /\ customRepo' \in BOOLEAN
    BY DEF DraftTypeOK, PickName, PickMode, ToggleCustom, PickRepository
  <1> QED
    BY <1>1, <1>2, <1>3 DEF DraftTypeOK

LEMMA HubKeepsTypes ==
    ASSUME DraftTypeOK, NEW c \in repoChecks,
           QuickConnectServed(c) \/ RepoListServed(c) \/ RepoListAnswered(c)
    PROVE  DraftTypeOK'
  <1>1. c \in HubCheck /\ repoChecks \subseteq HubCheck
    BY DEF DraftTypeOK, HubCheck
  <1>2. {customRepo, hasGitHubAccess, connectingGitHub, hubLinked, submitting, draftError, left}
           \subseteq BOOLEAN
    BY DEF DraftTypeOK
  <1>3. CASE QuickConnectServed(c)
    <2> DEFINE d == [c EXCEPT !.at = "asked"]
    <2>1. d \in HubCheck
      BY <1>1 DEF HubCheck
    <2>2. repoChecks' = (repoChecks \ {c}) \cup {d} \/ repoChecks' = repoChecks \ {c}
      BY <1>3 DEF QuickConnectServed
    <2> HIDE DEF d
    <2>3. repoChecks' \subseteq HubCheck
      BY <1>1, <2>1, <2>2
    <2>4. connectingGitHub' \in BOOLEAN /\ draftError' \in BOOLEAN /\ hubLinked' \in BOOLEAN
      BY <1>2, <1>3 DEF QuickConnectServed
    <2>5. UNCHANGED <<agentName, agentMode, selectedRepo, customRepo, typed, hasGitHubAccess,
                      submitting, left, draftCalls, agents, buildQueue>>
      BY <1>3 DEF QuickConnectServed, fields
    <2> QED
      BY <2>3, <2>4, <2>5 DEF DraftTypeOK, HubCheck
  <1>4. CASE RepoListServed(c)
    <2>1. PICK found \in {FALSE, hubLinked} :
             repoChecks' = (repoChecks \ {c}) \cup {[c EXCEPT !.at = "read", !.found = found]}
      BY <1>4 DEF RepoListServed
    <2> DEFINE d == [c EXCEPT !.at = "read", !.found = found]
    <2>2. d \in HubCheck
      <3>1. found \in BOOLEAN
        BY <1>2
      <3> QED
        BY <1>1, <3>1 DEF HubCheck
    <2>3. repoChecks' = (repoChecks \ {c}) \cup {d}
      BY <2>1
    <2> HIDE DEF d
    <2>4. repoChecks' \subseteq HubCheck
      BY <1>1, <2>2, <2>3
    <2>5. UNCHANGED <<agentName, agentMode, selectedRepo, customRepo, typed, hasGitHubAccess,
                      connectingGitHub, hubLinked, submitting, draftError, left, draftCalls,
                      agents, buildQueue>>
      BY <1>4 DEF RepoListServed, fields, submission
    <2> QED
      BY <2>4, <2>5 DEF DraftTypeOK, HubCheck
  <1>5. CASE RepoListAnswered(c)
    <2>1. repoChecks' \subseteq HubCheck
      BY <1>1, <1>5 DEF RepoListAnswered
    <2>2. hasGitHubAccess' \in BOOLEAN /\ connectingGitHub' \in BOOLEAN
      BY <1>5 DEF RepoListAnswered
    <2>3. selectedRepo' \in RepoField
      BY <1>5 DEF RepoListAnswered, DraftTypeOK, RepoField
    <2>4. UNCHANGED <<agentName, agentMode, customRepo, typed, hubLinked, submitting, draftError,
                      left, draftCalls, agents, buildQueue>>
      BY <1>5 DEF RepoListAnswered, submission
    <2> QED
      BY <2>1, <2>2, <2>3, <2>4 DEF DraftTypeOK, HubCheck
  <1> QED
    BY <1>3, <1>4, <1>5

LEMMA CreateKeepsTypes ==
    ASSUME DraftTypeOK, NEW c \in DOMAIN draftCalls,
           CreateServed(c) \/ BuildEnqueued(c) \/ CreateAnswered(c)
    PROVE  DraftTypeOK'
  <1>1. /\ draftCalls \in Seq(DraftCall) /\ Len(draftCalls) \in Nat /\ Len(draftCalls) <= MaxDrafts
        /\ c \in 1..MaxDrafts /\ draftCalls[c] \in DraftCall
        /\ agents \subseteq StoredAgent /\ buildQueue \subseteq 1..MaxDrafts
    <2>1. draftCalls \in Seq(DraftCall) /\ Len(draftCalls) <= MaxDrafts
      BY DEF DraftTypeOK, DraftCall
    <2>2. Len(draftCalls) \in Nat /\ c \in 1..Len(draftCalls) /\ draftCalls[c] \in DraftCall
      BY <2>1
    <2>3. c \in 1..MaxDrafts
      BY <2>1, <2>2, DraftAssumption
    <2>4. agents \subseteq StoredAgent /\ buildQueue \subseteq 1..MaxDrafts
      BY DEF DraftTypeOK, StoredAgent
    <2> QED
      BY <2>1, <2>2, <2>3, <2>4
  <1>2. PICK at \in {"ok", "stored", "failed", "over"} : draftCalls' = [draftCalls EXCEPT ![c].at = at]
    BY DEF CreateServed, BuildEnqueued, CreateAnswered
  <1>3. draftCalls' \in Seq(DraftCall) /\ Len(draftCalls') = Len(draftCalls)
    BY <1>1, <1>2, CallMoves
  <1> DEFINE new == [name |-> draftCalls[c].name, repo |-> draftCalls[c].repo, call |-> c]
  <1>4. new \in StoredAgent
    BY <1>1 DEF DraftCall, StoredAgent
  <1>5. agents' = agents \/ agents' = agents \cup {new}
    BY DEF CreateServed, BuildEnqueued, CreateAnswered
  <1> HIDE DEF new
  <1>6. agents' \subseteq StoredAgent
    BY <1>1, <1>4, <1>5
  <1>7. buildQueue' \subseteq 1..MaxDrafts
    BY <1>1 DEF CreateServed, BuildEnqueued, CreateAnswered
  <1>8. {submitting', draftError', left'} \subseteq BOOLEAN
    BY DEF DraftTypeOK, CreateServed, BuildEnqueued, CreateAnswered
  <1>9. UNCHANGED <<agentName, agentMode, selectedRepo, customRepo, typed, hasGitHubAccess,
                    connectingGitHub, repoChecks, hubLinked>>
    BY DEF CreateServed, BuildEnqueued, CreateAnswered, fields, gitHub
  <1> QED
    BY <1>1, <1>3, <1>6, <1>7, <1>8, <1>9 DEF DraftTypeOK, DraftCall, StoredAgent

LEMMA ClickCreateKeepsTypes == ASSUME DraftTypeOK, ClickCreate PROVE DraftTypeOK'
  <1> DEFINE entry == [name |-> agentName, at |-> "sent",
                      repo |-> IF agentMode = "REPO_BACKED" THEN selectedRepo ELSE NoRepository]
  <1>1. /\ draftCalls' = Append(draftCalls, entry) /\ Len(draftCalls) < MaxDrafts
        /\ submitting' = TRUE /\ draftError' = FALSE
        /\ UNCHANGED <<agentName, agentMode, selectedRepo, customRepo, typed, hasGitHubAccess,
                       connectingGitHub, repoChecks, hubLinked, left, agents, buildQueue>>
    BY DEF ClickCreate, fields, gitHub
  <1>2. entry \in DraftCall
    BY DEF DraftTypeOK, DraftCall, RepoField
  <1> HIDE DEF entry
  <1>3. draftCalls \in Seq(DraftCall)
    BY DEF DraftTypeOK, DraftCall
  <1>4. draftCalls' \in Seq(DraftCall) /\ Len(draftCalls') = Len(draftCalls) + 1
        /\ Len(draftCalls) \in Nat
    BY <1>1, <1>2, <1>3, AppendProperties
  <1>5. Len(draftCalls') <= MaxDrafts
    BY <1>1, <1>4, DraftAssumption
  <1> QED
    BY <1>1, <1>4, <1>5 DEF DraftTypeOK, DraftCall

LEMMA DraftTypesAreKept == DraftTypeOK /\ [DraftNext]_draftVars => DraftTypeOK'
  <1> SUFFICES ASSUME DraftTypeOK, [DraftNext]_draftVars PROVE DraftTypeOK'
    OBVIOUS
  <1>1. CASE UNCHANGED draftVars
    BY <1>1 DEF draftVars, DraftTypeOK
  <1>2. CASE SubmitBlocked
    BY <1>2 DEF SubmitBlocked, fields, gitHub, DraftTypeOK
  <1>3. CASE ClickQuickConnect
    <2> DEFINE d == [by |-> "connect", at |-> "linking", found |-> FALSE]
    <2>1. d \in HubCheck
      BY DEF HubCheck
    <2>2. /\ repoChecks' = repoChecks \cup {d} /\ connectingGitHub' = TRUE /\ draftError' = FALSE
          /\ typed < MaxTyped /\ typed' = typed + 1
          /\ UNCHANGED <<agentName, agentMode, selectedRepo, customRepo, hasGitHubAccess, hubLinked,
                         submitting, left, draftCalls, agents, buildQueue>>
      BY <1>3 DEF ClickQuickConnect, UseForm
    <2> HIDE DEF d
    <2>3. typed' \in 0..MaxTyped
      BY <2>2, DraftAssumption DEF DraftTypeOK
    <2> QED
      BY <2>1, <2>2, <2>3 DEF DraftTypeOK, HubCheck
  <1> QED
    BY <1>1, <1>2, <1>3, FormKeepsTypes, HubKeepsTypes, CreateKeepsTypes, ClickCreateKeepsTypes
    DEF DraftNext, DraftStep

LEMMA DraftIsTyped == DraftSpec => []DraftTypeOK
  BY DraftTypesInitially, DraftTypesAreKept, PTL DEF DraftSpec
-----------------------------------------------------------------------------
(* Types of the publish page.                                              *)

\* A transaction is asked for only while there is room for one more.
RoomForOne == asking => Len(txs) < MaxTx
RowTypes == status \in Statuses /\ safe \in BOOLEAN /\ cleared \in BOOLEAN /\ accepted \in BOOLEAN
            /\ recorded \in Hashes
ChainPart == txs \in Seq(TxStates) /\ seen \subseteq 1..Len(txs) /\ Len(txs) <= MaxTx
SheetTypes ==
    /\ page \in {"loading", "shown"} /\ isValidated \in BOOLEAN /\ isPublished \in BOOLEAN
    /\ existing \in Hashes /\ audit \in {"none", "asked", "passed", "found", "error", "remedy"}
WalletTypes ==
    /\ net \in {"none", "wrong", "amoy"} /\ asking \in BOOLEAN /\ writing \in BOOLEAN
    /\ writeTx \in Hashes /\ writeError \in {"none", "refused", "gas"}
ButtonTypes ==
    /\ publishStep \in Steps /\ activeTx \in Hashes /\ direct \in Call /\ directTx \in Hashes
    /\ final \in [tx : Hashes, call : Call] /\ faucet \in BOOLEAN
    /\ DOMAIN rendered = DOMAIN Blank
PublishTypes ==
    /\ RowTypes /\ ChainPart /\ SheetTypes /\ WalletTypes /\ ButtonTypes
    /\ publishActs \in 0..MaxActs /\ RoomForOne

LEMMA TypedPublish == PublishTypes => PublishTypeOK
  <1>1. ASSUME txs \in Seq(TxStates) PROVE DOMAIN txs = 1..Len(txs)
    BY <1>1
  <1> QED
    BY <1>1 DEF PublishTypes, PublishTypeOK, RowTypes, ChainPart, SheetTypes, WalletTypes,
       ButtonTypes, TxStates

LEMMA HashesAreNumbers ==
    /\ MaxTx \in Nat /\ MaxActs \in Nat /\ NoTx \in Hashes /\ Made \in Hashes
    /\ \A n \in Nat : n <= MaxTx => n \in Hashes
  BY PublishAssumption DEF NoTx, Made, Hashes

LEMMA PublishTypesInitially == PublishInit => PublishTypes
  <1> SUFFICES ASSUME PublishInit PROVE PublishTypes
    OBVIOUS
  <1>1. RowTypes
    BY HashesAreNumbers DEF PublishInit, RowTypes, Statuses
  <1>2. ChainPart
    BY HashesAreNumbers DEF PublishInit, ChainPart
  <1>3. SheetTypes
    BY HashesAreNumbers DEF PublishInit, SheetTypes
  <1>4. WalletTypes
    BY HashesAreNumbers DEF PublishInit, WalletTypes
  <1>5. ButtonTypes
    BY HashesAreNumbers DEF PublishInit, ButtonTypes, Steps, Call, NoFinal
  <1>6. publishActs \in 0..MaxActs /\ RoomForOne
    BY HashesAreNumbers DEF PublishInit, RoomForOne
  <1> QED
    BY <1>1, <1>2, <1>3, <1>4, <1>5, <1>6 DEF PublishTypes

LEMMA ActIsCounted == ASSUME PublishTypes, PublishAct PROVE publishActs' \in 0..MaxActs
  BY HashesAreNumbers DEF PublishTypes, PublishAct

LEMMA OthersKeepTypes == ASSUME PublishTypes, Others PROVE PublishTypes'
  <1>1. RowTypes'
    BY HashesAreNumbers DEF PublishTypes, RowTypes, Others, Submit, Approve, TakeDown, PauseOrResume,
       BuildSucceeds, EditPermissions, NewVersion, Statuses
  <1>2. publishActs' \in 0..MaxActs
    BY ActIsCounted DEF Others
  <1> QED
    BY <1>1, <1>2 DEF PublishTypes, Others, sheet, wallet, button, ChainPart, SheetTypes, WalletTypes,
       ButtonTypes, RoomForOne

LEMMA ListingIsTyped ==
    ASSUME PublishTypes, NEW hash \in Hashes, NEW answer, Publish(hash, answer)
    PROVE  RowTypes' /\ publishActs' \in 0..MaxActs
  <1>1. RowTypes'
    BY DEF Publish, PublishTypes, RowTypes, Statuses, agentRow
  <1>2. publishActs' \in 0..MaxActs
    BY ActIsCounted DEF Publish, PublishTypes
  <1> QED
    BY <1>1, <1>2

LEMMA ApiKeepsTypes == ASSUME PublishTypes, ApiAnswers PROVE PublishTypes'
  <1>1. CASE ValidateServed
    <2>1. RowTypes'
      BY <1>1 DEF ValidateServed, PublishTypes, RowTypes, Statuses
    <2>2. publishActs' \in 0..MaxActs
      BY <1>1, ActIsCounted DEF ValidateServed, PublishTypes
    <2>3. SheetTypes'
      BY <1>1 DEF ValidateServed, PublishTypes, SheetTypes, sheet
    <2> QED
      BY <1>1, <2>1, <2>2, <2>3 DEF ValidateServed, wallet, button, PublishTypes, ChainPart,
         WalletTypes, ButtonTypes, RoomForOne
  <1>2. CASE RemedyServed
    <2>1. RowTypes'
      BY <1>2 DEF RemedyServed, PublishTypes, RowTypes
    <2>2. publishActs' \in 0..MaxActs
      BY <1>2, ActIsCounted DEF RemedyServed, PublishTypes
    <2>3. SheetTypes'
      BY <1>2 DEF RemedyServed, PublishTypes, SheetTypes, sheet
    <2> QED
      BY <1>2, <2>1, <2>2, <2>3 DEF RemedyServed, wallet, button, PublishTypes, ChainPart,
         WalletTypes, ButtonTypes, RoomForOne
  <1>3. CASE DirectServed
    <2>1. PICK answer \in {"ok", "error"} : direct' = answer /\ Publish(directTx, answer)
      BY <1>3 DEF DirectServed
    <2>2. RowTypes' /\ publishActs' \in 0..MaxActs
      BY <2>1, ListingIsTyped DEF PublishTypes, ButtonTypes
    <2>3. direct' \in Call
      BY <2>1 DEF Call
    <2> QED
      BY <1>3, <2>2, <2>3 DEF DirectServed, sheet, wallet, PublishTypes, ChainPart, SheetTypes,
         WalletTypes, ButtonTypes, RoomForOne
  <1>4. CASE FinalServed
    <2>1. PICK answer \in {"ok", "error"} : final' = [final EXCEPT !.call = answer]
                                          /\ Publish(final.tx, answer)
      BY <1>4 DEF FinalServed
    <2>2. final.tx \in Hashes /\ final' \in [tx : Hashes, call : Call]
      BY <2>1 DEF PublishTypes, ButtonTypes, Call
    <2>3. RowTypes' /\ publishActs' \in 0..MaxActs
      BY <2>1, <2>2, ListingIsTyped
    <2> QED
      BY <1>4, <2>2, <2>3 DEF FinalServed, sheet, wallet, PublishTypes, ChainPart, SheetTypes,
         WalletTypes, ButtonTypes, RoomForOne
  <1> QED
    BY <1>1, <1>2, <1>3, <1>4 DEF ApiAnswers

LEMMA RenderKeepsTypes == ASSUME PublishTypes, Render PROVE PublishTypes'
  <1>1. publishStep' \in Steps
    BY DEF Render, PublishTypes, ButtonTypes, Steps
  <1>2. activeTx' \in Hashes
    BY DEF Render, PublishTypes, ButtonTypes, WalletTypes, SheetTypes
  <1>3. final' \in [tx : Hashes, call : Call]
    BY DEF Render, PublishTypes, ButtonTypes, Call
  <1>4. DOMAIN rendered' = DOMAIN Blank
    BY DEF Render, Deps, Blank
  <1> QED
    BY <1>1, <1>2, <1>3, <1>4 DEF Render, agentRow, sheet, wallet, PublishTypes, RowTypes, ChainPart,
       SheetTypes, WalletTypes, ButtonTypes, RoomForOne

LEMMA PageKeepsTypes ==
    ASSUME PublishTypes,
           PageLoads \/ AuditAnswered \/ DirectAnswered \/ FinalAnswered \/ FaucetAnswered
             \/ ClickAudit \/ ClickDirect
    PROVE  PublishTypes'
  <1>1. SheetTypes'
    <2>1. CASE PageLoads
      <3>1. isValidated' \in BOOLEAN /\ isPublished' \in BOOLEAN
        <4>1. /\ isValidated' = (status \in {"VALIDATED", "APPROVED", "PUBLISHED"})
              /\ isPublished' = (status = "PUBLISHED")
          BY <2>1, Zenon DEF PageLoads
        <4> QED
          BY <4>1, SMT
      <3>2. existing' \in Hashes /\ page' = "shown" /\ audit' = "asked"
        BY <2>1, HashesAreNumbers DEF PageLoads, PublishTypes, RowTypes
      <3> QED
        BY <3>1, <3>2 DEF SheetTypes
    <2>2. CASE AuditAnswered \/ ClickAudit
      <3>1. isValidated' \in BOOLEAN
        <4>1. CASE AuditAnswered
          BY <4>1, Zenon DEF AuditAnswered
        <4>2. CASE ClickAudit
          BY <4>2 DEF ClickAudit, sheet, PublishTypes, SheetTypes
        <4> QED
          BY <2>2, <4>1, <4>2
      <3>2. /\ audit' \in {"none", "asked", "remedy"}
            /\ page' = page /\ isPublished' = isPublished /\ existing' = existing
        BY <2>2 DEF AuditAnswered, ClickAudit, sheet
      <3> QED
        BY <3>1, <3>2 DEF PublishTypes, SheetTypes
    <2>3. CASE DirectAnswered
      BY <2>3, HashesAreNumbers DEF DirectAnswered, Listed, PublishTypes, SheetTypes, ButtonTypes
    <2>4. CASE FinalAnswered
      <3>1. final.tx \in Hashes
        BY DEF PublishTypes, ButtonTypes
      <3> QED
        BY <2>4, <3>1 DEF FinalAnswered, Listed, PublishTypes, SheetTypes
    <2>5. CASE FaucetAnswered \/ ClickDirect
      BY <2>5 DEF FaucetAnswered, ClickDirect, sheet, PublishTypes, SheetTypes
    <2> QED
      BY <2>1, <2>2, <2>3, <2>4, <2>5
  <1>2. ButtonTypes'
    <2>1. CASE PageLoads
      BY <1>1, <2>1 DEF PageLoads, PublishTypes, ButtonTypes, SheetTypes, Steps
    <2>2. CASE AuditAnswered \/ ClickAudit
      BY <2>2 DEF AuditAnswered, ClickAudit, button, PublishTypes, ButtonTypes
    <2>3. CASE DirectAnswered \/ FaucetAnswered \/ ClickDirect
      BY <2>3 DEF DirectAnswered, FaucetAnswered, ClickDirect, Listed, PublishTypes, ButtonTypes, Steps, Call
    <2>4. CASE FinalAnswered
      <3>1. final' \in [tx : Hashes, call : Call]
        BY <2>4, HashesAreNumbers DEF FinalAnswered, NoFinal, Call
      <3> QED
        BY <2>4, <3>1 DEF FinalAnswered, Listed, PublishTypes, ButtonTypes, Steps
    <2> QED
      BY <2>1, <2>2, <2>3, <2>4
  <1>3. publishActs' \in 0..MaxActs
    BY ActIsCounted DEF PublishTypes, PageLoads, AuditAnswered, DirectAnswered, FinalAnswered,
       FaucetAnswered, ClickAudit, ClickDirect
  <1>4. UNCHANGED <<status, safe, recorded, cleared, accepted, txs, seen, net, asking, writing,
                    writeTx, writeError>>
    BY DEF PageLoads, AuditAnswered, DirectAnswered, FinalAnswered, FaucetAnswered, ClickAudit,
       ClickDirect, agentRow, wallet
  <1> QED
    BY <1>1, <1>2, <1>3, <1>4 DEF PublishTypes, RowTypes, ChainPart, WalletTypes, RoomForOne

LEMMA WalletKeepsTypes ==
    ASSUME PublishTypes, ChangeNet \/ ClickSign \/ Refuse \/ Retry \/ ClickFaucet
    PROVE  PublishTypes'
  <1>1. WalletTypes'
    BY HashesAreNumbers DEF PublishTypes, WalletTypes, ChangeNet, ClickSign, Refuse, Retry, ClickFaucet, wallet
  <1>2. ButtonTypes'
    BY DEF PublishTypes, ButtonTypes, ChangeNet, ClickSign, Refuse, Retry, ClickFaucet, button, Steps
  <1>3. publishActs' \in 0..MaxActs
    BY ActIsCounted DEF PublishTypes, ChangeNet, ClickSign, Refuse, Retry, ClickFaucet
  <1>4. RoomForOne'
    BY DEF PublishTypes, RoomForOne, ChangeNet, ClickSign, Refuse, Retry, ClickFaucet, wallet
  <1>5. UNCHANGED <<status, safe, recorded, cleared, accepted, txs, seen, page, isValidated,
                    isPublished, existing, audit>>
    BY DEF ChangeNet, ClickSign, Refuse, Retry, ClickFaucet, agentRow, sheet
  <1> QED
    BY <1>1, <1>2, <1>3, <1>4, <1>5 DEF PublishTypes, RowTypes, ChainPart, SheetTypes

LEMMA ChainKeepsTypes ==
    ASSUME PublishTypes, Sign \/ \E t \in DOMAIN txs : Mine(t) \/ ReceiptPolled(t)
    PROVE  PublishTypes'
  <1>1. txs \in Seq(TxStates) /\ seen \subseteq 1..Len(txs) /\ Len(txs) <= MaxTx /\ Len(txs) \in Nat
    BY DEF PublishTypes, ChainPart
  <1>2. CASE Sign
    <2>1. /\ asking /\ asking' = FALSE /\ writing' = FALSE /\ txs' = Append(txs, "pending")
          /\ activeTx' = Len(txs) + 1 /\ publishStep' = "confirming_on_chain"
          /\ writeTx' \in {Len(txs) + 1, writeTx}
          /\ UNCHANGED <<status, safe, recorded, cleared, accepted, seen, page, isValidated,
                         isPublished, existing, audit, net, writeError, direct, directTx, final,
                         faucet, rendered, publishActs>>
      BY <1>2 DEF Sign, agentRow, sheet
    <2>2. Len(txs) < MaxTx
      BY <2>1 DEF PublishTypes, RoomForOne
    <2>3. Len(txs) + 1 \in Hashes /\ Len(txs) + 1 <= MaxTx
      BY <1>1, <2>2, HashesAreNumbers
    <2>4. txs' \in Seq(TxStates) /\ Len(txs') = Len(txs) + 1
      <3>1. "pending" \in TxStates
        BY DEF TxStates
      <3> QED
        BY <1>1, <2>1, <3>1, AppendProperties
    <2>5. seen' \subseteq 1..Len(txs')
      BY <1>1, <2>1, <2>4
    <2>6. ChainPart' /\ RoomForOne'
      BY <2>1, <2>3, <2>4, <2>5 DEF ChainPart, RoomForOne
    <2>7. ButtonTypes'
      BY <2>1, <2>3 DEF PublishTypes, ButtonTypes, Steps
    <2>8. WalletTypes'
      BY <2>1, <2>3 DEF PublishTypes, WalletTypes
    <2> QED
      BY <2>1, <2>6, <2>7, <2>8 DEF PublishTypes, RowTypes, SheetTypes
  <1>3. ASSUME NEW t \in DOMAIN txs, Mine(t) PROVE PublishTypes'
    <2>1. PICK result \in TxStates : txs' = [txs EXCEPT ![t] = result]
      BY <1>3 DEF Mine, TxStates
    <2>2. txs' \in Seq(TxStates) /\ Len(txs') = Len(txs)
      BY <1>1, <2>1, ExceptSeq
    <2>3. UNCHANGED <<status, safe, recorded, cleared, accepted, seen, page, isValidated,
                      isPublished, existing, audit, net, asking, writing, writeTx, writeError,
                      publishStep, activeTx, direct, directTx, final, faucet, rendered, publishActs>>
      BY <1>3 DEF Mine, agentRow, sheet, wallet, button
    <2> QED
      BY <1>1, <2>2, <2>3 DEF PublishTypes, RowTypes, ChainPart, SheetTypes, WalletTypes, ButtonTypes,
         RoomForOne
  <1>4. ASSUME NEW t \in DOMAIN txs, ReceiptPolled(t) PROVE PublishTypes'
    <2>1. seen' = seen \cup {t} /\ t \in 1..Len(txs)
      BY <1>1, <1>4 DEF ReceiptPolled
    <2>2. UNCHANGED <<status, safe, recorded, cleared, accepted, txs, page, isValidated,
                      isPublished, existing, audit, net, asking, writing, writeTx, writeError,
                      publishStep, activeTx, direct, directTx, final, faucet, rendered, publishActs>>
      BY <1>4 DEF ReceiptPolled, agentRow, sheet, wallet, button
    <2>3. ChainPart'
      <3>1. seen' \subseteq 1..Len(txs)
        BY <1>1, <2>1
      <3> QED
        BY <1>1, <2>2, <3>1 DEF ChainPart
    <2> QED
      BY <2>2, <2>3 DEF PublishTypes, RowTypes, ChainPart, SheetTypes, WalletTypes, ButtonTypes,
         RoomForOne
  <1> QED
    BY <1>2, <1>3, <1>4

LEMMA PublishTypesAreKept == PublishTypes /\ [PublishNext]_publishVars => PublishTypes'
  <1> SUFFICES ASSUME PublishTypes, [PublishNext]_publishVars PROVE PublishTypes'
    OBVIOUS
  <1>1. CASE UNCHANGED publishVars
    BY <1>1 DEF publishVars, agentRow, sheet, wallet, button, PublishTypes, RowTypes, ChainPart,
       SheetTypes, WalletTypes, ButtonTypes, RoomForOne
  <1> QED
    BY <1>1, OthersKeepTypes, ApiKeepsTypes, RenderKeepsTypes, PageKeepsTypes, WalletKeepsTypes,
       ChainKeepsTypes DEF PublishNext, Machine

LEMMA PublishIsTyped == PublishSpec => []PublishTypeOK
  BY PublishTypesInitially, PublishTypesAreKept, TypedPublish, PTL DEF PublishSpec

-----------------------------------------------------------------------------
(* The client: one page is visited, the others rest.                       *)

LEMMA ClientStarts ==
    ClientInit => /\ visited \in ClientPages
                  /\ CheckoutInit /\ WatchInit /\ DeployInit /\ BoardInit /\ SessionInit
                  /\ PublishInit /\ DraftInit /\ BrowseInit /\ ProfileInit /\ AccountsInit
                  /\ UsersInit /\ QueueInit /\ ConsoleInit
  BY DEF ClientInit

\* A step of the client is a step of the page that is visited; the others stutter.
LEMMA PagesMove ==
    [ClientNext]_clientVars =>
        /\ [CheckoutNext]_checkoutVars /\ [WatchNext]_watchVars /\ [DeployNext]_deployVars
        /\ [BoardNext]_boardVars /\ [SessionNext]_sessionVars /\ [PublishNext]_publishVars
        /\ [DraftNext]_draftVars /\ [BrowseNext]_browseVars /\ [ProfileNext]_profileVars
        /\ [AccountsNext]_accountsVars /\ [UsersNext]_usersVars /\ [QueueNext]_queueVars
        /\ [ConsoleNext]_consoleVars /\ visited' = visited
  <1> SUFFICES ASSUME [ClientNext]_clientVars
      PROVE  /\ [CheckoutNext]_checkoutVars /\ [WatchNext]_watchVars /\ [DeployNext]_deployVars
             /\ [BoardNext]_boardVars /\ [SessionNext]_sessionVars /\ [PublishNext]_publishVars
             /\ [DraftNext]_draftVars /\ [BrowseNext]_browseVars /\ [ProfileNext]_profileVars
             /\ [AccountsNext]_accountsVars /\ [UsersNext]_usersVars /\ [QueueNext]_queueVars
             /\ [ConsoleNext]_consoleVars /\ visited' = visited
    OBVIOUS
  <1>1. CASE UNCHANGED clientVars
    BY <1>1 DEF clientVars
  <1>2. CASE ClientNext
    <2>1. UNCHANGED visited
      BY <1>2 DEF ClientNext, OthersRest
    <2>2. IF Is("checkout") THEN CheckoutNext ELSE UNCHANGED checkoutVars
      BY <1>2 DEF ClientNext, OthersRest, Is
    <2>3. IF Is("watch") THEN WatchNext ELSE UNCHANGED watchVars
      BY <1>2 DEF ClientNext, OthersRest, Is
    <2>4. IF Is("deploy") THEN DeployNext ELSE UNCHANGED deployVars
      BY <1>2 DEF ClientNext, OthersRest, Is
    <2>5. IF Is("board") THEN BoardNext ELSE UNCHANGED boardVars
      BY <1>2 DEF ClientNext, OthersRest, Is
    <2>6. IF Is("session") THEN SessionNext ELSE UNCHANGED sessionVars
      BY <1>2 DEF ClientNext, OthersRest, Is
    <2>7. IF Is("publish") THEN PublishNext ELSE UNCHANGED publishVars
      BY <1>2 DEF ClientNext, OthersRest, Is
    <2>8. IF Is("draft") THEN DraftNext ELSE UNCHANGED draftVars
      BY <1>2 DEF ClientNext, OthersRest, Is
    <2>9. IF Is("browse") THEN BrowseNext ELSE UNCHANGED browseVars
      BY <1>2 DEF ClientNext, OthersRest, Is
    <2>10. IF Is("profile") THEN ProfileNext ELSE UNCHANGED profileVars
      BY <1>2 DEF ClientNext, OthersRest, Is
    <2>11. IF Is("accounts") THEN AccountsNext ELSE UNCHANGED accountsVars
      BY <1>2 DEF ClientNext, OthersRest, Is
    <2>12. IF Is("users") THEN UsersNext ELSE UNCHANGED usersVars
      BY <1>2 DEF ClientNext, OthersRest, Is
    <2>13. IF Is("queue") THEN QueueNext ELSE UNCHANGED queueVars
      BY <1>2 DEF ClientNext, OthersRest, Is
    <2>14. IF Is("build") THEN ConsoleNext ELSE UNCHANGED consoleVars
      BY <1>2 DEF ClientNext, OthersRest, Is
    <2> QED
      BY <2>1, <2>2, <2>3, <2>4, <2>5, <2>6, <2>7, <2>8, <2>9, <2>10, <2>11, <2>12, <2>13, <2>14
  <1> QED
    BY <1>1, <1>2

\* A behaviour of the client is a behaviour of every page, so that what a page guarantees
\* the client guarantees (app/layout.tsx mounts one page at a time).
THEOREM ClientIsEveryPage ==
    ClientSpec => /\ CheckoutSpec /\ WatchSpec /\ DeploySpec /\ BoardSpec /\ SessionSpec
                  /\ PublishSpec /\ DraftSpec /\ BrowseSpec /\ ProfileSpec /\ AccountsSpec
                  /\ UsersSpec /\ QueueSpec /\ ConsoleSpec
  BY ClientStarts, PagesMove, PTL DEF ClientSpec, CheckoutSpec, WatchSpec, DeploySpec, BoardSpec,
     SessionSpec, PublishSpec, DraftSpec, BrowseSpec, ProfileSpec, AccountsSpec, UsersSpec,
     QueueSpec, ConsoleSpec

LEMMA OnePageIsVisited == ClientSpec => [](visited \in ClientPages)
  <1>1. visited \in ClientPages /\ [ClientNext]_clientVars => (visited \in ClientPages)'
    BY PagesMove
  <1> QED
    BY <1>1, ClientStarts, PTL DEF ClientSpec

LEMMA SessionIsTyped == SessionSpec => []SessionTypeOK
  <1>1. TabInv => SessionTypeOK
    BY DEF TabInv
  <1> QED
    BY <1>1, TabInvInitially, TabInvIsKept, PTL DEF SessionSpec

\* The state of whichever page is visited has its type, for every instance of every page
\* (ClientTypeOK).
THEOREM ClientTypes == ClientSpec => []ClientTypeOK
  <1>1. /\ visited \in ClientPages
        /\ CheckoutTypeOK /\ WatchTypeOK /\ DeployTypeOK /\ BoardTypeOK /\ SessionTypeOK
        /\ PublishTypeOK /\ DraftTypeOK /\ BrowseTypeOK /\ ProfileTypeOK /\ AccountsTypeOK
        /\ UsersTypeOK /\ QueueTypeOK /\ ConsoleTypeOK
        => ClientTypeOK
    BY DEF ClientTypeOK, ClientPages, Is
  <1> QED
    BY <1>1, ClientIsEveryPage, OnePageIsVisited, CheckoutTypes, WatchShowsTheEnd, DeployIsTyped,
       BoardIsTyped, SessionIsTyped, PublishIsTyped, DraftIsTyped, GridFollowsFilters,
       PlaygroundShowsTheLast, AccountsAreListed, TableShowsUsers, QueueIsRight,
       ConsoleShowsTheEnd, PTL

\* A page at rest shows what the API has, whatever answers came late, were lost or crossed
\* a click, for every instance of the pages (marketplace/page.tsx:33, UserTable.tsx:426,
\* ModerationQueue.tsx:49, HireAgentModal.tsx:180, build/page.tsx:31).
THEOREM QuietPagesShowTheTruth == ClientSpec => []QuietPagesAreCurrent
  <1>1. /\ GridIsCurrent /\ PageExists /\ AccountsCurrent /\ UsersCurrent /\ QueueCurrent
        /\ EndIsShown /\ OutputIsLatest /\ EndOfBuildStands
        => QuietPagesAreCurrent
    BY DEF QuietPagesAreCurrent
  <1> QED
    BY <1>1, ClientIsEveryPage, GridFollowsFilters, AccountsAreListed, TableShowsUsers, QueueIsRight,
       WatchShowsTheEnd, PlaygroundShowsTheLast, ConsoleShowsTheEnd, PTL

\* What a page has reported stays true: the announced agent was accepted and the rejected
\* one stays out (OnChainPublishButton.tsx:339, admin.py:166).
THEOREM ReportsStand == ClientSpec => []ReportedStays
  <1>1. ConfirmedWasAccepted /\ RejectedStaysOut => ReportedStays
    BY DEF ReportedStays
  <1> QED
    BY <1>1, ClientIsEveryPage, AnnouncedIsAccepted, QueueIsRight, PTL

\* What the checkout, the tab's session, the deploy page, the creation form and the publish
\* page guarantee, the client guarantees (HireAgentModal.tsx:109, useAuth.tsx:51,
\* DeployForm.tsx:252, CreateAgentForm.tsx, OnChainPublishButton.tsx:159).
THEOREM ClientKeepsItsWord ==
    ClientSpec => [](/\ RevertHasCause /\ BookedWithOwnLock /\ FirstLiveIsReal /\ SessionIsOwn
                     /\ LeavesForStoredAgent /\ ListedOnGrounds)
  BY ClientIsEveryPage, RevertsAreExplained, LocksAreBookedOnce, LiveIsReal, TabShowsItsOwner,
     OwnerFindsTheAgent, ListingHasGrounds, PTL
=============================================================================
