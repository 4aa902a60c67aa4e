---------------------------- MODULE HireCheckout ----------------------------
(***************************************************************************)
(* The agent page's two checkout dialogs, HireAgentModal ("hire") and      *)
(* RentalCheckoutModal ("rent"), in one browser tab with one wallet.  Each  *)
(* dialog asks the wallet to approve an amount of USDC for the marketplace *)
(* contract, then to lock it, and then books a task or a lease with the    *)
(* API.  Both dialogs stay mounted when closed, so their state and their   *)
(* pending promises outlive the window; they share one ERC-20 allowance.   *)
(* Only a review, which loads the page anew, unmounts both; that is in     *)
(* AgentProfile and not here.                                              *)
(*                                                                         *)
(* A wallet promise resolves when the transaction is broadcast, not when   *)
(* it is mined: `sent' is the sequence of broadcast transactions, executed *)
(* in nonce order.  Amounts are in units of the smallest price step; wei,  *)
(* texts and the bytes of the task id are left out.                        *)
(***************************************************************************)
EXTENDS Naturals, Sequences

CONSTANTS Price,          \* the agent's price_per_call_usdc
          DefaultRate,    \* DEFAULT_USD_TO_INR, before the rate is fetched
          LiveRate,       \* the rate the API answers
          Budgets,        \* task budgets the user types, in rupees
          LeaseHours,     \* lease durations on offer
          DefaultHours,   \* the one selected at first (24)
          MaxSent,        \* bound: transactions broadcast over the whole run
          MaxEdits        \* bound: changes of form, wallet or dialog by the user

ASSUME CheckoutAssumption ==
    /\ Price \in Nat /\ DefaultRate \in Nat \ {0} /\ LiveRate \in Nat \ {0}
    /\ Budgets \subseteq Nat /\ LeaseHours \subseteq Nat /\ DefaultHours \in LeaseHours
    /\ {MaxSent, MaxEdits} \subseteq Nat

Dialogs == {"hire", "rent"}
NoPrompt == [kind |-> "none", amount |-> 0]
NoCall == [amount |-> 0, lock |-> 0, open |-> FALSE]

VARIABLES
    connected,   \* useAccount().isConnected
    shown,       \* the dialog that is open, or "none"
    rate, rateAsked,
    budget, hours,
    edits,       \* counter of the bound MaxEdits
    step,        \* escrowStep of each dialog
    busy,        \* isSubmitting, isProcessing
    prompt,      \* the wallet request a dialog awaits
    call,        \* the API request a dialog awaits
    taskStatus,  \* what the hire dialog shows
    leased,      \* success banner of the rent dialog
    booked,      \* tasks and leases the API created for these dialogs
    sent, executed, allowance,  \* chain: broadcast, how many of them mined, ERC-20 allowance
    reverted                    \* chain: the locks that reverted

checkoutVars == <<connected, shown, rate, rateAsked, budget, hours, edits, step, busy, prompt,
                  call, taskStatus, leased, booked, sent, executed, allowance, reverted>>
form == <<connected, shown, rate, rateAsked, budget, hours, edits>>
chain == <<sent, executed, allowance, reverted>>

EscrowSteps == {"idle", "approving", "approved", "locking", "locked"}
CheckoutTypeOK ==
    /\ connected \in BOOLEAN /\ shown \in Dialogs \cup {"none"}
    /\ rate \in {DefaultRate, LiveRate} /\ rateAsked \in BOOLEAN
    /\ budget \in Nat /\ hours \in Nat /\ edits \in 0..MaxEdits
    /\ step \in [Dialogs -> EscrowSteps] /\ busy \in [Dialogs -> BOOLEAN]
    /\ prompt \in [Dialogs -> [kind : {"none", "approve", "lock"}, amount : Nat]]
    /\ call \in [Dialogs -> [amount : Nat, lock : Nat, open : BOOLEAN]]
    /\ taskStatus \in {"idle", "QUEUED", "RUNNING"} /\ leased \in BOOLEAN
    /\ booked \in Seq([by : Dialogs, amount : Nat, lock : Nat])
    /\ sent \in Seq([by : Dialogs, kind : {"approve", "lock"}, amount : Nat])
    /\ executed \in 0..Len(sent)
    /\ allowance \in Nat /\ reverted \subseteq 1..executed

CheckoutInit ==
    /\ connected \in BOOLEAN /\ shown = "none"
    /\ rate = DefaultRate /\ rateAsked = TRUE
    /\ budget = Price * DefaultRate /\ hours = DefaultHours /\ edits = 0
    /\ step = [m \in Dialogs |-> "idle"] /\ busy = [m \in Dialogs |-> FALSE]
    /\ prompt = [m \in Dialogs |-> NoPrompt] /\ call = [m \in Dialogs |-> NoCall]
    /\ taskStatus = "idle" /\ leased = FALSE
    /\ booked = <<>> /\ sent = <<>>
    /\ executed = 0 /\ allowance = 0 /\ reverted = {}

-----------------------------------------------------------------------------
(* What the dialogs show and offer.                                        *)

\* toUSDC(parsedINR), and ratePerHour * durationHours.
TaskQuote == budget \div rate
LeaseQuote == Price * hours
Quote(m) == IF m = "hire" THEN TaskQuote ELSE LeaseQuote

\* The hire form while no task runs; the lease form unless the success banner is up.
FormShown(m) ==
    /\ shown = m
    /\ IF m = "hire" THEN taskStatus = "idle" ELSE ~leased

ApproveOffered(m) == FormShown(m) /\ connected /\ step[m] = "idle" /\ ~busy[m]

LockOffered(m) ==
    /\ FormShown(m) /\ connected /\ ~busy[m]
    /\ step[m] \in {"approved", "locked"}

BypassOffered(m) == FormShown(m) /\ ~connected /\ ~busy[m]

-----------------------------------------------------------------------------
(* The user.                                                               *)

Edit == edits < MaxEdits /\ edits' = edits + 1

OpenDialog(m) ==
    /\ shown = "none" /\ shown' = m
    /\ UNCHANGED <<connected, rate, rateAsked, budget, hours, edits, step, busy, prompt,
                   call, taskStatus, leased, booked, chain>>

CloseDialog ==
    /\ Edit /\ shown # "none" /\ shown' = "none"
    /\ UNCHANGED <<connected, rate, rateAsked, budget, hours, step, busy, prompt,
                   call, taskStatus, leased, booked, chain>>

\* RainbowKit's connect dialog, and the wallet's own disconnect.
ToggleWallet ==
    /\ Edit /\ connected' = ~connected
    /\ UNCHANGED <<shown, rate, rateAsked, budget, hours, step, busy, prompt,
                   call, taskStatus, leased, booked, chain>>

\* The budget field is never disabled: it may change while the wallet asks.
TypeBudget(b) ==
    /\ Edit /\ FormShown("hire") /\ b # budget /\ budget' = b
    /\ UNCHANGED <<connected, shown, rate, rateAsked, hours, step, busy, prompt,
                   call, taskStatus, leased, booked, chain>>

PickHours(h) ==
    /\ Edit /\ FormShown("rent") /\ h # hours /\ hours' = h
    /\ UNCHANGED <<connected, shown, rate, rateAsked, budget, step, busy, prompt,
                   call, taskStatus, leased, booked, chain>>

AskWallet(m, kind) ==
    /\ Len(sent) < MaxSent /\ prompt[m] = NoPrompt
    /\ prompt' = [prompt EXCEPT ![m] = [kind |-> kind, amount |-> Quote(m)]]

ClickApprove(m) ==
    /\ ApproveOffered(m) /\ AskWallet(m, "approve")
    /\ step' = [step EXCEPT ![m] = "approving"]
    /\ UNCHANGED <<form, busy, call, taskStatus, leased, booked, chain>>

ClickLock(m) ==
    /\ LockOffered(m) /\ AskWallet(m, "lock")
    /\ step' = [step EXCEPT ![m] = "locking"]
    /\ busy' = [busy EXCEPT ![m] = TRUE]
    /\ UNCHANGED <<form, call, taskStatus, leased, booked, chain>>

\* Posts the task or the lease: amount and lock are the click's, not the form's.
Post(m, amount, lock) ==
    /\ call' = [call EXCEPT ![m] = [amount |-> amount, lock |-> lock, open |-> TRUE]]
    /\ taskStatus' = IF m = "hire" THEN "QUEUED" ELSE taskStatus

\* "Run Task" and "Confirm Lease" without a wallet: no lock, straight to the API.
ClickBypass(m) ==
    /\ BypassOffered(m) /\ Len(booked) < MaxSent
    /\ busy' = [busy EXCEPT ![m] = TRUE]
    /\ Post(m, Quote(m), 0)
    /\ UNCHANGED <<form, step, prompt, leased, booked, chain>>

-----------------------------------------------------------------------------
(* Answers of the wallet.                                                  *)

ApproveSent(m) ==
    /\ prompt[m].kind = "approve"
    /\ sent' = Append(sent, [by |-> m, kind |-> "approve", amount |-> prompt[m].amount])
    /\ step' = [step EXCEPT ![m] = "approved"]
    /\ prompt' = [prompt EXCEPT ![m] = NoPrompt]
    /\ UNCHANGED <<form, busy, call, taskStatus, leased, booked, executed,
                   allowance, reverted>>

\* Variant of LockSent: the amount is read from the form after the wallet answered.
LockSentLate(m) ==
    /\ prompt[m].kind = "lock"
    /\ sent' = Append(sent, [by |-> m, kind |-> "lock", amount |-> prompt[m].amount])
    /\ step' = [step EXCEPT ![m] = "locked"]
    /\ prompt' = [prompt EXCEPT ![m] = NoPrompt]
    /\ Post(m, Quote(m), Len(sent) + 1)
    /\ UNCHANGED <<form, busy, leased, booked, executed, allowance, reverted>>

LockSent(m) ==
    /\ prompt[m].kind = "lock"
    /\ sent' = Append(sent, [by |-> m, kind |-> "lock", amount |-> prompt[m].amount])
    /\ step' = [step EXCEPT ![m] = "locked"]
    /\ prompt' = [prompt EXCEPT ![m] = NoPrompt]
    /\ Post(m, prompt[m].amount, Len(sent) + 1)
    /\ UNCHANGED <<form, busy, leased, booked, executed, allowance, reverted>>

\* Variant of ApproveRefused: the catch forgets that nothing was approved.
RefusalCounts(m) ==
    /\ prompt[m].kind = "approve"
    /\ prompt' = [prompt EXCEPT ![m] = NoPrompt]
    /\ step' = [step EXCEPT ![m] = "approved"]
    /\ UNCHANGED <<form, busy, call, taskStatus, leased, booked, chain>>

ApproveRefused(m) ==
    /\ prompt[m].kind = "approve"
    /\ prompt' = [prompt EXCEPT ![m] = NoPrompt]
    /\ step' = [step EXCEPT ![m] = "idle"]
    /\ UNCHANGED <<form, busy, call, taskStatus, leased, booked, chain>>

LockRefused(m) ==
    /\ prompt[m].kind = "lock"
    /\ prompt' = [prompt EXCEPT ![m] = NoPrompt]
    /\ step' = [step EXCEPT ![m] = "approved"]
    /\ busy' = [busy EXCEPT ![m] = FALSE]
    /\ UNCHANGED <<form, call, taskStatus, leased, booked, chain>>

-----------------------------------------------------------------------------
(* The chain: approve SETS the allowance, lockTaskEscrow's transferFrom     *)
(* consumes it or reverts.  Nobody waits for either receipt.               *)

MineApprove ==
    /\ executed < Len(sent) /\ sent[executed + 1].kind = "approve"
    /\ executed' = executed + 1
    /\ allowance' = sent[executed + 1].amount
    /\ UNCHANGED <<form, step, busy, prompt, call, taskStatus, leased, booked, sent, reverted>>

MineLock ==
    /\ executed < Len(sent) /\ sent[executed + 1].kind = "lock"
    /\ executed' = executed + 1
    /\ IF sent[executed + 1].amount <= allowance
       THEN allowance' = allowance - sent[executed + 1].amount /\ UNCHANGED reverted
       ELSE reverted' = reverted \cup {executed + 1} /\ UNCHANGED allowance
    /\ UNCHANGED <<form, step, busy, prompt, call, taskStatus, leased, booked, sent>>

-----------------------------------------------------------------------------
(* Answers of the API.                                                     *)

Book(m) == booked' = Append(booked, [by |-> m, amount |-> call[m].amount,
                                             lock |-> call[m].lock])

TaskCreated ==
    /\ call["hire"].open
    /\ call' = [call EXCEPT !["hire"] = NoCall]
    /\ Book("hire")
    /\ taskStatus' = "RUNNING"
    /\ UNCHANGED <<form, step, busy, prompt, leased, chain>>

LeaseCreated ==
    /\ call["rent"].open
    /\ call' = [call EXCEPT !["rent"] = NoCall]
    /\ Book("rent")
    /\ leased' = TRUE /\ busy' = [busy EXCEPT !["rent"] = FALSE]
    /\ UNCHANGED <<form, step, prompt, taskStatus, chain>>

\* The request is refused, or its answer is lost after the API acted.
PostFailed(m) ==
    /\ call[m].open
    /\ call' = [call EXCEPT ![m] = NoCall]
    /\ \/ UNCHANGED booked
       \/ Len(booked) < MaxSent /\ Book(m)
    /\ taskStatus' = IF m = "hire" THEN "idle" ELSE taskStatus
    /\ busy' = [busy EXCEPT ![m] = FALSE]
    /\ UNCHANGED <<form, step, prompt, leased, chain>>

\* setTimeout 2 s after the success: hides the banner and closes the dialog.
LeaseBannerEnds ==
    /\ leased /\ leased' = FALSE
    /\ shown' = IF shown = "rent" THEN "none" ELSE shown
    /\ UNCHANGED <<connected, rate, rateAsked, budget, hours, edits, step, busy, prompt,
                   call, taskStatus, booked, chain>>

\* useINR's single fetch; the effect on [agent, rate] overwrites the budget field.
RateArrives ==
    /\ rateAsked /\ rateAsked' = FALSE
    /\ \/ rate' = LiveRate /\ budget' = Price * LiveRate
       \/ UNCHANGED <<rate, budget>>
    /\ UNCHANGED <<connected, shown, hours, edits, step, busy, prompt, call, taskStatus,
                   leased, booked, chain>>

-----------------------------------------------------------------------------

CheckoutNext ==
    \/ CloseDialog \/ ToggleWallet
    \/ \E b \in Budgets : TypeBudget(b)
    \/ \E h \in LeaseHours : PickHours(h)
    \/ \E m \in Dialogs :
          \/ OpenDialog(m) \/ ClickApprove(m) \/ ClickLock(m) \/ ClickBypass(m)
          \/ ApproveSent(m) \/ LockSent(m) \/ ApproveRefused(m) \/ LockRefused(m)
          \/ PostFailed(m)
    \/ MineApprove \/ MineLock
    \/ TaskCreated \/ LeaseCreated \/ LeaseBannerEnds \/ RateArrives

CheckoutSpec == CheckoutInit /\ [][CheckoutNext]_checkoutVars

-----------------------------------------------------------------------------
(* Properties.                                                             *)

\* No dialog broadcasts a lock that it did not broadcast an approval before,
\* through refusals, reopened dialogs and disconnected wallets.
ApprovedBeforeLocked ==
    \A i \in DOMAIN sent : sent[i].kind = "lock" =>
        \E j \in 1..(i - 1) : sent[j].kind = "approve" /\ sent[j].by = sent[i].by

\* Nobody waits for a receipt, yet a lock reverts only when the user can tell why:
\* the other dialog took part in the one allowance, the dialog locked before, or the
\* form changed after the last approval, here or through the rate
\* (HireAgentModal.tsx:109).
RevertHasCause ==
    \A i \in reverted : i > 1 /\
        \/ \E j \in 1..(i - 1) : sent[j].by # sent[i].by \/ sent[j].kind = "lock"
        \/ sent[i - 1].amount < sent[i].amount

\* A task or lease booked with a wallet carries the amount of its own lock, which
\* its dialog had approved before, even though the budget, the rate and the duration
\* may change while the wallet and the API answer; and no lock is spent on two
\* bookings (HireAgentModal.tsx:156).
BookedWithOwnLock ==
    /\ ApprovedBeforeLocked
    /\ \A i \in DOMAIN booked : booked[i].lock # 0 =>
          /\ booked[i].lock \in DOMAIN sent
          /\ sent[booked[i].lock] =
                [by |-> booked[i].by, kind |-> "lock", amount |-> booked[i].amount]
    /\ \A i, j \in DOMAIN booked :
          i # j /\ booked[i].lock # 0 => booked[i].lock # booked[j].lock
=============================================================================
