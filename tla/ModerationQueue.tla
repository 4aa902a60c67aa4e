--------------------------- MODULE ModerationQueue ---------------------------
(***************************************************************************)
(* The moderation page (ModerationQueue.tsx) and its endpoints.  Neither   *)
(* button is disabled while a decision is under way: one agent may be      *)
(* approved and rejected, or approved twice, at once, and every decision   *)
(* that succeeds loads the queue again without waiting for another load.   *)
(* An owner may validate a rejected agent again and submit it anew; that   *)
(* path is in AgentPublish, and here a rejection is final.                 *)
(***************************************************************************)
EXTENDS Naturals, FiniteSets

CONSTANTS Submissions, MyAgents,   \* agents; those of the administrator on the page
          MaxDecisions             \* bound: clicks, failures and acts of others

ASSUME QueueAssumption == MyAgents \subseteq Submissions /\ MaxDecisions \in Nat

VARIABLES
    review,         \* the API: Agent.status
    pendingAgents,  \* rows of the table
    queueLoading,
    queueReads, decisions,   \* requests under way
    decisionActs,
    approvedHere, rejectedHere,   \* history: decisions whose success this page reported
    queueMuddled    \* history: a request failed, others acted, or requests crossed

queueVars == <<review, pendingAgents, queueLoading, queueReads, decisions, decisionActs,
               approvedHere, rejectedHere, queueMuddled>>

ReviewStates == {"DRAFT", "PENDING_REVIEW", "APPROVED", "REJECTED"}
Reviewable == {a \in Submissions : review[a] = "PENDING_REVIEW"}
QueueRead(n) == [n |-> n, got |-> "nothing", seen |-> {}]

QueueTypeOK ==
    /\ review \in [Submissions -> ReviewStates] /\ pendingAgents \subseteq Submissions
    /\ {queueLoading, queueMuddled} \subseteq BOOLEAN
    /\ queueReads \subseteq [n : 0..MaxDecisions, got : {"nothing", "rows"},
                            seen : SUBSET Submissions]
    /\ decisions \subseteq [on : Submissions, to : {"APPROVED", "REJECTED"}, n : 1..MaxDecisions,
                            got : {"nothing", "ok", "failed"}]
    /\ decisionActs \in 0..MaxDecisions
    /\ approvedHere \subseteq Submissions /\ rejectedHere \subseteq Submissions

QueueInit ==
    /\ review \in [Submissions -> {"DRAFT", "PENDING_REVIEW"}]
    /\ pendingAgents = {} /\ queueLoading = TRUE
    /\ queueReads = {QueueRead(0)} /\ decisions = {} /\ decisionActs = 0
    /\ approvedHere = {} /\ rejectedHere = {} /\ queueMuddled = FALSE

DecisionAct == decisionActs < MaxDecisions /\ decisionActs' = decisionActs + 1

-----------------------------------------------------------------------------
(* loadPending.                                                            *)

QueueServed(r) ==
    /\ r.got = "nothing"
    /\ queueReads' = (queueReads \ {r}) \cup {[r EXCEPT !.got = "rows", !.seen = Reviewable]}
    /\ UNCHANGED <<review, pendingAgents, queueLoading, decisions, decisionActs, approvedHere,
                   rejectedHere, queueMuddled>>

\* A failed load empties the table: "Moderation Queue Clear!".
QueueAnswered(r) ==
    /\ \/ r.got = "rows" /\ pendingAgents' = r.seen /\ UNCHANGED <<decisionActs, queueMuddled>>
       \/ DecisionAct /\ pendingAgents' = {} /\ queueMuddled' = TRUE
    /\ queueReads' = queueReads \ {r} /\ queueLoading' = FALSE
    /\ UNCHANGED <<review, decisions, approvedHere, rejectedHere>>

-----------------------------------------------------------------------------
(* Decisions.                                                              *)

QueueRows == IF queueLoading THEN {} ELSE pendingAgents

Decide(a, to) ==
    /\ DecisionAct
    /\ decisions' = decisions \cup {[on |-> a, to |-> to, n |-> decisionActs + 1, got |-> "nothing"]}
    /\ UNCHANGED <<review, pendingAgents, queueLoading, queueReads, approvedHere, rejectedHere,
                   queueMuddled>>

\* The page disables the button of one's own agents, as the API refuses it.
ClickApproveAgent(a) == a \in QueueRows \ MyAgents /\ Decide(a, "APPROVED")
ClickRejectAgent(a) == a \in QueueRows /\ Decide(a, "REJECTED")

\* approve_agent looks at the status, reject_agent does not.
DecisionAllowed(d) == d.to = "REJECTED" \/ (d.on \in Reviewable /\ d.on \notin MyAgents)

DecisionServed(d) ==
    /\ d.got = "nothing"
    /\ IF DecisionAllowed(d)
       THEN /\ review' = [review EXCEPT ![d.on] = d.to]
            /\ \E got \in {"ok", "failed"} :
                  /\ decisions' = (decisions \ {d}) \cup {[d EXCEPT !.got = got]}
                  /\ queueMuddled' = (queueMuddled \/ got = "failed" \/ queueReads # {})
       ELSE /\ decisions' = (decisions \ {d}) \cup {[d EXCEPT !.got = "failed"]}
            /\ UNCHANGED <<review, queueMuddled>>
    /\ UNCHANGED <<pendingAgents, queueLoading, queueReads, decisionActs, approvedHere,
                   rejectedHere>>

DecisionAnswered(d) ==
    /\ d.got # "nothing" /\ decisions' = decisions \ {d}
    /\ IF d.got = "ok"
       THEN /\ queueReads' = queueReads \cup {QueueRead(d.n)} /\ queueLoading' = TRUE
            /\ approvedHere' = IF d.to = "APPROVED" THEN approvedHere \cup {d.on} ELSE approvedHere
            /\ rejectedHere' = IF d.to = "REJECTED" THEN rejectedHere \cup {d.on} ELSE rejectedHere
            /\ queueMuddled' = (queueMuddled \/ queueReads # {})
       ELSE UNCHANGED <<queueReads, queueLoading, approvedHere, rejectedHere, queueMuddled>>
    /\ UNCHANGED <<review, pendingAgents, decisionActs>>

\* The owner submits an agent for review.
Submitted(a) ==
    /\ DecisionAct /\ review[a] = "DRAFT" /\ queueMuddled' = TRUE
    /\ review' = [review EXCEPT ![a] = "PENDING_REVIEW"]
    /\ UNCHANGED <<pendingAgents, queueLoading, queueReads, decisions, approvedHere,
                   rejectedHere>>

-----------------------------------------------------------------------------

QueueStep ==
    \/ \E r \in queueReads : QueueServed(r) \/ QueueAnswered(r)
    \/ \E d \in decisions : DecisionServed(d) \/ DecisionAnswered(d)

QueueNext ==
    \/ QueueStep
    \/ \E a \in Submissions : ClickApproveAgent(a) \/ ClickRejectAgent(a) \/ Submitted(a)

QueueFairness == WF_queueVars(QueueStep)

QueueSpec == QueueInit /\ [][QueueNext]_queueVars

-----------------------------------------------------------------------------

\* At rest the table lists what waits for a review, unless a request failed, others
\* acted or a decision met a load on its way (ModerationQueue.tsx:49).
QueueCurrent ==
    (queueReads = {} /\ decisions = {} /\ ~queueMuddled) =>
        pendingAgents = Reviewable /\ ~queueLoading

\* Whatever the order in which two decisions on one agent are made, sent, served and
\* answered, one reported as rejected is not left approved, and none of the
\* administrator's own is (admin.py:166).
RejectedStaysOut ==
    \A a \in Submissions : review[a] = "APPROVED" => a \notin rejectedHere \cup MyAgents

\* What must not last: the table's spinner, which every decision starts again
\* (ModerationQueue.tsx:14).
QueueWaits == queueLoading
=============================================================================
