---------------------------- MODULE AgentProfile ----------------------------
(***************************************************************************)
(* An agent's page (agents/[id]/page.tsx): its profile, the playground that *)
(* submits a task and reads it every 1.5 s, and the review form.  Reads    *)
(* overlap, and those on their way when a query ends are still answered.   *)
(* While the profile loads again the page shows a skeleton: the review     *)
(* form, its message included, and the checkout dialogs (HireCheckout)     *)
(* are unmounted.  Texts, ratings and prices are left out.                 *)
(***************************************************************************)
EXTENDS Naturals, Sequences, SequencesExt

CONSTANTS MaxChecks,    \* reads after which the playground gives up (15)
          MaxPeeks,     \* bound: reads of one query under way at once
          MaxQueries,   \* bound: playground queries
          MaxReviews    \* bound: reviews sent

ASSUME ProfileAssumption == {MaxChecks, MaxPeeks, MaxQueries, MaxReviews} \subseteq Nat

VARIABLES
    profile,      \* "loading", or whose data is shown: the agent's or a sample's
    profileLoads, \* requests for it under way
    signedIn,
    testing,      \* isTesting
    output,       \* testOutput: number of the query it comes from, 0 when empty
    queries,      \* playground queries, in order
    reviewing,    \* the review form: submitting, or the message it shows
    reviewCall, reviewsSent,
    reviews,      \* the API: reviews stored
    stray         \* history: a query ended with reads under way

profileVars == <<profile, profileLoads, signedIn, testing, output, queries, reviewing, reviewCall,
                 reviewsSent, reviews, stray>>
reviewForm == <<reviewing, reviewCall, reviewsSent, reviews>>
playground == <<testing, output, queries, stray>>

ProfileTypeOK ==
    /\ profile \in {"loading", "agent", "sample"} /\ profileLoads \in 0..(MaxReviews + 1)
    /\ {signedIn, testing, stray} \subseteq BOOLEAN
    /\ output \in 0..Len(queries) /\ Len(queries) <= MaxQueries
    /\ queries \in Seq([stage : {"posting", "polling", "over"}, checks : 0..(MaxChecks + MaxPeeks),
                        task : {"open", "COMPLETED"},
                        peeks : Seq({"asked", "open", "COMPLETED"})])
    /\ reviewing \in {"no", "busy", "thanks", "error"}
    /\ reviewCall \in {"none", "asked", "stored", "failed"}
    /\ reviewsSent \in 0..MaxReviews /\ reviews \in 0..MaxReviews

ProfileInit ==
    /\ profile = "loading" /\ profileLoads = 1 /\ signedIn \in BOOLEAN
    /\ testing = FALSE /\ output = 0 /\ queries = <<>>
    /\ reviewing = "no" /\ reviewCall = "none" /\ reviewsSent = 0 /\ reviews = 0
    /\ stray = FALSE

ProfileShown == profile # "loading"

\* fetchAgentProfile shows a made-up agent when the request fails, or when there is
\* no such agent: "Agent Not Found" is never reached.
ProfileAnswered ==
    /\ profileLoads > 0 /\ profileLoads' = profileLoads - 1
    /\ profile' \in {"agent", "sample"}
    /\ UNCHANGED <<signedIn, playground, reviewForm>>

-----------------------------------------------------------------------------
(* Playground.                                                             *)

TestOffered == ProfileShown /\ ~testing

ClickTest ==
    /\ TestOffered /\ Len(queries) < MaxQueries
    /\ testing' = TRUE /\ output' = 0
    /\ queries' = Append(queries, [stage |-> "posting", checks |-> 0, task |-> "open",
                                   peeks |-> <<>>])
    /\ UNCHANGED <<profile, profileLoads, signedIn, stray, reviewForm>>

TestPosted(q) ==
    /\ queries[q].stage = "posting"
    /\ queries' = [queries EXCEPT ![q].stage = "polling"]
    /\ UNCHANGED <<profile, profileLoads, signedIn, testing, output, stray, reviewForm>>

\* The refusal's text is shown as the output.
TestRefused(q) ==
    /\ queries[q].stage = "posting"
    /\ queries' = [queries EXCEPT ![q].stage = "over"]
    /\ output' = q /\ testing' = FALSE
    /\ UNCHANGED <<profile, profileLoads, signedIn, stray, reviewForm>>

\* The API; a cancelled task is not an end for the playground and stays "open".
TaskEnds(q) ==
    /\ queries[q].stage = "polling" /\ queries[q].task = "open"
    /\ queries' = [queries EXCEPT ![q].task = "COMPLETED"]
    /\ UNCHANGED <<profile, profileLoads, signedIn, testing, output, stray, reviewForm>>

Peek(q) ==
    /\ queries[q].stage = "polling" /\ Len(queries[q].peeks) < MaxPeeks
    /\ queries' = [queries EXCEPT ![q].checks = @ + 1, ![q].peeks = Append(@, "asked")]
    /\ UNCHANGED <<profile, profileLoads, signedIn, testing, output, stray, reviewForm>>

PeekServed(q, i) ==
    /\ queries[q].peeks[i] = "asked"
    /\ queries' = [queries EXCEPT ![q].peeks[i] = queries[q].task]
    /\ UNCHANGED <<profile, profileLoads, signedIn, testing, output, stray, reviewForm>>

TooManyChecks(q) == queries[q].checks > MaxChecks

\* Clears this query's interval and whatever spinner the page shows.
EndQuery(q, i) ==
    /\ queries' = [queries EXCEPT ![q].stage = "over", ![q].peeks = RemoveAt(@, i)]
    /\ testing' = FALSE
    /\ stray' = (stray \/ Len(queries[q].peeks) > 1)

PeekAnswered(q, i) ==
    /\ queries[q].peeks[i] # "asked"
    /\ IF queries[q].peeks[i] = "COMPLETED" \/ TooManyChecks(q)
       THEN EndQuery(q, i) /\ output' = q
       ELSE /\ queries' = [queries EXCEPT ![q].peeks = RemoveAt(@, i)]
            /\ UNCHANGED <<testing, output, stray>>
    /\ UNCHANGED <<profile, profileLoads, signedIn, reviewForm>>

PeekFailed(q, i) ==
    /\ EndQuery(q, i)
    /\ UNCHANGED <<profile, profileLoads, signedIn, output, reviewForm>>

-----------------------------------------------------------------------------
(* Review form.                                                            *)

ReviewOffered == ProfileShown /\ signedIn /\ reviewing # "busy"

ClickReview ==
    /\ ReviewOffered /\ reviewCall = "none" /\ reviewsSent < MaxReviews
    /\ reviewing' = "busy" /\ reviewCall' = "asked" /\ reviewsSent' = reviewsSent + 1
    /\ UNCHANGED <<profile, profileLoads, signedIn, reviews, playground>>

\* Nothing makes a second review of one task an error; the answer may be lost.
ReviewServed ==
    /\ reviewCall = "asked"
    /\ \/ reviews' = reviews + 1 /\ reviewCall' \in {"stored", "failed"}
       \/ reviewCall' = "failed" /\ UNCHANGED reviews
    /\ UNCHANGED <<profile, profileLoads, signedIn, playground, reviewing, reviewsSent>>

\* onReviewSubmitted loads the profile again: the form is gone before its thanks.
ReviewAnswered ==
    /\ reviewCall \in {"stored", "failed"} /\ reviewCall' = "none"
    /\ IF reviewCall = "stored"
       THEN profile' = "loading" /\ profileLoads' = profileLoads + 1 /\ reviewing' = "no"
       ELSE reviewing' = "error" /\ UNCHANGED <<profile, profileLoads>>
    /\ UNCHANGED <<signedIn, playground, reviewsSent, reviews>>

-----------------------------------------------------------------------------

ProfileStep ==
    \/ ProfileAnswered \/ ReviewServed \/ ReviewAnswered
    \/ \E q \in DOMAIN queries :
          \/ TestPosted(q) \/ TestRefused(q) \/ Peek(q)
          \/ \E i \in DOMAIN queries[q].peeks :
                PeekServed(q, i) \/ PeekAnswered(q, i) \/ PeekFailed(q, i)

ProfileNext ==
    \/ ProfileStep \/ ClickTest \/ ClickReview
    \/ \E q \in DOMAIN queries : TaskEnds(q)

\* Requests end and the interval ticks; the task may be stuck.
ProfileFairness == WF_profileVars(ProfileStep)

ProfileSpec == ProfileInit /\ [][ProfileNext]_profileVars

-----------------------------------------------------------------------------

\* "Processing Query..." and the output belong to the query asked last, unless an
\* earlier query ended with reads of it still under way (page.tsx:97).
OutputIsLatest ==
    ~stray =>
        /\ output # 0 => output = Len(queries)
        /\ testing = (queries # <<>> /\ queries[Len(queries)].stage # "over")

\* What must not last: a query of the playground, whatever becomes of its task, and a
\* review on its way (page.tsx:92, ReviewForm.tsx:43).
ProfileWaits == testing \/ reviewing = "busy"
=============================================================================
