---------------------------- MODULE AgentPublish ----------------------------
(***************************************************************************)
(* Publishing one agent: the API's life cycle of it (routers/agents.py,    *)
(* routers/admin.py), the publish page that validates it on opening        *)
(* (ValidatorResult) and then lists it either directly or through a        *)
(* registerAgent transaction (OnChainPublishButton), and that transaction. *)
(*                                                                         *)
(* The button is a set of React effects over its own state, the wagmi      *)
(* mutation and the receipt query.  `rendered' is what the effects last    *)
(* saw; Render runs, in source order, those with a changed dependency, and  *)
(* comes before the next event, as a commit does.  The transaction is a    *)
(* number; Made is any hash that is no transaction of this page: the page's *)
(* placeholder, or the text it stores for a direct listing.                *)
(***************************************************************************)
EXTENDS Naturals, Sequences, FiniteSets

CONSTANTS MaxTx,      \* bound: registerAgent transactions
          MaxActs     \* bound: clicks, acts of others on the agent, lost answers

ASSUME PublishAssumption == {MaxTx, MaxActs} \subseteq Nat

NoTx == 0
Made == MaxTx + 1
Hashes == 0..Made

VARIABLES
    status, safe, recorded,     \* the API: Agent.status, would it pass, onchain_tx_hash
    cleared,                    \* history: passed, approved or built since its last version
    accepted,                   \* history: the API accepted a publication
    txs, seen,                  \* chain, and receipts the page has polled
    page, isValidated, isPublished, existing,   \* publish page
    audit,                      \* ValidatorResult's request
    net, asking, writing, writeTx, writeError,  \* wallet and useWriteContract
    publishStep, activeTx, direct, directTx, final, faucet,  \* OnChainPublishButton
    rendered,
    publishActs

agentRow == <<status, safe, recorded, cleared, accepted>>
sheet == <<page, isValidated, isPublished, existing>>
wallet == <<net, asking, writing, writeTx, writeError>>
button == <<publishStep, activeTx, direct, directTx, final, faucet>>
publishVars == <<agentRow, txs, seen, sheet, audit, wallet, button, rendered, publishActs>>

Statuses == {"DRAFT", "VALIDATED", "VALIDATION_FAILED", "PENDING_REVIEW", "APPROVED", "REJECTED",
             "SUSPENDED", "BUILDING", "PUBLISHED", "PAUSED", "ARCHIVED"}
Steps == {"idle", "awaiting_signature", "confirming_on_chain", "publishing_to_db", "confirmed",
          "failed"}
Call == {"none", "asked", "ok", "error"}
NoFinal == [tx |-> NoTx, call |-> "none"]

Receipt(h) == IF h \in seen THEN txs[h] ELSE "none"
ReceiptOf == IF activeTx # NoTx THEN activeTx ELSE writeTx
Confirmed == Receipt(ReceiptOf) = "mined"
Reverted == Receipt(ReceiptOf) = "reverted"

Deps == [writing |-> writing, writeTx |-> writeTx, writeError |-> writeError,
         confirmed |-> Confirmed, reverted |-> Reverted, activeTx |-> activeTx,
         step |-> publishStep, existing |-> existing, published |-> isPublished]
Blank == [writing |-> FALSE, writeTx |-> NoTx, writeError |-> "none", confirmed |-> FALSE,
          reverted |-> FALSE, activeTx |-> NoTx, step |-> "idle", existing |-> NoTx,
          published |-> FALSE]

PublishTypeOK ==
    /\ status \in Statuses /\ {safe, cleared, accepted} \subseteq BOOLEAN /\ recorded \in Hashes
    /\ txs \in Seq({"pending", "mined", "reverted"}) /\ seen \subseteq DOMAIN txs
    /\ page \in {"loading", "shown"} /\ {isValidated, isPublished} \subseteq BOOLEAN
    /\ existing \in Hashes
    /\ audit \in {"none", "asked", "passed", "found", "error", "remedy"}
    /\ net \in {"none", "wrong", "amoy"} /\ {asking, writing} \subseteq BOOLEAN
    /\ writeTx \in Hashes /\ writeError \in {"none", "refused", "gas"}
    /\ publishStep \in Steps /\ activeTx \in Hashes /\ direct \in Call /\ directTx \in Hashes
    /\ final \in [tx : Hashes, call : Call] /\ faucet \in BOOLEAN
    /\ DOMAIN rendered = DOMAIN Blank /\ publishActs \in 0..MaxActs

PublishInit ==
    /\ status \in {"DRAFT", "PUBLISHED"} /\ safe \in BOOLEAN /\ recorded = NoTx
    /\ cleared = (status = "PUBLISHED") /\ accepted = cleared
    /\ txs = <<>> /\ seen = {}
    /\ page = "loading" /\ isValidated = FALSE /\ isPublished = FALSE /\ existing = NoTx
    /\ audit = "none"
    /\ net \in {"none", "amoy"} /\ asking = FALSE /\ writing = FALSE /\ writeTx = NoTx
    /\ writeError = "none"
    /\ publishStep = "idle" /\ activeTx = NoTx /\ direct = "none" /\ directTx = NoTx
    /\ final = NoFinal /\ faucet = FALSE /\ rendered = Blank /\ publishActs = 0

PublishAct == publishActs < MaxActs /\ publishActs' = publishActs + 1

-----------------------------------------------------------------------------
(* The API.                                                                *)

Submit ==
    /\ status = "VALIDATED" /\ status' = "PENDING_REVIEW"
    /\ UNCHANGED <<safe, recorded, cleared, accepted>>
Approve ==
    /\ status \in {"PENDING_REVIEW", "VALIDATED"} /\ status' = "APPROVED" /\ cleared' = TRUE
    /\ UNCHANGED <<safe, recorded, accepted>>
TakeDown ==
    /\ status' \in {"REJECTED", "SUSPENDED", "ARCHIVED", "BUILDING"}
    /\ UNCHANGED <<safe, recorded, cleared, accepted>>
PauseOrResume ==
    /\ status \in {"PUBLISHED", "PAUSED"}
    /\ status' = IF status = "PUBLISHED" THEN "PAUSED" ELSE "PUBLISHED"
    /\ UNCHANGED <<safe, recorded, cleared, accepted>>
BuildSucceeds ==
    /\ status = "DRAFT" /\ status' = "APPROVED" /\ cleared' = TRUE
    /\ UNCHANGED <<safe, recorded, accepted>>
EditPermissions ==
    /\ safe' = ~safe /\ UNCHANGED <<status, recorded, cleared, accepted>>
NewVersion ==
    /\ status' = "DRAFT" /\ safe' \in BOOLEAN /\ cleared' = FALSE /\ recorded' = NoTx
    /\ UNCHANGED accepted

\* The owner's other pages, the administrators and the build worker.
Others ==
    /\ PublishAct
    /\ \/ Submit \/ Approve \/ TakeDown \/ PauseOrResume \/ BuildSucceeds
       \/ EditPermissions \/ NewVersion
    /\ UNCHANGED <<txs, seen, sheet, audit, wallet, button, rendered>>

Publishable == status \in {"APPROVED", "PAUSED", "VALIDATED", "PUBLISHED"}

\* POST /publish with the hash of the body; the answer says whether it was accepted.
Publish(hash, call) ==
    IF Publishable
    THEN /\ status' = "PUBLISHED" /\ accepted' = TRUE
         /\ recorded' = IF hash # NoTx THEN hash ELSE recorded
         /\ \/ call = "ok" /\ UNCHANGED publishActs
            \/ call = "error" /\ PublishAct
         /\ UNCHANGED <<safe, cleared>>
    ELSE call = "error" /\ UNCHANGED <<agentRow, publishActs>>

\* POST /validate from any status.
ValidateServed ==
    /\ audit = "asked"
    /\ \/ /\ status' = IF safe THEN "VALIDATED" ELSE "VALIDATION_FAILED"
          /\ cleared' = (cleared \/ safe)
          /\ audit' = IF safe THEN "passed" ELSE "found"
          /\ UNCHANGED publishActs
       \/ /\ PublishAct /\ audit' = "error" /\ UNCHANGED <<status, cleared>>
    /\ UNCHANGED <<safe, recorded, accepted, txs, seen, sheet, wallet, button, rendered>>

\* PATCH /permissions with the safe policy, before the audit runs again.
RemedyServed ==
    /\ audit = "remedy"
    /\ \/ safe' = TRUE /\ audit' = "asked" /\ UNCHANGED publishActs
       \/ PublishAct /\ audit' = "error" /\ UNCHANGED safe
    /\ UNCHANGED <<status, recorded, cleared, accepted, txs, seen, sheet, wallet, button,
                   rendered>>

DirectServed ==
    /\ direct = "asked" /\ \E call \in {"ok", "error"} : direct' = call /\ Publish(directTx, call)
    /\ UNCHANGED <<txs, seen, sheet, audit, wallet, publishStep, activeTx, directTx, final,
                   faucet, rendered>>

FinalServed ==
    /\ final.call = "asked"
    /\ \E call \in {"ok", "error"} :
          final' = [final EXCEPT !.call = call] /\ Publish(final.tx, call)
    /\ UNCHANGED <<txs, seen, sheet, audit, wallet, publishStep, activeTx, direct, directTx,
                   faucet, rendered>>

-----------------------------------------------------------------------------
(* The page's effects.                                                     *)

Quiet == rendered = Deps

Changed(d) == rendered[d] # Deps[d]

PublishedSync == (Changed("existing") \/ Changed("published")) /\ existing # NoTx /\ isPublished
SignatureSync == Changed("writing") /\ writing
BroadcastSync == Changed("writeTx") /\ writeTx # NoTx
\* Variant of MinedSync: any receipt will do.
AnyReceiptSync ==
    /\ Changed("confirmed") \/ Changed("reverted") \/ Changed("activeTx") \/ Changed("step")
    /\ Receipt(ReceiptOf) # "none" /\ activeTx # NoTx /\ publishStep = "confirming_on_chain"

MinedSync ==
    /\ Changed("confirmed") \/ Changed("activeTx") \/ Changed("step")
    /\ Confirmed /\ activeTx # NoTx /\ publishStep = "confirming_on_chain"
RevertSync ==
    (Changed("reverted") \/ Changed("step")) /\ Reverted /\ publishStep = "confirming_on_chain"
ErrorSync ==
    (Changed("writeError") \/ Changed("step")) /\ writeError # "none" /\ publishStep # "failed"

\* The last effect to set a state wins.
Render ==
    /\ page = "shown" /\ ~Quiet /\ rendered' = Deps
    /\ activeTx' = IF BroadcastSync THEN writeTx ELSE IF PublishedSync THEN existing ELSE activeTx
    /\ publishStep' =
          IF ErrorSync \/ RevertSync THEN "failed"
          ELSE IF MinedSync THEN "publishing_to_db"
          ELSE IF BroadcastSync THEN "confirming_on_chain"
          ELSE IF SignatureSync THEN "awaiting_signature"
          ELSE IF PublishedSync THEN "confirmed" ELSE publishStep
    /\ final' = IF MinedSync THEN [tx |-> activeTx, call |-> "asked"] ELSE final
    /\ UNCHANGED <<agentRow, txs, seen, sheet, audit, wallet, direct, directTx, faucet,
                   publishActs>>

-----------------------------------------------------------------------------
(* The page, once its effects are quiet.                                   *)

\* fetchAgentDetails; its end mounts the validator, which audits at once, and the
\* button, whose state starts from what was fetched.
PageLoads ==
    /\ page = "loading" /\ page' = "shown" /\ audit' = "asked"
    /\ isValidated' = (status \in {"VALIDATED", "APPROVED", "PUBLISHED"})
    /\ isPublished' = (status = "PUBLISHED")
    /\ existing' = IF status = "PUBLISHED" /\ recorded = NoTx THEN Made ELSE recorded
    /\ activeTx' = existing'
    /\ publishStep' = IF isPublished' /\ existing' # NoTx THEN "confirmed" ELSE "idle"
    /\ UNCHANGED <<agentRow, txs, seen, wallet, direct, directTx, final, faucet, rendered,
                   publishActs>>

AuditAnswered ==
    /\ Quiet /\ audit \in {"passed", "found"} /\ audit' = "none"
    /\ isValidated' = (audit = "passed")
    /\ UNCHANGED <<agentRow, txs, seen, page, isPublished, existing, wallet, button, rendered,
                   publishActs>>

\* "Re-run Audit", "Apply Safe Policy & Re-Audit".
ClickAudit ==
    /\ Quiet /\ page = "shown" /\ audit \in {"none", "error"} /\ PublishAct
    /\ audit' = "asked" \/ (~isValidated /\ audit = "none" /\ audit' = "remedy")
    /\ UNCHANGED <<agentRow, txs, seen, sheet, wallet, button, rendered>>

ButtonsShown == Quiet /\ page = "shown" /\ publishStep # "confirmed"
DirectOffered == ButtonsShown /\ isValidated /\ direct = "none" /\ publishStep # "publishing_to_db"
SignOffered ==
    /\ ButtonsShown /\ isValidated
    /\ publishStep \notin {"awaiting_signature", "confirming_on_chain", "publishing_to_db"}

ClickDirect ==
    /\ DirectOffered /\ PublishAct /\ direct' = "asked" /\ directTx' = activeTx
    /\ UNCHANGED <<agentRow, txs, seen, sheet, audit, wallet, publishStep, activeTx, final, faucet,
                   rendered>>

\* onPublished: the page takes the hash, or a text when there is none.
Listed(hash) == publishStep' = "confirmed" /\ isPublished' = TRUE /\ existing' = hash

\* Variant of DirectAnswered: a failed request is taken for a publication.
DirectSwallowsError ==
    /\ Quiet /\ direct \in {"ok", "error"} /\ direct' = "none"
    /\ Listed(IF directTx # NoTx THEN directTx ELSE Made)
    /\ UNCHANGED <<agentRow, txs, seen, page, isValidated, audit, wallet, activeTx, directTx,
                   final, faucet, rendered, publishActs>>

DirectAnswered ==
    /\ Quiet /\ direct \in {"ok", "error"} /\ direct' = "none"
    /\ IF direct = "ok" THEN Listed(IF directTx # NoTx THEN directTx ELSE Made)
       ELSE publishStep' = "failed" /\ UNCHANGED <<isPublished, existing>>
    /\ UNCHANGED <<agentRow, txs, seen, page, isValidated, audit, wallet, activeTx, directTx,
                   final, faucet, rendered, publishActs>>

FinalAnswered ==
    /\ Quiet /\ final.call \in {"ok", "error"} /\ final' = NoFinal
    /\ IF final.call = "ok" THEN Listed(final.tx)
       ELSE publishStep' = "failed" /\ UNCHANGED <<isPublished, existing>>
    /\ UNCHANGED <<agentRow, txs, seen, page, isValidated, audit, wallet, activeTx, direct,
                   directTx, faucet, rendered, publishActs>>

-----------------------------------------------------------------------------
(* Wallet and chain.                                                       *)

\* openConnectModal, handleSwitchToAmoy.
ChangeNet ==
    /\ Quiet /\ net # "amoy"
    /\ net' \in (IF net = "none" THEN {"wrong", "amoy"} ELSE {"amoy"})
    /\ UNCHANGED <<agentRow, txs, seen, sheet, audit, asking, writing, writeTx, writeError,
                   button, rendered, publishActs>>

\* A new mutation forgets the hash and the error of the one before.
ClickSign ==
    /\ SignOffered /\ net = "amoy" /\ ~asking /\ Len(txs) < MaxTx
    /\ publishStep' = "awaiting_signature"
    /\ asking' = TRUE /\ writing' = TRUE /\ writeTx' = NoTx /\ writeError' = "none"
    /\ UNCHANGED <<agentRow, txs, seen, sheet, audit, net, activeTx, direct, directTx, final,
                   faucet, rendered, publishActs>>

\* The promise continues also when a retry detached the hook from it.
Sign ==
    /\ Quiet /\ asking /\ asking' = FALSE /\ writing' = FALSE
    /\ txs' = Append(txs, "pending")
    /\ activeTx' = Len(txs) + 1 /\ publishStep' = "confirming_on_chain"
    /\ writeTx' = IF writing THEN Len(txs) + 1 ELSE writeTx
    /\ UNCHANGED <<agentRow, seen, sheet, audit, net, writeError, direct, directTx, final, faucet,
                   rendered, publishActs>>

Refuse ==
    /\ Quiet /\ asking /\ asking' = FALSE /\ writing' = FALSE /\ publishStep' = "failed"
    /\ \E why \in {"refused", "gas"} : writeError' = IF writing THEN why ELSE writeError
    /\ UNCHANGED <<agentRow, txs, seen, sheet, audit, net, writeTx, activeTx, direct, directTx,
                   final, faucet, rendered, publishActs>>

Retry ==
    /\ Quiet /\ publishStep = "failed" /\ PublishAct
    /\ publishStep' = "idle" /\ writing' = FALSE /\ writeTx' = NoTx /\ writeError' = "none"
    /\ UNCHANGED <<agentRow, txs, seen, sheet, audit, net, asking, activeTx, direct, directTx,
                   final, faucet, rendered>>

ClickFaucet ==
    /\ Quiet /\ publishStep = "failed" /\ writeError = "gas" /\ ~faucet /\ PublishAct
    /\ faucet' = TRUE
    /\ UNCHANGED <<agentRow, txs, seen, sheet, audit, wallet, publishStep, activeTx, direct,
                   directTx, final, rendered>>

\* Sets the step to idle, whatever the button does by then.
FaucetAnswered ==
    /\ Quiet /\ faucet /\ faucet' = FALSE
    /\ publishStep' = "idle" \/ UNCHANGED publishStep
    /\ UNCHANGED <<agentRow, txs, seen, sheet, audit, wallet, activeTx, direct, directTx, final,
                   rendered, publishActs>>

Mine(t) ==
    /\ txs[t] = "pending"
    /\ \E result \in {"mined", "reverted"} : txs' = [txs EXCEPT ![t] = result]
    /\ UNCHANGED <<agentRow, seen, sheet, audit, wallet, button, rendered, publishActs>>

ReceiptPolled(t) ==
    /\ Quiet /\ t = ReceiptOf /\ t \notin seen /\ txs[t] # "pending"
    /\ seen' = seen \cup {t}
    /\ UNCHANGED <<agentRow, txs, sheet, audit, wallet, button, rendered, publishActs>>

-----------------------------------------------------------------------------

Machine ==
    \/ Render \/ PageLoads \/ AuditAnswered
    \/ DirectAnswered \/ FinalAnswered \/ FaucetAnswered
    \/ \E t \in DOMAIN txs : Mine(t) \/ ReceiptPolled(t)

ApiAnswers == ValidateServed \/ RemedyServed \/ DirectServed \/ FinalServed

PublishNext ==
    \/ Machine \/ ApiAnswers \/ Others
    \/ ClickAudit \/ ClickDirect \/ ChangeNet \/ ClickSign \/ Sign \/ Refuse \/ Retry \/ ClickFaucet

\* Effects run and transactions are mined; the API answers, whatever the user signs
\* or refuses meanwhile.
PublishFairness == WF_publishVars(Machine) /\ WF_publishVars(ApiAnswers)

PublishSpec == PublishInit /\ [][PublishNext]_publishVars

-----------------------------------------------------------------------------

\* "Agent Published" is shown only for an agent whose publication the API accepted,
\* through retries, late signatures and failed answers (OnChainPublishButton.tsx:339).
ConfirmedWasAccepted == publishStep = "confirmed" => accepted

\* The publication that follows a signature carries a transaction that was mined and
\* did not revert, whichever hash the button shows by then (OnChainPublishButton.tsx:159).
FinalizedWasMined == final.call # "none" => final.tx \in DOMAIN txs /\ txs[final.tx] = "mined"

\* A listed agent passed the validator, a review or a build since its last version,
\* whatever the owner, the administrators and the worker did meanwhile (agents.py:692).
ListedWasCleared == status \in {"PUBLISHED", "PAUSED"} => cleared

\* The agent that is listed was cleared, and a listing that follows a signature has
\* a mined transaction (agents.py:692, OnChainPublishButton.tsx:159).
ListedOnGrounds == FinalizedWasMined /\ ListedWasCleared

\* What must not last: "Confirming on Polygon Amoy...", "Syncing Registry..." and the
\* audit (OnChainPublishButton.tsx:338).
PublishWaits ==
    publishStep \in {"confirming_on_chain", "publishing_to_db"} \/ audit \in {"asked", "remedy"}
=============================================================================
