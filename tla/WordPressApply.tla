--------------------------- MODULE WordPressApply ---------------------------
(***************************************************************************)
(* The only external write of the system: creating a WordPress draft of an *)
(* approved draft revision of ONE work item (wilq/actions/apply_lifecycle, *)
(* wilq/content/workflow/store).                                           *)
(*                                                                         *)
(* A "binding" is the exact consent a human gave: a revision of the work   *)
(* item and the review decision that approved it.  A thread serves apply   *)
(* requests: it claims the binding, calls the WordPress adapter, and       *)
(* finishes the claim together with the execution receipt.  Revisions,     *)
(* reviews, claims, receipts and audit events are SQLite rows; an action   *)
(* is one transaction, one read outside a transaction or one remote call.  *)
(***************************************************************************)
EXTENDS Integers, FiniteSets

CONSTANTS
    Threads,       \* server threads that run apply_action
    MaxRevisions,  \* bound of the model on draft revisions
    MaxDecisions,  \* bound of the model on review decisions per revision
    RecoveryAge,   \* WORDPRESS_APPLY_RECONCILIATION_MIN_AGE_SECONDS, in ticks
    MaxClock,      \* bound of the model on time
    MaxRequests,   \* bound of the model on apply requests
    MaxFaults      \* bound of the model on abandoned applies

ASSUME BoundsAssumption ==
    /\ MaxRevisions \in Nat \ {0}
    /\ MaxDecisions \in Nat \ {0}
    /\ RecoveryAge \in Nat
    /\ MaxClock \in Nat
    /\ MaxRequests \in Nat
    /\ MaxFaults \in Nat

Revisions == 1 .. MaxRevisions
Binding == [rev : Revisions, dec : 1 .. MaxDecisions]

VARIABLES
    clock,     \* wall clock of the process and of SQLite
    latest,    \* content_draft_revisions: number of the newest one, 0 if none
    decided,   \* content_draft_revision_reviews: decisions recorded of each
    approved,  \* the bindings those decisions approved
    claims,    \* content_wordpress_revision_apply_claims
    history,   \* content_wordpress_draft_execution_history, one row a revision
    resolved,  \* action_apply_reconciled audit events, by binding
    sent,      \* create requests WordPress received for each binding
    pc,        \* where each thread is in apply_action
    bind,      \* the binding each thread applies
    outcome,   \* the execution result its adapter returned
    requests,  \* apply requests so far
    faults     \* abandoned applies so far

rows == <<latest, decided, approved, claims, history, resolved>>
vars == <<clock, latest, decided, approved, claims, history, resolved, sent,
          pc, bind, outcome, requests, faults>>

ClaimStatus == {"none", "claimed", "applied", "failed"}
NoClaim == [status |-> "none", at |-> 0]

\* ContentWordPressDraftExecutionResult: "clean" is blocked with no external
\* write attempted, "attempted" is blocked with an external write attempted.
Outcome == {"none", "clean", "attempted", "created"}

\* A thread between its acquired claim and the end of its finish.
Writing == {"adapter", "finish"}

TypeOK ==
    /\ clock \in 0 .. MaxClock
    /\ latest \in 0 .. MaxRevisions
    /\ decided \in [Revisions -> 0 .. MaxDecisions]
    /\ approved \in SUBSET Binding
    /\ claims \in [Binding -> [status : ClaimStatus, at : 0 .. MaxClock]]
    /\ history \in [Revisions -> Outcome]
    /\ resolved \in [Binding -> {"none", "applied", "failed"}]
    /\ sent \in [Binding -> Nat]
    /\ pc \in [Threads -> {"idle", "claim", "judge", "drop"} \cup Writing]
    /\ bind \in [Threads -> Binding]
    /\ outcome \in [Threads -> Outcome]
    /\ requests \in 0 .. MaxRequests
    /\ faults \in 0 .. MaxFaults

AnyBinding == [rev |-> 1, dec |-> 1]

Init ==
    /\ clock = 0
    /\ latest = 0
    /\ decided = [r \in Revisions |-> 0]
    /\ approved = {}
    /\ claims = [b \in Binding |-> NoClaim]
    /\ history = [r \in Revisions |-> "none"]
    /\ resolved = [b \in Binding |-> "none"]
    /\ sent = [b \in Binding |-> 0]
    /\ pc = [p \in Threads |-> "idle"]
    /\ bind = [p \in Threads |-> AnyBinding]
    /\ outcome = [p \in Threads |-> "none"]
    /\ requests = 0
    /\ faults = 0

-----------------------------------------------------------------------------
(* Guards the transactions share.                                          *)

Claimed(b) == claims[b].status = "claimed"

\* wordpress_revision_apply_in_progress: any claim of the work item.
ApplyInProgress == \E b \in Binding : Claimed(b)

\* binding_is_current_and_approved: the newest revision, and its newest
\* decision is the approval the binding names.
CurrentAndApproved(b) ==
    /\ b.rev = latest
    /\ b.dec = decided[b.rev]
    /\ b \in approved

\* _failed_claim_is_retryable: the receipt of the REVISION says that the last
\* execution was blocked before any external write.
FailedClaimIsRetryable(b) == history[b.rev] = "clean"

Goto(p, place) == pc' = [pc EXCEPT ![p] = place]

-----------------------------------------------------------------------------
(* Editors and reviewers.                                                  *)

\* Mutant: the append does not look for an apply in progress.
AppendDuringApply ==
    /\ latest < MaxRevisions
    /\ latest' = latest + 1
    /\ UNCHANGED <<clock, decided, approved, claims, history, resolved, sent,
                   pc, bind, outcome, requests, faults>>

\* append_draft_revision, and the official-source child of _append_lineage_child:
\* the command's base is the newest revision, and no apply is in progress.
AppendRevision ==
    /\ latest < MaxRevisions
    /\ ~ApplyInProgress
    /\ latest' = latest + 1
    /\ UNCHANGED <<clock, decided, approved, claims, history, resolved, sent,
                   pc, bind, outcome, requests, faults>>

\* record_draft_revision_review: a new decision on the newest revision.
RecordReview(verdict) ==
    /\ latest > 0
    /\ decided[latest] < MaxDecisions
    /\ ~ApplyInProgress
    /\ decided' = [decided EXCEPT ![latest] = @ + 1]
    /\ approved' = IF verdict = "approved"
                   THEN approved \cup {[rev |-> latest, dec |-> decided[latest] + 1]}
                   ELSE approved
    /\ UNCHANGED <<clock, latest, claims, history, resolved, sent, pc, bind,
                   outcome, requests, faults>>

-----------------------------------------------------------------------------
(* One apply request.                                                      *)

\* apply_action for an action whose four-event chain names b.  The chain was
\* built on an approval of b, which may have been superseded since.
RequestApply(p, b) ==
    /\ pc[p] = "idle"
    /\ b \in approved
    /\ requests < MaxRequests
    /\ requests' = requests + 1
    /\ bind' = [bind EXCEPT ![p] = b]
    /\ outcome' = [outcome EXCEPT ![p] = "none"]
    /\ Goto(p, "claim")
    /\ UNCHANGED <<rows, clock, sent, faults>>

\* claim_wordpress_revision_apply inserts the claim: "acquired".
Acquire(p) ==
    /\ pc[p] = "claim"
    /\ CurrentAndApproved(bind[p])
    /\ claims[bind[p]].status = "none"
    /\ claims' = [claims EXCEPT ![bind[p]] = [status |-> "claimed", at |-> clock]]
    /\ Goto(p, "adapter")
    /\ UNCHANGED <<clock, latest, decided, approved, history, resolved, sent,
                   bind, outcome, requests, faults>>

\* The claim is refused: "not_current", "in_progress" or "applied".
Refused(p) ==
    /\ pc[p] = "claim"
    /\ \/ ~CurrentAndApproved(bind[p])
       \/ claims[bind[p]].status \in {"claimed", "applied"}
    /\ Goto(p, "idle")
    /\ UNCHANGED <<rows, clock, sent, bind, outcome, requests, faults>>

\* The row is "failed": the transaction ends, and whether the claim may be
\* retried is read next, over a connection of its own.
FoundFailed(p) ==
    /\ pc[p] = "claim"
    /\ CurrentAndApproved(bind[p])
    /\ claims[bind[p]].status = "failed"
    /\ Goto(p, "judge")
    /\ UNCHANGED <<rows, clock, sent, bind, outcome, requests, faults>>

JudgeRetry(p) ==
    /\ pc[p] = "judge"
    /\ Goto(p, IF FailedClaimIsRetryable(bind[p]) THEN "drop" ELSE "idle")
    /\ UNCHANGED <<rows, clock, sent, bind, outcome, requests, faults>>

\* Mutant: the DELETE forgets AND status = 'failed'.
DropAny(p) ==
    /\ pc[p] = "drop"
    /\ claims' = [claims EXCEPT ![bind[p]] = NoClaim]
    /\ Goto(p, "claim")
    /\ UNCHANGED <<clock, latest, decided, approved, history, resolved, sent,
                   bind, outcome, requests, faults>>

\* Mutant: the DELETE names the wrong status and removes nothing.
DropNothing(p) ==
    /\ pc[p] = "drop"
    /\ Goto(p, "claim")
    /\ UNCHANGED <<rows, clock, sent, bind, outcome, requests, faults>>

\* DELETE ... WHERE claim_key = ? AND status = 'failed', then the claim is
\* tried again from the start.
DropFailed(p) ==
    /\ pc[p] = "drop"
    /\ claims' = IF claims[bind[p]].status = "failed"
                 THEN [claims EXCEPT ![bind[p]] = NoClaim]
                 ELSE claims
    /\ Goto(p, "claim")
    /\ UNCHANGED <<clock, latest, decided, approved, history, resolved, sent,
                   bind, outcome, requests, faults>>

\* The adapter stops before the create request: writes disabled, payload or
\* credentials refused, or the ACF schema cannot be read or does not fit.
AdapterRefuses(p) ==
    /\ pc[p] = "adapter"
    /\ outcome' = [outcome EXCEPT ![p] = "clean"]
    /\ Goto(p, "finish")
    /\ UNCHANGED <<rows, clock, sent, bind, requests, faults>>

\* The create request is lost before it reaches WordPress: an httpx error,
\* which the adapter cannot tell from a lost answer.
CreateLost(p) ==
    /\ pc[p] = "adapter"
    /\ outcome' = [outcome EXCEPT ![p] = "attempted"]
    /\ Goto(p, "finish")
    /\ UNCHANGED <<rows, clock, sent, bind, requests, faults>>

\* The create request reaches WordPress: the draft is read back and verified,
\* or the answer fails, times out or cannot be verified.
SendCreate(p) ==
    /\ pc[p] = "adapter"
    /\ sent' = [sent EXCEPT ![bind[p]] = @ + 1]
    /\ \E o \in {"created", "attempted"} : outcome' = [outcome EXCEPT ![p] = o]
    /\ Goto(p, "finish")
    /\ UNCHANGED <<rows, clock, bind, requests, faults>>

\* Mutant: the claim takes the status of the execution result.
FinishRawStatus(p) ==
    /\ pc[p] = "finish"
    /\ Claimed(bind[p])
    /\ history' = [history EXCEPT ![bind[p].rev] = outcome[p]]
    /\ claims' = [claims EXCEPT ![bind[p]].status = outcome[p]]
    /\ Goto(p, "idle")
    /\ UNCHANGED <<clock, latest, decided, approved, resolved, sent, bind,
                   outcome, requests, faults>>

\* Mutant: the UPDATE forgets AND status = 'claimed'.
FinishUnguarded(p) ==
    /\ pc[p] = "finish"
    /\ history' = [history EXCEPT ![bind[p].rev] = outcome[p]]
    /\ claims' = [claims EXCEPT ![bind[p]].status =
                    IF outcome[p] = "created" THEN "applied" ELSE "failed"]
    /\ Goto(p, "idle")
    /\ UNCHANGED <<clock, latest, decided, approved, resolved, sent, bind,
                   outcome, requests, faults>>

\* finish_wordpress_revision_apply_claim: receipt and claim in one transaction.
Finish(p) ==
    /\ pc[p] = "finish"
    /\ Claimed(bind[p])
    /\ history' = [history EXCEPT ![bind[p].rev] = outcome[p]]
    /\ claims' = [claims EXCEPT ![bind[p]].status =
                    IF outcome[p] = "created" THEN "applied" ELSE "failed"]
    /\ Goto(p, "idle")
    /\ UNCHANGED <<clock, latest, decided, approved, resolved, sent, bind,
                   outcome, requests, faults>>

\* Mutant: the receipt was committed before the claim was found inactive.
FinishKeepsReceipt(p) ==
    /\ pc[p] = "finish"
    /\ ~Claimed(bind[p])
    /\ history' = [history EXCEPT ![bind[p].rev] = outcome[p]]
    /\ Goto(p, "idle")
    /\ UNCHANGED <<clock, latest, decided, approved, claims, resolved, sent,
                   bind, outcome, requests, faults>>

\* The claim is not active any more: the transaction is rolled back, receipt
\* included, and the request fails.
FinishRollsBack(p) ==
    /\ pc[p] = "finish"
    /\ ~Claimed(bind[p])
    /\ Goto(p, "idle")
    /\ UNCHANGED <<rows, clock, sent, bind, outcome, requests, faults>>

\* The process dies, or the adapter raises what apply_action does not catch:
\* an acquired claim stays "claimed".
Abandon(p) ==
    /\ pc[p] # "idle"
    /\ faults < MaxFaults
    /\ faults' = faults + 1
    /\ Goto(p, "idle")
    /\ UNCHANGED <<rows, clock, sent, bind, outcome, requests>>

\* reconcile_wordpress_revision_apply_claim: the operator inspected WordPress
\* and ends the one claim of the work item, once it is old enough.  The claimed
\* row is the only one (len(rows) == 1).  The receipt of an "applied" one names
\* no revision and is kept in another table, which the retry never reads.
Reconcile(b, result) ==
    /\ Claimed(b)
    /\ \A c \in Binding : Claimed(c) => c = b
    /\ clock - claims[b].at >= RecoveryAge
    /\ claims' = [claims EXCEPT ![b].status = result]
    /\ resolved' = [resolved EXCEPT ![b] = result]
    /\ UNCHANGED <<clock, latest, decided, approved, history, sent, pc, bind,
                   outcome, requests, faults>>

Tick ==
    /\ clock < MaxClock
    /\ clock' = clock + 1
    /\ UNCHANGED <<rows, sent, pc, bind, outcome, requests, faults>>

-----------------------------------------------------------------------------
ThreadStep(p) ==
    \/ Acquire(p)
    \/ Refused(p)
    \/ FoundFailed(p)
    \/ JudgeRetry(p)
    \/ DropFailed(p)
    \/ AdapterRefuses(p)
    \/ CreateLost(p)
    \/ SendCreate(p)
    \/ Finish(p)
    \/ FinishRollsBack(p)

Next ==
    \/ AppendRevision
    \/ \E verdict \in {"approved", "rejected"} : RecordReview(verdict)
    \/ \E p \in Threads, b \in Binding : RequestApply(p, b)
    \/ \E p \in Threads : ThreadStep(p)
    \/ \E p \in Threads : Abandon(p)
    \/ \E b \in Binding, result \in {"applied", "failed"} : Reconcile(b, result)
    \/ Tick

Spec == Init /\ [][Next]_vars

\* A running thread is scheduled, and every remote call of the adapter times
\* out; nothing obliges people or the clock.
Fairness == \A p \in Threads : WF_vars(ThreadStep(p))

FairSpec == Spec /\ Fairness

-----------------------------------------------------------------------------
(* Properties.                                                             *)

\* While a binding is claimed, nobody moves what was approved away from under
\* the write: it names the newest revision and that revision's newest decision,
\* an approval (append and review refuse with apply_in_progress).
ClaimedIsCurrent == \A b \in Binding : Claimed(b) => CurrentAndApproved(b)

\* A thread that may still write, or has written and not yet recorded it, works
\* under an active claim unless an operator resolved the claim meanwhile: a
\* request never deletes a claim another request is using.
WriterHoldsClaim ==
    \A p \in Threads :
        pc[p] \in Writing /\ resolved[bind[p]] = "none" => Claimed(bind[p])

\* Two requests of one consent never write at a time, unless an operator
\* resolved the claim of the first while it was still running.
OneWriterAtATime ==
    \A p, q \in Threads :
        /\ pc[p] \in Writing
        /\ pc[q] \in Writing
        /\ bind[p] = bind[q]
        /\ resolved[bind[p]] = "none"
        => p = q

\* The receipt of an applied consent says "created" as long as no later
\* decision on the revision was recorded: a late finish of another consent is
\* rolled back with its receipt.
ReceiptMatches ==
    \A b \in Binding :
        /\ claims[b].status = "applied"
        /\ resolved[b] = "none"
        /\ b.dec = decided[b.rev]
        => history[b.rev] = "created"

\* An applied consent is used up for good: neither the retry of a failed claim
\* nor a late finish or a second resolution touches its row.
AppliedIsFinal ==
    [][\A b \in Binding :
         claims[b].status = "applied" => claims'[b] = claims[b]]_vars

\* An apply request is answered: claiming again after a failed claim was
\* dropped does not go round for ever.
ApplySettles == \A p \in Threads : pc[p] = "claim" ~> pc[p] = "idle"

\* A consent sends at most one create request to WordPress, whatever failed
\* (_wordpress_apply_claim_blocker: an old binding is never retried after a
\* failed or uncertain write).
OneWritePerConsent == \A b \in Binding : sent[b] <= 1

\* A consent whose create request was sent, and which an operator resolved as
\* failed after inspecting WordPress, is not claimed for another write
\* (wilq/cli.py, wordpress-apply reconcile: "no write should be retried").
InspectedIsNotRetried ==
    [][\A b \in Binding :
         resolved[b] = "failed" /\ sent[b] > 0 /\ ~Claimed(b) => ~Claimed(b)']_vars
=============================================================================
