---------------------------- MODULE NewPageApply ----------------------------
(***************************************************************************)
(* Creating a WordPress draft of an approved NEW page                      *)
(* (wilq/content/workflow/store/store_new_page_apply, apply_lifecycle).    *)
(*                                                                         *)
(* Unlike WordPressApply, the consent is the revision: the claim key names *)
(* the revision and not the decision or the action, a failed claim is      *)
(* never retried, and nothing resolves the claim of an apply that died.    *)
(* Several local actions may name one revision, each with its own chain of *)
(* preview, review, confirmation and impact check.  An action of this      *)
(* module is one transaction or one conversation with WordPress.           *)
(***************************************************************************)
EXTENDS Integers

CONSTANTS
    Threads,       \* server threads that run apply_action
    Actions,       \* ActionObjects of the work item
    MaxRevisions,  \* bound of the model on draft revisions
    MaxRequests,   \* bound of the model on apply requests that reach the claim
    MaxFaults      \* bound of the model on abandoned applies

ASSUME BoundsAssumption ==
    /\ Actions # {}
    /\ MaxRevisions \in Nat \ {0}
    /\ MaxRequests \in Nat \ {0}
    /\ MaxFaults \in Nat

Revisions == 1 .. MaxRevisions
Requests == 1 .. MaxRequests

VARIABLES
    latest,    \* content_draft_revisions: number of the newest one, 0 if none
    decision,  \* the newest review decision on each revision
    names,     \* new_page_draft_binding: the revision each action names, or 0
    claims,    \* content_new_page_revision_apply_claims
    drafts,    \* drafts WordPress holds, named by the request that made them
    audits,    \* the outcomes audited for each action
    pc,        \* where each thread is in apply_action
    doing,     \* the action each thread applies
    number,    \* the request each thread serves
    outcome,   \* what its executor returned
    requests,  \* apply requests so far
    faults     \* abandoned applies so far

rows == <<latest, decision, names, claims, audits>>
thread == <<doing, number, outcome>>
vars == <<latest, decision, names, claims, drafts, audits, pc, doing, number,
          outcome, requests, faults>>

\* A claim row: the action that inserted it, and the draft result_json names.
Claim ==
    [status : {"none", "claimed", "applied", "failed"},
     act : Actions, post : Requests \cup {0}]

Draft == [id : Requests, rev : Revisions, act : Actions]

\* "unreadable" is a draft that was created and verified, but whose last
\* readback carries no status, so that _persisted_result keeps nothing.
Outcome == {"none", "error", "created", "unreadable"}
Succeeded == {"created", "unreadable"}

\* A thread between its acquired claim and the end of its finish.
Writing == {"executor", "finish"}

TypeOK ==
    /\ latest \in 0 .. MaxRevisions
    /\ decision \in [Revisions -> {"none", "approved", "rejected"}]
    /\ names \in [Actions -> Revisions \cup {0}]
    /\ claims \in [Revisions -> Claim]
    /\ drafts \subseteq Draft
    /\ audits \in [Actions -> SUBSET {"applied", "blocked"}]
    /\ pc \in [Threads -> {"idle", "claim", "record"} \cup Writing]
    /\ doing \in [Threads -> Actions]
    /\ number \in [Threads -> Requests]
    /\ outcome \in [Threads -> Outcome]
    /\ requests \in 0 .. MaxRequests
    /\ faults \in 0 .. MaxFaults

AnyAction == CHOOSE a \in Actions : TRUE

Init ==
    /\ latest = 0
    /\ decision = [r \in Revisions |-> "none"]
    /\ names = [a \in Actions |-> 0]
    /\ claims = [r \in Revisions |->
                   [status |-> "none", act |-> AnyAction, post |-> 0]]
    /\ drafts = {}
    /\ audits = [a \in Actions |-> {}]
    /\ pc = [p \in Threads |-> "idle"]
    /\ doing = [p \in Threads |-> AnyAction]
    /\ number = [p \in Threads |-> 1]
    /\ outcome = [p \in Threads |-> "none"]
    /\ requests = 0
    /\ faults = 0

\* The revision of the binding a thread applies.
Target(p) == names[doing[p]]

\* _binding_is_current_and_approved
CurrentAndApproved(r) == r = latest /\ decision[r] = "approved"

Goto(p, place) == pc' = [pc EXCEPT ![p] = place]

\* The request ends and its locals are gone.
End(p) ==
    /\ Goto(p, "idle")
    /\ doing' = [doing EXCEPT ![p] = AnyAction]
    /\ number' = [number EXCEPT ![p] = 1]
    /\ outcome' = [outcome EXCEPT ![p] = "none"]

-----------------------------------------------------------------------------
(* Editors, reviewers and the delivery action.                             *)

\* append_draft_revision looks at the claims of the other table only, which
\* holds none for a new page.
AppendRevision ==
    /\ latest < MaxRevisions
    /\ latest' = latest + 1
    /\ UNCHANGED <<decision, names, claims, drafts, audits, pc, thread,
                   requests, faults>>

\* record_draft_revision_review: a decision on the newest revision.
RecordReview(verdict) ==
    /\ latest > 0
    /\ decision' = [decision EXCEPT ![latest] = verdict]
    /\ UNCHANGED <<latest, names, claims, drafts, audits, pc, thread, requests,
                   faults>>

\* create_content_new_page_delivery_action: each POST makes another action for
\* the approved newest revision.
CreateAction(a) ==
    /\ names[a] = 0
    /\ latest > 0
    /\ CurrentAndApproved(latest)
    /\ names' = [names EXCEPT ![a] = latest]
    /\ UNCHANGED <<latest, decision, claims, drafts, audits, pc, thread,
                   requests, faults>>

-----------------------------------------------------------------------------
(* One apply request.                                                      *)

\* The chain or the preflight refuses: the request is audited and ends.
RequestBlocked(a) ==
    /\ names[a] # 0
    /\ audits' = [audits EXCEPT ![a] = @ \cup {"blocked"}]
    /\ UNCHANGED <<latest, decision, names, claims, drafts, pc, thread,
                   requests, faults>>

\* apply_action with a complete chain.  The preflight looks for a completed
\* apply among the ten newest audit events, so an action that was applied long
\* ago comes here as well.
RequestApply(p, a) ==
    /\ pc[p] = "idle"
    /\ names[a] # 0
    /\ requests < MaxRequests
    /\ requests' = requests + 1
    /\ doing' = [doing EXCEPT ![p] = a]
    /\ number' = [number EXCEPT ![p] = requests + 1]
    /\ Goto(p, "claim")
    /\ UNCHANGED <<rows, drafts, outcome, faults>>

\* Mutant: a failed claim is taken again, as that of WordPressApply is.
AcquireFailed(p) ==
    /\ pc[p] = "claim"
    /\ CurrentAndApproved(Target(p))
    /\ claims[Target(p)].status \in {"none", "failed"}
    /\ claims' = [claims EXCEPT ![Target(p)] =
                    [status |-> "claimed", act |-> doing[p], post |-> 0]]
    /\ Goto(p, "executor")
    /\ UNCHANGED <<latest, decision, names, audits, drafts, thread, requests, faults>>

\* Mutant: the claim of an apply that seems dead is taken over in place.
AcquireTakesOver(p) ==
    /\ pc[p] = "claim"
    /\ CurrentAndApproved(Target(p))
    /\ claims[Target(p)].status \in {"none", "claimed"}
    /\ claims' = [claims EXCEPT ![Target(p)] =
                    IF @.status = "claimed" THEN @
                    ELSE [status |-> "claimed", act |-> doing[p], post |-> 0]]
    /\ Goto(p, "executor")
    /\ UNCHANGED <<latest, decision, names, audits, drafts, thread, requests, faults>>

\* claim_new_page_revision_apply inserts the claim: "acquired".
Acquire(p) ==
    /\ pc[p] = "claim"
    /\ CurrentAndApproved(Target(p))
    /\ claims[Target(p)].status = "none"
    /\ claims' = [claims EXCEPT ![Target(p)] =
                    [status |-> "claimed", act |-> doing[p], post |-> 0]]
    /\ Goto(p, "executor")
    /\ UNCHANGED <<latest, decision, names, audits, drafts, thread, requests, faults>>

\* "not_current", "in_progress", "applied", "uncertain" or "failed".
Refused(p) ==
    /\ pc[p] = "claim"
    /\ \/ ~CurrentAndApproved(Target(p))
       \/ claims[Target(p)].status # "none"
    /\ Goto(p, "record")
    /\ UNCHANGED <<rows, drafts, thread, requests, faults>>

\* execute_new_page_draft_action makes no draft: writes are disabled, payload
\* or credentials are refused, or the create request is lost.
NothingCreated(p) ==
    /\ pc[p] = "executor"
    /\ outcome' = [outcome EXCEPT ![p] = "error"]
    /\ Goto(p, "finish")
    /\ UNCHANGED <<rows, drafts, doing, number, requests, faults>>

\* WordPress makes the draft, and the draft is verified and read back, or its
\* answer or the verification fails.  The revision is loaded by its exact
\* binding: it need not be the newest one any more.
CreateDraft(p) ==
    /\ pc[p] = "executor"
    /\ drafts' = drafts \cup {[id |-> number[p], rev |-> Target(p), act |-> doing[p]]}
    /\ \E o \in {"created", "unreadable", "error"} :
         outcome' = [outcome EXCEPT ![p] = o]
    /\ Goto(p, "finish")
    /\ UNCHANGED <<rows, doing, number, requests, faults>>

\* The row finish_new_page_revision_apply_claim writes.
Finished(p) ==
    [claims[Target(p)] EXCEPT
        !.status = IF outcome[p] \in Succeeded THEN "applied" ELSE "failed",
        !.post = IF outcome[p] = "created" THEN number[p] ELSE 0]

\* The outcome _audit_apply records.
Audited(p) == IF outcome[p] \in Succeeded THEN "applied" ELSE "blocked"

\* Mutant: the row takes what the executor returned.
FinishRawStatus(p) ==
    /\ pc[p] = "finish"
    /\ claims[Target(p)].status = "claimed"
    /\ claims' = [claims EXCEPT ![Target(p)].status = outcome[p]]
    /\ audits' = [audits EXCEPT ![doing[p]] = @ \cup {Audited(p)}]
    /\ Goto(p, "record")
    /\ UNCHANGED <<latest, decision, names, drafts, thread, requests, faults>>

\* Mutant: the claim is flipped, and the audit is left to Record.
FinishUnaudited(p) ==
    /\ pc[p] = "finish"
    /\ claims[Target(p)].status = "claimed"
    /\ claims' = [claims EXCEPT ![Target(p)] = Finished(p)]
    /\ Goto(p, "record")
    /\ UNCHANGED <<latest, decision, names, drafts, audits, thread, requests,
                   faults>>

\* Mutant: an outcome without a readable draft raises before it is stored.
FinishRaises(p) ==
    /\ pc[p] = "finish"
    /\ claims[Target(p)].status = "claimed"
    /\ claims' = IF outcome[p] = "unreadable" THEN claims
                 ELSE [claims EXCEPT ![Target(p)] = Finished(p)]
    /\ audits' = [audits EXCEPT ![doing[p]] = @ \cup {Audited(p)}]
    /\ Goto(p, IF outcome[p] = "unreadable" THEN "idle" ELSE "record")
    /\ UNCHANGED <<latest, decision, names, drafts, thread, requests, faults>>

\* finish_new_page_revision_apply_claim: audits and claim in one transaction.
\* The row is claimed by this thread (WriterOwnsClaim), so the branches for a
\* claim that was finished before are not taken.
Finish(p) ==
    /\ pc[p] = "finish"
    /\ claims[Target(p)].status = "claimed"
    /\ claims' = [claims EXCEPT ![Target(p)] = Finished(p)]
    /\ audits' = [audits EXCEPT ![doing[p]] = @ \cup {Audited(p)}]
    /\ Goto(p, "record")
    /\ UNCHANGED <<latest, decision, names, drafts, thread, requests, faults>>

\* _persist_action_audit_pair: the audit of a refused request, or once more
\* that of a finished one.
Record(p) ==
    /\ pc[p] = "record"
    /\ audits' = [audits EXCEPT ![doing[p]] = @ \cup {Audited(p)}]
    /\ End(p)
    /\ UNCHANGED <<latest, decision, names, claims, drafts, requests, faults>>

\* The process dies, or something apply_action does not catch is raised.
Abandon(p) ==
    /\ pc[p] # "idle"
    /\ faults < MaxFaults
    /\ faults' = faults + 1
    /\ End(p)
    /\ UNCHANGED <<rows, drafts, requests>>

-----------------------------------------------------------------------------
ThreadStep(p) ==
    \/ Acquire(p)
    \/ Refused(p)
    \/ NothingCreated(p)
    \/ CreateDraft(p)
    \/ Finish(p)
    \/ Record(p)

Next ==
    \/ AppendRevision
    \/ \E verdict \in {"approved", "rejected"} : RecordReview(verdict)
    \/ \E a \in Actions : CreateAction(a) \/ RequestBlocked(a)
    \/ \E p \in Threads, a \in Actions : RequestApply(p, a)
    \/ \E p \in Threads : ThreadStep(p) \/ Abandon(p)

Spec == Init /\ [][Next]_vars

\* A running thread is scheduled, and every remote call of the executor times
\* out; nothing obliges people.
Fairness == \A p \in Threads : WF_vars(ThreadStep(p))

FairSpec == Spec /\ Fairness

-----------------------------------------------------------------------------
(* Properties.                                                             *)

\* A thread that may write, or wrote and has not recorded it, holds the claim
\* of its revision in the name of its own action, and no other thread does.
WriterOwnsClaim ==
    /\ \A p \in Threads : pc[p] \in Writing =>
         /\ Target(p) # 0
         /\ claims[Target(p)].status = "claimed"
         /\ claims[Target(p)].act = doing[p]
    /\ \A p, q \in Threads :
         pc[p] \in Writing /\ pc[q] \in Writing /\ Target(p) = Target(q) => p = q

\* An approved revision becomes at most one WordPress draft, whatever actions
\* name it, whoever dies and however often it is approved again ("Ponowienie
\* mogloby utworzyc duplikat", apply_lifecycle).
OneDraftPerRevision == \A x, y \in drafts : x.rev = y.rev => x = y

\* The revision an action applied.
AppliedBy(a, r) == names[a] = r /\ claims[r].status = "applied" /\ claims[r].act = a

\* result_for_action
Recovered(a) == {claims[r].post : r \in {s \in Revisions : AppliedBy(a, s)}} \ {0}

\* The draft recovered for an action is one that a request of this very action
\* made of the revision it names, never the draft of a sibling action.
RecoveredIsOwn ==
    \A a \in Actions : \A i \in Recovered(a) :
        [id |-> i, rev |-> names[a], act |-> a] \in drafts

\* A revision is applied by an action exactly when that is audited, also after
\* a crash: claim and audit are one transaction, and nobody else is told that
\* the revision was applied.
AppliedIffAudited ==
    \A a \in Actions :
        "applied" \in audits[a] <=> \E r \in Revisions : AppliedBy(a, r)

\* A claim is resolved, unless the request that took it was abandoned.
ClaimSettles ==
    \A r \in Revisions :
        claims[r].status = "claimed" ~> claims[r].status # "claimed" \/ faults > 0

\* The consent to a revision: what its row and its drafts say of it.
Phases ==
    [r \in Revisions |->
        CASE claims[r].status = "none" -> "open"
          [] claims[r].status = "claimed" -> "taken"
          [] OTHER -> "spent"]
DraftIds(r) == {x.id : x \in {y \in drafts : y.rev = r}}
Made == [r \in Revisions |-> DraftIds(r)]
Answers == [r \in Revisions |-> {claims[r].post} \ {0}]

Consent == INSTANCE ConsentLedger WITH
    Consents <- Revisions,
    Products <- Requests,
    phase <- Phases,
    made <- Made,
    answer <- Answers

\* The rows keep the promises of a one-time consent: a claim is taken once and
\* for good, one draft at most is made under it, and the answer names it.
ImplementsConsent == Consent!Spec
=============================================================================
