-------------------------- MODULE ResearchPromotion --------------------------
(***************************************************************************)
(* Promoting a researched claim to a source fact, on the word of one local *)
(* principal (wilq/actions/service and its lifecycles,                     *)
(* wilq/content/workflow/research_promotion_authority,                     *)
(* wilq/audit/trusted_local_confirmation).                                 *)
(*                                                                         *)
(* One promotion action.  Its audit stream, the receipts of the consumed   *)
(* grants and the promotion receipt live in three SQLite files, so a       *)
(* request that uses them does so in as many transactions.  Preview,       *)
(* review, confirm, impact check and apply are requests of a thread pool:  *)
(* each loads the action, establishes its principal, builds one audit      *)
(* event from what it loaded, and saves it.                                *)
(***************************************************************************)
EXTENDS Integers, Sequences, FiniteSets

CONSTANTS
    Threads,      \* requests that may be in flight at once
    MaxEvents,    \* bound of the model: no request once so many were stamped
    MaxStray,     \* bound of the model: nor once so many of them are stray
    MaxGrants,    \* bound of the model on issued grants
    Lifetimes,    \* lifetimes a grant may be issued with
    MaxChanges,   \* bound of the model on changes of the candidate
    MaxFailures   \* bound of the model on events that cannot be saved

Operations == {"preview", "approve", "object", "confirm", "impact_check",
               "apply"}

ASSUME ResearchPromotionAssumption ==
    /\ Threads # {}
    /\ MaxEvents \in Nat
    /\ MaxStray \in Nat
    /\ MaxGrants \in Nat
    /\ Lifetimes \subseteq Nat \ {0}
    /\ MaxChanges \in Nat
    /\ MaxFailures \in Nat

VARIABLES
    clock,       \* the time; it passes whenever an event is stamped
    events,      \* audit_events of the action, in the order they were saved
    grants,      \* expires_at of each issued grant
    receipts,    \* trusted_local_principal_receipts
    promotion,   \* content_research_fact_promotion_receipts
    fresh,       \* whether the candidate still gives the promoted snapshot
    valid,       \* validation_status "valid" with status "ready_to_apply"
    request,     \* what each thread is doing, and what it has learnt
    pc,          \* where each thread is
    changes,
    failures

vars == <<clock, events, grants, receipts, promotion, fresh, valid, request,
          pc, changes, failures>>

\* What is asked of one principal; a preview is not.
Trusted == Operations \ {"preview"}

Reviews == {"approved", "objected"}
Lifecycle == {"confirmed", "confirmation_blocked", "impact", "impact_blocked"}
Applies == {"applied", "apply_blocked"}
EventTypes == {"preview"} \cup Reviews \cup Lifecycle \cup Applies

\* The four events a promotion needs, each exactly once.
ChainTypes == {"preview", "approved", "confirmed", "impact"}

\* `trust` is the principal receipt the event was stamped with, 0 if none.
Event == [type : EventTypes, at : Nat, trust : Nat]
NoEvent == [type |-> "none", at |-> 0, trust |-> 0]

\* A receipt of the promotion: the time stamps, that is the identities, of
\* the events it names; `trust` and `read` record by whom the apply was
\* authorised and how much of the stream it had read.
NoPromotion == [chain |-> {}, trust |-> 0, read |-> 0]

\* `allowed` is what the events and the state loaded with the action say of
\* the operation, `read` how much of the stream the adapter has read.
Idle == [op |-> "none", token |-> 0, allowed |-> FALSE, trust |-> 0,
         read |-> 0, event |-> NoEvent]

Places == {"idle", "loaded", "trusted", "reading", "checking", "recording",
           "stamping", "saving"}

TypeOK ==
    /\ clock \in Nat
    /\ events \in Seq(Event)
    /\ grants \in Seq(Nat)
    /\ Len(grants) <= MaxGrants
    /\ receipts \in Seq([grant : 1 .. Len(grants), at : 0 .. clock])
    /\ promotion \in [chain : SUBSET Nat, trust : 0 .. Len(receipts),
                      read : 0 .. Len(events)]
    /\ fresh \in BOOLEAN
    /\ valid \in BOOLEAN
    /\ request \in [Threads ->
          [op : Operations \cup {"none"}, token : 0 .. Len(grants),
           allowed : BOOLEAN, trust : 0 .. Len(receipts),
           read : 0 .. Len(events), event : Event \cup {NoEvent}]]
    /\ pc \in [Threads -> Places]
    /\ \A t \in Threads :
          /\ pc[t] = "idle" => request[t] = Idle
          /\ pc[t] = "saving" => request[t].event \in Event
          /\ pc[t] \notin {"idle", "saving"} => request[t].op \in Operations
    /\ changes \in 0 .. MaxChanges
    /\ failures \in 0 .. MaxFailures

Init ==
    /\ clock = 0
    /\ events = <<>>
    /\ grants = <<>>
    /\ receipts = <<>>
    /\ promotion = NoPromotion
    /\ fresh = TRUE
    /\ valid = FALSE
    /\ request = [t \in Threads |-> Idle]
    /\ pc = [t \in Threads |-> "idle"]
    /\ changes = 0
    /\ failures = 0

----------------------------------------------------------------------------
(***************************************************************************)
(* What a request concludes from the events it has read.                   *)
(***************************************************************************)

Has(n, type) == \E i \in 1 .. n : events[i].type = type

\* The newest of the first n events whose type is one of `types` is a `type`;
\* the stream is sorted by the time an event was stamped, not saved.
NewestIs(n, types, type) ==
    \E i \in 1 .. n :
        /\ events[i].type = type
        /\ \A j \in 1 .. n :
              events[j].type \in types => events[j].at <= events[i].at

ReviewApproved(n) == NewestIs(n, Reviews, "approved")

\* After its own receipt the action is rebuilt without looking at the
\* candidate, which the promoted fact would make look different.
Ready == promotion # NoPromotion \/ fresh

CandidateAgrees == promotion = NoPromotion /\ fresh

\* The blockers of each operation, from the persisted events, the validation
\* state and the candidate as they are when the action is loaded.
Allowed(op) ==
    LET n == Len(events)
    IN  CASE op = "confirm" ->
                Ready /\ Has(n, "preview") /\ ReviewApproved(n)
          [] op = "impact_check" ->
                Ready /\ Has(n, "confirmed") /\ ReviewApproved(n)
          [] op = "apply" ->
                /\ Ready /\ valid
                /\ Has(n, "preview") /\ Has(n, "confirmed")
                /\ NewestIs(n, {"impact", "impact_blocked"}, "impact")
                /\ ReviewApproved(n)
          [] OTHER -> TRUE

\* Mutant: the four events, whatever else was said.
ChainAmongOthers(stream, n, ignored, trust) ==
    \E p, r, c, m \in 1 .. n :
        /\ stream[p].type = "preview" /\ stream[r].type = "approved"
        /\ stream[c].type = "confirmed" /\ stream[m].type = "impact"
        /\ stream[p].at < stream[r].at
        /\ stream[r].at < stream[c].at
        /\ stream[c].at < stream[m].at
        /\ \A i \in {r, c, m} : trust # 0 /\ stream[i].trust = trust

\* The first n events of the stream are the four and no other, stamped in their order,
\* and all but the preview carry the receipt of the one who applies.
Chain(stream, n, ignored, trust) ==
    LET kept == {i \in 1 .. n : stream[i].type \notin ignored}
    IN  /\ Cardinality(kept) = Cardinality(ChainTypes)
        /\ \E p, r, c, m \in kept :
              /\ stream[p].type = "preview" /\ stream[r].type = "approved"
              /\ stream[c].type = "confirmed" /\ stream[m].type = "impact"
              /\ stream[p].at < stream[r].at
              /\ stream[r].at < stream[c].at
              /\ stream[c].at < stream[m].at
        /\ \A i \in kept : stream[i].type # "preview" =>
                               trust # 0 /\ stream[i].trust = trust

----------------------------------------------------------------------------
(***************************************************************************)
(* The surroundings.                                                       *)
(***************************************************************************)

\* The operator answers the prompt of scripts/trusted_local_confirmation.
IssueGrant ==
    /\ Len(grants) < MaxGrants
    /\ \E ttl \in Lifetimes : grants' = Append(grants, clock + ttl)
    /\ UNCHANGED <<clock, events, receipts, promotion, fresh, valid, request,
                   pc, changes, failures>>

\* The page, its identity or its classification changes, or changes back.
CandidateChanges ==
    /\ changes < MaxChanges
    /\ changes' = changes + 1
    /\ fresh' = ~fresh
    /\ UNCHANGED <<clock, events, grants, receipts, promotion, valid, request,
                   pc, failures>>

\* validate_action: whether the loaded payload is free of blockers is kept
\* with the action, until the next validation.
Validate ==
    /\ valid' = Ready
    /\ UNCHANGED <<clock, events, grants, receipts, promotion, fresh, request,
                   pc, changes, failures>>

\* The events a promotion cannot use: those besides one of each type of its
\* chain, those that carry no receipt, and those besides one success.
Stray ==
    LET useful == {i \in DOMAIN events : events[i].type = "preview"
                                           \/ events[i].trust # 0}
    IN  Len(events) - Cardinality({events[i].type : i \in useful}
                                      \cap (ChainTypes \cup {"applied"}))

----------------------------------------------------------------------------
(***************************************************************************)
(* A request.                                                              *)
(***************************************************************************)

Goto(t, place) == pc' = [pc EXCEPT ![t] = place]

Finish(t) == Goto(t, "idle") /\ request' = [request EXCEPT ![t] = Idle]

\* get_action: the rebuilt action with its persisted events and validation.
Load(t, op, token) ==
    /\ pc[t] = "idle" /\ clock < MaxEvents /\ Stray <= MaxStray
    /\ (op \notin Trusted => token = 0)
    /\ Goto(t, IF op \in Trusted THEN "loaded" ELSE "trusted")
    /\ request' = [request EXCEPT ![t] =
           [op |-> op, token |-> token, allowed |-> Allowed(op), trust |-> 0,
            read |-> 0, event |-> NoEvent]]
    /\ UNCHANGED <<clock, events, grants, receipts, promotion, fresh, valid,
                   changes, failures>>

Live(receipt) == clock < grants[receipts[receipt].grant]

\* Mutant: requests that present a grant at the same time all find it unused.
UnusedBefore(grant) ==
    \A i \in DOMAIN receipts : receipts[i].grant = grant => receipts[i].at = clock

Unused(grant) == \A i \in DOMAIN receipts : receipts[i].grant # grant

\* TrustedLocalConfirmationAuthority.consume: one transaction looks the
\* grant up and inserts its receipt.
ConsumeGrant(t) ==
    /\ pc[t] = "loaded"
    /\ LET token == request[t].token
       IN  /\ token # 0
           /\ clock < grants[token]
           /\ Unused(token)
           /\ receipts' = Append(receipts, [grant |-> token, at |-> clock])
    /\ Goto(t, "trusted")
    /\ request' = [request EXCEPT ![t].trust = Len(receipts')]
    /\ UNCHANGED <<clock, events, grants, promotion, fresh, valid, changes,
                   failures>>

\* receipt_for: without a grant, the receipt consumed last.
FindReceipt(t) ==
    /\ pc[t] = "loaded"
    /\ request[t].token = 0
    /\ \E r \in {0} \cup DOMAIN receipts :
          /\ IF r = 0 THEN receipts = <<>>
             ELSE /\ \A i \in DOMAIN receipts : receipts[i].at <= receipts[r].at
                  /\ Live(r)
          /\ request' = [request EXCEPT ![t].trust = r]
    /\ Goto(t, "trusted")
    /\ UNCHANGED <<clock, events, grants, receipts, promotion, fresh, valid,
                   changes, failures>>

\* A used or expired grant, or an expired receipt, ends the request with a
\* conflict and leaves no event.
Mistrust(t) ==
    /\ pc[t] = "loaded"
    /\ LET token == request[t].token
       IN  IF token # 0
           THEN ~(clock < grants[token] /\ Unused(token))
           ELSE \E r \in DOMAIN receipts :
                   /\ \A i \in DOMAIN receipts :
                         receipts[i].at <= receipts[r].at
                   /\ ~Live(r)
    /\ Finish(t)
    /\ UNCHANGED <<clock, events, grants, receipts, promotion, fresh, valid,
                   changes, failures>>

\* The event is built, and with it the time it claims to be from.
Stamp(t, type) ==
    /\ clock' = clock + 1
    /\ request' = [request EXCEPT ![t] =
           [Idle EXCEPT !.event = [type |-> type, at |-> clock,
                                   trust |-> request[t].trust]]]
    /\ Goto(t, "saving")
    /\ UNCHANGED <<events, grants, receipts, promotion, fresh, valid, changes,
                   failures>>

\* preview_action, record_action_review, confirm_action and
\* impact_check_action: the type of the event follows from what was loaded, and
\* of a confirmation from its own preview_acknowledged too.
BuildEvent(t) ==
    /\ pc[t] = "trusted"
    /\ LET q == request[t]
       IN  \/ q.op = "preview" /\ Stamp(t, "preview")
           \/ q.op = "approve" /\ Stamp(t, "approved")
           \/ q.op = "object" /\ Stamp(t, "objected")
           \/ q.op = "confirm"
              /\ \/ q.allowed /\ Stamp(t, "confirmed")
                 \/ Stamp(t, "confirmation_blocked")
           \/ q.op = "impact_check"
              /\ Stamp(t, IF q.allowed THEN "impact"
                          ELSE "impact_blocked")

\* Mutant: the thread goes on with what it had learnt.
SaveEventKeepsRequest(t) ==
    /\ pc[t] = "saving"
    /\ events' = Append(events, request[t].event)
    /\ Goto(t, "idle")
    /\ UNCHANGED <<clock, grants, receipts, promotion, fresh, valid, request,
                   changes, failures>>

SaveEvent(t) ==
    /\ pc[t] = "saving"
    /\ events' = Append(events, request[t].event)
    /\ Finish(t)
    /\ UNCHANGED <<clock, grants, receipts, promotion, fresh, valid, changes,
                   failures>>

\* The audit database stays locked or the server ends: the request is lost,
\* and with it the event; what the request did elsewhere stays.
SaveFails(t) ==
    /\ pc[t] = "saving" /\ failures < MaxFailures
    /\ failures' = failures + 1
    /\ Finish(t)
    /\ UNCHANGED <<clock, events, grants, receipts, promotion, fresh, valid,
                   changes>>

----------------------------------------------------------------------------
(***************************************************************************)
(* apply_action: preflight on what was loaded, then the adapter, which     *)
(* reads the stream again, and at last the audit event of the outcome.     *)
(***************************************************************************)

ApplyBlocked(t) == Stamp(t, "apply_blocked")

\* The preflight refuses what was loaded, or a request without its confirm or
\* confirmed_by, whatever was loaded.
PreflightBlocks(t) ==
    /\ pc[t] = "trusted" /\ request[t].op = "apply"
    /\ ApplyBlocked(t)

\* The execution context: the persisted events, before anything else.
ReadStream(t) ==
    /\ pc[t] = "trusted" /\ request[t].op = "apply"
    /\ request[t].allowed
    /\ request' = [request EXCEPT ![t].read = Len(events)]
    /\ Goto(t, "reading")
    /\ UNCHANGED <<clock, events, grants, receipts, promotion, fresh, valid,
                   changes, failures>>

\* execute_research_fact_promotion up to the existing receipt, which, when
\* there is one, makes the request a replay of the same chain.
Replay(t) ==
    /\ pc[t] = "reading"
    /\ promotion # NoPromotion
    /\ IF Chain(events, request[t].read, {"applied"}, request[t].trust)
       THEN Stamp(t, "applied")
       ELSE ApplyBlocked(t)

VerifyChain(t) ==
    /\ pc[t] = "reading"
    /\ promotion = NoPromotion
    /\ IF Chain(events, request[t].read, {}, request[t].trust)
       THEN /\ Goto(t, "checking")
            /\ UNCHANGED <<clock, events, grants, receipts, promotion, fresh,
                           valid, request, changes, failures>>
       ELSE ApplyBlocked(t)

\* Mutant: the success is told before it is recorded.
CheckCandidateTellsFirst(t) ==
    /\ pc[t] = "checking"
    /\ CandidateAgrees
    /\ Goto(t, "stamping")
    /\ UNCHANGED <<clock, events, grants, receipts, promotion, fresh, valid,
                   request, changes, failures>>

\* The candidate is built once more and compared with the snapshot.
CheckCandidate(t) ==
    /\ pc[t] = "checking"
    /\ IF CandidateAgrees
       THEN /\ Goto(t, "recording")
            /\ UNCHANGED <<clock, events, grants, receipts, promotion, fresh,
                           valid, request, changes, failures>>
       ELSE ApplyBlocked(t)

\* Mutant: nothing is told of the promotion.
RecordPromotionSilently(t) ==
    /\ pc[t] = "recording"
    /\ promotion = NoPromotion
    /\ promotion' = [chain |-> {events[i].at : i \in 1 .. request[t].read},
                     trust |-> request[t].trust, read |-> request[t].read]
    /\ Finish(t)
    /\ UNCHANGED <<clock, events, grants, receipts, fresh, valid, changes,
                   failures>>

\* record_research_fact_promotion_receipt: the first receipt is kept; another
\* one has its own recorded_at, hence another digest, and is a conflict.
RecordPromotion(t) ==
    /\ pc[t] = "recording"
    /\ promotion = NoPromotion
    /\ promotion' = [chain |-> {events[i].at : i \in 1 .. request[t].read},
                     trust |-> request[t].trust, read |-> request[t].read]
    /\ Goto(t, "stamping")
    /\ UNCHANGED <<clock, events, grants, receipts, fresh, valid, request,
                   changes, failures>>

RecordConflict(t) ==
    /\ pc[t] = "recording"
    /\ promotion # NoPromotion
    /\ ApplyBlocked(t)

ApplySucceeds(t) == pc[t] = "stamping" /\ Stamp(t, "applied")

----------------------------------------------------------------------------
ThreadStep(t) ==
    \/ ConsumeGrant(t) \/ FindReceipt(t) \/ Mistrust(t)
    \/ BuildEvent(t) \/ SaveEvent(t) \/ SaveFails(t)
    \/ PreflightBlocks(t) \/ ReadStream(t) \/ Replay(t) \/ VerifyChain(t)
    \/ CheckCandidate(t) \/ RecordPromotion(t) \/ RecordConflict(t)
    \/ ApplySucceeds(t)

Next ==
    \/ \E t \in Threads :
          \/ \E op \in Operations, token \in {0} \cup DOMAIN grants :
                Load(t, op, token)
          \/ ThreadStep(t)
    \/ IssueGrant \/ CandidateChanges \/ Validate

Spec == Init /\ [][Next]_vars

----------------------------------------------------------------------------
(***************************************************************************)
(* Properties.                                                             *)
(***************************************************************************)

\* A grant, issued for a single use, is never turned into two receipts,
\* however many requests present it at once (the replay check of consume).
SingleUse ==
    \A i, j \in DOMAIN receipts :
        receipts[i].grant = receipts[j].grant => i = j

\* A promoted fact rests on a preview and an approval, stamped in this order but
\* saved in either, then a confirmation, saved when both could be seen, then an
\* impact check, saved when the confirmation could be.  Nothing else was said
\* before the apply read the stream.  All but the preview carry one principal
\* receipt, consumed by the approval's time; and whatever is said on the word of
\* one grant, for the promotion or against it, is said on one receipt.
PromotionIsWitnessed ==
    /\ \A i, j \in DOMAIN events :
          /\ events[i].trust # 0 /\ events[j].trust # 0
          /\ receipts[events[i].trust].grant = receipts[events[j].trust].grant
          => events[i].trust = events[j].trust
    /\ promotion # NoPromotion =>
          LET said(type) == {i \in 1 .. promotion.read : events[i].type = type}
          IN  /\ promotion.read = 4 /\ promotion.trust # 0
              /\ \A i \in 1 .. 4 : events[i].at \in promotion.chain
              /\ \E p, r \in 1 .. 2 :
                    /\ p \in said("preview") /\ r \in said("approved")
                    /\ events[p].at < events[r].at
                    /\ events[r].trust = promotion.trust
                    /\ receipts[promotion.trust].at <= events[r].at
              /\ 3 \in said("confirmed") /\ 4 \in said("impact")
              /\ \A i \in {3, 4} : events[i].trust = promotion.trust

\* What the audit stream calls a successful apply, the first one or a
\* replay, is the promotion that is stored, told to the principal whose
\* receipt its chain carries.
SuccessIsPromoted ==
    \A i \in DOMAIN events :
        events[i].type = "applied" =>
            /\ promotion # NoPromotion
            /\ events[i].trust = promotion.trust

\* When no request is in flight and no event was lost, a stored promotion
\* has its audit event: the two databases agree again.
PromotionIsAudited ==
    (promotion # NoPromotion /\ failures = 0
        /\ \A t \in Threads : pc[t] = "idle") =>
        \E i \in DOMAIN events : events[i].type = "applied"

=============================================================================
