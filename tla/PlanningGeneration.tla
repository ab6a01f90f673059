------------------------- MODULE PlanningGeneration -------------------------
(***************************************************************************)
(* Asynchronous generation of content plans for ONE work item and ONE      *)
(* planning subject (wilq/content/planning).                               *)
(*                                                                         *)
(* An "attempt" is one POST of a planning request: the HTTP handler that   *)
(* enqueues the job and claims its execution and, when the claim is        *)
(* acquired, the executor worker that runs the Codex turn for it.  Every   *)
(* durable row lives in SQLite; each action is one of its transactions or  *)
(* one read outside a transaction.  A crash loses the attempts and keeps   *)
(* the rows.                                                               *)
(***************************************************************************)
EXTENDS Integers, FiniteSets

CONSTANTS
    Attempts,      \* planning requests, each with the worker it may start
    Digests,       \* exact planning-input digests of the subject
    Bindings,      \* refresh-preparation authorizations
    NoBinding,     \* a request that carries no refresh authorization
    MaxWorkers,    \* threads of _PLANNING_GENERATION_EXECUTOR
    StaleAfter,    \* planning_job_stale_after_seconds(), in clock ticks
    MaxClock,      \* bound of the model on time
    MaxFaults      \* bound of the model on crashes, failed submits, failed saves

ASSUME ConstantsAssumption ==
    /\ NoBinding \notin Bindings
    /\ MaxWorkers \in Nat \ {0}
    /\ StaleAfter \in Nat
    /\ MaxClock \in Nat
    /\ MaxFaults \in Nat

VARIABLES
    clock,      \* wall clock of the API process and of SQLite
    authority,  \* the binding the current classification authorizes
    job,        \* content_planning_generation_jobs, one row per digest
    claim,      \* content_planning_generation_claims, one row per digest
    plans,      \* content_planning_proposals and ..._proposal_repairs
    run,        \* codex_runs: the planning run an attempt started
    pc,         \* where each attempt is
    req,        \* the request of each attempt
    ver,        \* the claim version an attempt acquired, 0 before
    reply,      \* the response an attempt carries to its terminal save
    faults      \* crashes and failures injected so far

vars == <<clock, authority, job, claim, plans, run, pc, req, ver, reply, faults>>

AnyBinding == Bindings \cup {NoBinding}

Request == [digest : Digests, binding : AnyBinding, regen : BOOLEAN]
NoRequest == [digest |-> "none", binding |-> NoBinding, regen |-> FALSE]

\* ContentPlanningProposalResponse.status, with the claim_stale response of a
\* fenced write kept apart.
GoodReply == {"created", "idempotent"}
BadReply == {"blocked", "failed", "stale"}

JobStatus == {"none", "queued", "finished"} \cup BadReply
ClaimStatus == {"none", "claimed", "finished", "failed"}
RunStatus == {"none", "started", "completed", "failed", "blocked"}

\* The handler: enqueue, confirm, claim, submit.  The worker: pending (in the
\* executor's queue), prepare, turn, persist, context, save, update, finish.
Handling == {"enqueue", "confirm", "claim", "submit"}
Working == {"prepare", "turn", "persist", "context", "save", "update", "finish"}
PC == {"idle", "pending", "done", "dead"} \cup Handling \cup Working

Settled(p) == pc[p] \in {"idle", "done", "dead"}

-----------------------------------------------------------------------------
(* Reads of the store *)

\* job_is_stale and _claim_is_stale: older than the Codex deadline, zero grace.
Expired(at) == clock - at > StaleAfter

FreshQueued(d) == job[d].status = "queued" /\ ~Expired(job[d].at)

\* Mutant: the deadline itself already counts as expired.
LiveClaimOffByOne(d) == claim[d].status = "claimed" /\ clock - claim[d].at < StaleAfter

LiveClaim(d) == claim[d].status = "claimed" /\ ~Expired(claim[d].at)

PlansFor(d) == {x \in plans : x.digest = d}

\* _proposal_row_for_subject_input: the row with the highest version.
LatestPlan(d) ==
    CHOOSE x \in PlansFor(d) : \A y \in PlansFor(d) : y.version <= x.version

\* _next_proposal_version: MAX over both tables of the work item, plus one.
NextVersion ==
    IF plans = {} THEN 1
    ELSE (CHOOSE v \in {x.version : x \in plans} :
             \A x \in plans : x.version <= v) + 1

\* Mutant: the fence forgets the claim version.
OwnsAnyVersion(p) ==
    LET c == claim[req[p].digest]
    IN  c.status = "claimed" /\ c.binding = req[p].binding

\* The claim row still names this attempt's acquisition.
Owns(p) ==
    LET c == claim[req[p].digest]
    IN  /\ c.status = "claimed"
        /\ c.version = ver[p]
        /\ c.binding = req[p].binding

-----------------------------------------------------------------------------
(* Initial state: an empty store, no attempt made yet *)

NoJob == [status |-> "none", at |-> 0, binding |-> NoBinding]
NoClaim == [status |-> "none", version |-> 0, at |-> 0, binding |-> NoBinding]
NoReply == [status |-> "none", binding |-> NoBinding]

Init ==
    /\ clock = 0
    /\ authority \in AnyBinding
    /\ job = [d \in Digests |-> NoJob]
    /\ claim = [d \in Digests |-> NoClaim]
    /\ plans = {}
    /\ run = [p \in Attempts |-> "none"]
    /\ pc = [p \in Attempts |-> "idle"]
    /\ req = [p \in Attempts |-> NoRequest]
    /\ ver = [p \in Attempts |-> 0]
    /\ reply = [p \in Attempts |-> NoReply]
    /\ faults = 0

durable == <<job, claim, plans, run>>

Goto(p, l) == pc' = [pc EXCEPT ![p] = l]

-----------------------------------------------------------------------------
(* The HTTP handler *)

\* Preflight of a POST.  The binding is the one the current classification
\* authorizes; a stored plan for the exact input answers the request unless it
\* asks for a regeneration, and an unbound stored plan always blocks a bound
\* request.  A request that is answered here changes nothing.
Post(p, d, r) ==
    /\ pc[p] = "idle"
    /\ (PlansFor(d) # {}) =>
          /\ r
          /\ authority # NoBinding => LatestPlan(d).binding # NoBinding
    /\ req' = [req EXCEPT ![p] = [digest |-> d, binding |-> authority, regen |-> r]]
    /\ Goto(p, "enqueue")
    /\ UNCHANGED <<clock, authority, durable, ver, reply, faults>>

\* Mutant: a sibling blocks the request only once it is stale.
SiblingStaleQueued(d) ==
    \E e \in Digests \ {d} : job[e].status = "queued" /\ Expired(job[e].at)

SiblingFreshQueued(d) == \E e \in Digests \ {d} : FreshQueued(e)

\* _enqueue_subject_pending: one BEGIN IMMEDIATE transaction.
Enqueue(p) ==
    LET d == req[p].digest
    IN  /\ pc[p] = "enqueue"
        /\ \/ /\ job[d].status = "finished" /\ ~req[p].regen
              /\ Goto(p, "done")
              /\ UNCHANGED job
           \/ /\ FreshQueued(d)
              /\ Goto(p, "confirm")
              /\ UNCHANGED job
           \/ /\ ~(job[d].status = "finished" /\ ~req[p].regen)
              /\ ~FreshQueued(d)
              /\ SiblingFreshQueued(d)
              /\ Goto(p, "done")
              /\ UNCHANGED job
           \/ /\ ~(job[d].status = "finished" /\ ~req[p].regen)
              /\ ~FreshQueued(d)
              /\ ~SiblingFreshQueued(d)
              /\ job' = [job EXCEPT ![d] = [status |-> "queued", at |-> clock,
                                            binding |-> req[p].binding]]
              /\ Goto(p, "claim")
        /\ UNCHANGED <<clock, authority, claim, plans, run, req, ver, reply, faults>>

\* The outcome was "existing": queued_subject_response re-reads the row outside
\* the transaction; a row with another binding ends the request, and a row that
\* finished or went stale meanwhile does not.
Confirm(p) ==
    LET j == job[req[p].digest]
        readable == \/ j.status \in BadReply
                    \/ j.status = "queued" /\ ~Expired(j.at)
    IN  /\ pc[p] = "confirm"
        /\ Goto(p, IF readable /\ j.binding # req[p].binding THEN "done" ELSE "claim")
        /\ UNCHANGED <<clock, authority, durable, req, ver, reply, faults>>

\* Mutant: taking an expired claim over keeps its version.
ClaimKeepsVersion(p) ==
    LET d == req[p].digest
        v == IF claim[d].version = 0 THEN 1 ELSE claim[d].version
    IN  /\ pc[p] = "claim"
        /\ ~LiveClaim(d)
        /\ claim' = [claim EXCEPT ![d] = [status |-> "claimed", version |-> v,
                                          at |-> clock, binding |-> req[p].binding]]
        /\ ver' = [ver EXCEPT ![p] = v]
        /\ Goto(p, "submit")
        /\ UNCHANGED <<clock, authority, job, plans, run, req, reply, faults>>

\* ContentPlanningGenerationClaimStore.claim.
Claim(p) ==
    LET d == req[p].digest
    IN  /\ pc[p] = "claim"
        /\ \/ /\ LiveClaim(d)
              /\ Goto(p, "done")
              /\ UNCHANGED <<claim, ver>>
           \/ /\ ~LiveClaim(d)
              /\ claim' = [claim EXCEPT ![d] =
                             [status |-> "claimed", version |-> @.version + 1,
                              at |-> clock, binding |-> req[p].binding]]
              /\ ver' = [ver EXCEPT ![p] = claim[d].version + 1]
              /\ Goto(p, "submit")
        /\ UNCHANGED <<clock, authority, job, plans, run, req, reply, faults>>

Submit(p) ==
    /\ pc[p] = "submit"
    /\ Goto(p, "pending")
    /\ UNCHANGED <<clock, authority, durable, req, ver, reply, faults>>

\* A terminal response is built.  terminal_response_with_refresh_context is the
\* identity for an unbound attempt; a bound one goes through "context".
Conclude(p, s, b) ==
    /\ reply' = [reply EXCEPT ![p] = [status |-> s, binding |-> b]]
    /\ Goto(p, IF req[p].binding = NoBinding THEN "save" ELSE "context")

\* The queued input summary a bound terminal response needs can be read.
ContextReadable(p) == job[req[p].digest].status \in {"queued"} \cup BadReply

\* executor.submit raised.  The handler writes the failed response itself; when
\* the context of a bound request cannot be read, that raises in turn and the
\* claim is left claimed.
SubmitFails(p) ==
    /\ pc[p] = "submit"
    /\ faults < MaxFaults
    /\ faults' = faults + 1
    /\ reply' = [reply EXCEPT ![p] = [status |-> "failed", binding |-> req[p].binding]]
    /\ Goto(p, IF req[p].binding = NoBinding \/ ContextReadable(p)
               THEN "save" ELSE "done")
    /\ UNCHANGED <<clock, authority, durable, req, ver>>

-----------------------------------------------------------------------------
(* The worker: run_queued_planning_generation *)
\* Mutant: a finished worker keeps its thread.
StartLeaksThreads(p) ==
    /\ pc[p] = "pending"
    /\ Cardinality({q \in Attempts : ver[q] > 0 /\ pc[q] # "pending"}) < MaxWorkers
    /\ Goto(p, "prepare")
    /\ UNCHANGED <<clock, authority, durable, req, ver, reply, faults>>

Start(p) ==
    /\ pc[p] = "pending"
    /\ Cardinality({q \in Attempts : pc[q] \in Working}) < MaxWorkers
    /\ Goto(p, "prepare")
    /\ UNCHANGED <<clock, authority, durable, req, ver, reply, faults>>

\* The guard blocks, the snapshot cannot be loaded, the input moved to another
\* digest, or a stored plan answers the attempt.  No run is started.
PrepareEarly(p) ==
    /\ pc[p] = "prepare"
    /\ \/ \E s \in BadReply : Conclude(p, s, req[p].binding)
       \/ /\ PlansFor(req[p].digest) # {} /\ ~req[p].regen
          /\ Conclude(p, "idempotent", LatestPlan(req[p].digest).binding)
    /\ UNCHANGED <<clock, authority, durable, req, ver, faults>>

\* _prepare_generation returns an input and _start_run inserts the run.  A
\* stored plan does not prevent it when the plan has quality errors or its
\* inventory mapping is no longer current, so this is possible in any store.
StartRun(p) ==
    /\ pc[p] = "prepare"
    /\ run' = [run EXCEPT ![p] = "started"]
    /\ Goto(p, "turn")
    /\ UNCHANGED <<clock, authority, job, claim, plans, req, ver, reply, faults>>

\* _run_planning_turn returned no output: _finish_run upserts the terminal run.
TurnFails(p) ==
    /\ pc[p] = "turn"
    /\ \E s \in {"failed", "blocked"} :
          /\ run' = [run EXCEPT ![p] = s]
          /\ Conclude(p, s, req[p].binding)
    /\ UNCHANGED <<clock, authority, job, claim, plans, req, ver, faults>>

TurnSucceeds(p) ==
    /\ pc[p] = "turn"
    /\ Goto(p, "persist")
    /\ UNCHANGED <<clock, authority, durable, req, ver, reply, faults>>

\* The pre-persistence guard or the authorization blocks, or save_generated
\* raises and rolls back: the started run is finished, no plan is stored.  A
\* guard that raises leaves the run as it was started.
PersistRefused(p) ==
    /\ pc[p] = "persist"
    /\ \/ /\ run' = [run EXCEPT ![p] = "blocked"]
          /\ Conclude(p, "blocked", req[p].binding)
          /\ UNCHANGED faults
       \/ /\ faults < MaxFaults
          /\ faults' = faults + 1
          /\ \E s \in {"failed", "started"} : run' = [run EXCEPT ![p] = s]
          /\ Conclude(p, "failed", req[p].binding)
    /\ UNCHANGED <<clock, authority, job, claim, plans, req, ver>>

\* Mutant: the completed run is stored before the stored plan is looked up.
PersistIdempotentCompletes(p) ==
    LET d == req[p].digest
    IN  /\ pc[p] = "persist"
        /\ req[p].binding = authority
        /\ PlansFor(d) # {} /\ ~req[p].regen
        /\ run' = [run EXCEPT ![p] = "completed"]
        /\ Conclude(p, "idempotent", LatestPlan(d).binding)
        /\ UNCHANGED <<clock, authority, job, claim, plans, req, ver, faults>>

\* save_generated, one BEGIN IMMEDIATE transaction, is not fenced by the claim
\* version: assert_refresh_preparation_proposal_current has passed, and a
\* stored plan for the exact input wins unless the attempt regenerates.
\* Losing to a stored plan leaves the attempt's own run as it was started.
PersistIdempotent(p) ==
    LET d == req[p].digest
    IN  /\ pc[p] = "persist"
        /\ req[p].binding = authority
        /\ PlansFor(d) # {} /\ ~req[p].regen
        /\ Conclude(p, "idempotent", LatestPlan(d).binding)
        /\ UNCHANGED <<clock, authority, durable, req, ver, faults>>

\* Mutant: the exact input is not looked up again before the insert.
PersistPlanUnchecked(p) ==
    LET d == req[p].digest
    IN  /\ pc[p] = "persist"
        /\ req[p].binding = authority
        /\ plans' = plans \cup
             {[version |-> NextVersion, digest |-> d, binding |-> req[p].binding,
               by |-> p, repair |-> FALSE]}
        /\ run' = [run EXCEPT ![p] = "completed"]
        /\ Conclude(p, "created", req[p].binding)
        /\ UNCHANGED <<clock, authority, job, claim, req, ver, faults>>

\* Mutant: a regenerated plan overwrites the plan it supersedes.
PersistPlanOverwrites(p) ==
    LET d == req[p].digest
    IN  /\ pc[p] = "persist"
        /\ req[p].binding = authority
        /\ PlansFor(d) = {} \/ req[p].regen
        /\ plans' = (plans \ PlansFor(d)) \cup
             {[version |-> NextVersion, digest |-> d, binding |-> req[p].binding,
               by |-> p, repair |-> FALSE]}
        /\ run' = [run EXCEPT ![p] = "completed"]
        /\ Conclude(p, "created", req[p].binding)
        /\ UNCHANGED <<clock, authority, job, claim, req, ver, faults>>

\* The plan and its completed run are inserted together: the first plan of the
\* input in the proposals table, a regenerated one in the repairs table.
PersistPlan(p) ==
    LET d == req[p].digest
    IN  /\ pc[p] = "persist"
        /\ req[p].binding = authority
        /\ PlansFor(d) = {} \/ req[p].regen
        /\ plans' = plans \cup
             {[version |-> NextVersion, digest |-> d, binding |-> req[p].binding,
               by |-> p, repair |-> PlansFor(d) # {}]}
        /\ run' = [run EXCEPT ![p] = "completed"]
        /\ Conclude(p, "created", req[p].binding)
        /\ UNCHANGED <<clock, authority, job, claim, req, ver, faults>>

\* terminal_response_with_refresh_context of a bound attempt.  It raises when
\* the queued summary is gone or the returned plan has another binding; the
\* finally block then finishes the claim as failed without a terminal save.
Context(p) ==
    /\ pc[p] = "context"
    /\ IF ContextReadable(p) /\ reply[p].binding = req[p].binding
       THEN Goto(p, "save") /\ UNCHANGED reply
       ELSE Goto(p, "finish") /\ reply' = [reply EXCEPT ![p].status = "raised"]
    /\ UNCHANGED <<clock, authority, durable, req, ver, faults>>

\* _terminal_response_matches_durable_binding.  The SELECT runs before the
\* implicit transaction of the UPDATE is opened, so it is a step of its own.
CheckBinding(p) ==
    LET b == req[p].binding
    IN  /\ pc[p] = "save"
        /\ IF reply[p].binding = b /\ job[req[p].digest].binding = b
           THEN Goto(p, "update") /\ UNCHANGED reply
           ELSE Goto(p, "finish") /\ reply' = [reply EXCEPT ![p].status = "claim_stale"]
        /\ UNCHANGED <<clock, authority, durable, req, ver, faults>>

\* Mutant: only a failed response is told apart from a finished one.
SaveTerminalBlockedFinishes(p) ==
    LET d == req[p].digest
        s == IF reply[p].status = "failed" THEN "failed" ELSE "finished"
    IN  /\ pc[p] = "update" /\ Owns(p)
        /\ job' = [job EXCEPT ![d] = [status |-> s, at |-> clock,
                                      binding |-> reply[p].binding]]
        /\ Goto(p, "finish")
        /\ UNCHANGED <<clock, authority, claim, plans, run, req, ver, reply, faults>>

\* The UPDATE of _save_terminal_response replaces status and payload of the job
\* while the claim is still this acquisition, else the result is discarded.
SaveTerminal(p) ==
    LET d == req[p].digest
        s == IF reply[p].status \in BadReply THEN reply[p].status ELSE "finished"
    IN  /\ pc[p] = "update"
        /\ IF Owns(p)
           THEN /\ job' = [job EXCEPT ![d] = [status |-> s, at |-> clock,
                                               binding |-> reply[p].binding]]
                /\ UNCHANGED reply
           ELSE /\ reply' = [reply EXCEPT ![p].status = "claim_stale"]
                /\ UNCHANGED job
        /\ Goto(p, "finish")
        /\ UNCHANGED <<clock, authority, claim, plans, run, req, ver, faults>>

\* save_terminal_response_safely swallows an exception of the store and returns
\* the response as if it had been saved.
SaveTerminalLost(p) ==
    /\ pc[p] = "save"
    /\ faults < MaxFaults
    /\ faults' = faults + 1
    /\ Goto(p, "finish")
    /\ UNCHANGED <<clock, authority, durable, req, ver, reply>>

\* Mutant: the claim is released by successful attempts only.
FinishClaimOnSuccess(p) ==
    LET d == req[p].digest
    IN  /\ pc[p] = "finish"
        /\ claim' = IF Owns(p) /\ reply[p].status \in GoodReply
                    THEN [claim EXCEPT ![d].status = "finished"] ELSE claim
        /\ Goto(p, "done")
        /\ UNCHANGED <<clock, authority, job, plans, run, req, ver, reply, faults>>

\* Mutant: the status of the response is written to the claim as it is.
FinishClaimRawStatus(p) ==
    LET d == req[p].digest
    IN  /\ pc[p] = "finish"
        /\ claim' = IF Owns(p) THEN [claim EXCEPT ![d].status = reply[p].status]
                    ELSE claim
        /\ Goto(p, "done")
        /\ UNCHANGED <<clock, authority, job, plans, run, req, ver, reply, faults>>

\* ContentPlanningGenerationClaimStore.finish.
FinishClaim(p) ==
    LET d == req[p].digest
    IN  /\ pc[p] = "finish"
        /\ claim' = IF Owns(p)
                    THEN [claim EXCEPT ![d].status =
                            IF reply[p].status \in GoodReply
                            THEN "finished" ELSE "failed"]
                    ELSE claim
        /\ Goto(p, "done")
        /\ UNCHANGED <<clock, authority, job, plans, run, req, ver, reply, faults>>

-----------------------------------------------------------------------------
(* The environment *)

Tick ==
    /\ clock < MaxClock
    /\ clock' = clock + 1
    /\ UNCHANGED <<authority, durable, pc, req, ver, reply, faults>>

\* A new production classification or refresh authorization is recorded.
Reclassify ==
    /\ \E b \in AnyBinding \ {authority} : authority' = b
    /\ UNCHANGED <<clock, durable, pc, req, ver, reply, faults>>

\* The API process restarts: handlers, executor queue and workers are gone.
Crash ==
    /\ faults < MaxFaults
    /\ faults' = faults + 1
    /\ \E p \in Attempts : ~Settled(p)
    /\ pc' = [p \in Attempts |-> IF Settled(p) THEN pc[p] ELSE "dead"]
    /\ UNCHANGED <<clock, authority, durable, req, ver, reply>>

Handle(p) ==
    \/ Enqueue(p) \/ Confirm(p) \/ Claim(p) \/ Submit(p) \/ SubmitFails(p)

Work(p) ==
    \/ Start(p) \/ PrepareEarly(p) \/ StartRun(p)
    \/ TurnFails(p) \/ TurnSucceeds(p)
    \/ PersistRefused(p) \/ PersistIdempotent(p) \/ PersistPlan(p)
    \/ Context(p) \/ CheckBinding(p) \/ SaveTerminal(p) \/ SaveTerminalLost(p) \/ FinishClaim(p)

Next ==
    \/ \E p \in Attempts, d \in Digests, r \in BOOLEAN : Post(p, d, r)
    \/ \E p \in Attempts : Handle(p) \/ Work(p)
    \/ Tick \/ Reclassify \/ Crash

Spec == Init /\ [][Next]_vars

\* A handler or worker that can step eventually does, a free thread takes a
\* submitted job, a Codex turn ends within its deadline, and time passes.
Fairness ==
    /\ \A p \in Attempts : WF_vars(Handle(p)) /\ WF_vars(Work(p))
    /\ WF_vars(Tick)

FairSpec == Spec /\ Fairness

-----------------------------------------------------------------------------
(* Properties *)

JobRow == [status : JobStatus, at : Nat, binding : AnyBinding]
ClaimRow == [status : ClaimStatus, version : Nat, at : Nat, binding : AnyBinding]
Reply == [status : GoodReply \cup BadReply \cup {"none", "raised", "claim_stale"},
          binding : AnyBinding]
Plan == [version : Nat \ {0}, digest : Digests, binding : AnyBinding,
         by : Attempts, repair : BOOLEAN]

TypeOK ==
    /\ clock \in Nat
    /\ authority \in AnyBinding
    /\ job \in [Digests -> JobRow]
    /\ claim \in [Digests -> ClaimRow]
    /\ plans \subseteq Plan
    /\ run \in [Attempts -> RunStatus]
    /\ pc \in [Attempts -> PC]
    /\ req \in [Attempts -> Request \cup {NoRequest}]
    /\ ver \in [Attempts -> Nat]
    /\ reply \in [Attempts -> Reply]
    /\ faults \in Nat

SameInput(p, q) == p # q /\ req[p].digest = req[q].digest

\* No two acquisitions of one claim row share a version, whatever expired,
\* finished, crashed or was resubmitted in between: the version is a fencing
\* token, which is what save_terminal_response and finish rely on.
UniqueClaimVersion ==
    \A p, q \in Attempts :
        SameInput(p, q) /\ ver[p] > 0 /\ ver[q] > 0 => ver[p] # ver[q]

\* At most one digest of the subject has a queued job that is not stale, so a
\* second exact input is told "in_flight" while the first is generated.
OneFreshDigest ==
    \A d, e \in Digests : FreshQueued(d) /\ FreshQueued(e) => d = e

\* A plan and its completed CodexRun are stored together or not at all: no plan
\* without a completed run, no completed run without its one plan, even when
\* the worker lost its claim, lost a race to another plan or failed to save.
PlanIffCompletedRun ==
    /\ \A x \in plans : run[x.by] = "completed"
    /\ \A p \in Attempts : run[p] = "completed" =>
          Cardinality({x \in plans : x.by = p}) = 1

\* Versions of the work item's plans are 1..n without a gap, and of the plans
\* of one exact input only the oldest stands in the proposals table: every
\* other one is a repair made by an attempt that asked to regenerate.
CanonicalPlans ==
    /\ {x.version : x \in plans} = 1..Cardinality(plans)
    /\ \A x, y \in plans : x.digest = y.digest /\ x.version < y.version =>
          y.repair /\ req[y.by].regen
    /\ \A x \in plans : x.repair =>
          \E y \in plans : y.digest = x.digest /\ y.version < x.version /\ ~y.repair

\* A job reads "finished" only when a plan for its exact input, made under the
\* same refresh authorization as the job, is stored.
FinishedHasPlan ==
    \A d \in Digests : job[d].status = "finished" =>
        \E x \in PlansFor(d) : x.binding = job[d].binding

\* An attempt that returned no longer holds the claim of its input, so the next
\* request is not told "in_flight" on its account (failures aside: a submit
\* whose context cannot be read leaves the claim to expire).
ClaimReleased ==
    \A p \in Attempts : pc[p] = "done" /\ ver[p] > 0 /\ faults = 0 => ~Owns(p)

\* Two workers of one exact input are alive at once only when the older one
\* outlived its claim: the newer claim dates from after a whole stale period,
\* whatever jobs were re-queued or regenerated meanwhile.
OverlapOnlyAfterExpiry ==
    \A p, q \in Attempts :
        /\ SameInput(p, q)
        /\ ~Settled(p) /\ ~Settled(q)
        /\ 0 < ver[p] /\ ver[p] < ver[q]
        => claim[req[q].digest].at > StaleAfter

\* A step that ends the update of an attempt with a write of the job's row.
EndsWithWrite(p) == pc[p] = "update" /\ pc'[p] = "finish" /\ job' # job

\* A terminal result is written only by the newest acquisition of the input: a
\* worker whose expired claim was taken over never replaces what its successor
\* wrote (tests/content/test_planning_generation_races.py).
FencedTerminal ==
    [][\A p, q \in Attempts :
          EndsWithWrite(p) /\ SameInput(p, q) => ver[q] < ver[p]]_vars

\* The planning store implements the append-only ledger of PlanLedger.
Ledger == INSTANCE PlanLedger WITH
    ledger <- {[version |-> x.version, digest |-> x.digest, by |-> x.by] : x \in plans},
    ready <- {d \in Digests : job[d].status = "finished"}

ImplementsLedger == Ledger!Spec

\* Every request and every worker comes to an end, also when two threads serve
\* more workers than that and whatever its reads and saves answer.
EveryAttemptSettles ==
    \A p \in Attempts : (pc[p] # "idle") ~> Settled(p)

\* What planning_generation_claim_stale_response tells the operator: a newer
\* worker took the expired claim over and the late result was rejected.
LateResultRejected ==
    \A p \in Attempts : reply[p].status = "claim_stale" =>
        \A x \in plans : x.by # p

\* What planning_generation_generating_response tells the operator: the plan is
\* being prepared and the view refreshes when it ends.  When every attempt has
\* ended and nothing failed, no job is left saying so.
GeneratingHasWorker ==
    (faults = 0 /\ \A p \in Attempts : Settled(p)) =>
        \A d \in Digests : ~FreshQueued(d)

\* What planning_generation_claim_binding_conflict_response tells the operator:
\* a worker without the same binding neither takes the queue over nor ends it.
QueueEndedBySameBinding ==
    [][\A d \in Digests :
          job[d].status = "queued" /\ job'[d].status # "queued" =>
              job'[d].binding = job[d].binding]_vars

=============================================================================
