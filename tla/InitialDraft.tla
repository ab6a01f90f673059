----------------------------- MODULE InitialDraft -----------------------------
(***************************************************************************)
(* The queued writing of the full text of one work item                    *)
(* (wilq/content/drafts/initial_draft_*, routers/content_initial_draft,     *)
(* workflow/documents/codex_revision_commit, append_draft_revision).        *)
(*                                                                         *)
(* A run is bound to a context: the plan of the work item and the newest   *)
(* revision it starts from.  The executor has as many permits as threads   *)
(* and refuses a run instead of queueing it.  The text is appended as a    *)
(* revision in one transaction with the completion of its run, if the run  *)
(* is still started, within its deadline and bound to the current context. *)
(***************************************************************************)
EXTENDS CodexRuns

CONSTANTS
    MaxDraftRuns,   \* bound of the model on runs
    DraftWorkers    \* max_workers of BoundedInitialDraftExecutor

ASSUME DraftAssumption ==
    /\ MaxDraftRuns \in Nat \ {0}
    /\ DraftWorkers \in Nat \ {0}

DraftRuns == 1 .. MaxDraftRuns
Contexts == [plan : Plans, base : 0 .. MaxRevisions]

VARIABLES
    draftRun,   \* codex_runs with hook content_initial_full_draft
    author,     \* proposal_metadata.codex_run_id of each revision, 0 if edited
    draftJob,   \* where the request or worker of each run is
    permits     \* _capacity, the semaphore of the executor

draftVars == <<draftRun, author, draftJob, permits>>

\* Places where a worker holds a permit.
DraftHolding == {"queued", "start", "turn", "persist", "release"}
DraftPlace == {"none", "claimed", "gone"} \cup DraftHolding

DraftTypeOK ==
    /\ ItemTypeOK
    /\ draftRun \in [DraftRuns -> Row(Contexts)]
    /\ author \in [Revisions -> {0} \cup DraftRuns]
    /\ draftJob \in [DraftRuns -> DraftPlace]
    /\ permits \in 0 .. DraftWorkers

DraftInit ==
    /\ draftRun = [r \in DraftRuns |-> NoRow([plan |-> plan, base |-> 0])]
    /\ author = [v \in Revisions |-> 0]
    /\ draftJob = [r \in DraftRuns |-> "none"]
    /\ permits = DraftWorkers

-----------------------------------------------------------------------------
DraftGoto(r, place) == draftJob' = [draftJob EXCEPT ![r] = place]

\* snapshot_initial_draft_context_digest of the current snapshot.
CurrentContext == [plan |-> plan, base |-> latest]

\* can_queue_initial_draft: the newest revision was not written for this plan.
DraftWanted == latest = 0 \/ madeFor # plan

NextDraftRun(r) ==
    /\ draftRun[r].status = "none"
    /\ \A s \in DraftRuns : s < r => draftRun[s].status # "none"

\* The worker ends its run, if it is still started, and leaves.
DraftEnds(r) ==
    /\ \E status \in Ended : draftRun' = Transition(draftRun, r, status)
    /\ DraftGoto(r, "release")

-----------------------------------------------------------------------------
(* Requests.                                                               *)

\* claim_initial_draft_run: the context is read again inside the transaction.
\* A claim that finds a run of its context within the deadline changes nothing.
ClaimDraft(r) ==
    /\ DraftWanted
    /\ \A s \in Active(draftRun, CurrentContext) : Expired(draftRun[s])
    /\ NextDraftRun(r)
    /\ draftRun' = ClaimRow(draftRun, r, CurrentContext)
    /\ DraftGoto(r, "claimed")
    /\ UNCHANGED <<itemVars, author, permits>>

\* BoundedInitialDraftExecutor.submit takes a permit without waiting.
SubmitDraft(r) ==
    /\ draftJob[r] = "claimed"
    /\ permits > 0
    /\ permits' = permits - 1
    /\ DraftGoto(r, "queued")
    /\ UNCHANGED <<itemVars, draftRun, author>>

\* Mutant: the refused submission gives back a permit it never took.
DraftQueueFullReleases(r) ==
    /\ draftJob[r] = "claimed"
    /\ permits = 0
    /\ draftRun' = Transition(draftRun, r, "blocked")
    /\ permits' = permits + 1
    /\ DraftGoto(r, "gone")
    /\ UNCHANGED <<itemVars, author>>

\* InitialDraftQueueFullError: the run is blocked with initial_draft_queue_full.
DraftQueueFull(r) ==
    /\ draftJob[r] = "claimed"
    /\ permits = 0
    /\ draftRun' = Transition(draftRun, r, "blocked")
    /\ DraftGoto(r, "gone")
    /\ UNCHANGED <<itemVars, author, permits>>

\* _expire_stale_initial_draft_run of a GET: the newest run of the current
\* context is expired.
ReadExpiresDraft(r) ==
    /\ draftRun[r].status = "started"
    /\ draftRun[r].key = CurrentContext
    /\ \A s \in DraftRuns :
        s > r /\ draftRun[s].status # "none" => draftRun[s].key # CurrentContext
    /\ Expired(draftRun[r])
    /\ draftRun' = Transition(draftRun, r, "failed")
    /\ UNCHANGED <<itemVars, author, draftJob, permits>>

-----------------------------------------------------------------------------
(* The worker of a run.                                                    *)

\* run_queued_initial_draft: the snapshot has the context of the run.
BeginDraft(r) ==
    /\ draftJob[r] = "queued"
    /\ draftRun[r].key = CurrentContext
    /\ DraftGoto(r, "start")
    /\ UNCHANGED <<itemVars, draftRun, author, permits>>

\* start_initial_draft_run: the run is still started.  Its deadline is not read.
StartDraft(r) ==
    /\ draftJob[r] = "start"
    /\ draftRun[r].status = "started"
    /\ DraftGoto(r, "turn")
    /\ UNCHANGED <<itemVars, draftRun, author, permits>>

\* run_structured_turn of the deadline client, then the quality alterations.
DraftTurn(r) ==
    /\ draftJob[r] = "turn"
    /\ draftRun[r].status = "started"
    /\ draftRun[r].key = CurrentContext
    /\ ~Expired(draftRun[r])
    /\ DraftGoto(r, "persist")
    /\ UNCHANGED <<itemVars, draftRun, author, permits>>

\* A guard blocks, the context changed, the run is no longer executable, the
\* turn or an alteration fails, the append is a conflict or raises: the run is
\* ended there or by _mark_initial_draft_run_failed.
DraftFails(r) ==
    /\ draftJob[r] \in {"queued", "start", "turn", "persist"}
    /\ DraftEnds(r)
    /\ UNCHANGED <<itemVars, author, permits>>

\* Mutant: the append compares the base and not the plan of the context.
AppendDraftForOldPlan(r) ==
    /\ draftJob[r] = "persist"
    /\ draftRun[r].key.base = latest
    /\ draftRun[r].status = "started"
    /\ ~Expired(draftRun[r])
    /\ latest < MaxRevisions
    /\ latest' = latest + 1
    /\ madeFor' = draftRun[r].key.plan
    /\ author' = [author EXCEPT ![latest + 1] = r]
    /\ draftRun' = [draftRun EXCEPT ![r].status = "completed"]
    /\ DraftGoto(r, "release")
    /\ UNCHANGED <<clock, plan, faults, permits>>

\* Mutant: the append does not compare the completion with the stored run.
AppendDraftOfEndedRun(r) ==
    /\ draftJob[r] = "persist"
    /\ draftRun[r].key = CurrentContext
    /\ latest < MaxRevisions
    /\ latest' = latest + 1
    /\ madeFor' = draftRun[r].key.plan
    /\ author' = [author EXCEPT ![latest + 1] = r]
    /\ draftRun' = [draftRun EXCEPT ![r].status = "completed"]
    /\ DraftGoto(r, "release")
    /\ UNCHANGED <<clock, plan, faults, permits>>

\* append_draft_revision: revision and completion in one transaction.
AppendDraft(r) ==
    /\ draftJob[r] = "persist"
    /\ draftRun[r].key = CurrentContext
    /\ draftRun[r].status = "started"
    /\ ~Expired(draftRun[r])
    /\ latest < MaxRevisions
    /\ latest' = latest + 1
    /\ madeFor' = draftRun[r].key.plan
    /\ author' = [author EXCEPT ![latest + 1] = r]
    /\ draftRun' = [draftRun EXCEPT ![r].status = "completed"]
    /\ DraftGoto(r, "release")
    /\ UNCHANGED <<clock, plan, faults, permits>>

\* Mutant: the permit is released by the worker of a completed run only.
ReleaseOnSuccess(r) ==
    /\ draftJob[r] = "release"
    /\ permits' = IF draftRun[r].status = "completed" THEN permits + 1 ELSE permits
    /\ DraftGoto(r, "gone")
    /\ UNCHANGED <<itemVars, draftRun, author>>

\* The done callback of the future.
ReleasePermit(r) ==
    /\ draftJob[r] = "release"
    /\ permits' = permits + 1
    /\ DraftGoto(r, "gone")
    /\ UNCHANGED <<itemVars, draftRun, author>>

\* The write that should end the run is lost (the worker's future keeps the
\* exception), or the executor cannot take the run, which gives its permit back.
DraftWriteLost(r) ==
    /\ draftJob[r] \in ({"claimed"} \cup DraftHolding) \ {"release"}
    /\ Fault
    /\ DraftGoto(r, IF draftJob[r] = "claimed" THEN "gone" ELSE "release")
    /\ UNCHANGED <<draftRun, author, permits>>

\* The process ends: requests, workers and the semaphore are gone.
DraftCrash ==
    /\ draftJob' = [r \in DraftRuns |-> IF draftJob[r] = "none" THEN "none" ELSE "gone"]
    /\ permits' = DraftWorkers
    /\ UNCHANGED <<draftRun, author>>

-----------------------------------------------------------------------------
DraftWorkerStep(r) ==
    \/ SubmitDraft(r)
    \/ DraftQueueFull(r)
    \/ BeginDraft(r)
    \/ StartDraft(r)
    \/ DraftTurn(r)
    \/ DraftFails(r)
    \/ AppendDraft(r)
    \/ ReleasePermit(r)

DraftStep ==
    \/ \E r \in DraftRuns : ClaimDraft(r)
    \/ \E r \in DraftRuns : DraftWorkerStep(r)
    \/ \E r \in DraftRuns : ReadExpiresDraft(r)
    \/ \E r \in DraftRuns : DraftWriteLost(r)

DraftNext ==
    \/ DraftStep
    \/ Fault /\ DraftCrash
    \/ ItemMoves /\ UNCHANGED draftVars

DraftSpec == ItemInit /\ DraftInit /\ [][DraftNext]_<<itemVars, draftVars>>

-----------------------------------------------------------------------------
(* Properties.                                                             *)

\* The drafts keep the promises of a run ledger: a context has one started run
\* at a time and one revision for good, a revision names a run exactly when
\* that run is completed, and a run that was expired, blocked or taken over
\* never appends.
DraftLedger == INSTANCE RunLedger WITH
    Runs <- DraftRuns,
    Keys <- Contexts,
    key <- [r \in DraftRuns |-> draftRun[r].key],
    status <- [r \in DraftRuns |-> draftRun[r].status],
    product <- {r \in DraftRuns : \E v \in Revisions : author[v] = r}
DraftKeepsLedger == DraftLedger!Spec

\* A text becomes the newest revision only on the base it was written from and
\* for the plan the work item has at that moment: a plan or a revision that
\* moved during the turn leaves no text behind.
DraftsFitTheirContext ==
    [][author' # author =>
         \E r \in DraftRuns :
            /\ author'[latest'] = r
            /\ draftRun[r].key = CurrentContext
            /\ latest' = latest + 1]_<<itemVars, draftVars>>

\* The semaphore counts the workers: a permit is neither lost by a refused,
\* failed or raising run nor given back twice.
PermitsMatchWorkers ==
    permits + Cardinality({r \in DraftRuns : draftJob[r] \in DraftHolding}) = DraftWorkers

\* A run nobody works on is ended, also the one the full executor refused;
\* only a crash or a lost write leaves one for the deadline to expire.
DraftWorkerEndsRun ==
    faults = 0 =>
        \A r \in DraftRuns : draftJob[r] = "gone" => draftRun[r].status # "started"

\* A claimed run is worked off or refused: it does not keep its permit.
DraftSettles ==
    \A r \in DraftRuns : draftJob[r] = "claimed" ~> draftJob[r] = "gone"
=============================================================================
