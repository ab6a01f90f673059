# A TLA+ model of WILQ SEO

WILQ SEO is a local content-operations system: it reads marketing connectors,
plans and drafts content with a Codex app server, has people review what was
drafted, and writes approved drafts to a WordPress development site.  Its state
lives in one SQLite database (and a DuckDB file of metrics); its concurrency
comes from FastAPI handlers in a thread pool, a few small executors, a job
scheduler, several operating-system processes (API and command line) on one
database, and a process that may stop at any statement.

This directory holds TLA+ modules that model the protocols by which those
actors share state, TLC configurations that check them on small instances, and
proofs checked by TLAPS.  Six protocols are modelled: the generation of content
plans, the write of an approved draft to WordPress, the creation of a new page
there, the queued Codex runs that draft and review texts, the refresh of
connectors, and the promotion of a researched fact by one trusted local
principal.

    tlc -workers 2 -config PlanningBinding.cfg MCPlanningGeneration.tla
    tlapm WordPressApplyProofs.tla

## 1. Inventory

`PROJECT.json` lists every component with its sources, and every hazard at its
line.  In short, by the state a component keeps:

| Component | State | Operations | What is hard | What makes it correct |
|---|---|---|---|---|
| Planning generation queue (`wilq/content/planning`) | jobs, claims, proposals, repairs, `codex_runs` | POST, enqueue, claim, submit, Codex turn, persist plan, save terminal response, finish claim | deadline take-over, re-queues between transactions, swallowed failures, crash | one fenced writer of the job, append-only plans, a plan and its run together, nobody waits for nobody |
| WordPress draft apply (`wilq/actions/apply_lifecycle.py`, `wilq/content/workflow/store`) | revisions, reviews, apply claims, execution receipts, audit | append revision, review, claim, retry a failed claim, create request, finish, reconcile | the one external write; crash after it; retry; operator recovery against a late answer | what is written is what was approved; a consent is used once; receipt and claim agree |
| New-page draft apply (`store_new_page_apply.py`) | its own claim table, one row a work item, revision and digest; actions; audit | create action, claim, create draft, finish, recover the result | several actions for one revision; answers that are lost or unreadable; no retry and no reconciliation | one draft a revision; claim, draft and audit agree |
| Semantic review (`wilq/content/quality`) | `codex_runs`, semantic reviews, two executor threads | claim run, turn, save, report, expire | deadline race between the saving worker, readers and other claims | one review a revision; no completed run without it; a worker ends its run |
| Initial drafts (`wilq/content/drafts`, `content_initial_draft.py`) | `codex_runs`, draft revisions, two permits | claim, bounded submit, append with completion, expire | expiry under a live worker, permits, a context that moved | one run a context; draft and completion together; permits count workers |
| Connector refresh (`wilq/connectors/refresh.py`) | refresh runs (SQLite), metrics (DuckDB), the claims and the start fence of each process | enqueue, claim, direct read, close, save metrics, mark, recover | two databases, process loss, writes that raise, late workers, several processes | one open row a connector, one worker a run, a persisted run has its metrics, a recovered one stays failed |
| Job scheduler (`wilq/jobs`) | one background scheduler | start, stop, run job | overlap with manual refreshes | a job run is a direct refresh with a row of its own |
| Action lifecycle and audit (`wilq/actions`) | audit events, validation state | preview, review, confirm, impact, validate, apply | requests that loaded the action before another one's event was saved; an event lost after its effect | a chain is accepted only in order, whole and for one principal |
| Trusted local confirmation (`wilq/audit/trusted_local_confirmation.py`) | receipts of consumed grants | consume, find | two consumers of one grant, expiry | single use |
| Research promotion, source-fact authority (`wilq/content/workflow`) | promotion receipts | verify the chain, check the candidate, record once | three databases, a candidate that changes, a second apply | what is promoted was witnessed; what is told was promoted |
| Disposition approvals | in-memory lock map | per-action lock, reference count | the approve route answers 409 whenever a proposal exists, so no request contends | - (not modelled) |
| Codex app server, stop reconciliation | `codex_runs`, manifests | turn; end the runs of a manifest | lost compare-and-set | reported loss, no overwrite |
| Storage recovery, migration backup | files | copy, seal, restore | offline | - (pure I/O, not modelled) |
| Briefing, opportunities, knowledge, expert rules, measurement, planning inputs | none of their own | projections | - | - (pure functions, not modelled) |
| HTTP API, command line, dashboard | none of their own but the draft permits | call the above | - | - |

How they interact: the API hands work to executors in the same process and
answers from stored rows; workers speak to Codex outside any transaction and
come back to rows that may have moved; drafts append the revisions that reviews
review and that an apply writes; the action lifecycle is the only caller of the
WordPress adapter and of the promotion; the command line opens the same database
from another process.  SQLite transactions (`BEGIN IMMEDIATE`) are the only
synchronisation between processes, so an action of a module is one transaction,
one read outside of a transaction or one remote call, and everything else
interleaves.

## 2. Modules

### PlanningGeneration: plans of one subject of one work item

| Variable | Code |
|---|---|
| `job` | `content_planning_generation_jobs`, one row a digest |
| `claim` | `content_planning_generation_claims`: status, version, age, binding |
| `plans` | `content_planning_proposals` and `..._proposal_repairs` |
| `run` | the planning run of an attempt in `codex_runs` |
| `authority` | the refresh authorization the current classification gives |
| `pc`, `req`, `ver`, `reply` | where an attempt is, its request, the claim version it acquired, the response it carries |
| `clock`, `faults` | time in ticks; failures injected |

An attempt is a POST with the worker it may start.  The handler runs `Post`
(preflight), `Enqueue` (`_enqueue_subject_pending`), `Confirm` (the second read
of an existing job), `Claim`, and `Submit` or `SubmitFails`.  The worker
(`run_queued_planning_generation`) runs `Start`, then `PrepareEarly` or
`StartRun`, `TurnFails` or `TurnSucceeds`, one of `PersistRefused`,
`PersistIdempotent`, `PersistPlan`, `Context` when the request carries an
authorization, `CheckBinding` and `SaveTerminal` (a SELECT and an UPDATE that
are not one transaction) or `SaveTerminalLost`, and `FinishClaim`.  `Tick`,
`Reclassify` and `Crash` are the environment: a crash ends every live handler
and worker and keeps every row.

An exact planning input is a member of `Digests`; whatever the content of a plan
is, the protocol tells plans apart by digest, version, binding and author.  A
stored plan may be passed over by a non-regenerating worker (quality errors or a
stale inventory mapping), so `StartRun` is possible in any store.

`PlanLedger` is what readers of plans rely on: an append-only ledger whose
versions only grow, and a "ready" report only for inputs that have a plan.
`PlanningGeneration` implements it (`ImplementsLedger`).

### WordPressApply: the write of an approved revision of one work item

| Variable | Code |
|---|---|
| `latest` | number of the newest row of `content_draft_revisions` |
| `decided`, `approved` | `content_draft_revision_reviews`: decisions of each revision, bindings that were approved |
| `claims` | `content_wordpress_revision_apply_claims`, keyed by the digest of the binding |
| `history` | `content_wordpress_draft_execution_history`, one receipt a revision |
| `resolved` | `action_apply_reconciled` audit events |
| `sent` | create requests that reached WordPress, by binding |
| `pc`, `bind`, `outcome` | where each thread is in `apply_action`, its binding, its adapter's result |

A binding is a revision and the decision that approved it: one consent.
`AppendRevision` and `RecordReview` refuse while any binding of the work item is
claimed.  `Acquire`, `Refused` and `FoundFailed` are the outcomes of the
transaction of `claim_wordpress_revision_apply`; a failed claim goes on with
`JudgeRetry` (a read over its own connection) and `DropFailed` (the DELETE),
and the claim is tried again.  `AdapterRefuses`, `CreateLost` and `SendCreate`
are what the adapter can do and report; `Finish` and `FinishRollsBack` are the
transaction of `finish_wordpress_revision_apply_claim`.  `Abandon` is a crash or
an exception `apply_action` does not catch; `Reconcile` is the operator's
`wordpress-apply reconcile` from another process.

### NewPageApply: a WordPress draft of an approved new page

| Variable | Code |
|---|---|
| `latest`, `decision` | newest row of `content_draft_revisions`, newest decision on each |
| `names` | `new_page_draft_binding` of each action: the revision it was created for |
| `claims` | `content_new_page_revision_apply_claims`: status, `action_id`, the post in `result_json` |
| `drafts` | what WordPress holds, with the request and action that made it |
| `audits` | outcomes audited for each action |
| `pc`, `doing`, `number`, `outcome` | each thread of `apply_action`, its action, request and result |

The consent is the revision: the claim key knows neither decision nor action, and
a claim is never dropped, retried or reconciled.  `CreateAction` is the delivery
action (any number of them for one revision), `RequestBlocked` and `RequestApply`
what the chain and the preflight answer, `Acquire` and `Refused` the transaction
of the claim, `NothingCreated` and `CreateDraft` the executor (the draft may be
made and its answer lost, or made and its readback be without a status), `Finish`
the transaction of claim and audit, `Record` the service's second save of the
audit, and `Abandon` a crash.  `AppendRevision` and `RecordReview` go on during
the write, as they look at the other claim table.

`ConsentLedger` is what a one-time consent to an external write promises: it is
open, taken or spent, one product at most is made and only while it is taken, and
the answer kept names that product or nothing.  `NewPageApply` implements it
(`ImplementsConsent`).  `WordPressApply` does not, as it retries failed claims:
`wordpress_second_write` shows what this costs.

### CodexRuns, SemanticReview, InitialDraft, ContentRuns: the queued Codex runs of one work item

`CodexRuns` holds what the two operations share: the rows of `codex_runs` with
their compare-and-swap (`Transition`), a claim that fails the expired rows of its
key and inserts its own (`ClaimRow`), the deadline of a run, and the work item
that people move under it.

| Variable | Code |
|---|---|
| `clock`, `faults` | time in ticks; crashes and lost writes injected |
| `plan` | digest of the current planning workspace |
| `latest`, `madeFor` | number of the newest draft revision and the plan it was written for |
| `reviewRun`, `draftRun` | `codex_runs` of each operation: key, status, deadline |
| `review` | `content_semantic_reviews`: the run of each stored review |
| `author` | `proposal_metadata.codex_run_id` of each revision |
| `reviewJob`, `draftJob` | where the request or worker of each run is |
| `reviewVerdict` | the status the worker has to report |
| `permits` | the semaphore of `BoundedInitialDraftExecutor` |

A review is claimed (`ClaimReview`) and submitted to an unbounded queue in front
of `ReviewThreads` threads; its worker prepares, starts, turns, saves
(`SaveReview`: review and completion are one transaction) and reports
(`ReportReview`), and each of these may leave early.  A draft is claimed for a
context, the pair of plan and newest revision; `SubmitDraft` takes a permit
without waiting or `DraftQueueFull` blocks the run; `AppendDraft` is the
transaction of revision and completion.  A GET expires the newest run of what it
shows (`ReadExpiresReview`, `ReadExpiresDraft`).  `EditorAppends`, `PlanChanges`
and `Tick` are the surroundings; `ReviewCrash` and `DraftCrash` end requests and
workers and keep the rows.  `ContentRuns` puts both into one process: one
operation moves at a time on the shared item, and a crash ends both.

`RunLedger` is what either table promises: a run is started for a key, ends
once, is completed exactly with its product, and a key has one started run at a
time and one product for good.  Both operations implement it
(`ReviewKeepsLedger`, `DraftKeepsLedger`).

### ConnectorRefresh: reading a vendor's data into the metric store

| Variable | Code |
|---|---|
| `life`, `fence`, `owned` | the lives of server processes, their `_PROCESS_START_FENCE` and `_CURRENT_PROCESS_CLAIMS` |
| `row` | `connector_refresh_runs`: connector, status, start, whether the read had facts, `metrics_persisted` |
| `metrics` | `connector_metric_facts` in DuckDB: runs whose facts are stored |
| `audit` | the audit events of recoveries |
| `task`, `pc` | background tasks and direct reads, and where each is |

`Enqueue` and `EnqueueFindsOpen` are the asynchronous POST, which adds a task
either way; `StartDirect` is the synchronous POST, the command line and the
scheduler.  A task claims (`Claim`), closes its row after the vendor read
(`Close`), replaces the facts in the other database (`SaveMetrics`, or
`MetricsFail`) and marks the row (`Mark`).  Claim, close and mark are SQLite
transactions outside of any `try`: when one raises (`Raise`) the task is gone, at
the place "raised" once it had claimed, its process lives, and what it did before
stays.  `Recover` is the operator's request to end a run whose process was lost.
`Boot`, `Die` and `Tick` are the surroundings; processes may overlap.

### ResearchPromotion: a researched fact, on the word of one local principal

| Variable | Code |
|---|---|
| `events` | `audit_events` of the action, in the order they were saved, each with its time stamp and the principal receipt it carries |
| `grants`, `receipts` | expiry of each issued grant; `trusted_local_principal_receipts` |
| `promotion` | `content_research_fact_promotion_receipts` of this action |
| `fresh` | whether the candidate still gives the snapshot that is promoted |
| `valid` | `validation_status`, `status` of the action state |
| `request`, `pc` | what each request has learnt and where it is |
| `clock`, `changes`, `failures` | time, changes of the candidate, events that could not be saved |

A request loads the action with what its events allow (`Load`), establishes its
principal (`ConsumeGrant`, `FindReceipt` or `Mistrust`), builds its event from
what it loaded (`BuildEvent`; a confirmation without `preview_acknowledged` and an
apply without `confirm` are blocked whatever was loaded) and saves it
(`SaveEvent`, `SaveFails`).  An apply goes through `PreflightBlocks` or `ReadStream`, then `Replay` or `VerifyChain`,
`CheckCandidate`, `RecordPromotion` or `RecordConflict`, and tells its outcome as
an event of its own.  Time passes when an event is stamped: between two stamps
no comparison of the code can tell times apart.

### MC modules and mutants

The MC modules give the constants model values and the symmetry sets.
Definitions marked "Mutant" are never used by a specification; each is a
plausible bug in the definition below it, and shows that some property notices
it.

## 3. What the runs show

Passing runs:

- `planning_binding` - two attempts for one or two inputs of a subject, with and
  without an authorization that changes under them, with a take-over, a crash, a
  failed submit or a lost save.  Claim versions are handed out once
  (`UniqueClaimVersion`), only the newest acquisition writes the job's end
  (`FencedTerminal`), two workers of one input are alive at once only when a claim
  really expired (`OverlapOnlyAfterExpiry`), versions of plans have no gap and no
  duplicate (`CanonicalPlans`), a plan and its completed run exist together
  (`PlanIffCompletedRun`), a finished job has a plan of its own input and
  authorization (`FinishedHasPlan`), an attempt that returned without a failure
  does not hold its claim (`ClaimReleased`), one input of the subject is freshly
  queued at a time (`OneFreshDigest`), and the store refines `PlanLedger`.
  1.5 million states.  The proofs say the same of any number of attempts and expiries.
- `planning_live` - two workers, one executor thread: every attempt settles.
- `wordpress_consent` - two threads, two revisions with two decisions each, an
  operator and a crash.  Nothing supersedes a claimed consent
  (`ClaimedIsCurrent`), no request deletes or takes over a claim another one
  writes under (`WriterHoldsClaim`), the receipt of an
  applied consent is that of a created draft (`ReceiptMatches`), an applied
  consent stays applied (`AppliedIsFinal`), and the claim operation that calls
  itself comes to an end (`ApplySettles`).  1.15 million states.
- `new_page_apply` - two threads, two actions that may name the same of two
  revisions, three requests, a crash.  A revision becomes one draft
  (`OneDraftPerRevision`), the draft recovered for an action is its own
  (`RecoveredIsOwn`), a revision is applied exactly when that is audited
  (`AppliedIffAudited`; `docs/architecture/vnext-discovery-packet.md` 515 still
  reports the gap that `finish_new_page_revision_apply_claim` has closed since),
  a claim is resolved unless its request was abandoned (`ClaimSettles`), and the
  rows implement `ConsentLedger`.  0.5 million states.
- `content_runs` - up to two runs of reviews and drafts in one process, with one
  thread and one permit, editors, a plan that changes back and forth, a deadline,
  and a crash or lost write.  Both tables keep the run ledger; a worker leaves no
  run started, unless a crash or a lost write took its report
  (`RunsAreEnded`); permits count the workers
  (`PermitsMatchWorkers`); a text becomes the newest revision only on the base
  and for the plan it was written for (`DraftsFitTheirContext`); and what was
  claimed is worked off (`RunsSettle`).  0.3 million states.
- `connector_refresh` - two processes that boot and die, two runs of one
  connector, three tasks, any of whose writes to a row may raise.  A connector has
  one queued or running row (`OneOpenRun`) and a run one worker
  (`OneWorkerPerRun`).  This does not make one reader a connector: a direct read
  has no open row, and the worker of a run that another process recovered still
  reads while the next run is claimed; section 6 says when two workers read at a
  time.  A run that says its metrics are persisted has them, and stored facts lack
  this mark only while their task is about to set it, when the write of the mark
  raised, or when the process died before it (`MetricsMatchRuns`).  A recovered run
  stays failed whatever its late worker brings (`RecoveredStaysFailed`), and a
  process never recovers its own work (`NoSelfRecovery`).  2.8 million states.
- `research_promotion` - two requests at a time, one grant that expires, a
  candidate that changes, one lost event.  A promoted fact rests on exactly four
  events (`PromotionIsWitnessed`): a preview and an approval, stamped in this order
  but saved in either, as an approval looks at no preview; a confirmation, saved
  after both; and an impact check, saved after the confirmation.  All but the
  preview carry one receipt, and no event rests on another receipt of the same
  grant.  What the audit calls a success is the stored promotion
  (`SuccessIsPromoted`), and a stored promotion is told once the system is quiet
  (`PromotionIsAudited`).  1.1 million states.

Violated runs, each a statement of the repository that the code does not keep:

- `planning_late_result` - a worker whose claim was taken over is told that its
  late result was rejected; its plan and completed run were stored all the same,
  because `save_generated` does not look at the claim.
- `planning_lost_wakeup` - a job re-queued between the terminal save and the
  release of the claim is answered as "being prepared" although no worker will
  run it.
- `planning_foreign_finish` - between the SELECT that checks the binding and the
  UPDATE, a stale job is queued again under another authorization, and the old
  worker ends it.
- `wordpress_second_write` - two requests find the same failed claim retryable.
  One drops it, claims, sends its create request and fails uncertainly; the
  other then deletes this new failed claim, for which it never read a receipt,
  and sends a second create request for the same consent.
- `wordpress_inspected` - an attempt stops before any write, its retry sends the
  create request and dies, the operator inspects WordPress and resolves the
  claim as failed.  The receipt still is that of the first attempt, so the next
  request drops the resolved claim and writes again.

What the passing properties leave out follows from these: `WriterHoldsClaim`,
`OneWriterAtATime` and `ReceiptMatches` except consents an operator resolved
while their thread was alive, since the UPDATE of `finish` is not fenced by the
request that acquired the claim, and `ReceiptMatches` is about the newest
decision, since the receipt is keyed by the revision.

Two things a reader of the promotion should know, which follow from the model and
contradict no statement of the repository.  The chain of a promotion must be the
whole stream, so that one objection, one blocked apply or one repeated preview
before the promotion leaves this action unpromotable for good: the stream is
append-only.  And of two applies that race, the loser answers with a conflict and
its `apply_blocked` event makes every later replay of the promotion blocked too.

## 4. Bounds

| Bound | Values | Why enough |
|---|---|---|
| `Attempts` | 2 | a worker and the one that takes its claim over, or a request that meets it; the proofs cover a third that meets both |
| `Digests`, `Bindings` | 1 or 2, 0 or 1 (and none) | claims, jobs and plans of two inputs meet only through the subject's single queued job; one authorization and its absence are what the code compares |
| `StaleAfter`, `MaxClock` | 0, 1 | one tick is an age above the limit |
| `MaxWorkers` | 1 or 2 | the code's two threads; one makes workers wait |
| `MaxFaults` | 0 or 1 | a crash, a lost save or a failed submit, at any step |
| `Threads` | 1 or 2 | every conflict of the claim protocol is between two requests |
| `MaxRevisions`, `MaxDecisions` | 1 or 2 | an old and a new revision, an old and a new decision on it |
| `MaxRequests` | 3 or 4 | a failed attempt, its retry, and a request that meets the retry |
| `Actions`, `MaxRevisions`, `MaxRequests`, `MaxFaults` of the new pages | 2, 2, 3, 1 | two actions for one revision, or for an old and a new one; a failed or abandoned request, a sibling's and a repeated one |
| `RecoveryAge`, `MaxClock` | 1, 0 or 1 | before and after the operator may act |
| `MaxReviewRuns`, `MaxDraftRuns`, `MaxRuns` | 2, 2, 2 together | a run and the one that takes its key over, of either operation, or one of each |
| `ReviewThreads`, `DraftWorkers` | 1 | the second run waits for the thread, or finds no permit |
| `RunTimeout`, `MaxClock` of the runs | 1, 1 | a run within its deadline and past it |
| `Plans`, `MaxRevisions` of the runs | 2, 2 | the plan moves away and comes back; a revision moves under a run |
| `Processes`, `MaxRuns`, `MaxTasks` of the refresh | 2, 2, 3 | a worker, the process that recovers its run, and the run that follows; three tasks are two on one run and one on the next |
| `MaxEvents`, `MaxStray` | 5, 0 | the four events of a chain and the outcome; a request loaded while another one is in flight still adds an event beyond them |
| `MaxGrants`, `Lifetimes`, `MaxChanges`, `MaxFailures` | 1, {5}, 1, 1 | one grant that two requests want, so that a second receipt for it would show, and that expires before a second apply; one change of the candidate; one lost event |

Every bound but `MaxWorkers`, `StaleAfter`, `RecoveryAge`, `RunTimeout`,
`ReviewThreads`, `DraftWorkers` and `Lifetimes`, which the code has, is a bound
of the model; the proofs hold for all values of all of them.
`CHECK_DEADLOCK FALSE` is set throughout: with every attempt or request used up
the system stops, as it should.

The symmetric sets are attempts, processes, connectors and threads; they are used
in safety runs only (`wordpress_consent`, `new_page_apply` and `content_runs`
check liveness and use none).

## 5. Fairness

`PlanningGeneration!Fairness`: weak fairness of each handler and each worker,
and of time.  A handler is a thread that only waits for SQLite; a worker waits
for a free executor thread and for a Codex turn that has a deadline.  Nothing
obliges a client to post, an authorization to change, or the process to crash.

`WordPressApply!Fairness`: weak fairness of each thread of `apply_action`, which
only waits for SQLite and for HTTP calls with a timeout.  Editors, reviewers,
operators and the clock are free.  `NewPageApply!Fairness` is the same for its
threads.

`ContentRuns!Fairness`: weak fairness of each step of each review and draft
worker.  The threads of both executors are scheduled, a Codex turn is bounded by
the deadline of its run, and what a worker does otherwise is SQLite.  A GET that
would expire a run is not obliged to come, nor is an editor, a plan or the clock.

`ConnectorRefresh` and `ResearchPromotion` state safety only: the code leaves a
queued run of a lost process to the next POST, and promises nobody an event.

## 6. What is proved

For every value of the constants that satisfies the modules' assumptions
(`ConstantsAssumption`, `BoundsAssumption`; any number of attempts and threads,
any bounds):

`PlanningGenerationProofs`
- `TypeCorrect`, `ClaimVersionsUnique` from `Inv`: types, every posted attempt
  has a request (`RequestKnown`), the maxima the code takes exist
  (`LatestExists`), and no attempt holds a version above that of the claim row
  (`VersionsHandedOut`) - uniqueness alone is not inductive, as a new version
  must be above all those handed out and not only differ from the last.
- `TerminalFenced`: from `Inv`, since a write needs `Owns` and every other
  version is below that of the row.
- `FinishedJobsHavePlans`: `FinishedHasPlan` is not inductive, as the plan is
  stored several steps before the job says so; `PlanInv` adds that a good reply
  carried by a worker names a stored plan (`ReplyStored`) and that only an
  attempt past its persistence has a plan (`StoredOnce`).
- `LedgerRefinement`: initial states map to initial states, `PersistPlan` maps
  to `Publish`, `SaveTerminal` and `Enqueue` to `Deliver`, `Withdraw` or a
  stutter, and every other step to a stutter.

`WordPressApplyProofs`
- `TypeCorrect`, `ClaimsAreCurrent`, `WritersHoldTheirClaim` and `ReceiptsMatch`
  from `Inv`: the properties together with `RowsWereDecided`, that approvals and
  claims name decisions already recorded.  Without it a new decision could find
  an old applied claim under its own number and break `ReceiptMatches`.
  `ClaimedIsCurrent` makes the claimed binding unique, which is why a finish
  cannot disturb another consent.
- `AppliedConsentIsFinal`: every transaction that writes a claim row checks that
  its status is another one.

- `WritersExcludeEachOther` is part of the same `Inv`: a second writer would have
  acquired a claim that is "claimed" as long as the first one writes.

`WordPressWriteProofs` (on the same `Inv`): what WordPress receives
- `OnlyApprovedIsWritten`, `RecordsAreTrue` from `Truth`: every request was
  approved when it was made and approvals stay; a result of "created" is carried
  by a request that sent one.
- `WritesFindTheirConsentCurrent`: between the check of the binding and the
  create request nothing can supersede it, as the claim refuses new revisions and
  decisions.  Only an operator's resolution ends the claim of a request that
  still writes.
- `SecondWritesNeedOverlap` from `Once`.  That a consent is written once is not
  inductive: a first writer must find nothing written (`WriterIsFirst`), and a
  failed claim that may be claimed again must be unwritten or have lost its place
  to a newer revision or decision (`ClaimableIsUnwritten`, `Superseded`): the
  receipt is keyed by the revision, and the one of a newer decision may call the
  retry of the older one clean.  `PromiseOfTheBlocker` is the promise of
  `_wordpress_apply_claim_blocker` itself, where also nobody resolves a claim.
- `InspectedRetriesNeedCleanReceipt`: a resolution writes no receipt, so that the
  row it leaves is deleted only by a request that reads an older one.
- `WorkItemsHaveOneClaim`: the resolution takes "the" claimed row of a work item,
  and there is one.
- `ClaimsHaveWriters`: without an abandoned request, a claimed consent has a
  request that writes under it.

`NewPageApplyProofs`
- `TypeCorrect`, `WritersOwnTheirClaims`, `RevisionsBecomeOneDraft`,
  `RecoveredDraftsAreOwn`, `AppliedClaimsAreAudited` and `ConsentsAreOneTime` from
  `Inv`: the properties together with what a request is where it is
  (`RequestsAreSound`: its number is its own, and a draft of its revision exists
  only once its executor returned), what a claim row says (`ClaimsAreSound`: a
  stored post is a draft of that revision and action), and that every draft has a
  claim (`DraftsAreClaimed`).  The last one is why a revision that was tried once,
  with whatever outcome, cannot become a second draft: `Acquire` needs a revision
  without a claim.
- The refinement maps `Acquire` to `Take`, `CreateDraft` to `Make`, `Finish` to
  `Spend` and everything else to a stutter.
- `SettledClaimsAreFinal`: row and drafts of an applied or failed revision never
  change, by `RequestsAreSound`: whoever could still write the row would have to
  be at work under a claim.
- `ClaimsAreLeftByDeathsOnly`: a claimed revision has a request at work on it,
  unless one was abandoned.

`PlanningStoreProofs` (from `Inv` and `PlanInv` of `PlanningGenerationProofs`)
- `SubjectsQueueOneInput`: the enqueue transaction looks at every sibling, a
  terminal save queues nothing, and time only makes a job less fresh.
- `ReturnedAttemptsReleaseTheirClaim`, `WorkersOverlapOnlyAfterExpiry` from
  `ClaimInv`: the newest acquisition holds the claim until it is over
  (`NewestHolds`), so that whoever takes it over found it expired, and the claim
  of an overtaken worker dates from after a stale period (`OvertakenExpired`).
  The property compares two workers; the invariant compares one worker with the
  claim, since the worker between two others may be gone.
- `PlansStandWithTheirRuns`: an attempt writes its run only before it stored
  anything, or with its plan.
- `PlansAreCanonical`: the plans are finitely many (`CanonicalInv`), so that the
  maximum plus one is their number plus one.
- `ClaimsAreLostToSuccessors`: a worker that finds its claim gone was overtaken.
  It needs that every version was handed to a request, with its binding
  (`NewestIsNamed`), and that `NewestHolds`.
- `StaleRepliesAreTrue`, `ForeignFinishNeedsWindow`, `LostWakeupsNeedLateRefusal`:
  see below.  The first and the last rest on `Agreed`: under one authorization
  all requests, replies, plans and jobs carry the same binding.  The last adds
  that a fresh queued job has a request that will claim it or a worker that holds
  its claim and will still save (`QueuedIsServed`).
- `StartedRunsAreAccounted`: a Codex run that stays "started" was left by a
  failure or by an attempt that lost to another one's plan: never by a refused or
  failed turn, and never beside a plan of its own.
- `AttemptsTakeBoundedSteps`: `StepsLeft` decreases with every step of a handler
  or worker and is increased by nobody.

`ContentRunsProofs`
- `TypeCorrect`, `WorkersEndTheirRuns` and `PermitsCountWorkers` from `ReviewInv`,
  `DraftInv` and `PermitsMatchWorkers`.
  That a worker leaves its run ended is not inductive: a report of "completed"
  must find a run that ended already (`CompletedIsReported`), a draft that gives
  its permit back must have ended before (`ReleasedIsEnded`), and a run that is
  claimed must not have a worker that is gone (`FreshIsIdle`).
- `TextsFitTheirContext`: the transaction of the append reads the context again.
- `ReviewRefinement`, `DraftRefinement`: a claim maps to `Start`, a save or append
  to `Complete`, a report, a refusal and an expiry to `End` or a stutter.  They
  need that a stored product names a completed run of its key, that a key has one
  started run, that a reviewed revision has none (`ReviewRows`), and that a
  revision's run was bound to the revision before it (`DraftRows`): by this the
  next claim, which is bound to the newest revision, finds no product of its
  context.

`ConnectorRefreshProofs`: all five properties and the types from one invariant,
whose own part `WorkInv` says of each task what its run must look like where it
is: a direct read has no row yet, a claimed run is not queued any more and
belongs to its process, and what a task has closed is closed and was not
recovered.  The properties are not inductive one by one: that a recovered run
stores no facts needs that its worker finds it not running, and that a process
does not recover its own work needs that it owns every run it claimed.
`EndedRunsAreFinal` adds that nobody works on a run that is marked persisted
(`Unmarked`): row, audit event and facts are in two databases, and none of the
three changes after the mark or the recovery.  `MetricsAgreeWithRuns` rests on
what the invariant knows of a run with facts and no mark (`MetricsMarked`) and on
an invariant of its own, that facts belong to a run that brought some
(`FactsAreRead`).  `RunningRunsHaveOwners` says that a running run is read by a
task of the process that claimed it, or that this task could not write how the
read ended, or that the process is down.  `WorkersReadApart` is what the one open
row says of readers: two workers of one connector read the vendor at a time only
if another process has recovered the run of one of them (`ReaderInv`: a worker
reads for its running row or for a recovered one).

`ResearchPromotionProofs`: `GrantsAreSingleUse`, `PromotionsAreWitnessed`,
`SuccessesArePromoted` and the types from `Inv`: what each saved event had
before it in the stream, on which receipt, and what it tells (`EventInv`), what
each request knows and that it stays true (`ThreadInv`), and that the stored
promotion names a chain that is a prefix of the stream (`PromotionInv`).  The
chain check compares time stamps and not the order of saving; that a
confirmation and an impact check were saved after what they rest on follows from
what they had before them, while nothing of the kind holds of the approval and the
preview.  That no event rests on a second receipt of a grant follows from
`GrantsAreSingleUse`.  `PromotionsAreAudited` has an invariant of its own
(`AuditInv`): a promotion that is not told yet has a request that is about to tell
it, unless an event was lost.  `PromotionsAreFinal`: streams and receipts only
grow, and the first promotion is kept.

### Where the violated promises hold

A violated run shows that a statement of the repository fails; these theorems say
what exactly it takes, for every behaviour and any constants.  Their hypotheses
are formulas about behaviours (`Spec /\ []...`), not assumptions on the system:
the runs of section 3 show behaviours that break each of them.

| run | the promise holds if | theorem |
|---|---|---|
| `wordpress_second_write` | no request is about to drop a failed claim while another one of its consent is there too or writes, and no operator resolves a claim | `SecondWritesNeedOverlap`, `PromiseOfTheBlocker` |
| `wordpress_inspected` | the revision never had a receipt that calls a retry clean | `InspectedRetriesNeedCleanReceipt` |
| `planning_foreign_finish` | no request queues the input again between the check and the save of a worker that holds its claim | `ForeignFinishNeedsWindow` |
| `planning_lost_wakeup` | the authorization stays, and no request is refused the claim by a worker that has saved and not yet released it | `LostWakeupsNeedLateRefusal` |

The sentence of `planning_late_result` has two halves.  That a newer worker took
the expired claim over is true as long as the authorization does not change
(`StaleRepliesAreTrue`, `ClaimsAreLostToSuccessors`); with a changed one, the check
of the binding answers the same to a worker nobody overtook.  That its result was
rejected is false of every attempt that stored its plan before its save found the
claim gone: the persistence does not look at the claim, so that no condition on
the other attempts makes it true short of nobody taking over.

### What is only model-checked

`EveryAttemptSettles`, `ApplySettles`, `ClaimSettles` and `RunsSettle`: liveness
needs fairness, and with it ENABLED, which the prover used does not handle.  What
is proved is what they rest on: an attempt of the planning queue takes at most 13
steps (`AttemptsTakeBoundedSteps`), a claim that is open has a request at work on
it unless one was abandoned (`ClaimsHaveWriters`, `ClaimsAreLeftByDeathsOnly`), a
review or draft nobody works on has ended (`WorkersEndTheirRuns`), and a running
refresh nobody reads for lost its process or the write that would have closed it
(`RunningRunsHaveOwners`).  What is left to the model checker
is that the scheduling of the code lets those that are at work take their steps.

Every safety property of the passing runs is proved, and so are three steps
towards them that no run checks: `OneWriterAtATime`, `WriterOwnsClaim` and
`SingleUse`.

## 7. Abstractions

- After `SubmitFails` the handler itself writes the failed response; the model
  lets it go through the worker's save steps and so counts it against the
  executor's threads.
- The queue preflight and `Reclassify` see the authorization as one value that
  may change at any time, not the records it is derived from.
- The action chain before a WordPress apply is abstracted to "the binding was
  approved at some time": `Acquire` checks again that it is current, as the code
  does.  The chain itself is modelled for the research promotion.
- The receipts a retry reads and those of reconciled claims are
  separate tables in the code; the latter is never read by the claim protocol
  and is not a variable.
- An operator's resolution is either result at any time after the recovery age:
  what the operator saw in WordPress is outside of the model.
- Idempotent repetitions (same revision, same review) change nothing and are not
  actions.
- The content of a text and of a review, the quality alterations of a draft and
  the inputs of a review are a turn that succeeds or fails.  Guards that block for
  reasons outside of the model (an inventory mapping, a missing credential) are a
  free choice of the failing outcome.
- The scopes of a semantic review other than the revision, and the drafts other
  than the initial one, share their tables with those modelled and are not rows of
  the model.
- A vendor read is a status and whether it brought facts; which facts they are is
  not told apart.  The scheduler's job is a direct read at any time.
- Who the principal is and what a grant signs is one grant number: the model has
  one principal and one action, as the receipt is looked up.
- A candidate that changes is one Boolean: it gives the promoted snapshot or not.
- The validation of a promotion is only whether the loaded payload was free of
  blockers when it was last validated.

## 8. Not modelled

The locks of disposition approvals (the approve route answers 409 whenever a
proposal exists, so no request contends for a lock), the stop reconciliation (a repair of a fixed manifest of runs, whose compare-and-swap is
the `Transition` of `CodexRuns`), the discard of dev drafts, the other source-fact
and disposition authorities (one append-only receipt in one transaction), the
other kinds of actions, storage recovery (one offline operator, pure I/O), the app
server's wire protocol, the job registry and calendar, vendor clients and metric
tables, pure projections (briefing, opportunities, knowledge, measurement,
planning inputs), the scripts, the dashboard and the HTTP layer.  Most of the
repository's lines are of these kinds: vendor clients, projections, evidence
records and texts that hold no shared state.

Five behaviours are in the models and promised by nobody, so no property speaks of
them: a claim of the planning queue that is left to expire when its context cannot
be read; a new approval of an applied revision, which is a new consent; a new-page
revision that is superseded during its write; the claim of a new page whose
apply died, which nothing resolves (`ClaimsAreLeftByDeathsOnly` says that nothing
but a death leaves one); and a running refresh whose close raised, which its own
process cannot recover, so that every POST for the connector finds this run until
a process started later recovers it.  A planning run that stays "started" is of the same kind;
`StartedRunsAreAccounted` says what leaves it.

## 9. Plan

1. The drafts of `InitialDraft` as the appender of the revisions of
   `WordPressApply` (an append is refused during an apply) and of `NewPageApply`
   (it is not).
2. A larger `research_promotion` with `MaxStray` 1, to let the model checker see
   replays after a stray event; the proofs cover it already.
3. Proofs: what the abstract ledgers promise by themselves (a plan that is
   published stays, a consent is spent once), and with the refinements of the
   detailed specifications; variants like `StepsLeft` for the applies, the queued
   runs and the refresh.
