---------------------------- MODULE SemanticReview ----------------------------
(***************************************************************************)
(* The advisory semantic review of the draft revisions of one work item    *)
(* (wilq/content/quality/semantic_review_*, routers/content_semantic_review)*)
(*                                                                         *)
(* A POST claims a run in one transaction and submits it to an executor;   *)
(* the worker prepares its inputs, checks that the run may still be        *)
(* executed, runs a Codex turn and commits the review together with the    *)
(* completion of the run.  A GET expires the newest run of its revision.   *)
(* An action is one transaction or one read; the place of a run's worker   *)
(* is kept by run, for a run has at most one.                              *)
(***************************************************************************)
EXTENDS CodexRuns

CONSTANTS
    MaxReviewRuns,   \* bound of the model on runs
    ReviewThreads    \* max_workers of _SEMANTIC_REVIEW_EXECUTOR

ASSUME ReviewAssumption ==
    /\ MaxReviewRuns \in Nat \ {0}
    /\ ReviewThreads \in Nat \ {0}

ReviewRuns == 1 .. MaxReviewRuns

VARIABLES
    reviewRun,      \* codex_runs with hook content_semantic_review
    review,         \* content_semantic_reviews: the run of each stored review
    reviewJob,      \* where the request or worker of each run is
    reviewVerdict   \* the status of the result its worker has to report

reviewVars == <<reviewRun, review, reviewJob, reviewVerdict>>

\* "claimed": the request holds the new run and has not submitted it yet.
ReviewRunning == {"prepare", "start", "turn", "persist", "report"}
ReviewPlace == {"none", "claimed", "queued", "gone"} \cup ReviewRunning

ReviewTypeOK ==
    /\ ItemTypeOK
    /\ reviewRun \in [ReviewRuns -> Row(Revisions)]
    /\ review \in [Revisions -> {0} \cup ReviewRuns]
    /\ reviewJob \in [ReviewRuns -> ReviewPlace]
    /\ reviewVerdict \in [ReviewRuns -> {"completed"} \cup Ended]

ReviewInit ==
    /\ reviewRun = [r \in ReviewRuns |-> NoRow(1)]
    /\ review = [v \in Revisions |-> 0]
    /\ reviewJob = [r \in ReviewRuns |-> "none"]
    /\ reviewVerdict = [r \in ReviewRuns |-> "failed"]

-----------------------------------------------------------------------------
ReviewGoto(r, place) == reviewJob' = [reviewJob EXCEPT ![r] = place]

\* The next run id, in the order of started_at.
NextReviewRun(r) ==
    /\ reviewRun[r].status = "none"
    /\ \A s \in ReviewRuns : s < r => reviewRun[s].status # "none"

\* The worker leaves with a result: the run is ended where it was noticed, and
\* terminalize_queued_run_from_result comes next.
ReviewEnds(r, status) ==
    /\ reviewRun' = Transition(reviewRun, r, status)
    /\ reviewVerdict' = [reviewVerdict EXCEPT ![r] = status]
    /\ ReviewGoto(r, "report")

-----------------------------------------------------------------------------
(* Requests.                                                               *)

\* claim_run of a POST for revision v, which was the newest when the request
\* read its snapshot.  A claim that finds a run within its deadline, a stored
\* review or a guard that blocks changes nothing.
ClaimReview(v, r) ==
    /\ v <= latest
    /\ review[v] = 0
    /\ \A s \in Active(reviewRun, v) : Expired(reviewRun[s])
    /\ NextReviewRun(r)
    /\ reviewRun' = ClaimRow(reviewRun, r, v)
    /\ ReviewGoto(r, "claimed")
    /\ UNCHANGED <<itemVars, review, reviewVerdict>>

SubmitReview(r) ==
    /\ reviewJob[r] = "claimed"
    /\ ReviewGoto(r, "queued")
    /\ UNCHANGED <<itemVars, reviewRun, review, reviewVerdict>>

\* latest_semantic_run of a GET: the newest run of the revision is expired.
ReadExpiresReview(r) ==
    /\ reviewRun[r].status = "started"
    /\ \A s \in ReviewRuns :
        s > r /\ reviewRun[s].status # "none" => reviewRun[s].key # reviewRun[r].key
    /\ Expired(reviewRun[r])
    /\ reviewRun' = Transition(reviewRun, r, "failed")
    /\ UNCHANGED <<itemVars, review, reviewJob, reviewVerdict>>

-----------------------------------------------------------------------------
(* The worker of a run.                                                    *)

\* Mutant: a thread that waits for its Codex turn is counted twice.
BeginReviewLeaksThreads(r) ==
    /\ reviewJob[r] = "queued"
    /\ Cardinality({s \in ReviewRuns : reviewJob[s] \in ReviewRunning \cup {"gone"}})
         < ReviewThreads
    /\ ReviewGoto(r, "prepare")
    /\ UNCHANGED <<itemVars, reviewRun, review, reviewVerdict>>

\* An executor thread takes the run.
BeginReview(r) ==
    /\ reviewJob[r] = "queued"
    /\ Cardinality({s \in ReviewRuns : reviewJob[s] \in ReviewRunning}) < ReviewThreads
    /\ ReviewGoto(r, "prepare")
    /\ UNCHANGED <<itemVars, reviewRun, review, reviewVerdict>>

\* _prepare_inputs refuses the revision, its plan or the store, a review is
\* stored already ("idempotent"), or the snapshot cannot be loaded.
ReviewPrepareEnds(r) ==
    /\ reviewJob[r] = "prepare"
    /\ \E status \in (IF review[reviewRun[r].key] = 0 THEN Ended ELSE Ended \cup {"completed"}) :
        reviewVerdict' = [reviewVerdict EXCEPT ![r] = status]
    /\ ReviewGoto(r, "report")
    /\ UNCHANGED <<itemVars, reviewRun, review>>

ReviewPrepared(r) ==
    /\ reviewJob[r] = "prepare"
    /\ review[reviewRun[r].key] = 0
    /\ ReviewGoto(r, "start")
    /\ UNCHANGED <<itemVars, reviewRun, review, reviewVerdict>>

\* _start_run: a run that ended meanwhile or is past its deadline is not
\* executed ("failed"); the run itself is ended by the report.
StartReview(r) ==
    /\ reviewJob[r] = "start"
    /\ IF reviewRun[r].status = "started" /\ ~Expired(reviewRun[r])
       THEN ReviewGoto(r, "turn") /\ UNCHANGED reviewVerdict
       ELSE /\ ReviewGoto(r, "report")
            /\ reviewVerdict' = [reviewVerdict EXCEPT ![r] = "failed"]
    /\ UNCHANGED <<itemVars, reviewRun, review>>

\* _execute: the deadline passed, the turn failed, was blocked or tried to
\* leave its sandbox, or its output is not a review.
ReviewTurnFails(r) ==
    /\ reviewJob[r] = "turn"
    /\ \E status \in Ended : ReviewEnds(r, status)
    /\ UNCHANGED <<itemVars, review>>

ReviewTurnSucceeds(r) ==
    /\ reviewJob[r] = "turn"
    /\ ReviewGoto(r, "persist")
    /\ UNCHANGED <<itemVars, reviewRun, review, reviewVerdict>>

\* The inputs changed, the output leaves its scope, or save_generated is
\* refused: a review appeared, the run ended, its deadline passed, or the
\* write failed.
ReviewNotSaved(r) ==
    /\ reviewJob[r] = "persist"
    /\ \E status \in Ended : ReviewEnds(r, status)
    /\ UNCHANGED <<itemVars, review>>

\* Mutant: the completion is not compared with the stored run.
SaveReviewOfEndedRun(r) ==
    /\ reviewJob[r] = "persist"
    /\ review[reviewRun[r].key] = 0
    /\ review' = [review EXCEPT ![reviewRun[r].key] = r]
    /\ reviewRun' = [reviewRun EXCEPT ![r].status = "completed"]
    /\ reviewVerdict' = [reviewVerdict EXCEPT ![r] = "completed"]
    /\ ReviewGoto(r, "report")
    /\ UNCHANGED itemVars

\* save_generated: review and completion in one transaction.
SaveReview(r) ==
    /\ reviewJob[r] = "persist"
    /\ review[reviewRun[r].key] = 0
    /\ reviewRun[r].status = "started"
    /\ ~Expired(reviewRun[r])
    /\ review' = [review EXCEPT ![reviewRun[r].key] = r]
    /\ reviewRun' = [reviewRun EXCEPT ![r].status = "completed"]
    /\ reviewVerdict' = [reviewVerdict EXCEPT ![r] = "completed"]
    /\ ReviewGoto(r, "report")
    /\ UNCHANGED itemVars

\* Mutant: only a result that failed is written back to the run.
ReportOnlyFailure(r) ==
    /\ reviewJob[r] = "report"
    /\ reviewRun' = IF reviewVerdict[r] = "failed"
                    THEN Transition(reviewRun, r, "failed") ELSE reviewRun
    /\ ReviewGoto(r, "gone")
    /\ UNCHANGED <<itemVars, review, reviewVerdict>>

\* terminalize_queued_run_from_result, or mark_semantic_run_failed.
ReportReview(r) ==
    /\ reviewJob[r] = "report"
    /\ reviewRun' = Transition(reviewRun, r, reviewVerdict[r])
    /\ ReviewGoto(r, "gone")
    /\ UNCHANGED <<itemVars, review, reviewVerdict>>

\* The write of the report fails as well, or the submission raises: nobody
\* works on the run any more.
ReviewWriteLost(r) ==
    /\ reviewJob[r] \in {"claimed", "report"}
    /\ Fault
    /\ ReviewGoto(r, "gone")
    /\ UNCHANGED <<reviewRun, review, reviewVerdict>>

\* The process ends: requests and workers are gone, the rows stay.
ReviewCrash ==
    /\ reviewJob' = [r \in ReviewRuns |->
                        IF reviewJob[r] = "none" THEN "none" ELSE "gone"]
    /\ UNCHANGED <<reviewRun, review, reviewVerdict>>

-----------------------------------------------------------------------------
ReviewWorkerStep(r) ==
    \/ SubmitReview(r)
    \/ BeginReview(r)
    \/ ReviewPrepareEnds(r)
    \/ ReviewPrepared(r)
    \/ StartReview(r)
    \/ ReviewTurnFails(r)
    \/ ReviewTurnSucceeds(r)
    \/ ReviewNotSaved(r)
    \/ SaveReview(r)
    \/ ReportReview(r)

ReviewStep ==
    \/ \E v \in Revisions, r \in ReviewRuns : ClaimReview(v, r)
    \/ \E r \in ReviewRuns : ReviewWorkerStep(r)
    \/ \E r \in ReviewRuns : ReadExpiresReview(r)
    \/ \E r \in ReviewRuns : ReviewWriteLost(r)

ReviewNext ==
    \/ ReviewStep
    \/ Fault /\ ReviewCrash
    \/ ItemMoves /\ UNCHANGED reviewVars

ReviewSpec == ItemInit /\ ReviewInit /\ [][ReviewNext]_<<itemVars, reviewVars>>

-----------------------------------------------------------------------------
(* Properties.                                                             *)

\* The reviews keep the promises of a run ledger: a revision has one started
\* run at a time and one review for good, a review is stored exactly when its
\* run is completed, and a run that ended (timed out by a GET, taken over by a
\* POST) never comes back to produce one.
ReviewLedger == INSTANCE RunLedger WITH
    Runs <- ReviewRuns,
    Keys <- Revisions,
    key <- [r \in ReviewRuns |-> reviewRun[r].key],
    status <- [r \in ReviewRuns |-> reviewRun[r].status],
    product <- {r \in ReviewRuns : \E v \in Revisions : review[v] = r}
ReviewKeepsLedger == ReviewLedger!Spec

\* A worker that is done leaves its run ended whatever path it took, so that
\* the page never shows a review as being generated with nobody at work; only
\* a crash or a lost write leaves one for the deadline to expire.
ReviewWorkerEndsRun ==
    faults = 0 =>
        \A r \in ReviewRuns : reviewJob[r] = "gone" => reviewRun[r].status # "started"

\* A claimed run is worked off: no result blocks an executor thread for good.
ReviewSettles ==
    \A r \in ReviewRuns : reviewJob[r] = "claimed" ~> reviewJob[r] = "gone"
=============================================================================
