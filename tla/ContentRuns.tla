----------------------------- MODULE ContentRuns -----------------------------
(***************************************************************************)
(* The two queued Codex operations of a work item in one server process:   *)
(* the drafts append the revisions that the reviews review, editors and    *)
(* planning move the work item under both, and a crash ends the requests   *)
(* and workers of both at once.                                            *)
(***************************************************************************)
EXTENDS SemanticReview, InitialDraft

CONSTANT MaxRuns   \* bound of the model on the runs of both operations

ASSUME ContentRunsAssumption == MaxRuns \in Nat

vars == <<itemVars, reviewVars, draftVars>>

Init == ItemInit /\ ReviewInit /\ DraftInit

Crash == Fault /\ ReviewCrash /\ DraftCrash

RunsBounded ==
    Cardinality({r \in ReviewRuns : reviewRun[r].status # "none"})
      + Cardinality({r \in DraftRuns : draftRun[r].status # "none"}) <= MaxRuns

Next ==
    \/ ReviewStep /\ UNCHANGED draftVars /\ RunsBounded'
    \/ DraftStep /\ UNCHANGED reviewVars /\ RunsBounded'
    \/ ItemMoves /\ UNCHANGED <<reviewVars, draftVars>>
    \/ Crash

Spec == Init /\ [][Next]_vars

\* The threads of both executors are scheduled and a Codex turn is bounded by
\* the deadline of its run; nothing obliges people, plans or the clock.
Fairness ==
    /\ \A r \in ReviewRuns : WF_vars(ReviewWorkerStep(r) /\ UNCHANGED draftVars)
    /\ \A r \in DraftRuns : WF_vars(DraftWorkerStep(r) /\ UNCHANGED reviewVars)

FairSpec == Spec /\ Fairness

\* The rows, the workers and the counters of both operations keep their types.
TypeOK == ReviewTypeOK /\ DraftTypeOK

\* Whatever path a review or a draft took, a run that nobody works on is ended;
\* only a crash or a lost write leaves one for its deadline to expire.
RunsAreEnded == ReviewWorkerEndsRun /\ DraftWorkerEndsRun

\* Every claimed review and draft is worked off, refused or ended by a crash,
\* whatever the other operation does meanwhile.
RunsSettle == ReviewSettles /\ DraftSettles
=============================================================================
