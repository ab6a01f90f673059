------------------------------ MODULE CodexRuns ------------------------------
(***************************************************************************)
(* What the queued Codex operations on one content work item share: the    *)
(* rows of codex_runs with their compare-and-swap transition               *)
(* (runtime/codex_run_lifecycle), the deadline of a run, the plan of the   *)
(* work item and the chain of its draft revisions, which other people and  *)
(* other requests move while a run works.                                  *)
(*                                                                         *)
(* SemanticReview and InitialDraft extend this module; ContentRuns puts    *)
(* them side by side.                                                      *)
(***************************************************************************)
EXTENDS Integers, FiniteSets

CONSTANTS
    Plans,         \* planning digests the work item may have
    MaxRevisions,  \* bound of the model on draft revisions
    RunTimeout,    \* seconds a run may work, in ticks
    MaxClock,      \* bound of the model on time
    MaxFaults      \* bound of the model on crashes and lost writes

ASSUME CodexRunsAssumption ==
    /\ Plans # {}
    /\ MaxRevisions \in Nat \ {0}
    /\ RunTimeout \in Nat \ {0}
    /\ MaxClock \in Nat
    /\ MaxFaults \in Nat

Revisions == 1 .. MaxRevisions

VARIABLES
    clock,    \* wall clock of the server process
    plan,     \* planning digest of the current planning workspace
    latest,   \* number of the newest draft revision, 0 if there is none
    madeFor,  \* the plan the newest revision was written for
    faults    \* crashes and lost writes so far

itemVars == <<clock, plan, latest, madeFor, faults>>

ItemTypeOK ==
    /\ clock \in 0 .. MaxClock
    /\ plan \in Plans
    /\ latest \in 0 .. MaxRevisions
    /\ madeFor \in Plans
    /\ faults \in 0 .. MaxFaults

ItemInit ==
    /\ clock = 0
    /\ plan \in Plans
    /\ latest = 0
    /\ madeFor = plan
    /\ faults = 0

-----------------------------------------------------------------------------
(* Rows of codex_runs.  A table is a function from run ids, numbered in the *)
(* order of started_at, to rows; the key of a row is what its claim binds.  *)

RunStatus == {"none", "started", "completed", "blocked", "failed"}
Ended == {"blocked", "failed"}

Row(keys) == [key : keys, status : RunStatus, deadline : 0 .. MaxClock + RunTimeout]
NoRow(key) == [key |-> key, status |-> "none", deadline |-> 0]
NewRow(key) == [key |-> key, status |-> "started", deadline |-> clock + RunTimeout]

\* effective_deadline: the deadline itself is already too late.
Expired(row) == clock >= row.deadline

\* transition_codex_run_if_status: a row that is not "started" any more stays.
Transition(table, r, status) ==
    IF table[r].status = "started"
    THEN [table EXCEPT ![r].status = status]
    ELSE table

\* The started rows a claim of this key finds.
Active(table, key) ==
    {r \in DOMAIN table : table[r].status = "started" /\ table[r].key = key}

\* The claim that finds no active row within its deadline: it fails those that
\* are past theirs and inserts row r.
ClaimRow(table, r, key) ==
    [s \in DOMAIN table |->
        IF s = r THEN NewRow(key)
        ELSE IF s \in Active(table, key) THEN [table[s] EXCEPT !.status = "failed"]
        ELSE table[s]]

-----------------------------------------------------------------------------
(* The work item moves on its own.                                         *)

\* append_draft_revision on behalf of an editor: no Codex run is completed.
EditorAppends ==
    /\ latest < MaxRevisions
    /\ latest' = latest + 1
    /\ madeFor' = plan
    /\ UNCHANGED <<clock, plan, faults>>

\* The planning workspace is replaced by one with another digest.
PlanChanges ==
    /\ plan' \in Plans \ {plan}
    /\ UNCHANGED <<clock, latest, madeFor, faults>>

Tick ==
    /\ clock < MaxClock
    /\ clock' = clock + 1
    /\ UNCHANGED <<plan, latest, madeFor, faults>>

ItemMoves == EditorAppends \/ PlanChanges \/ Tick

Fault ==
    /\ faults < MaxFaults
    /\ faults' = faults + 1
    /\ UNCHANGED <<clock, plan, latest, madeFor>>
=============================================================================
