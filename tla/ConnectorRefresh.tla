--------------------------- MODULE ConnectorRefresh ---------------------------
(***************************************************************************)
(* Reading a vendor's data into the metric store                           *)
(* (wilq/connectors/refresh, wilq/storage/connector_refresh_runs,          *)
(* routers/connectors, wilq/jobs/scheduler).                               *)
(*                                                                         *)
(* A run is a row of SQLite; its metrics are rows of DuckDB, so that no    *)
(* transaction holds both.  An asynchronous POST enqueues a run, or finds  *)
(* the one its connector has, and adds a background task for it in either  *)
(* case; a synchronous POST, the command line and the scheduler work on a  *)
(* run of their own, whose row they write without comparing.  Server       *)
(* processes start, end and may overlap; an operator may ask any of them   *)
(* to end a run whose process was lost.                                    *)
(***************************************************************************)
EXTENDS Integers, FiniteSets

CONSTANTS
    Processes,    \* lives of the server process; a restart is another one
    Connectors,
    MaxRuns,      \* bound of the model on runs
    MaxTasks,     \* bound of the model on background tasks and direct reads
    MaxClock      \* bound of the model on time

ASSUME RefreshAssumption ==
    /\ Processes # {}
    /\ Connectors # {}
    /\ MaxRuns \in Nat \ {0}
    /\ MaxTasks \in Nat \ {0}
    /\ MaxClock \in Nat

Runs == 1 .. MaxRuns
Tasks == 1 .. MaxTasks

VARIABLES
    clock,
    fence,      \* _PROCESS_START_FENCE of each process, once it is started
    life,       \* whether each process is not started, up or down
    owned,      \* _CURRENT_PROCESS_CLAIMS of each process
    row,        \* connector_refresh_runs
    metrics,    \* connector_metric_facts: the runs with stored facts
    audit,      \* audit event of each recovered run: the process that wrote it
    task,       \* a task: its process, its run and whether the row is its own
    pc          \* where each task is

vars == <<clock, fence, life, owned, row, metrics, audit, task, pc>>

Closed == {"completed", "blocked", "failed"}
Open == {"queued", "running"}

Row == [conn : Connectors, status : {"none"} \cup Open \cup Closed,
        started : 0 .. MaxClock, facts : BOOLEAN, persisted : BOOLEAN]
\* VendorReadResult: how the read ended and whether it brought metric facts.
Result == [status : Closed, facts : BOOLEAN]

\* Places where a task works on a run it claimed or created.
Working == {"vendor", "metrics", "kept", "lost"}

TypeOK ==
    /\ clock \in 0 .. MaxClock
    /\ fence \in [Processes -> 0 .. MaxClock]
    /\ life \in [Processes -> {"new", "up", "down"}]
    /\ owned \in [Processes -> SUBSET Runs]
    /\ row \in [Runs -> Row]
    /\ metrics \subseteq Runs
    /\ audit \in [Runs -> SUBSET Processes]
    /\ task \in [Tasks -> [proc : Processes, run : Runs, direct : BOOLEAN]]
    /\ pc \in [Tasks -> {"none", "claim", "done", "raised"} \cup Working]

Init ==
    /\ clock = 0
    /\ fence = [p \in Processes |-> 0]
    /\ life = [p \in Processes |-> "new"]
    /\ owned = [p \in Processes |-> {}]
    /\ \E c \in Connectors :
        row = [r \in Runs |-> [conn |-> c, status |-> "none", started |-> 0,
                               facts |-> FALSE, persisted |-> FALSE]]
    /\ metrics = {}
    /\ audit = [r \in Runs |-> {}]
    /\ \E p \in Processes :
        task = [t \in Tasks |-> [proc |-> p, run |-> 1, direct |-> FALSE]]
    /\ pc = [t \in Tasks |-> "none"]

-----------------------------------------------------------------------------
Goto(t, place) == pc' = [pc EXCEPT ![t] = place]

\* uuid4: no row and no direct read has this id.
FreshRun(r) ==
    /\ row[r].status = "none"
    /\ \A t \in Tasks : pc[t] # "none" => task[t].run # r
    /\ \A s \in Runs : s < r => row[s].status # "none"
                                \/ \E t \in Tasks : pc[t] # "none" /\ task[t].run = s

NewTask(t, p, r, direct) ==
    /\ pc[t] = "none"
    /\ \A s \in Tasks : s < t => pc[s] # "none"
    /\ life[p] = "up"
    /\ task' = [task EXCEPT ![t] = [proc |-> p, run |-> r, direct |-> direct]]

\* Mutant: only queued rows keep another run of the connector out.
QueuedRunsOf(c) == {r \in Runs : row[r].conn = c /\ row[r].status = "queued"}

\* The rows that keep another run of the connector out of the queue.
OpenRunsOf(c) == {r \in Runs : row[r].conn = c /\ row[r].status \in Open}

-----------------------------------------------------------------------------
(* Requests.                                                               *)

\* enqueue_connector_refresh_run inserts a queued row.
Enqueue(t, p, c, r) ==
    /\ NewTask(t, p, r, FALSE)
    /\ OpenRunsOf(c) = {}
    /\ FreshRun(r)
    /\ row' = [row EXCEPT ![r] = [conn |-> c, status |-> "queued", started |-> clock,
                                  facts |-> FALSE, persisted |-> FALSE]]
    /\ Goto(t, "claim")
    /\ UNCHANGED <<clock, fence, life, owned, metrics, audit>>

\* It finds an open run instead, and the route adds a task for that run: a run
\* queued by a process that was lost is worked off this way.
EnqueueFindsOpen(t, p, r) ==
    /\ NewTask(t, p, r, FALSE)
    /\ row[r].status \in Open
    /\ Goto(t, "claim")
    /\ UNCHANGED <<clock, fence, life, owned, row, metrics, audit>>

\* run_connector_refresh: a direct read, of a run that has no row yet.
StartDirect(t, p, c, r) ==
    /\ NewTask(t, p, r, TRUE)
    /\ FreshRun(r)
    /\ row' = [row EXCEPT ![r].conn = c, ![r].started = clock]
    /\ Goto(t, "vendor")
    /\ UNCHANGED <<clock, fence, life, owned, metrics, audit>>

-----------------------------------------------------------------------------
(* One task.                                                               *)

\* Mutant: the UPDATE forgets AND status = 'queued'.
ClaimAgain(t) ==
    /\ pc[t] = "claim"
    /\ row' = [row EXCEPT ![task[t].run].status = "running"]
    /\ owned' = [owned EXCEPT ![task[t].proc] = @ \cup {task[t].run}]
    /\ Goto(t, "vendor")
    /\ UNCHANGED <<clock, fence, life, metrics, audit, task>>

\* Mutant: the process does not remember what it claimed.
ClaimUnowned(t) ==
    /\ pc[t] = "claim"
    /\ IF row[task[t].run].status = "queued"
       THEN /\ row' = [row EXCEPT ![task[t].run].status = "running"]
            /\ Goto(t, "vendor")
       ELSE Goto(t, "done") /\ UNCHANGED row
    /\ UNCHANGED <<clock, fence, life, owned, metrics, audit, task>>

\* claim_queued_connector_refresh_run: a task that loses does nothing more.
Claim(t) ==
    /\ pc[t] = "claim"
    /\ IF row[task[t].run].status = "queued"
       THEN /\ row' = [row EXCEPT ![task[t].run].status = "running"]
            /\ owned' = [owned EXCEPT ![task[t].proc] = @ \cup {task[t].run}]
            /\ Goto(t, "vendor")
       ELSE Goto(t, "done") /\ UNCHANGED <<row, owned>>
    /\ UNCHANGED <<clock, fence, life, metrics, audit, task>>

\* Mutant: the worker overwrites a run that was recovered meanwhile.
CloseUnfenced(t, res) ==
    /\ pc[t] = "vendor"
    /\ row' = [row EXCEPT ![task[t].run].status = res.status,
                          ![task[t].run].facts = res.facts]
    /\ Goto(t, "metrics")
    /\ UNCHANGED <<clock, fence, life, owned, metrics, audit, task>>

\* The read ends, controlled failures included, and the row is closed with
\* metrics_persisted False: a direct read inserts it, a queued run must still be
\* the running row that was claimed.
Close(t, res) ==
    /\ pc[t] = "vendor"
    /\ IF task[t].direct \/ row[task[t].run].status = "running"
       THEN /\ row' = [row EXCEPT ![task[t].run].status = res.status,
                                  ![task[t].run].facts = res.facts]
            /\ Goto(t, "metrics")
       ELSE Goto(t, "done") /\ UNCHANGED row
    /\ UNCHANGED <<clock, fence, life, owned, metrics, audit, task>>

\* save_connector_refresh_metrics: the facts of the run are replaced in one
\* DuckDB transaction, if there are any.
SaveMetrics(t) ==
    /\ pc[t] = "metrics"
    /\ metrics' = IF row[task[t].run].facts THEN metrics \cup {task[t].run} ELSE metrics
    /\ Goto(t, "kept")
    /\ UNCHANGED <<clock, fence, life, owned, row, audit, task>>

\* The metric store raises and its transaction is rolled back.
MetricsFail(t) ==
    /\ pc[t] = "metrics"
    /\ Goto(t, "lost")
    /\ UNCHANGED <<clock, fence, life, owned, row, metrics, audit, task>>

\* Mutant: the row takes the reason why its metrics are missing as its status.
MarkRawReason(t) ==
    /\ pc[t] \in {"kept", "lost"}
    /\ row' = IF pc[t] = "kept"
              THEN [row EXCEPT ![task[t].run].persisted = TRUE]
              ELSE [row EXCEPT ![task[t].run].status = "metric_persistence_failed"]
    /\ Goto(t, "done")
    /\ UNCHANGED <<clock, fence, life, owned, metrics, audit, task>>

\* Mutant: the run is marked persisted although its metrics were lost.
MarkAlwaysPersisted(t) ==
    /\ pc[t] \in {"kept", "lost"}
    /\ row' = [row EXCEPT ![task[t].run].persisted = TRUE]
    /\ Goto(t, "done")
    /\ UNCHANGED <<clock, fence, life, owned, metrics, audit, task>>

\* The row closes again: persisted, or failed with metric_persistence_failed.
\* The compared row is the one this task closed, which nobody else writes.
Mark(t) ==
    /\ pc[t] \in {"kept", "lost"}
    /\ row' = IF pc[t] = "kept"
              THEN [row EXCEPT ![task[t].run].persisted = TRUE]
              ELSE [row EXCEPT ![task[t].run].status = "failed"]
    /\ Goto(t, "done")
    /\ UNCHANGED <<clock, fence, life, owned, metrics, audit, task>>

\* A transaction on the rows raises - the database stays locked - and nothing
\* catches it: the task ends, its process lives, and what it did before stays.
\* The process notes a claim before the transaction commits.
Raise(t) ==
    /\ pc[t] \in {"claim", "vendor", "kept", "lost"}
    /\ \/ UNCHANGED owned
       \/ /\ pc[t] = "claim" /\ row[task[t].run].status = "queued"
          /\ owned' = [owned EXCEPT ![task[t].proc] = @ \cup {task[t].run}]
    /\ Goto(t, IF pc[t] = "claim" THEN "done" ELSE "raised")
    /\ UNCHANGED <<clock, fence, life, row, metrics, audit, task>>

-----------------------------------------------------------------------------
(* Recovery and processes.                                                 *)

\* recover_running_connector_refresh_run: row and audit event in one
\* transaction.  The payload comparison makes the row read by the route and by
\* the classifier the row that is replaced.
Recover(p, r) ==
    /\ life[p] = "up"
    /\ row[r].status = "running"
    /\ r \notin owned[p]
    /\ row[r].started < fence[p]
    /\ row' = [row EXCEPT ![r].status = "failed"]
    /\ audit' = [audit EXCEPT ![r] = @ \cup {p}]
    /\ UNCHANGED <<clock, fence, life, owned, metrics, task, pc>>

Boot(p) ==
    /\ life[p] = "new"
    /\ life' = [life EXCEPT ![p] = "up"]
    /\ fence' = [fence EXCEPT ![p] = clock]
    /\ UNCHANGED <<clock, owned, row, metrics, audit, task, pc>>

\* The process and its tasks are gone between any two of their steps.
Die(p) ==
    /\ life[p] = "up"
    /\ life' = [life EXCEPT ![p] = "down"]
    /\ pc' = [t \in Tasks |-> IF pc[t] # "none" /\ task[t].proc = p
                              THEN "done" ELSE pc[t]]
    /\ UNCHANGED <<clock, fence, owned, row, metrics, audit, task>>

Tick ==
    /\ clock < MaxClock
    /\ clock' = clock + 1
    /\ UNCHANGED <<fence, life, owned, row, metrics, audit, task, pc>>

-----------------------------------------------------------------------------
Request(t) ==
    \E p \in Processes, r \in Runs :
        \/ \E c \in Connectors : Enqueue(t, p, c, r)
        \/ EnqueueFindsOpen(t, p, r)
        \/ \E c \in Connectors : StartDirect(t, p, c, r)

TaskStep(t) ==
    \/ Claim(t)
    \/ \E res \in Result : Close(t, res)
    \/ SaveMetrics(t)
    \/ MetricsFail(t)
    \/ Mark(t)
    \/ Raise(t)

Next ==
    \/ \E t \in Tasks : Request(t)
    \/ \E t \in Tasks : TaskStep(t)
    \/ \E p \in Processes, r \in Runs : Recover(p, r)
    \/ \E p \in Processes : Boot(p)
    \/ \E p \in Processes : Die(p)
    \/ Tick

Spec == Init /\ [][Next]_vars

-----------------------------------------------------------------------------
(* Properties.                                                             *)

\* A connector has one row that is queued or running, whatever processes, tasks,
\* failed writes and recoveries there are.  It may have more readers: direct reads
\* have no open row, and the worker of a recovered run is still reading.
OneOpenRun ==
    \A r, s \in Runs :
        row[r].status \in Open /\ row[s].status \in Open /\ row[r].conn = row[s].conn
        => r = s

\* A run is worked on by one task: every POST adds a task for the open run,
\* also in another process, and one of them claims it.
OneWorkerPerRun ==
    \A s, t \in Tasks :
        pc[s] \in Working /\ pc[t] \in Working /\ task[s].run = task[t].run => s = t

\* A run that says its metrics are persisted has those facts in the metric store,
\* the other database.  Facts are those of a run that ended and brought some; they
\* lack the flag only while their task is about to set it, or when the write that
\* sets it raised, or their process died before it.
MetricsMatchRuns ==
    /\ \A r \in Runs : row[r].persisted /\ row[r].facts => r \in metrics
    /\ \A r \in metrics :
        /\ row[r].status \in Closed /\ row[r].facts
        /\ \/ row[r].persisted
           \/ \E t \in Tasks : task[t].run = r /\ pc[t] \in {"kept", "raised", "done"}
                               /\ (pc[t] = "done" => life[task[t].proc] = "down")

\* A run that was recovered is failed, was audited by one process, and stores
\* no facts: the worker that comes back late does no work.
RecoveredStaysFailed ==
    \A r \in Runs : audit[r] # {} =>
        /\ Cardinality(audit[r]) = 1
        /\ row[r].status = "failed"
        /\ ~row[r].persisted
        /\ r \notin metrics

\* A process never declares its own work lost: the tasks of the process that
\* recovered a run do not work on it, also when the run was queued by an
\* earlier process and its start lies before the fence.
NoSelfRecovery ==
    \A t \in Tasks : pc[t] \in Working => task[t].proc \notin audit[task[t].run]
=============================================================================
