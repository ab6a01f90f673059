------------------------ MODULE ConnectorRefreshProofs ------------------------
(***************************************************************************)
(* Proofs about ConnectorRefresh for every number of processes, runs and   *)
(* tasks.  RunsInv says which rows a task may still be working on; it is   *)
(* what keeps a recovery, a late worker and a second worker apart.         *)
(***************************************************************************)
EXTENDS ConnectorRefresh, FiniteSetTheorems, TLAPS

Statuses == {"none"} \cup Open \cup Closed

\* What a task may count on while it works.
WorkInv(t) ==
    /\ pc[t] = "claim" => ~task[t].direct
    /\ pc[t] \in Working => row[task[t].run].status # "queued"
    /\ pc[t] = "vendor" /\ task[t].direct => row[task[t].run].status = "none"
    /\ pc[t] \in {"metrics", "kept", "lost"} =>
          row[task[t].run].status \in Closed /\ audit[task[t].run] = {}
    /\ pc[t] \in Working /\ ~task[t].direct =>
          task[t].run \in owned[task[t].proc]
    /\ pc[t] = "kept" /\ row[task[t].run].facts => task[t].run \in metrics

\* And what holds of a run before it is closed.
RunsInv ==
    /\ \A t \in Tasks : WorkInv(t)
    /\ \A r \in Runs : row[r].status \in {"none"} \cup Open =>
          ~row[r].persisted /\ r \notin metrics /\ audit[r] = {}

\* MetricsMatchRuns, but for what is known of a run with facts.
MetricsMarked ==
    /\ \A r \in Runs : row[r].persisted /\ row[r].facts => r \in metrics
    /\ \A r \in metrics :
        \/ row[r].persisted
        \/ \E t \in Tasks : task[t].run = r /\ pc[t] \in {"kept", "raised", "done"}
                            /\ (pc[t] = "done" => life[task[t].proc] = "down")

\* Inductive: NextInv.
Inv ==
    /\ TypeOK
    /\ RunsInv
    /\ OneOpenRun
    /\ OneWorkerPerRun
    /\ RecoveredStaysFailed
    /\ NoSelfRecovery
    /\ MetricsMarked

-----------------------------------------------------------------------------
\* Rows.

\* A row whose status is replaced.
LEMMA StatusReplaced ==
    ASSUME NEW c, NEW s, NEW b, NEW f, NEW p, NEW x
    PROVE  [[conn |-> c, status |-> s, started |-> b, facts |-> f,
             persisted |-> p] EXCEPT !.status = x] =
               [conn |-> c, status |-> x, started |-> b, facts |-> f,
                persisted |-> p]
OBVIOUS

\* A row whose facts are replaced.
LEMMA FactsReplaced ==
    ASSUME NEW c, NEW s, NEW b, NEW f, NEW p, NEW x
    PROVE  [[conn |-> c, status |-> s, started |-> b, facts |-> f,
             persisted |-> p] EXCEPT !.facts = x] =
               [conn |-> c, status |-> s, started |-> b, facts |-> x,
                persisted |-> p]
OBVIOUS

\* A row that is marked persisted.
LEMMA PersistedReplaced ==
    ASSUME NEW c, NEW s, NEW b, NEW f, NEW p, NEW x
    PROVE  [[conn |-> c, status |-> s, started |-> b, facts |-> f,
             persisted |-> p] EXCEPT !.persisted = x] =
               [conn |-> c, status |-> s, started |-> b, facts |-> f,
                persisted |-> x]
OBVIOUS

\* A row of another connector.
LEMMA ConnReplaced ==
    ASSUME NEW c, NEW s, NEW b, NEW f, NEW p, NEW x
    PROVE  [[conn |-> c, status |-> s, started |-> b, facts |-> f,
             persisted |-> p] EXCEPT !.conn = x] =
               [conn |-> x, status |-> s, started |-> b, facts |-> f,
                persisted |-> p]
OBVIOUS

\* A row that starts at another time.
LEMMA StartedReplaced ==
    ASSUME NEW c, NEW s, NEW b, NEW f, NEW p, NEW x
    PROVE  [[conn |-> c, status |-> s, started |-> b, facts |-> f,
             persisted |-> p] EXCEPT !.started = x] =
               [conn |-> c, status |-> s, started |-> x, facts |-> f,
                persisted |-> p]
OBVIOUS

\* A row is the record of its fields.
LEMMA RowFields ==
    ASSUME NEW q \in Row
    PROVE  \E c \in Connectors, s \in Statuses, b \in 0 .. MaxClock,
              f \in BOOLEAN, p \in BOOLEAN :
               q = [conn |-> c, status |-> s, started |-> b, facts |-> f,
                    persisted |-> p]
<1>1. q = [conn |-> q.conn, status |-> q.status, started |-> q.started,
           facts |-> q.facts, persisted |-> q.persisted]
    BY DEF Row
<1>. QED
    BY <1>1, Zenon DEF Row, Statuses

\* A row of the given fields, and what it has.
LEMMA RowOf ==
    ASSUME NEW c \in Connectors, NEW s \in Statuses, NEW b \in 0 .. MaxClock,
           NEW f \in BOOLEAN, NEW p \in BOOLEAN
    PROVE  [conn |-> c, status |-> s, started |-> b, facts |-> f,
            persisted |-> p] \in Row
BY DEF Row, Statuses

LEMMA StatusSet ==
    ASSUME NEW q \in Row, NEW x \in Statuses
    PROVE  /\ [q EXCEPT !.status = x] \in Row
           /\ [q EXCEPT !.status = x].status = x
           /\ [q EXCEPT !.status = x].conn = q.conn
           /\ [q EXCEPT !.status = x].facts = q.facts
           /\ [q EXCEPT !.status = x].persisted = q.persisted
<1>1. PICK c \in Connectors, s \in Statuses, b \in 0 .. MaxClock,
           f \in BOOLEAN, p \in BOOLEAN :
          q = [conn |-> c, status |-> s, started |-> b, facts |-> f,
               persisted |-> p]
    BY RowFields
<1> DEFINE w == [conn |-> c, status |-> s, started |-> b, facts |-> f,
                 persisted |-> p]
           v == [conn |-> c, status |-> x, started |-> b, facts |-> f,
                 persisted |-> p]
<1>2. [w EXCEPT !.status = x] = v
    BY StatusReplaced
<1>3. q = w
    BY <1>1
<1>4. v \in Row
    BY RowOf
<1>5. v.status = x /\ v.conn = q.conn /\ v.facts = q.facts
      /\ v.persisted = q.persisted
    BY <1>1
<1> HIDE DEF w, v
<1>. QED
    BY <1>2, <1>3, <1>4, <1>5

LEMMA FactsSet ==
    ASSUME NEW q \in Row, NEW x \in BOOLEAN
    PROVE  /\ [q EXCEPT !.facts = x] \in Row
           /\ [q EXCEPT !.facts = x].facts = x
           /\ [q EXCEPT !.facts = x].conn = q.conn
           /\ [q EXCEPT !.facts = x].status = q.status
           /\ [q EXCEPT !.facts = x].persisted = q.persisted
<1>1. PICK c \in Connectors, s \in Statuses, b \in 0 .. MaxClock,
           f \in BOOLEAN, p \in BOOLEAN :
          q = [conn |-> c, status |-> s, started |-> b, facts |-> f,
               persisted |-> p]
    BY RowFields
<1> DEFINE w == [conn |-> c, status |-> s, started |-> b, facts |-> f,
                 persisted |-> p]
           v == [conn |-> c, status |-> s, started |-> b, facts |-> x,
                 persisted |-> p]
<1>2. [w EXCEPT !.facts = x] = v
    BY FactsReplaced
<1>3. q = w
    BY <1>1
<1>4. v \in Row
    BY RowOf
<1>5. v.facts = x /\ v.conn = q.conn /\ v.status = q.status
      /\ v.persisted = q.persisted
    BY <1>1
<1> HIDE DEF w, v
<1>. QED
    BY <1>2, <1>3, <1>4, <1>5

LEMMA PersistedSet ==
    ASSUME NEW q \in Row, NEW x \in BOOLEAN
    PROVE  /\ [q EXCEPT !.persisted = x] \in Row
           /\ [q EXCEPT !.persisted = x].persisted = x
           /\ [q EXCEPT !.persisted = x].conn = q.conn
           /\ [q EXCEPT !.persisted = x].status = q.status
           /\ [q EXCEPT !.persisted = x].facts = q.facts
<1>1. PICK c \in Connectors, s \in Statuses, b \in 0 .. MaxClock,
           f \in BOOLEAN, p \in BOOLEAN :
          q = [conn |-> c, status |-> s, started |-> b, facts |-> f,
               persisted |-> p]
    BY RowFields
<1> DEFINE w == [conn |-> c, status |-> s, started |-> b, facts |-> f,
                 persisted |-> p]
           v == [conn |-> c, status |-> s, started |-> b, facts |-> f,
                 persisted |-> x]
<1>2. [w EXCEPT !.persisted = x] = v
    BY PersistedReplaced
<1>3. q = w
    BY <1>1
<1>4. v \in Row
    BY RowOf
<1>5. v.persisted = x /\ v.conn = q.conn /\ v.status = q.status
      /\ v.facts = q.facts
    BY <1>1
<1> HIDE DEF w, v
<1>. QED
    BY <1>2, <1>3, <1>4, <1>5

\* A direct read sets the connector and the start of its run.
DirectRow(q, x, y) == [[q EXCEPT !.conn = x] EXCEPT !.started = y]

LEMMA DirectSet ==
    ASSUME NEW q \in Row, NEW x \in Connectors, NEW y \in 0 .. MaxClock
    PROVE  /\ DirectRow(q, x, y) \in Row
           /\ DirectRow(q, x, y).status = q.status
           /\ DirectRow(q, x, y).facts = q.facts
           /\ DirectRow(q, x, y).persisted = q.persisted
<1>1. PICK c \in Connectors, s \in Statuses, b \in 0 .. MaxClock,
           f \in BOOLEAN, p \in BOOLEAN :
          q = [conn |-> c, status |-> s, started |-> b, facts |-> f,
               persisted |-> p]
    BY RowFields
<1> DEFINE w == [conn |-> c, status |-> s, started |-> b, facts |-> f,
                 persisted |-> p]
           v == [conn |-> x, status |-> s, started |-> b, facts |-> f,
                 persisted |-> p]
           u == [conn |-> x, status |-> s, started |-> y, facts |-> f,
                 persisted |-> p]
<1>2. [w EXCEPT !.conn = x] = v
    BY ConnReplaced
<1>3. [v EXCEPT !.started = y] = u
    BY StartedReplaced
<1>4. q = w
    BY <1>1
<1>5. u \in Row
    BY RowOf
<1>6. u.status = q.status /\ u.facts = q.facts /\ u.persisted = q.persisted
    BY <1>1
<1> HIDE DEF w, v, u
<1>. QED
    BY <1>2, <1>3, <1>4, <1>5, <1>6 DEF DirectRow

-----------------------------------------------------------------------------
\* Requests.

\* A run no task has, for which one is added.
LEMMA TaskAdded ==
    ASSUME TypeOK, NEW t \in Tasks, NEW p \in Processes, NEW r \in Runs,
           NEW direct \in BOOLEAN, NewTask(t, p, r, direct)
    PROVE  /\ task' \in [Tasks -> [proc : Processes, run : Runs,
                                   direct : BOOLEAN]]
           /\ task'[t].proc = p /\ task'[t].run = r /\ task'[t].direct = direct
           /\ \A s \in Tasks \ {t} : task'[s] = task[s]
BY DEF NewTask, TypeOK

LEMMA EnqueueInv ==
    ASSUME Inv, NEW t \in Tasks, NEW p \in Processes, NEW c \in Connectors,
           NEW r \in Runs, Enqueue(t, p, c, r)
    PROVE  Inv'
<1> DEFINE q == [conn |-> c, status |-> "queued", started |-> clock,
                 facts |-> FALSE, persisted |-> FALSE]
<1>1. q \in Row
    BY DEF Row, Open, Inv, TypeOK
<1>2. q.conn = c /\ q.status = "queued" /\ q.facts = FALSE /\ q.persisted = FALSE
    OBVIOUS
<1>3. row' = [row EXCEPT ![r] = q]
    BY DEF Enqueue
<1> HIDE DEF q
<1>4. /\ row' \in [Runs -> Row] /\ row'[r] = q
      /\ \A s \in Runs \ {r} : row'[s] = row[s]
    BY <1>1, <1>3 DEF Inv, TypeOK
<1>5. /\ task' \in [Tasks -> [proc : Processes, run : Runs, direct : BOOLEAN]]
      /\ task'[t].proc = p /\ task'[t].run = r /\ task'[t].direct = FALSE
      /\ \A s \in Tasks \ {t} : task'[s] = task[s]
    BY TaskAdded DEF Enqueue, Inv
<1>6. /\ pc' \in [Tasks -> {"none", "claim", "done", "raised"} \cup Working]
      /\ pc[t] = "none" /\ pc'[t] = "claim"
      /\ \A s \in Tasks \ {t} : pc'[s] = pc[s]
    BY DEF Enqueue, NewTask, Goto, Inv, TypeOK
<1>7. /\ OpenRunsOf(c) = {} /\ row[r].status = "none"
      /\ \A s \in Tasks : pc[s] # "none" => task[s].run # r
      /\ UNCHANGED <<clock, fence, life, owned, metrics, audit>>
    BY DEF Enqueue, FreshRun
<1>8. TypeOK'
    BY <1>4, <1>5, <1>6, <1>7 DEF Inv, TypeOK
<1>9. RunsInv'
  <2>1. WorkInv(t)'
    BY <1>5, <1>6 DEF WorkInv, Working
  <2>2. ASSUME NEW s \in Tasks \ {t} PROVE WorkInv(s)'
    <3>1. WorkInv(s) /\ (pc[s] \in Working => task[s].run \in Runs \ {r})
      BY <1>7 DEF Inv, RunsInv, TypeOK, Working
    <3>. QED
      BY <1>4, <1>5, <1>6, <1>7, <3>1 DEF WorkInv, Working
  <2>3. \A s \in Runs : row'[s].status \in {"none"} \cup Open =>
            ~row'[s].persisted /\ s \notin metrics' /\ audit'[s] = {}
    BY <1>2, <1>4, <1>7 DEF Inv, RunsInv
  <2>. QED
    BY <2>1, <2>2, <2>3 DEF RunsInv
<1>10. OneOpenRun'
    BY <1>2, <1>4, <1>7 DEF Inv, OneOpenRun, OpenRunsOf, Open
<1>11. OneWorkerPerRun'
    BY <1>5, <1>6, <1>7 DEF Inv, OneWorkerPerRun, Working
<1>12. RecoveredStaysFailed'
    BY <1>2, <1>4, <1>7 DEF Inv, RecoveredStaysFailed, RunsInv
<1>13. NoSelfRecovery'
    BY <1>5, <1>6, <1>7 DEF Inv, NoSelfRecovery, Working
<1>14. MetricsMarked'
  <2>1. r \notin metrics
    BY <1>7 DEF Inv, RunsInv
  <2>2. \A s \in Runs : row'[s].persisted /\ row'[s].facts => s \in metrics'
    BY <1>2, <1>4, <1>7 DEF Inv, MetricsMarked
  <2>3. ASSUME NEW s \in metrics, ~row[s].persisted
        PROVE  \E u \in Tasks : /\ task'[u].run = s
                                /\ pc'[u] \in {"kept", "raised", "done"}
                                /\ pc'[u] = "done" => life[task'[u].proc] = "down"
    <3>1. PICK u \in Tasks : /\ task[u].run = s /\ pc[u] \in {"kept", "raised", "done"}
                             /\ pc[u] = "done" => life[task[u].proc] = "down"
      BY <2>3 DEF Inv, MetricsMarked
    <3>. QED
      BY <1>5, <1>6, <3>1
  <2>4. metrics \subseteq Runs
    BY DEF Inv, TypeOK
  <2>. QED
    BY <1>4, <1>7, <2>1, <2>2, <2>3, <2>4 DEF MetricsMarked
<1>. QED
    BY <1>8, <1>9, <1>10, <1>11, <1>12, <1>13, <1>14 DEF Inv

LEMMA EnqueueFindsOpenInv ==
    ASSUME Inv, NEW t \in Tasks, NEW p \in Processes, NEW r \in Runs,
           EnqueueFindsOpen(t, p, r)
    PROVE  Inv'
<1>1. /\ task' \in [Tasks -> [proc : Processes, run : Runs, direct : BOOLEAN]]
      /\ task'[t].proc = p /\ task'[t].run = r /\ task'[t].direct = FALSE
      /\ \A s \in Tasks \ {t} : task'[s] = task[s]
    BY TaskAdded DEF EnqueueFindsOpen, Inv
<1>2. /\ pc' \in [Tasks -> {"none", "claim", "done", "raised"} \cup Working]
      /\ pc[t] = "none" /\ pc'[t] = "claim"
      /\ \A s \in Tasks \ {t} : pc'[s] = pc[s]
    BY DEF EnqueueFindsOpen, NewTask, Goto, Inv, TypeOK
<1>3. UNCHANGED <<clock, fence, life, owned, row, metrics, audit>>
    BY DEF EnqueueFindsOpen
<1>4. TypeOK'
    BY <1>1, <1>2, <1>3 DEF Inv, TypeOK
<1>5. RunsInv'
  <2>1. WorkInv(t)'
    BY <1>1, <1>2 DEF WorkInv, Working
  <2>2. ASSUME NEW s \in Tasks \ {t} PROVE WorkInv(s)'
    <3>1. WorkInv(s) /\ task'[s] = task[s] /\ pc'[s] = pc[s]
      BY <1>1, <1>2 DEF Inv, RunsInv
    <3>. QED
      BY <1>3, <3>1 DEF WorkInv
  <2>. QED
    BY <1>3, <2>1, <2>2 DEF Inv, RunsInv
<1>6. OneOpenRun' /\ RecoveredStaysFailed'
    BY <1>3 DEF Inv, OneOpenRun, RecoveredStaysFailed
<1>7. OneWorkerPerRun'
    BY <1>1, <1>2 DEF Inv, OneWorkerPerRun, Working
<1>8. NoSelfRecovery'
    BY <1>1, <1>2, <1>3 DEF Inv, NoSelfRecovery, Working
<1>9. MetricsMarked'
    BY <1>1, <1>2, <1>3 DEF Inv, MetricsMarked
<1>. QED
    BY <1>4, <1>5, <1>6, <1>7, <1>8, <1>9 DEF Inv

LEMMA StartDirectInv ==
    ASSUME Inv, NEW t \in Tasks, NEW p \in Processes, NEW c \in Connectors,
           NEW r \in Runs, StartDirect(t, p, c, r)
    PROVE  Inv'
<1> DEFINE q == DirectRow(row[r], c, clock)
<1>1. row[r] \in Row /\ clock \in 0 .. MaxClock
    BY DEF Inv, TypeOK
<1>2. /\ q \in Row /\ q.status = row[r].status /\ q.facts = row[r].facts
      /\ q.persisted = row[r].persisted
    BY <1>1, DirectSet
<1>3. row' = [row EXCEPT ![r] = q]
    BY DEF StartDirect, Inv, TypeOK, DirectRow
<1> HIDE DEF q
<1>4. /\ row' \in [Runs -> Row]
      /\ \A s \in Runs \ {r} : row'[s] = row[s]
      /\ \A s \in Runs : /\ row'[s].status = row[s].status
                         /\ row'[s].facts = row[s].facts
                         /\ row'[s].persisted = row[s].persisted
    BY <1>2, <1>3 DEF Inv, TypeOK
<1>5. /\ task' \in [Tasks -> [proc : Processes, run : Runs, direct : BOOLEAN]]
      /\ task'[t].proc = p /\ task'[t].run = r /\ task'[t].direct = TRUE
      /\ \A s \in Tasks \ {t} : task'[s] = task[s]
    BY TaskAdded DEF StartDirect, Inv
<1>6. /\ pc' \in [Tasks -> {"none", "claim", "done", "raised"} \cup Working]
      /\ pc[t] = "none" /\ pc'[t] = "vendor"
      /\ \A s \in Tasks \ {t} : pc'[s] = pc[s]
    BY DEF StartDirect, NewTask, Goto, Inv, TypeOK, Working
<1>7. /\ row[r].status = "none"
      /\ \A s \in Tasks : pc[s] # "none" => task[s].run # r
      /\ UNCHANGED <<clock, fence, life, owned, metrics, audit>>
    BY DEF StartDirect, FreshRun
<1>8. TypeOK'
    BY <1>4, <1>5, <1>6, <1>7 DEF Inv, TypeOK
<1>9. RunsInv'
  <2>1. WorkInv(t)'
    BY <1>4, <1>5, <1>6, <1>7 DEF WorkInv, Working
  <2>2. ASSUME NEW s \in Tasks \ {t} PROVE WorkInv(s)'
    <3>1. WorkInv(s) /\ task[s].run \in Runs
      BY DEF Inv, RunsInv, TypeOK
    <3>. QED
      BY <1>4, <1>5, <1>6, <1>7, <3>1 DEF WorkInv
  <2>3. \A s \in Runs : row'[s].status \in {"none"} \cup Open =>
            ~row'[s].persisted /\ s \notin metrics' /\ audit'[s] = {}
    BY <1>4, <1>7 DEF Inv, RunsInv
  <2>. QED
    BY <2>1, <2>2, <2>3 DEF RunsInv
<1>10. OneOpenRun'
    BY <1>4, <1>7 DEF Inv, OneOpenRun, Open
<1>11. OneWorkerPerRun'
    BY <1>5, <1>6, <1>7 DEF Inv, OneWorkerPerRun, Working
<1>12. RecoveredStaysFailed'
    BY <1>4, <1>7 DEF Inv, RecoveredStaysFailed
<1>13. NoSelfRecovery'
    BY <1>5, <1>6, <1>7 DEF Inv, NoSelfRecovery, RunsInv, Working
<1>14. MetricsMarked'
  <2>1. \A s \in Runs : row'[s].persisted /\ row'[s].facts => s \in metrics'
    BY <1>4, <1>7 DEF Inv, MetricsMarked
  <2>2. ASSUME NEW s \in metrics, ~row[s].persisted
        PROVE  \E u \in Tasks : /\ task'[u].run = s
                                /\ pc'[u] \in {"kept", "raised", "done"}
                                /\ pc'[u] = "done" => life[task'[u].proc] = "down"
    <3>1. PICK u \in Tasks : /\ task[u].run = s /\ pc[u] \in {"kept", "raised", "done"}
                             /\ pc[u] = "done" => life[task[u].proc] = "down"
      BY <2>2 DEF Inv, MetricsMarked
    <3>. QED
      BY <1>5, <1>6, <3>1
  <2>3. metrics \subseteq Runs
    BY DEF Inv, TypeOK
  <2>. QED
    BY <1>4, <1>7, <2>1, <2>2, <2>3 DEF MetricsMarked
<1>. QED
    BY <1>8, <1>9, <1>10, <1>11, <1>12, <1>13, <1>14 DEF Inv

-----------------------------------------------------------------------------
\* The steps of a task.

\* Facts that are not marked have a task that will, or that failed to, or died.
Marker(s, u) ==
    /\ task[u].run = s
    /\ pc[u] \in {"kept", "raised", "done"}
    /\ pc[u] = "done" => life[task[u].proc] = "down"

LEMMA MarkerExists ==
    ASSUME Inv, NEW s \in metrics, ~row[s].persisted
    PROVE  s \in Runs /\ \E u \in Tasks : Marker(s, u)
BY DEF Inv, TypeOK, MetricsMarked, Marker

\* A task that is refused its run ends, and so does one whose transaction raised;
\* the process may have noted the claim before.
LEMMA RetireInv ==
    ASSUME Inv, NEW t \in Tasks, NEW place \in {"done", "raised"},
           pc[t] \in {"claim", "vendor"}
             \/ (pc[t] \in {"kept", "lost"} /\ place = "raised"),
           Goto(t, place),
           owned' \in [Processes -> SUBSET Runs],
           \A p \in Processes : owned[p] \subseteq owned'[p],
           UNCHANGED <<clock, fence, life, row, metrics, audit, task>>
    PROVE  Inv'
<1>1. /\ pc' \in [Tasks -> {"none", "claim", "done", "raised"} \cup Working]
      /\ pc'[t] = place
      /\ \A s \in Tasks \ {t} : pc'[s] = pc[s]
    BY DEF Goto, Inv, TypeOK
<1>2. TypeOK'
    BY <1>1 DEF Inv, TypeOK
<1>3. RunsInv'
  <2>1. WorkInv(t)'
    BY <1>1 DEF WorkInv, Working
  <2>2. ASSUME NEW s \in Tasks \ {t} PROVE WorkInv(s)'
    <3>1. WorkInv(s) /\ pc'[s] = pc[s]
      BY <1>1 DEF Inv, RunsInv
    <3>2. task[s].proc \in Processes
      BY DEF Inv, TypeOK
    <3>. QED
      BY <3>1, <3>2 DEF WorkInv
  <2>. QED
    BY <2>1, <2>2 DEF Inv, RunsInv
<1>4. OneOpenRun' /\ RecoveredStaysFailed'
    BY DEF Inv, OneOpenRun, RecoveredStaysFailed
<1>5. OneWorkerPerRun'
    BY <1>1 DEF Inv, OneWorkerPerRun, Working
<1>6. NoSelfRecovery'
    BY <1>1 DEF Inv, NoSelfRecovery, Working
<1>7. MetricsMarked'
  <2>1. ASSUME NEW s \in metrics, ~row[s].persisted
        PROVE  \E u \in Tasks : Marker(s, u)'
    BY <1>1, <2>1, MarkerExists DEF Marker
  <2>. QED
    BY <2>1 DEF Inv, MetricsMarked, Marker
<1>. QED
    BY <1>2, <1>3, <1>4, <1>5, <1>6, <1>7 DEF Inv

\* A task claims its queued run.
LEMMA ClaimWinsInv ==
    ASSUME Inv, NEW t \in Tasks, Claim(t), row[task[t].run].status = "queued"
    PROVE  Inv'
<1> DEFINE r == task[t].run
           p == task[t].proc
           q == [row[r] EXCEPT !.status = "running"]
<1>1. r \in Runs /\ p \in Processes /\ row[r] \in Row
    BY DEF Inv, TypeOK
<1>2. /\ q \in Row /\ q.status = "running" /\ q.conn = row[r].conn
      /\ q.facts = row[r].facts /\ q.persisted = row[r].persisted
    BY <1>1, StatusSet DEF Statuses, Open
<1>3. row' = [row EXCEPT ![r] = q]
    BY DEF Claim
<1> HIDE DEF q
<1>4. /\ row' \in [Runs -> Row] /\ row'[r] = q
      /\ \A s \in Runs \ {r} : row'[s] = row[s]
    BY <1>1, <1>2, <1>3 DEF Inv, TypeOK
<1>5. /\ pc' \in [Tasks -> {"none", "claim", "done", "raised"} \cup Working]
      /\ pc[t] = "claim" /\ pc'[t] = "vendor"
      /\ \A s \in Tasks \ {t} : pc'[s] = pc[s]
    BY DEF Claim, Goto, Inv, TypeOK, Working
<1>6. /\ owned' \in [Processes -> SUBSET Runs]
      /\ r \in owned'[p]
      /\ \A s \in Processes : owned[s] \subseteq owned'[s]
  <2>1. owned' = [owned EXCEPT ![p] = @ \cup {r}]
    BY DEF Claim
  <2>2. owned \in [Processes -> SUBSET Runs]
    BY DEF Inv, TypeOK
  <2> HIDE DEF r, p
  <2>. QED
    BY <1>1, <2>1, <2>2
<1>7. /\ row[r].status = "queued"
      /\ UNCHANGED <<clock, fence, life, metrics, audit, task>>
    BY DEF Claim
<1>8. \A s \in Tasks : pc[s] \in Working => task[s].run \in Runs \ {r}
    BY <1>7 DEF Inv, RunsInv, WorkInv, TypeOK
<1>9. audit[r] = {} /\ ~row[r].persisted /\ r \notin metrics
    BY <1>1, <1>7 DEF Inv, RunsInv, Open
<1>10. TypeOK'
    BY <1>4, <1>5, <1>6, <1>7 DEF Inv, TypeOK
<1>11. RunsInv'
  <2>1. WorkInv(t)'
    <3>1. ~task[t].direct
      BY <1>5 DEF Inv, RunsInv, WorkInv
    <3>. QED
      BY <1>2, <1>4, <1>5, <1>6, <1>7, <3>1 DEF WorkInv
  <2>2. ASSUME NEW s \in Tasks \ {t} PROVE WorkInv(s)'
    <3>1. WorkInv(s) /\ task[s].proc \in Processes
      BY DEF Inv, RunsInv, TypeOK
    <3>. QED
      BY <1>4, <1>5, <1>6, <1>7, <1>8, <3>1 DEF WorkInv, Working
  <2>3. \A s \in Runs : row'[s].status \in {"none"} \cup Open =>
            ~row'[s].persisted /\ s \notin metrics' /\ audit'[s] = {}
    BY <1>2, <1>4, <1>7, <1>9 DEF Inv, RunsInv
  <2>. QED
    BY <2>1, <2>2, <2>3 DEF RunsInv
<1>12. OneOpenRun'
    BY <1>1, <1>2, <1>4, <1>7 DEF Inv, OneOpenRun, Open
<1>13. OneWorkerPerRun'
    BY <1>5, <1>7, <1>8 DEF Inv, OneWorkerPerRun
<1>14. RecoveredStaysFailed'
    BY <1>4, <1>7, <1>9 DEF Inv, RecoveredStaysFailed
<1>15. NoSelfRecovery'
    BY <1>5, <1>7, <1>9 DEF Inv, NoSelfRecovery
<1>16. MetricsMarked'
  <2>1. \A s \in Runs : row'[s].persisted /\ row'[s].facts => s \in metrics'
    BY <1>2, <1>4, <1>7 DEF Inv, MetricsMarked
  <2>2. ASSUME NEW s \in metrics, ~row'[s].persisted
        PROVE  \E u \in Tasks : Marker(s, u)'
    <3>1. s \in Runs /\ s # r
      BY <1>9 DEF Inv, TypeOK
    <3>2. PICK u \in Tasks : Marker(s, u)
      BY <1>4, <2>2, <3>1, MarkerExists
    <3>. QED
      BY <1>5, <1>7, <3>2 DEF Marker
  <2>. QED
    BY <1>7, <2>1, <2>2 DEF MetricsMarked, Marker
<1>. QED
    BY <1>10, <1>11, <1>12, <1>13, <1>14, <1>15, <1>16 DEF Inv

\* The read ends and closes the row it may close.
LEMMA CloseWinsInv ==
    ASSUME Inv, NEW t \in Tasks, NEW res \in Result, Close(t, res),
           task[t].direct \/ row[task[t].run].status = "running"
    PROVE  Inv'
<1> DEFINE r == task[t].run
           q == [[row[r] EXCEPT !.status = res.status] EXCEPT !.facts = res.facts]
<1>1. r \in Runs /\ row[r] \in Row /\ res.status \in Closed
      /\ res.status \in Statuses /\ res.facts \in BOOLEAN
    BY DEF Inv, TypeOK, Result, Statuses
<1>2. /\ q \in Row /\ q.status = res.status /\ q.conn = row[r].conn
      /\ q.persisted = row[r].persisted
  <2> DEFINE w == [row[r] EXCEPT !.status = res.status]
  <2>1. /\ w \in Row /\ w.status = res.status /\ w.conn = row[r].conn
        /\ w.persisted = row[r].persisted
    BY <1>1, StatusSet
  <2> HIDE DEF w
  <2>2. /\ [w EXCEPT !.facts = res.facts] \in Row
        /\ [w EXCEPT !.facts = res.facts].status = w.status
        /\ [w EXCEPT !.facts = res.facts].conn = w.conn
        /\ [w EXCEPT !.facts = res.facts].persisted = w.persisted
    BY <1>1, <2>1, FactsSet
  <2>. QED
    BY <2>1, <2>2 DEF w
<1>3. row' = [row EXCEPT ![r] = q]
  <2>1. row' = [row EXCEPT ![r].status = res.status, ![r].facts = res.facts]
    BY DEF Close
  <2>2. row \in [Runs -> Row] /\ r \in Runs
    BY DEF Inv, TypeOK
  <2> HIDE DEF r
  <2>. QED
    BY <2>1, <2>2
<1> HIDE DEF q
<1>4. /\ row' \in [Runs -> Row] /\ row'[r] = q
      /\ \A s \in Runs \ {r} : row'[s] = row[s]
    BY <1>1, <1>2, <1>3 DEF Inv, TypeOK
<1>5. /\ pc' \in [Tasks -> {"none", "claim", "done", "raised"} \cup Working]
      /\ pc[t] = "vendor" /\ pc'[t] = "metrics"
      /\ \A s \in Tasks \ {t} : pc'[s] = pc[s]
    BY DEF Close, Goto, Inv, TypeOK, Working
<1>6. UNCHANGED <<clock, fence, life, owned, metrics, audit, task>>
    BY DEF Close
<1>7. row[r].status \in {"none", "running"}
    BY <1>5 DEF Inv, RunsInv, WorkInv
<1>8. audit[r] = {} /\ ~row[r].persisted /\ r \notin metrics
    BY <1>1, <1>7 DEF Inv, RunsInv, Open
<1>9. \A s \in Tasks \ {t} : pc[s] \in Working => task[s].run \in Runs \ {r}
    BY <1>5 DEF Inv, OneWorkerPerRun, TypeOK, Working
<1>10. TypeOK'
    BY <1>4, <1>5, <1>6 DEF Inv, TypeOK
<1>11. RunsInv'
  <2>1. WorkInv(t)'
    <3>1. WorkInv(t)
      BY DEF Inv, RunsInv
    <3>. QED
      BY <1>1, <1>2, <1>4, <1>5, <1>6, <1>8, <3>1 DEF WorkInv, Working, Closed
  <2>2. ASSUME NEW s \in Tasks \ {t} PROVE WorkInv(s)'
    <3>1. WorkInv(s)
      BY DEF Inv, RunsInv
    <3>. QED
      BY <1>4, <1>5, <1>6, <1>9, <3>1 DEF WorkInv, Working
  <2>3. \A s \in Runs : row'[s].status \in {"none"} \cup Open =>
            ~row'[s].persisted /\ s \notin metrics' /\ audit'[s] = {}
    BY <1>2, <1>4, <1>6, <1>8 DEF Inv, RunsInv
  <2>. QED
    BY <2>1, <2>2, <2>3 DEF RunsInv
<1>12. OneOpenRun'
    BY <1>1, <1>2, <1>4 DEF Inv, OneOpenRun, Open, Closed
<1>13. OneWorkerPerRun'
    BY <1>5, <1>6 DEF Inv, OneWorkerPerRun, Working
<1>14. RecoveredStaysFailed'
    BY <1>4, <1>6, <1>8 DEF Inv, RecoveredStaysFailed
<1>15. NoSelfRecovery'
    BY <1>5, <1>6 DEF Inv, NoSelfRecovery, Working
<1>16. MetricsMarked'
  <2>1. \A s \in Runs : row'[s].persisted /\ row'[s].facts => s \in metrics'
    BY <1>2, <1>4, <1>6, <1>8 DEF Inv, MetricsMarked
  <2>2. ASSUME NEW s \in metrics, ~row'[s].persisted
        PROVE  \E u \in Tasks : Marker(s, u)'
    <3>1. s \in Runs /\ s # r
      BY <1>8 DEF Inv, TypeOK
    <3>2. PICK u \in Tasks : Marker(s, u)
      BY <1>4, <2>2, <3>1, MarkerExists
    <3>. QED
      BY <1>5, <1>6, <3>2 DEF Marker
  <2>. QED
    BY <1>6, <2>1, <2>2 DEF MetricsMarked, Marker
<1>. QED
    BY <1>10, <1>11, <1>12, <1>13, <1>14, <1>15, <1>16 DEF Inv

\* The facts of the run are stored, or the store failed.
LEMMA MetricsInv ==
    ASSUME Inv, NEW t \in Tasks, SaveMetrics(t) \/ MetricsFail(t)
    PROVE  Inv'
<1> DEFINE r == task[t].run
<1>1. r \in Runs
    BY DEF Inv, TypeOK
<1>2. /\ pc' \in [Tasks -> {"none", "claim", "done", "raised"} \cup Working]
      /\ pc[t] = "metrics" /\ pc'[t] \in {"kept", "lost"}
      /\ \A s \in Tasks \ {t} : pc'[s] = pc[s]
    BY DEF SaveMetrics, MetricsFail, Goto, Inv, TypeOK, Working
<1>3. /\ metrics \subseteq metrics' /\ metrics' \subseteq metrics \cup {r}
      /\ pc'[t] = "kept" /\ row[r].facts => r \in metrics'
      /\ r \in metrics' => r \in metrics \/ pc'[t] = "kept"
    BY <1>2 DEF SaveMetrics, MetricsFail, Goto, Inv, TypeOK
<1>4. UNCHANGED <<clock, fence, life, owned, row, audit, task>>
    BY DEF SaveMetrics, MetricsFail
<1>5. row[r].status \in Closed /\ audit[r] = {}
    BY <1>2 DEF Inv, RunsInv, WorkInv
<1>6. TypeOK'
    BY <1>1, <1>2, <1>3, <1>4 DEF Inv, TypeOK
<1>7. RunsInv'
  <2>1. WorkInv(t)'
    <3>1. WorkInv(t)
      BY DEF Inv, RunsInv
    <3>. QED
      BY <1>2, <1>3, <1>4, <3>1 DEF WorkInv, Working
  <2>2. ASSUME NEW s \in Tasks \ {t} PROVE WorkInv(s)'
    <3>1. WorkInv(s)
      BY DEF Inv, RunsInv
    <3>. QED
      BY <1>2, <1>3, <1>4, <3>1 DEF WorkInv
  <2>3. \A s \in Runs : row'[s].status \in {"none"} \cup Open =>
            ~row'[s].persisted /\ s \notin metrics' /\ audit'[s] = {}
    BY <1>3, <1>4, <1>5 DEF Inv, RunsInv, Open, Closed
  <2>. QED
    BY <2>1, <2>2, <2>3 DEF RunsInv
<1>8. OneOpenRun'
    BY <1>4 DEF Inv, OneOpenRun
<1>9. OneWorkerPerRun'
    BY <1>2, <1>4 DEF Inv, OneWorkerPerRun, Working
<1>10. RecoveredStaysFailed'
    BY <1>3, <1>4, <1>5 DEF Inv, RecoveredStaysFailed
<1>11. NoSelfRecovery'
    BY <1>2, <1>4 DEF Inv, NoSelfRecovery, Working
<1>12. MetricsMarked'
  <2>1. \A s \in Runs : row'[s].persisted /\ row'[s].facts => s \in metrics'
    BY <1>3, <1>4 DEF Inv, MetricsMarked
  <2>2. ASSUME NEW s \in metrics', ~row'[s].persisted
        PROVE  \E u \in Tasks : Marker(s, u)'
    <3>1. CASE s \in metrics
      <4>1. PICK u \in Tasks : Marker(s, u)
        BY <1>4, <2>2, <3>1, MarkerExists
      <4>. QED
        BY <1>2, <1>4, <4>1 DEF Marker
    <3>2. CASE s = r /\ pc'[t] = "kept"
      BY <1>4, <3>2 DEF Marker
    <3>. QED
      BY <1>3, <2>2, <3>1, <3>2
  <2>. QED
    BY <2>1, <2>2 DEF MetricsMarked, Marker
<1>. QED
    BY <1>6, <1>7, <1>8, <1>9, <1>10, <1>11, <1>12 DEF Inv

\* The run is marked with what became of its metrics.
LEMMA MarkInv ==
    ASSUME Inv, NEW t \in Tasks, Mark(t)
    PROVE  Inv'
<1> DEFINE r == task[t].run
<1>1. r \in Runs /\ row[r] \in Row /\ row \in [Runs -> Row]
    BY DEF Inv, TypeOK
<1>2. /\ pc' \in [Tasks -> {"none", "claim", "done", "raised"} \cup Working]
      /\ pc[t] \in {"kept", "lost"} /\ pc'[t] = "done"
      /\ \A s \in Tasks \ {t} : pc'[s] = pc[s]
    BY DEF Mark, Goto, Inv, TypeOK
<1>3. UNCHANGED <<clock, fence, life, owned, metrics, audit, task>>
    BY DEF Mark
<1>4. row[r].status \in Closed /\ audit[r] = {}
      /\ (pc[t] = "kept" /\ row[r].facts => r \in metrics)
    BY <1>2 DEF Inv, RunsInv, WorkInv
<1>5. PICK q \in Row :
          /\ row' = [row EXCEPT ![r] = q]
          /\ q.status \in Closed /\ q.conn = row[r].conn
          /\ q.facts = row[r].facts
          /\ row[r].persisted => q.persisted
          /\ pc[t] = "kept" => q.persisted
          /\ q.persisted => row[r].persisted \/ pc[t] = "kept"
  <2>1. CASE pc[t] = "kept"
    <3>1. PICK x \in BOOLEAN : x /\ row' = [row EXCEPT ![r].persisted = x]
      BY <2>1 DEF Mark
    <3> DEFINE q == [row[r] EXCEPT !.persisted = x]
    <3>2. /\ q \in Row /\ q.persisted = x /\ q.conn = row[r].conn
          /\ q.status = row[r].status /\ q.facts = row[r].facts
      BY <1>1, PersistedSet
    <3>3. row' = [row EXCEPT ![r] = q]
      BY <3>1
    <3> HIDE DEF q
    <3>. QED
      BY <1>4, <2>1, <3>1, <3>2, <3>3
  <2>2. CASE pc[t] = "lost"
    <3> DEFINE q == [row[r] EXCEPT !.status = "failed"]
    <3>1. /\ q \in Row /\ q.status = "failed" /\ q.conn = row[r].conn
          /\ q.facts = row[r].facts /\ q.persisted = row[r].persisted
      BY <1>1, StatusSet DEF Statuses, Closed
    <3>2. row' = [row EXCEPT ![r] = q]
      BY <2>2 DEF Mark
    <3> HIDE DEF q
    <3>. QED
      BY <2>2, <3>1, <3>2 DEF Closed
  <2>. QED
    BY <1>2, <2>1, <2>2
<1>6. /\ row' \in [Runs -> Row] /\ row'[r] = q
      /\ \A s \in Runs \ {r} : row'[s] = row[s]
    BY <1>1, <1>5
<1>7. \A s \in Tasks \ {t} : pc[s] \in Working => task[s].run \in Runs \ {r}
    BY <1>2 DEF Inv, OneWorkerPerRun, TypeOK, Working
<1>8. TypeOK'
    BY <1>2, <1>3, <1>6 DEF Inv, TypeOK
<1>9. RunsInv'
  <2>1. WorkInv(t)'
    BY <1>2 DEF WorkInv, Working
  <2>2. ASSUME NEW s \in Tasks \ {t} PROVE WorkInv(s)'
    <3>1. WorkInv(s)
      BY DEF Inv, RunsInv
    <3>. QED
      BY <1>2, <1>3, <1>6, <1>7, <3>1 DEF WorkInv, Working
  <2>3. \A s \in Runs : row'[s].status \in {"none"} \cup Open =>
            ~row'[s].persisted /\ s \notin metrics' /\ audit'[s] = {}
    BY <1>3, <1>5, <1>6 DEF Inv, RunsInv, Open, Closed
  <2>. QED
    BY <2>1, <2>2, <2>3 DEF RunsInv
<1>10. OneOpenRun'
    BY <1>5, <1>6 DEF Inv, OneOpenRun, Open, Closed
<1>11. OneWorkerPerRun'
    BY <1>2, <1>3 DEF Inv, OneWorkerPerRun, Working
<1>12. RecoveredStaysFailed'
    BY <1>3, <1>4, <1>6 DEF Inv, RecoveredStaysFailed
<1>13. NoSelfRecovery'
    BY <1>2, <1>3 DEF Inv, NoSelfRecovery, Working
<1>14. MetricsMarked'
  <2>1. \A s \in Runs : row'[s].persisted /\ row'[s].facts => s \in metrics'
    BY <1>3, <1>4, <1>5, <1>6 DEF Inv, MetricsMarked
  <2>2. ASSUME NEW s \in metrics, ~row'[s].persisted
        PROVE  \E u \in Tasks : Marker(s, u)'
    <3>1. ~row[s].persisted /\ (s = r => pc[t] = "lost")
      <4>1. s \in Runs
        BY DEF Inv, TypeOK
      <4>. QED
        BY <1>2, <1>5, <1>6, <2>2, <4>1
    <3>2. PICK u \in Tasks : Marker(s, u)
      BY <3>1, MarkerExists
    <3>3. u # t
      BY <1>2, <3>1, <3>2 DEF Marker
    <3>. QED
      BY <1>2, <1>3, <3>2, <3>3 DEF Marker
  <2>. QED
    BY <1>3, <2>1, <2>2 DEF MetricsMarked, Marker
<1>. QED
    BY <1>8, <1>9, <1>10, <1>11, <1>12, <1>13, <1>14 DEF Inv

-----------------------------------------------------------------------------
\* Recovery and processes.

\* An operator has a process end a running run that it did not claim.
LEMMA RecoverInv ==
    ASSUME Inv, NEW p \in Processes, NEW r \in Runs, Recover(p, r)
    PROVE  Inv'
<1> DEFINE q == [row[r] EXCEPT !.status = "failed"]
<1>1. row[r] \in Row
    BY DEF Inv, TypeOK
<1>2. /\ q \in Row /\ q.status = "failed" /\ q.conn = row[r].conn
      /\ q.facts = row[r].facts /\ q.persisted = row[r].persisted
    BY <1>1, StatusSet DEF Statuses, Closed
<1>3. row' = [row EXCEPT ![r] = q]
    BY DEF Recover
<1> HIDE DEF q
<1>4. /\ row' \in [Runs -> Row] /\ row'[r] = q
      /\ \A s \in Runs \ {r} : row'[s] = row[s]
    BY <1>2, <1>3 DEF Inv, TypeOK
<1>5. /\ row[r].status = "running" /\ r \notin owned[p]
      /\ UNCHANGED <<clock, fence, life, owned, metrics, task, pc>>
    BY DEF Recover
<1>6. audit[r] = {} /\ ~row[r].persisted /\ r \notin metrics
    BY <1>5 DEF Inv, RunsInv, Open
<1>7. /\ audit' \in [Runs -> SUBSET Processes] /\ audit'[r] = {p}
      /\ \A s \in Runs \ {r} : audit'[s] = audit[s]
    BY <1>6 DEF Recover, Inv, TypeOK
<1>8. \A t \in Tasks : task[t].run = r /\ pc[t] \in Working =>
          pc[t] = "vendor" /\ ~task[t].direct /\ task[t].proc # p
  <2> SUFFICES ASSUME NEW t \in Tasks, task[t].run = r, pc[t] \in Working
               PROVE  pc[t] = "vendor" /\ ~task[t].direct /\ task[t].proc # p
    OBVIOUS
  <2>1. WorkInv(t)
    BY DEF Inv, RunsInv
  <2>2. pc[t] = "vendor"
    BY <1>5, <2>1 DEF WorkInv, Working, Closed
  <2>3. ~task[t].direct
    BY <1>5, <2>1, <2>2 DEF WorkInv
  <2>. QED
    BY <1>5, <2>1, <2>2, <2>3 DEF WorkInv
<1>9. TypeOK'
    BY <1>4, <1>5, <1>7 DEF Inv, TypeOK
<1>10. RunsInv'
  <2>1. ASSUME NEW t \in Tasks PROVE WorkInv(t)'
    <3>1. WorkInv(t) /\ task[t].run \in Runs
      BY DEF Inv, RunsInv, TypeOK
    <3>2. CASE task[t].run = r
      BY <1>2, <1>4, <1>5, <1>8, <3>1, <3>2 DEF WorkInv, Working
    <3>3. CASE task[t].run # r
      BY <1>4, <1>5, <1>7, <3>1, <3>3 DEF WorkInv
    <3>. QED
      BY <3>2, <3>3
  <2>2. \A s \in Runs : row'[s].status \in {"none"} \cup Open =>
            ~row'[s].persisted /\ s \notin metrics' /\ audit'[s] = {}
    BY <1>2, <1>4, <1>5, <1>7 DEF Inv, RunsInv, Open
  <2>. QED
    BY <2>1, <2>2 DEF RunsInv
<1>11. OneOpenRun'
    BY <1>2, <1>4 DEF Inv, OneOpenRun, Open
<1>12. OneWorkerPerRun'
    BY <1>5 DEF Inv, OneWorkerPerRun
<1>13. RecoveredStaysFailed'
  <2>1. Cardinality({p}) = 1
    BY FS_Singleton
  <2>. QED
    BY <1>2, <1>4, <1>5, <1>6, <1>7, <2>1 DEF Inv, RecoveredStaysFailed
<1>14. NoSelfRecovery'
    BY <1>5, <1>7, <1>8 DEF Inv, NoSelfRecovery, TypeOK
<1>15. MetricsMarked'
  <2>1. \A s \in Runs : row'[s].persisted /\ row'[s].facts => s \in metrics'
    BY <1>2, <1>4, <1>5 DEF Inv, MetricsMarked
  <2>2. ASSUME NEW s \in metrics, ~row'[s].persisted
        PROVE  \E u \in Tasks : Marker(s, u)'
    <3>1. s \in Runs /\ s # r
      BY <1>6 DEF Inv, TypeOK
    <3>2. PICK u \in Tasks : Marker(s, u)
      BY <1>4, <2>2, <3>1, MarkerExists
    <3>. QED
      BY <1>5, <3>2 DEF Marker
  <2>. QED
    BY <1>5, <2>1, <2>2 DEF MetricsMarked, Marker
<1>. QED
    BY <1>9, <1>10, <1>11, <1>12, <1>13, <1>14, <1>15 DEF Inv

\* A process starts, or time passes.
LEMMA BootTickInv ==
    ASSUME Inv, Tick \/ \E p \in Processes : Boot(p)
    PROVE  Inv'
<1>1. UNCHANGED <<owned, row, metrics, audit, task, pc>>
    BY DEF Tick, Boot
<1>2. \A p \in Processes : life[p] = "down" => life'[p] = "down"
    BY DEF Tick, Boot, Inv, TypeOK
<1>3. TypeOK'
  <2>1. CASE Tick
    BY <2>1, RefreshAssumption DEF Tick, Inv, TypeOK
  <2>2. CASE \E p \in Processes : Boot(p)
    BY <2>2 DEF Boot, Inv, TypeOK
  <2>. QED
    BY <2>1, <2>2
<1>4. RunsInv' /\ OneOpenRun' /\ OneWorkerPerRun' /\ RecoveredStaysFailed'
      /\ NoSelfRecovery'
    BY <1>1
    DEF Inv, RunsInv, WorkInv, OneOpenRun, OneWorkerPerRun,
        RecoveredStaysFailed, NoSelfRecovery
<1>5. MetricsMarked'
  <2>1. ASSUME NEW s \in metrics, ~row[s].persisted
        PROVE  \E u \in Tasks : Marker(s, u)'
    <3>1. PICK u \in Tasks : Marker(s, u)
      BY <2>1, MarkerExists
    <3>2. task[u].proc \in Processes
      BY DEF Inv, TypeOK
    <3>. QED
      BY <1>1, <1>2, <3>1, <3>2 DEF Marker
  <2>. QED
    BY <1>1, <2>1 DEF Inv, MetricsMarked, Marker
<1>. QED
    BY <1>3, <1>4, <1>5 DEF Inv

\* A process dies with its tasks.
LEMMA DieInv ==
    ASSUME Inv, NEW p \in Processes, Die(p)
    PROVE  Inv'
<1>1. /\ life' \in [Processes -> {"new", "up", "down"}]
      /\ life'[p] = "down"
      /\ \A s \in Processes : life[s] = "down" => life'[s] = "down"
    BY DEF Die, Inv, TypeOK
<1>2. UNCHANGED <<clock, fence, owned, row, metrics, audit, task>>
    BY DEF Die
<1>3. \A t \in Tasks : \/ pc'[t] = pc[t]
                       \/ task[t].proc = p /\ pc'[t] = "done"
    BY DEF Die, Inv, TypeOK
<1>4. TypeOK'
    BY <1>1, <1>2 DEF Die, Inv, TypeOK
<1>5. RunsInv'
  <2>1. ASSUME NEW t \in Tasks PROVE WorkInv(t)'
    <3>1. WorkInv(t)
      BY DEF Inv, RunsInv
    <3>. QED
      BY <1>2, <1>3, <3>1 DEF WorkInv, Working
  <2>. QED
    BY <1>2, <2>1 DEF Inv, RunsInv
<1>6. OneOpenRun' /\ RecoveredStaysFailed'
    BY <1>2 DEF Inv, OneOpenRun, RecoveredStaysFailed
<1>7. OneWorkerPerRun'
    BY <1>2, <1>3 DEF Inv, OneWorkerPerRun, Working
<1>8. NoSelfRecovery'
    BY <1>2, <1>3 DEF Inv, NoSelfRecovery, Working
<1>9. MetricsMarked'
  <2>1. ASSUME NEW s \in metrics, ~row[s].persisted
        PROVE  \E u \in Tasks : Marker(s, u)'
    <3>1. PICK u \in Tasks : Marker(s, u)
      BY <2>1, MarkerExists
    <3>2. task[u].proc \in Processes
      BY DEF Inv, TypeOK
    <3>. QED
      BY <1>1, <1>2, <1>3, <3>1, <3>2 DEF Marker
  <2>. QED
    BY <1>2, <2>1 DEF Inv, MetricsMarked, Marker
<1>. QED
    BY <1>4, <1>5, <1>6, <1>7, <1>8, <1>9 DEF Inv

-----------------------------------------------------------------------------
\* The specification.

LEMMA InitInv == Init => Inv
<1> SUFFICES ASSUME Init PROVE Inv
    OBVIOUS
<1>1. PICK c \in Connectors :
          row = [r \in Runs |-> [conn |-> c, status |-> "none", started |-> 0,
                                 facts |-> FALSE, persisted |-> FALSE]]
    BY DEF Init
<1>2. PICK p \in Processes :
          task = [t \in Tasks |-> [proc |-> p, run |-> 1, direct |-> FALSE]]
    BY DEF Init
<1>3. [conn |-> c, status |-> "none", started |-> 0,
       facts |-> FALSE, persisted |-> FALSE] \in Row
  <2>1. 0 \in 0 .. MaxClock
    BY RefreshAssumption
  <2>. QED
    BY <2>1 DEF Row
<1>4. TypeOK
  <2>1. row \in [Runs -> Row]
    BY <1>1, <1>3
  <2>2. task \in [Tasks -> [proc : Processes, run : Runs, direct : BOOLEAN]]
    BY <1>2, RefreshAssumption DEF Runs
  <2>3. /\ clock \in 0 .. MaxClock
        /\ fence \in [Processes -> 0 .. MaxClock]
    BY RefreshAssumption DEF Init
  <2>4. /\ life \in [Processes -> {"new", "up", "down"}]
        /\ owned \in [Processes -> SUBSET Runs]
        /\ metrics \subseteq Runs
        /\ audit \in [Runs -> SUBSET Processes]
        /\ pc \in [Tasks -> {"none", "claim", "done", "raised"} \cup Working]
    BY DEF Init
  <2>. QED
    BY <2>1, <2>2, <2>3, <2>4 DEF TypeOK
<1>5. \A r \in Runs : row[r].status = "none" /\ row[r].persisted = FALSE
    BY <1>1
<1>6. /\ \A t \in Tasks : pc[t] = "none"
      /\ metrics = {} /\ \A r \in Runs : audit[r] = {}
    BY DEF Init
<1>7. RunsInv
    BY <1>5, <1>6 DEF RunsInv, WorkInv, Working
<1>8. OneOpenRun
    BY <1>5 DEF OneOpenRun, Open
<1>9. OneWorkerPerRun /\ RecoveredStaysFailed /\ NoSelfRecovery
    BY <1>6 DEF OneWorkerPerRun, RecoveredStaysFailed, NoSelfRecovery, Working
<1>10. MetricsMarked
    BY <1>5, <1>6 DEF MetricsMarked
<1>. QED
    BY <1>4, <1>7, <1>8, <1>9, <1>10 DEF Inv

\* Every step keeps the invariant.
LEMMA NextInv == Inv /\ [Next]_vars => Inv'
<1> SUFFICES ASSUME Inv, [Next]_vars PROVE Inv'
    OBVIOUS
<1>1. ASSUME NEW t \in Tasks, Request(t) PROVE Inv'
    BY <1>1, EnqueueInv, EnqueueFindsOpenInv, StartDirectInv DEF Request
<1>2. ASSUME NEW t \in Tasks, TaskStep(t) PROVE Inv'
  <2>1. CASE Claim(t)
    <3>1. CASE row[task[t].run].status = "queued"
      BY <2>1, <3>1, ClaimWinsInv
    <3>2. CASE row[task[t].run].status # "queued"
      BY <2>1, <3>2, RetireInv DEF Claim, Inv, TypeOK
    <3>. QED
      BY <3>1, <3>2
  <2>2. ASSUME NEW res \in Result, Close(t, res) PROVE Inv'
    <3>1. CASE task[t].direct \/ row[task[t].run].status = "running"
      BY <2>2, <3>1, CloseWinsInv
    <3>2. CASE ~(task[t].direct \/ row[task[t].run].status = "running")
      BY <2>2, <3>2, RetireInv DEF Close, Inv, TypeOK
    <3>. QED
      BY <3>1, <3>2
  <2>3. CASE SaveMetrics(t) \/ MetricsFail(t)
    BY <2>3, MetricsInv
  <2>4. CASE Mark(t)
    BY <2>4, MarkInv
  <2>5. CASE Raise(t)
    <3> DEFINE place == IF pc[t] = "claim" THEN "done" ELSE "raised"
    <3>1. /\ owned' \in [Processes -> SUBSET Runs]
          /\ \A p \in Processes : owned[p] \subseteq owned'[p]
      <4>1. /\ owned \in [Processes -> SUBSET Runs]
            /\ task[t].proc \in Processes /\ task[t].run \in Runs
        BY DEF Inv, TypeOK
      <4>2. \/ owned' = owned
            \/ owned' = [owned EXCEPT ![task[t].proc] = @ \cup {task[t].run}]
        BY <2>5 DEF Raise
      <4>3. owned[task[t].proc] \cup {task[t].run} \in SUBSET Runs
        BY <4>1
      <4>. QED
        BY <4>1, <4>2, <4>3
    <3>2. /\ place \in {"done", "raised"} /\ Goto(t, place)
          /\ pc[t] \in {"claim", "vendor"}
               \/ (pc[t] \in {"kept", "lost"} /\ place = "raised")
      BY <2>5 DEF Raise
    <3> HIDE DEF place
    <3>. QED
      BY <2>5, <3>1, <3>2, RetireInv DEF Raise
  <2>. QED
    BY <1>2, <2>1, <2>2, <2>3, <2>4, <2>5 DEF TaskStep
<1>3. ASSUME NEW p \in Processes, NEW r \in Runs, Recover(p, r) PROVE Inv'
    BY <1>3, RecoverInv
<1>4. CASE Tick \/ \E p \in Processes : Boot(p)
    BY <1>4, BootTickInv
<1>5. ASSUME NEW p \in Processes, Die(p) PROVE Inv'
    BY <1>5, DieInv
<1>6. CASE UNCHANGED vars
    BY <1>6
    DEF vars, Inv, TypeOK, RunsInv, WorkInv, OneOpenRun, OneWorkerPerRun,
        RecoveredStaysFailed, NoSelfRecovery, MetricsMarked
<1>. QED
    BY <1>1, <1>2, <1>3, <1>4, <1>5, <1>6 DEF Next

LEMMA InvHolds == Spec => []Inv
<1>1. Init => Inv
    BY InitInv
<1>2. Inv /\ [Next]_vars => Inv'
    BY NextInv
<1>. QED
    BY <1>1, <1>2, PTL DEF Spec

\* Every reachable state is well typed.
THEOREM TypeCorrect == Spec => []TypeOK
<1>1. Inv => TypeOK
    BY DEF Inv
<1>. QED
    BY <1>1, InvHolds, PTL

\* The queue of a connector holds one open run
\* (enqueue_connector_refresh_run).
THEOREM ConnectorsHaveOneOpenRun == Spec => []OneOpenRun
<1>1. Inv => OneOpenRun
    BY DEF Inv
<1>. QED
    BY <1>1, InvHolds, PTL

\* A run has one worker (claim_queued_connector_refresh_run).
THEOREM RunsHaveOneWorker == Spec => []OneWorkerPerRun
<1>1. Inv => OneWorkerPerRun
    BY DEF Inv
<1>. QED
    BY <1>1, InvHolds, PTL

\* What was recovered stays failed, whoever comes back to it
\* (recover_running_connector_refresh_run).
THEOREM RecoveredRunsStayFailed == Spec => []RecoveredStaysFailed
<1>1. Inv => RecoveredStaysFailed
    BY DEF Inv
<1>. QED
    BY <1>1, InvHolds, PTL

\* No process ends its own work as lost (_current_process_rejection).
THEOREM NoProcessRecoversItself == Spec => []NoSelfRecovery
<1>1. Inv => NoSelfRecovery
    BY DEF Inv
<1>. QED
    BY <1>1, InvHolds, PTL

-----------------------------------------------------------------------------
\* What ended stays, and what runs has an owner.

\* A run that ended with persisted metrics or was recovered is final: neither
\* its row nor its audit event nor its facts in the other database change
\* again, whoever still works, recovers or comes back late.
EndedIsFinal ==
    [][\A r \in Runs :
           row[r].persisted \/ audit[r] # {} =>
               /\ row'[r] = row[r]
               /\ audit'[r] = audit[r]
               /\ r \in metrics' <=> r \in metrics]_vars

\* A running run is in the hands of a process that claimed it: a task of that
\* process is reading the vendor or could not write how the read ended, or the
\* process is down.
RunningHasOwner ==
    \A r \in Runs : row[r].status = "running" =>
        \E p \in Processes :
            /\ r \in owned[p]
            /\ \/ life[p] = "down"
               \/ \E t \in Tasks : /\ pc[t] \in {"vendor", "raised"}
                                  /\ task[t].run = r /\ task[t].proc = p

\* Facts in the store are those of a run that brought some.
FactsAreRead == \A r \in metrics : row[r].facts

\* A worker reads for its running row, or for one that was recovered.
ReaderInv ==
    \A t \in Tasks : pc[t] = "vendor" /\ ~task[t].direct =>
        row[task[t].run].status = "running" \/ audit[task[t].run] # {}

\* Two workers of one connector read the vendor at a time only when the run of
\* one of them was declared lost by another process than its own.
ReadersOverlapAfterRecovery ==
    \A s, t \in Tasks :
        /\ s # t /\ pc[s] = "vendor" /\ pc[t] = "vendor"
        /\ ~task[s].direct /\ ~task[t].direct
        /\ row[task[s].run].conn = row[task[t].run].conn
        => \E u \in {s, t} : \E p \in audit[task[u].run] : p # task[u].proc

\* Nobody works on a run that is marked persisted.
Unmarked == \A t \in Tasks : pc[t] \in Working => ~row[task[t].run].persisted

\* What a step does to one row.
LEMMA RowStep ==
    ASSUME Inv, [Next]_vars, NEW r \in Runs
    PROVE  \/ row'[r] = row[r]
           \/ /\ row[r].status = "none"
              /\ row'[r].status # "running" /\ ~row'[r].persisted
           \/ /\ row[r].status = "queued" /\ row'[r].status = "running"
              /\ ~row'[r].persisted
              /\ \E t \in Tasks : Claim(t) /\ task[t].run = r
           \/ /\ row[r].status = "running" /\ row'[r].status \in Closed
              /\ ~row'[r].persisted
              /\ \/ \E t \in Tasks, res \in Result : Close(t, res) /\ task[t].run = r
                 \/ \E p \in Processes : Recover(p, r)
           \/ /\ row'[r].status \in Closed /\ row'[r].facts = row[r].facts
              /\ \E t \in Tasks : Mark(t) /\ task[t].run = r
<1>types. /\ row \in [Runs -> Row] /\ row[r] \in Row
          /\ task \in [Tasks -> [proc : Processes, run : Runs, direct : BOOLEAN]]
          /\ clock \in 0 .. MaxClock
    BY DEF Inv, TypeOK
<1>open. row[r].status \in {"none", "queued", "running"} => ~row[r].persisted
    BY DEF Inv, RunsInv, Open
\* A status that replaces the one of row r.
<1>set. ASSUME NEW x \in Statuses
        PROVE  /\ [row[r] EXCEPT !.status = x].status = x
               /\ [row[r] EXCEPT !.status = x].persisted = row[r].persisted
               /\ [row[r] EXCEPT !.status = x].facts = row[r].facts
    BY <1>types, StatusSet
<1>1. ASSUME NEW t \in Tasks, NEW p \in Processes, NEW c \in Connectors,
             NEW s \in Runs, Enqueue(t, p, c, s)
      PROVE  row'[r] = row[r] \/
             /\ row[r].status = "none"
             /\ row'[r].status # "running" /\ ~row'[r].persisted
  <2> DEFINE q == [conn |-> c, status |-> "queued", started |-> clock,
                   facts |-> FALSE, persisted |-> FALSE]
  <2>1. row' = [row EXCEPT ![s] = q] /\ row[s].status = "none"
    BY <1>1 DEF Enqueue, FreshRun
  <2>2. q.status = "queued" /\ q.persisted = FALSE
    OBVIOUS
  <2> HIDE DEF q
  <2>. QED
    BY <1>types, <2>1, <2>2
<1>2. ASSUME NEW t \in Tasks, NEW p \in Processes, NEW c \in Connectors,
             NEW s \in Runs, StartDirect(t, p, c, s)
      PROVE  row'[r] = row[r] \/
             /\ row[r].status = "none"
             /\ row'[r].status # "running" /\ ~row'[r].persisted
  <2> DEFINE q == DirectRow(row[s], c, clock)
  <2>1. row' = [row EXCEPT ![s] = q]
    BY <1>2, <1>types DEF StartDirect, DirectRow
  <2>2. q.status = row[s].status /\ q.persisted = row[s].persisted
    BY <1>types, DirectSet
  <2>3. row[s].status = "none"
    BY <1>2 DEF StartDirect, FreshRun
  <2> HIDE DEF q
  <2>. QED
    BY <1>types, <1>open, <2>1, <2>2, <2>3
<1>3. ASSUME NEW t \in Tasks, Claim(t)
      PROVE  row'[r] = row[r] \/
             /\ row[r].status = "queued" /\ row'[r].status = "running"
             /\ ~row'[r].persisted
             /\ \E u \in Tasks : Claim(u) /\ task[u].run = r
  <2> DEFINE s == task[t].run
             q == [row[s] EXCEPT !.status = "running"]
  <2>1. \/ row' = row
        \/ row[s].status = "queued" /\ row' = [row EXCEPT ![s] = q]
    BY <1>3 DEF Claim
  <2>2. s = r => q.status = "running" /\ q.persisted = row[r].persisted
    BY <1>set DEF Statuses, Open
  <2> HIDE DEF q
  <2>. QED
    BY <1>3, <1>types, <1>open, <2>1, <2>2
<1>4. ASSUME NEW t \in Tasks, NEW res \in Result, Close(t, res)
      PROVE  \/ row'[r] = row[r]
             \/ /\ row[r].status = "none"
                /\ row'[r].status # "running" /\ ~row'[r].persisted
             \/ /\ row[r].status = "running" /\ row'[r].status \in Closed
                /\ ~row'[r].persisted /\ task[t].run = r
  <2> DEFINE s == task[t].run
             w == [row[s] EXCEPT !.status = res.status]
             q == [w EXCEPT !.facts = res.facts]
  <2>1. s \in Runs /\ row[s] \in Row /\ res.status \in Closed
        /\ res.status \in Statuses /\ res.facts \in BOOLEAN
    BY <1>types DEF Result, Statuses
  <2>2. CASE ~(task[t].direct \/ row[s].status = "running")
    BY <1>4, <2>2 DEF Close
  <2>3. CASE task[t].direct \/ row[s].status = "running"
    <3>1. row' = [row EXCEPT ![s] = q]
      <4>1. row' = [row EXCEPT ![s].status = res.status, ![s].facts = res.facts]
        BY <1>4, <2>3 DEF Close
      <4> HIDE DEF s
      <4>. QED
        BY <4>1, <1>types, <2>1
    <3>2. row[s].status \in {"none", "running"}
      BY <1>4, <2>3 DEF Close, Inv, RunsInv, WorkInv
    <3>3. w \in Row /\ w.status = res.status /\ w.persisted = row[s].persisted
      BY <2>1, StatusSet
    <3> HIDE DEF w
    <3>4. q.status = w.status /\ q.persisted = w.persisted
      BY <2>1, <3>3, FactsSet
    <3> HIDE DEF q
    <3>. QED
      BY <1>types, <1>open, <2>1, <3>1, <3>2, <3>3, <3>4 DEF Closed
  <2>. QED
    BY <2>2, <2>3
<1>5. ASSUME NEW t \in Tasks, Mark(t)
      PROVE  row'[r] = row[r] \/
             /\ row'[r].status \in Closed /\ row'[r].facts = row[r].facts
             /\ \E u \in Tasks : Mark(u) /\ task[u].run = r
  <2>1. CASE task[t].run # r
    BY <1>5, <1>types, <2>1 DEF Mark
  <2>2. CASE task[t].run = r
    <3>1. row[r].status \in Closed
      BY <1>5, <2>2 DEF Mark, Inv, RunsInv, WorkInv
    <3>2. CASE pc[t] = "kept"
      <4>1. row' = [row EXCEPT ![r].persisted = TRUE]
        BY <1>5, <2>2, <3>2 DEF Mark
      <4> DEFINE q == [row[r] EXCEPT !.persisted = TRUE]
      <4>2. row'[r] = q
        BY <4>1, <1>types
      <4>3. q.status = row[r].status /\ q.facts = row[r].facts
        BY <1>types, PersistedSet
      <4>. QED
        BY <1>5, <2>2, <3>1, <4>2, <4>3
    <3>3. CASE pc[t] = "lost"
      <4>1. row' = [row EXCEPT ![r].status = "failed"]
        BY <1>5, <2>2, <3>3 DEF Mark
      <4> DEFINE q == [row[r] EXCEPT !.status = "failed"]
      <4>2. row'[r] = q
        BY <4>1, <1>types
      <4>3. q.status = "failed" /\ q.facts = row[r].facts
        BY <1>set DEF Statuses, Closed
      <4>. QED
        BY <1>5, <2>2, <4>2, <4>3 DEF Closed
    <3>. QED
      BY <1>5, <3>2, <3>3 DEF Mark
  <2>. QED
    BY <2>1, <2>2
<1>6. ASSUME NEW p \in Processes, NEW s \in Runs, Recover(p, s)
      PROVE  row'[r] = row[r] \/
             /\ row[r].status = "running" /\ row'[r].status \in Closed
             /\ ~row'[r].persisted /\ s = r
  <2> DEFINE q == [row[s] EXCEPT !.status = "failed"]
  <2>1. row' = [row EXCEPT ![s] = q] /\ row[s].status = "running"
    BY <1>6 DEF Recover
  <2>2. s = r => q.status = "failed" /\ q.persisted = row[r].persisted
    BY <1>set DEF Statuses, Closed
  <2> HIDE DEF q
  <2>. QED
    BY <1>types, <1>open, <2>1, <2>2 DEF Closed
<1>7. \/ row' = row
      \/ \E t \in Tasks, p \in Processes, c \in Connectors, s \in Runs :
            Enqueue(t, p, c, s) \/ StartDirect(t, p, c, s)
      \/ \E t \in Tasks : Claim(t) \/ (\E res \in Result : Close(t, res)) \/ Mark(t)
      \/ \E p \in Processes, s \in Runs : Recover(p, s)
  <2>1. ASSUME NEW t \in Tasks, SaveMetrics(t) \/ MetricsFail(t) \/ Raise(t)
        PROVE  row' = row
    BY <2>1 DEF SaveMetrics, MetricsFail, Raise
  <2>2. ASSUME NEW t \in Tasks, NEW p \in Processes, NEW s \in Runs,
               EnqueueFindsOpen(t, p, s)
        PROVE  row' = row
    BY <2>2 DEF EnqueueFindsOpen
  <2>3. ASSUME \/ Tick \/ UNCHANGED vars
               \/ \E p \in Processes : Boot(p) \/ Die(p)
        PROVE  row' = row
    BY <2>3 DEF Tick, vars, Boot, Die
  <2>. QED
    BY <2>1, <2>2, <2>3 DEF Next, Request, TaskStep
<1>. QED
  <2>1. CASE row' = row
    BY <2>1
  <2>. QED
    BY <1>1, <1>2, <1>3, <1>4, <1>5, <1>6, <1>7, <2>1

\* A task that works was working on the same run, or takes a run that was
\* queued or had no row.
LEMMA WorkerStep ==
    ASSUME Inv, [Next]_vars, NEW s \in Tasks, pc'[s] \in Working
    PROVE  \/ pc[s] \in Working /\ task'[s] = task[s]
           \/ row[task'[s].run].status \in {"none", "queued"}
<1> USE DEF Goto, Working
<1>types. /\ pc \in [Tasks -> {"none", "claim", "done", "raised"} \cup Working]
          /\ task \in [Tasks -> [proc : Processes, run : Runs, direct : BOOLEAN]]
    BY DEF Inv, TypeOK
<1>1. ASSUME NEW t \in Tasks, NEW p \in Processes, NEW r \in Runs,
             \/ \E c \in Connectors : Enqueue(t, p, c, r) \/ StartDirect(t, p, c, r)
             \/ EnqueueFindsOpen(t, p, r)
      PROVE  \/ pc[s] \in Working /\ task'[s] = task[s]
             \/ row[task'[s].run].status \in {"none", "queued"}
  <2>1. CASE s # t
    BY <1>1, <1>types, <2>1 DEF Enqueue, StartDirect, EnqueueFindsOpen, NewTask
  <2>2. CASE s = t
    <3>1. \E c \in Connectors : StartDirect(t, p, c, r)
      BY <1>1, <1>types, <2>2 DEF Enqueue, EnqueueFindsOpen
    <3>2. row[r].status = "none" /\ task'[t].run = r
      <4>1. PICK c \in Connectors : StartDirect(t, p, c, r)
        BY <3>1
      <4>. QED
        BY <4>1, TaskAdded DEF StartDirect, FreshRun, Inv
    <3>. QED
      BY <2>2, <3>2
  <2>. QED
    BY <2>1, <2>2
<1>2. ASSUME NEW t \in Tasks, TaskStep(t)
      PROVE  \/ pc[s] \in Working /\ task'[s] = task[s]
             \/ row[task'[s].run].status \in {"none", "queued"}
    BY <1>2, <1>types
    DEF TaskStep, Claim, Close, SaveMetrics, MetricsFail, Mark, Raise
<1>3. CASE UNCHANGED <<pc, task>>
    BY <1>3
<1>4. ASSUME NEW p \in Processes, Die(p)
      PROVE  pc[s] \in Working /\ task'[s] = task[s]
    BY <1>4, <1>types DEF Die
<1>5. \/ UNCHANGED <<pc, task>>
      \/ \E t \in Tasks : Request(t) \/ TaskStep(t)
      \/ \E p \in Processes : Die(p)
    BY DEF Next, vars, Recover, Boot, Tick
<1>. QED
    BY <1>1, <1>2, <1>3, <1>4, <1>5 DEF Request

LEMMA UnmarkedStep ==
    ASSUME Inv, Inv', Unmarked, [Next]_vars
    PROVE  Unmarked'
<1> SUFFICES ASSUME NEW s \in Tasks, pc'[s] \in Working, row'[task'[s].run].persisted
             PROVE  FALSE
    BY DEF Unmarked
<1> DEFINE r == task'[s].run
<1>1. r \in Runs
    BY DEF Inv, TypeOK
<1>2. ~row[r].persisted
  <2>1. CASE pc[s] \in Working /\ task'[s] = task[s]
    BY <2>1 DEF Unmarked
  <2>2. CASE row[r].status \in {"none", "queued"}
    BY <1>1, <2>2 DEF Inv, RunsInv, Open
  <2>. QED
    BY <2>1, <2>2, WorkerStep
<1>3. PICK t \in Tasks : Mark(t) /\ task[t].run = r
    BY <1>1, <1>2, RowStep
<1>4. pc'[t] = "done" /\ task' = task
      /\ pc[t] \in {"kept", "lost"} /\ \A u \in Tasks \ {t} : pc'[u] = pc[u]
    BY <1>3 DEF Mark, Goto, Inv, TypeOK
<1>5. s # t /\ pc[s] \in Working /\ task[s].run = task[t].run
    BY <1>3, <1>4 DEF Working
<1>. QED
    BY <1>4, <1>5 DEF Inv, OneWorkerPerRun, Working

LEMMA EndedKept ==
    ASSUME Inv, Unmarked, [Next]_vars, NEW r \in Runs,
           row[r].persisted \/ audit[r] # {}
    PROVE  /\ row'[r] = row[r]
           /\ audit'[r] = audit[r]
           /\ r \in metrics' <=> r \in metrics
<1>1. row[r].status \notin {"none", "queued", "running"}
    BY DEF Inv, RunsInv, Open
\* Nobody has this run beyond its close.
<1>2. ASSUME NEW t \in Tasks, pc[t] \in {"metrics", "kept", "lost"}
      PROVE  task[t].run # r
  <2>1. audit[task[t].run] = {}
    BY <1>2 DEF Inv, RunsInv, WorkInv
  <2>2. ~row[task[t].run].persisted
    BY <1>2 DEF Unmarked, Working
  <2>. QED
    BY <2>1, <2>2
<1>3. row'[r] = row[r]
    BY <1>1, <1>2, RowStep DEF Mark
<1>4. audit'[r] = audit[r]
  <2>1. ASSUME NEW p \in Processes, NEW s \in Runs, Recover(p, s)
        PROVE  audit'[r] = audit[r]
    <3>1. s # r
      BY <1>1, <2>1 DEF Recover
    <3>. QED
      BY <2>1, <3>1 DEF Recover, Inv, TypeOK
  <2>2. audit' = audit \/ \E p \in Processes, s \in Runs : Recover(p, s)
    BY DEF Next, vars, Request, Enqueue, EnqueueFindsOpen, StartDirect, TaskStep,
           Claim, Close, SaveMetrics, MetricsFail, Mark, Raise, Boot, Die, Tick
  <2>. QED
    BY <2>1, <2>2
<1>5. r \in metrics' <=> r \in metrics
  <2>1. ASSUME NEW t \in Tasks, SaveMetrics(t)
        PROVE  r \in metrics' <=> r \in metrics
    BY <1>2, <2>1 DEF SaveMetrics
  <2>2. metrics' = metrics \/ \E t \in Tasks : SaveMetrics(t)
    BY DEF Next, vars, Request, Enqueue, EnqueueFindsOpen, StartDirect, TaskStep,
           Claim, Close, MetricsFail, Mark, Raise, Recover, Boot, Die, Tick
  <2>. QED
    BY <2>1, <2>2
<1>. QED
    BY <1>3, <1>4, <1>5

\* Facts come from a closed row that says it has them, which no step takes back.
LEMMA FactsStep ==
    ASSUME Inv, FactsAreRead, [Next]_vars
    PROVE  FactsAreRead'
<1> SUFFICES ASSUME NEW r \in metrics' PROVE row'[r].facts
    BY DEF FactsAreRead
<1>1. ASSUME NEW t \in Tasks, SaveMetrics(t), r \notin metrics
      PROVE  row'[r].facts
    BY <1>1 DEF SaveMetrics
<1>2. CASE r \in metrics
  <2>1. r \in Runs /\ row[r].facts
    BY <1>2 DEF FactsAreRead, Inv, TypeOK
  <2>2. row[r].status \notin {"none", "queued", "running"}
    BY <1>2, <2>1 DEF Inv, RunsInv, Open
  <2>. QED
    BY <2>1, <2>2, RowStep
<1>3. metrics' = metrics \/ \E t \in Tasks : SaveMetrics(t)
    BY DEF Next, vars, Request, Enqueue, EnqueueFindsOpen, StartDirect, TaskStep,
           Claim, Close, MetricsFail, Mark, Raise, Recover, Boot, Die, Tick
<1>. QED
    BY <1>1, <1>2, <1>3

\* A worker stops reading when it closes its row; only a recovery closes it first.
LEMMA ReaderStep ==
    ASSUME Inv, ReaderInv, [Next]_vars
    PROVE  ReaderInv'
<1> USE DEF Goto
<1>types. /\ pc \in [Tasks -> {"none", "claim", "done", "raised"} \cup Working]
          /\ task \in [Tasks -> [proc : Processes, run : Runs, direct : BOOLEAN]]
          /\ audit \in [Runs -> SUBSET Processes]
          /\ row \in [Runs -> Row]
    BY DEF Inv, TypeOK
<1> SUFFICES ASSUME NEW s \in Tasks, pc'[s] = "vendor", ~task'[s].direct
             PROVE  row'[task'[s].run].status = "running" \/ audit'[task'[s].run] # {}
    BY DEF ReaderInv
\* Where s comes from.
<1>1. \/ Claim(s) /\ row[task[s].run].status = "queued"
      \/ pc[s] = "vendor" /\ task'[s] = task[s]
  <2>1. ASSUME NEW t \in Tasks, NEW p \in Processes, NEW r \in Runs,
               \/ \E c \in Connectors : Enqueue(t, p, c, r) \/ StartDirect(t, p, c, r)
               \/ EnqueueFindsOpen(t, p, r)
        PROVE  pc[s] = "vendor" /\ task'[s] = task[s]
    <3>1. CASE s # t
      BY <1>types, <2>1, <3>1 DEF Enqueue, StartDirect, EnqueueFindsOpen, NewTask
    <3>2. CASE s = t
      <4>1. \E c \in Connectors : StartDirect(t, p, c, r)
        BY <1>types, <2>1, <3>2 DEF Enqueue, EnqueueFindsOpen
      <4>2. task'[t].direct = TRUE
        BY <1>types, <4>1 DEF StartDirect, NewTask
      <4>. QED
        BY <3>2, <4>2
    <3>. QED
      BY <3>1, <3>2
  <2>2. ASSUME NEW t \in Tasks, TaskStep(t)
        PROVE  \/ Claim(s) /\ row[task[s].run].status = "queued"
               \/ pc[s] = "vendor" /\ task'[s] = task[s]
    BY <1>types, <2>2
    DEF TaskStep, Claim, Close, SaveMetrics, MetricsFail, Mark, Raise
  <2>3. CASE UNCHANGED <<pc, task>>
    BY <2>3
  <2>4. ASSUME NEW p \in Processes, Die(p)
        PROVE  pc[s] = "vendor" /\ task'[s] = task[s]
    BY <1>types, <2>4 DEF Die
  <2>5. \/ UNCHANGED <<pc, task>>
        \/ \E t \in Tasks : Request(t) \/ TaskStep(t)
        \/ \E p \in Processes : Die(p)
    BY DEF Next, vars, Recover, Boot, Tick
  <2>. QED
    BY <2>1, <2>2, <2>3, <2>4, <2>5 DEF Request
<1>2. CASE Claim(s) /\ row[task[s].run].status = "queued"
  <2> DEFINE r == task[s].run
             q == [row[r] EXCEPT !.status = "running"]
  <2>1. task' = task /\ row' = [row EXCEPT ![r] = q] /\ r \in Runs
    BY <1>2, <1>types DEF Claim
  <2>2. q.status = "running"
    BY <1>types, StatusSet DEF Statuses, Open
  <2> HIDE DEF q
  <2>. QED
    BY <1>types, <2>1, <2>2
<1>3. CASE pc[s] = "vendor" /\ task'[s] = task[s]
  <2> DEFINE r == task[s].run
  <2>types. r \in Runs /\ task'[s].run = r
    BY <1>3, <1>types
  <2>1. row[r].status = "running" \/ audit[r] # {}
    BY <1>3 DEF ReaderInv
  <2>2. audit[r] \subseteq audit'[r]
    <3>1. ASSUME NEW p \in Processes, NEW x \in Runs, Recover(p, x)
          PROVE  audit[r] \subseteq audit'[r]
      BY <1>types, <2>types, <3>1 DEF Recover
    <3>2. audit' = audit \/ \E p \in Processes, x \in Runs : Recover(p, x)
      BY DEF Next, vars, Request, Enqueue, EnqueueFindsOpen, StartDirect, TaskStep,
             Claim, Close, SaveMetrics, MetricsFail, Mark, Raise, Boot, Die, Tick
    <3>. QED
      BY <3>1, <3>2
  <2>3. CASE row[r].status = "running" /\ audit'[r] = {}
    <3>1. ~\E p \in Processes : Recover(p, r)
      <4> SUFFICES ASSUME NEW p \in Processes, Recover(p, r) PROVE FALSE
        OBVIOUS
      <4>1. audit' = [audit EXCEPT ![r] = @ \cup {p}]
        BY DEF Recover
      <4> HIDE DEF r
      <4>2. p \in audit'[r]
        BY <1>types, <2>types, <4>1
      <4>. QED
        BY <2>3, <4>2
    <3>2. ~\E t \in Tasks, res \in Result : Close(t, res) /\ task[t].run = r
      <4> SUFFICES ASSUME NEW t \in Tasks, NEW res \in Result, Close(t, res),
                          task[t].run = r
                   PROVE  FALSE
        OBVIOUS
      <4>1. t = s
        BY <1>3 DEF Close, Inv, OneWorkerPerRun, Working
      <4>2. pc'[s] # "vendor"
        BY <1>types, <4>1 DEF Close
      <4>. QED
        BY <4>2
    <3>3. ~\E t \in Tasks : Mark(t) /\ task[t].run = r
      <4> SUFFICES ASSUME NEW t \in Tasks, Mark(t), task[t].run = r
                   PROVE  FALSE
        OBVIOUS
      <4>. QED
        BY <2>3 DEF Mark, Inv, RunsInv, WorkInv, Closed
    <3>. QED
      BY <2>types, <2>3, <3>1, <3>2, <3>3, RowStep
  <2>. QED
    BY <2>types, <2>1, <2>2, <2>3
<1>. QED
    BY <1>1, <1>2, <1>3

\* A running run keeps its owner until it is closed.
LEMMA OwnerStep ==
    ASSUME Inv, RunningHasOwner, [Next]_vars
    PROVE  RunningHasOwner'
<1> USE DEF Goto
<1>types. /\ pc \in [Tasks -> {"none", "claim", "done", "raised"} \cup Working]
          /\ task \in [Tasks -> [proc : Processes, run : Runs, direct : BOOLEAN]]
          /\ owned \in [Processes -> SUBSET Runs]
          /\ life \in [Processes -> {"new", "up", "down"}]
          /\ row \in [Runs -> Row]
    BY DEF Inv, TypeOK
<1> DEFINE Held(r, p) ==
        /\ r \in owned[p]
        /\ \/ life[p] = "down"
           \/ \E t \in Tasks : /\ pc[t] \in {"vendor", "raised"}
                              /\ task[t].run = r /\ task[t].proc = p
<1> SUFFICES ASSUME NEW r \in Runs, row'[r].status = "running"
             PROVE  \E p \in Processes : Held(r, p)'
    BY DEF RunningHasOwner
<1>1. ASSUME NEW t \in Tasks, Claim(t), task[t].run = r, row[r].status = "queued"
      PROVE  \E p \in Processes : Held(r, p)'
  <2>1. task' = task /\ pc'[t] = "vendor" /\ r \in owned'[task[t].proc]
    BY <1>1, <1>types DEF Claim
  <2>2. task[t].proc \in Processes
    BY <1>types
  <2>. QED
    BY <1>1, <2>1, <2>2
<1>2. ASSUME row[r].status = "running"
      PROVE  \E p \in Processes : Held(r, p)'
  <2>1. PICK p \in Processes : Held(r, p)
    BY <1>2 DEF RunningHasOwner
  <2>2. r \in owned'[p]
    <3>1. \/ owned' = owned
          \/ \E t \in Tasks : owned' = [owned EXCEPT ![task[t].proc] = @ \cup {task[t].run}]
      BY DEF Next, vars, Request, Enqueue, EnqueueFindsOpen, StartDirect, TaskStep,
             Claim, Close, SaveMetrics, MetricsFail, Mark, Raise, Recover, Boot, Die, Tick
    <3>. QED
      BY <1>types, <2>1, <3>1
  <2>3. CASE life[p] = "down"
    <3>1. life'[p] = "down"
      <4>1. CASE \E q \in Processes : Boot(q) \/ Die(q)
        BY <1>types, <2>3, <4>1 DEF Boot, Die
      <4>2. life' = life \/ \E q \in Processes : Boot(q) \/ Die(q)
        BY DEF Next, vars, Request, Enqueue, EnqueueFindsOpen, StartDirect, TaskStep,
               Claim, Close, SaveMetrics, MetricsFail, Mark, Raise, Recover, Tick
      <4>. QED
        BY <2>3, <4>1, <4>2
    <3>. QED
      BY <2>2, <3>1
  <2>4. ASSUME NEW t \in Tasks, pc[t] \in {"vendor", "raised"},
               task[t].run = r, task[t].proc = p
        PROVE  Held(r, p)'
    <3>1. CASE pc'[t] = pc[t] /\ task'[t] = task[t]
      BY <2>2, <2>4, <3>1
    <3>2. CASE Raise(t)
      BY <1>types, <2>2, <2>4, <3>2 DEF Raise
    <3>8. CASE TaskStep(t) /\ ~Raise(t)
      <4>1. PICK res \in Result : Close(t, res)
        BY <2>4, <3>8 DEF TaskStep, Claim, SaveMetrics, MetricsFail, Mark
      <4>2. pc'[t] = "metrics" /\ row'[r].status = res.status
        <5>1. task[t].direct \/ row[task[t].run].status = "running"
          BY <1>2, <2>4
        <5>2. pc'[t] = "metrics"
          BY <1>types, <4>1, <5>1 DEF Close
        <5> DEFINE w == [row[r] EXCEPT !.status = res.status]
                   q == [w EXCEPT !.facts = res.facts]
        <5>3. row' = [row EXCEPT ![r].status = res.status, ![r].facts = res.facts]
          BY <2>4, <4>1, <5>1 DEF Close
        <5>4. row'[r] = q
          BY <5>3, <1>types
        <5>5. res.status \in Statuses /\ res.facts \in BOOLEAN
          BY DEF Result, Statuses
        <5>6. w \in Row /\ w.status = res.status
          BY <1>types, <5>5, StatusSet
        <5> HIDE DEF w
        <5>7. q.status = w.status
          BY <5>5, <5>6, FactsSet
        <5> HIDE DEF q
        <5>. QED
          BY <5>2, <5>4, <5>6, <5>7
      <4>3. res.status # "running"
        BY DEF Result, Closed
      <4>. QED
        BY <4>2, <4>3
    <3>3. CASE \E q \in Processes : Die(q)
      <4>1. PICK q \in Processes : Die(q)
        BY <3>3
      <4>2. CASE q = p
        BY <1>types, <2>2, <4>1, <4>2 DEF Die
      <4>3. CASE q # p
        BY <1>types, <2>2, <2>4, <4>1, <4>3 DEF Die
      <4>. QED
        BY <4>2, <4>3
    <3>4. CASE \E s \in Tasks : s # t /\ TaskStep(s)
      <4>1. pc'[t] = pc[t] /\ task'[t] = task[t]
        BY <1>types, <3>4
        DEF TaskStep, Claim, Close, SaveMetrics, MetricsFail, Mark, Raise
      <4>. QED
        BY <3>1, <4>1
    <3>5. CASE \E s \in Tasks : Request(s)
      <4>1. PICK s \in Tasks, q \in Processes, x \in Runs :
              \/ \E c \in Connectors : Enqueue(s, q, c, x) \/ StartDirect(s, q, c, x)
              \/ EnqueueFindsOpen(s, q, x)
        BY <3>5 DEF Request
      <4>2. /\ pc[s] = "none"
            /\ \E place : pc' = [pc EXCEPT ![s] = place]
            /\ \E new : task' = [task EXCEPT ![s] = new]
        BY <4>1 DEF Enqueue, EnqueueFindsOpen, StartDirect, NewTask
      <4>3. s # t
        BY <2>4, <4>2
      <4>. QED
        BY <1>types, <3>1, <4>2, <4>3
    <3>6. CASE UNCHANGED <<pc, task>>
      BY <3>1, <3>6
    <3>7. \/ UNCHANGED <<pc, task>>
          \/ \E s \in Tasks : Request(s) \/ TaskStep(s)
          \/ \E q \in Processes : Die(q)
      BY DEF Next, vars, Recover, Boot, Tick
    <3>. QED
      BY <3>2, <3>3, <3>4, <3>5, <3>6, <3>7, <3>8
  <2>. QED
    BY <2>1, <2>3, <2>4
<1>. QED
  <2>1. row[r].status = "running"
        \/ \E t \in Tasks : Claim(t) /\ task[t].run = r /\ row[r].status = "queued"
    BY RowStep DEF Closed
  <2>. QED
    BY <1>1, <1>2, <2>1

\* The row and the metric store agree, in two databases and without a transaction
\* over both, but for a run whose task has stored its facts and not marked it: it
\* is about to, its mark raised, or it died (_persist_refresh_result).
THEOREM MetricsAgreeWithRuns == Spec => []MetricsMatchRuns
<1>1. Init => FactsAreRead
    BY DEF Init, FactsAreRead
<1>2. Inv /\ FactsAreRead /\ [Next]_vars => FactsAreRead'
    BY FactsStep
<1>3. Inv /\ FactsAreRead => MetricsMatchRuns
  <2> SUFFICES ASSUME Inv, FactsAreRead PROVE MetricsMatchRuns
    OBVIOUS
  <2>1. ASSUME NEW r \in metrics PROVE row[r].status \in Closed
    <3>1. r \in Runs /\ row[r] \in Row
      BY DEF Inv, TypeOK
    <3>2. row[r].status \in {"none"} \cup Open \cup Closed
      BY <3>1 DEF Row
    <3>. QED
      BY <3>1, <3>2 DEF Inv, RunsInv
  <2>. QED
    BY <2>1 DEF MetricsMatchRuns, Inv, MetricsMarked, FactsAreRead
<1>. QED
    BY <1>1, <1>2, <1>3, InvHolds, PTL DEF Spec

\* What the one open row says of the readers: two workers of a connector that read
\* the vendor at a time need a recovery by another process, which cannot know
\* that the first one still reads (claim_queued_connector_refresh_run,
\* recover_running_connector_refresh_run).  Direct reads have no such bound.
THEOREM WorkersReadApart == Spec => []ReadersOverlapAfterRecovery
<1>1. Init => ReaderInv
    BY DEF Init, ReaderInv
<1>2. Inv /\ ReaderInv /\ [Next]_vars => ReaderInv'
    BY ReaderStep
<1>3. Inv /\ ReaderInv => ReadersOverlapAfterRecovery
  <2> SUFFICES ASSUME Inv, ReaderInv, NEW s \in Tasks, NEW t \in Tasks,
                      s # t, pc[s] = "vendor", pc[t] = "vendor",
                      ~task[s].direct, ~task[t].direct,
                      row[task[s].run].conn = row[task[t].run].conn
               PROVE  \E u \in {s, t} : \E p \in audit[task[u].run] : p # task[u].proc
    BY DEF ReadersOverlapAfterRecovery
  <2>1. task[s].run # task[t].run
    BY DEF Inv, OneWorkerPerRun, Working
  <2>2. task[s].run \in Runs /\ task[t].run \in Runs
    BY DEF Inv, TypeOK
  <2>3. ~(row[task[s].run].status = "running" /\ row[task[t].run].status = "running")
    BY <2>1, <2>2 DEF Inv, OneOpenRun, Open
  <2>4. PICK u \in {s, t} : audit[task[u].run] # {}
    BY <2>3 DEF ReaderInv
  <2>5. task[u].proc \notin audit[task[u].run]
    BY <2>4 DEF Inv, NoSelfRecovery, Working
  <2>. QED
    BY <2>4, <2>5
<1>. QED
    BY <1>1, <1>2, <1>3, InvHolds, PTL DEF Spec

\* Nothing that ended is touched again: not by a second task of the run, a late
\* worker, a recovery by another process or a task that died in between
\* (transition_connector_refresh_run_if_current,
\* recover_running_connector_refresh_run).
THEOREM EndedRunsAreFinal == Spec => EndedIsFinal
<1>1. Init => Unmarked
    BY DEF Init, Unmarked, Working
<1>2. Inv /\ Inv' /\ Unmarked /\ [Next]_vars => Unmarked'
    BY UnmarkedStep
<1>3. Inv /\ Unmarked /\ [Next]_vars =>
          [\A r \in Runs :
               row[r].persisted \/ audit[r] # {} =>
                   /\ row'[r] = row[r]
                   /\ audit'[r] = audit[r]
                   /\ r \in metrics' <=> r \in metrics]_vars
    BY EndedKept
<1>. QED
    BY <1>1, <1>2, <1>3, InvHolds, PTL DEF Spec, EndedIsFinal

\* A run that stays running has lost its process, or the write that would have
\* closed it raised: no lost claim, second task or refused close leaves a running
\* row behind.  In the second case its own process lives and cannot recover it
\* (claim_queued_connector_refresh_run, _CURRENT_PROCESS_CLAIMS).
THEOREM RunningRunsHaveOwners == Spec => []RunningHasOwner
<1>1. Init => RunningHasOwner
    BY DEF Init, RunningHasOwner
<1>2. Inv /\ RunningHasOwner /\ [Next]_vars => RunningHasOwner'
    BY OwnerStep
<1>. QED
    BY <1>1, <1>2, InvHolds, PTL DEF Spec

=============================================================================
