--------------------------- MODULE ContentRunsProofs ---------------------------
(***************************************************************************)
(* What holds of the reviews and drafts of a work item for every number of *)
(* runs, revisions and plans, every size of the executors and every bound. *)
(* ReviewInv and DraftInv are inductive; from them follow the refinements  *)
(* of the run ledger.                                                      *)
(***************************************************************************)
EXTENDS ContentRuns, TLAPS, FiniteSetTheorems

-----------------------------------------------------------------------------
(* The operations on a table of runs.                                      *)

LEMMA RowStatus ==
    ASSUME NEW K, NEW k \in K, NEW st \in RunStatus, NEW t \in 0 .. MaxClock + RunTimeout,
           NEW new \in RunStatus
    PROVE  /\ [key |-> k, status |-> st, deadline |-> t] \in Row(K)
           /\ [[key |-> k, status |-> st, deadline |-> t] EXCEPT !.status = new]
                = [key |-> k, status |-> new, deadline |-> t]
BY DEF Row

LEMMA RowFields ==
    ASSUME NEW K, NEW row \in Row(K)
    PROVE  \E k \in K, st \in RunStatus, t \in 0 .. MaxClock + RunTimeout :
              row = [key |-> k, status |-> st, deadline |-> t]
BY Zenon DEF Row

\* Ending one row keeps its key and its deadline.
LEMMA RowUpdate ==
    ASSUME NEW K, NEW row \in Row(K), NEW new \in RunStatus
    PROVE  /\ [row EXCEPT !.status = new] \in Row(K)
           /\ [row EXCEPT !.status = new].key = row.key
           /\ [row EXCEPT !.status = new].status = new
<1>1. PICK k \in K, st \in RunStatus, t \in 0 .. MaxClock + RunTimeout :
              row = [key |-> k, status |-> st, deadline |-> t]
    BY RowFields
<1> DEFINE old == [key |-> k, status |-> st, deadline |-> t]
           upd == [key |-> k, status |-> new, deadline |-> t]
<1>2. [old EXCEPT !.status = new] = upd
    BY RowStatus
<1>3. upd \in Row(K)
    BY RowStatus
<1>4. upd.key = k /\ upd.status = new /\ old.key = k
    OBVIOUS
<1> HIDE DEF old, upd
<1> QED BY <1>1, <1>2, <1>3, <1>4 DEF old

\* A function updated at one row's status.
LEMMA StatusWrite ==
    ASSUME NEW K, NEW R, NEW table \in [R -> Row(K)], NEW r \in R, NEW new \in RunStatus
    PROVE  LET t == [table EXCEPT ![r].status = new] IN
           /\ t \in [R -> Row(K)]
           /\ \A s \in R : t[s].key = table[s].key
           /\ \A s \in R \ {r} : t[s] = table[s]
           /\ t[r].status = new
<1> DEFINE w == [table[r] EXCEPT !.status = new]
           t == [table EXCEPT ![r] = w]
<1>1. w \in Row(K) /\ w.key = table[r].key /\ w.status = new
    BY RowUpdate
<1>2. [table EXCEPT ![r].status = new] = t
    OBVIOUS
<1> HIDE DEF w
<1>3. /\ t \in [R -> Row(K)]
      /\ \A s \in R : t[s].key = table[s].key
      /\ \A s \in R \ {r} : t[s] = table[s]
      /\ t[r].status = new
    BY <1>1
<1> QED BY <1>2, <1>3

\* transition_codex_run_if_status changes the status of a started row only.
LEMMA TransitionRows ==
    ASSUME NEW K, NEW R, NEW table \in [R -> Row(K)], NEW r \in R, NEW new \in RunStatus
    PROVE  /\ Transition(table, r, new) \in [R -> Row(K)]
           /\ \A s \in R : Transition(table, r, new)[s].key = table[s].key
           /\ \A s \in R \ {r} : Transition(table, r, new)[s] = table[s]
           /\ Transition(table, r, new)[r].status =
                IF table[r].status = "started" THEN new ELSE table[r].status
<1>1. CASE table[r].status = "started"
    BY <1>1, StatusWrite DEF Transition
<1>2. CASE table[r].status # "started"
    BY <1>2 DEF Transition
<1> QED BY <1>1, <1>2

\* A claim inserts its row and fails the started rows of its key.
LEMMA ClaimRows ==
    ASSUME NEW K, NEW R, NEW table \in [R -> Row(K)], NEW r \in R, NEW k \in K,
           ItemTypeOK
    PROVE  /\ ClaimRow(table, r, k) \in [R -> Row(K)]
           /\ ClaimRow(table, r, k)[r].key = k
           /\ ClaimRow(table, r, k)[r].status = "started"
           /\ \A s \in R \ {r} :
                /\ ClaimRow(table, r, k)[s].key = table[s].key
                /\ ClaimRow(table, r, k)[s].status =
                     IF table[s].status = "started" /\ table[s].key = k
                     THEN "failed" ELSE table[s].status
<1> DEFINE t == ClaimRow(table, r, k)
           row == NewRow(k)
<1>0. DOMAIN table = R /\ "failed" \in RunStatus /\ "started" \in RunStatus
    BY DEF RunStatus
<1>1. row \in Row(K) /\ row.key = k /\ row.status = "started"
    <2>1. clock + RunTimeout \in 0 .. MaxClock + RunTimeout
        BY CodexRunsAssumption DEF ItemTypeOK
    <2> QED BY <1>0, <2>1 DEF NewRow, Row
<1>2. \A s \in R : /\ [table[s] EXCEPT !.status = "failed"] \in Row(K)
                   /\ [table[s] EXCEPT !.status = "failed"].key = table[s].key
                   /\ [table[s] EXCEPT !.status = "failed"].status = "failed"
    BY <1>0, RowUpdate
<1>3. t = [s \in R |-> IF s = r THEN row
                       ELSE IF s \in Active(table, k)
                            THEN [table[s] EXCEPT !.status = "failed"]
                            ELSE table[s]]
    BY <1>0 DEF ClaimRow
<1>4. \A s \in R : s \in Active(table, k) <=> table[s].status = "started" /\ table[s].key = k
    BY <1>0 DEF Active
<1> HIDE DEF t, row
<1>5. t \in [R -> Row(K)]
    BY <1>1, <1>2, <1>3
<1>6. t[r].key = k /\ t[r].status = "started"
    BY <1>1, <1>3
<1>7. ASSUME NEW s \in R \ {r}
      PROVE  /\ t[s].key = table[s].key
             /\ t[s].status = IF table[s].status = "started" /\ table[s].key = k
                              THEN "failed" ELSE table[s].status
    <2>1. CASE s \in Active(table, k)
        <3>1. t[s] = [table[s] EXCEPT !.status = "failed"]
            BY <1>3, <2>1
        <3> QED BY <1>2, <1>4, <2>1, <3>1
    <2>2. CASE s \notin Active(table, k)
        <3>1. t[s] = table[s]
            BY <1>3, <2>2
        <3> QED BY <1>4, <2>2, <3>1
    <2> QED BY <2>1, <2>2
<1> QED BY <1>5, <1>6, <1>7 DEF t

-----------------------------------------------------------------------------
(* The reviews.                                                            *)

\* A stored review is the product of the completed run it names.
ReviewsStored ==
    \A v \in Revisions : review[v] # 0 =>
        reviewRun[review[v]].key = v /\ reviewRun[review[v]].status = "completed"

\* A reviewed revision has no started run any more.
ReviewedIsDone ==
    \A v \in Revisions, r \in ReviewRuns :
        review[v] # 0 /\ reviewRun[r].key = v => reviewRun[r].status # "started"

OneStartedReview ==
    \A r, s \in ReviewRuns :
        /\ reviewRun[r].status = "started"
        /\ reviewRun[s].status = "started"
        /\ reviewRun[r].key = reviewRun[s].key
        => r = s

\* A worker reports "completed" only of a run that has ended already.
CompletedIsReported ==
    \A r \in ReviewRuns :
        reviewJob[r] = "report" /\ reviewVerdict[r] = "completed" =>
            reviewRun[r].status # "started"

ReviewRows == ReviewsStored /\ ReviewedIsDone /\ OneStartedReview
ReviewInv == ReviewTypeOK /\ ReviewRows /\ CompletedIsReported /\ ReviewWorkerEndsRun

\* A review never moves the work item it reads.
LEMMA ReviewLeavesItem ==
    ASSUME ReviewStep
    PROVE  UNCHANGED itemVars \/ Fault
BY DEF ReviewStep, ReviewWorkerStep, ClaimReview, SubmitReview, BeginReview,
    ReviewPrepareEnds, ReviewPrepared, StartReview, ReviewTurnFails,
    ReviewTurnSucceeds, ReviewNotSaved, SaveReview, ReportReview,
    ReadExpiresReview, ReviewWriteLost

\* The work item keeps its types through a step of either operation.
LEMMA ItemTypes ==
    ASSUME ReviewTypeOK, DraftTypeOK, [Next]_vars
    PROVE  ItemTypeOK' /\ faults' >= faults
<1> USE DEF ItemTypeOK
<1>0. ItemTypeOK /\ draftRun \in [DraftRuns -> Row(Contexts)]
    BY DEF ReviewTypeOK, DraftTypeOK
<1>1. ASSUME UNCHANGED itemVars PROVE ItemTypeOK' /\ faults' >= faults
    BY <1>0, <1>1, CodexRunsAssumption DEF itemVars
<1>2. ASSUME Fault PROVE ItemTypeOK' /\ faults' >= faults
    BY <1>0, <1>2, CodexRunsAssumption DEF Fault
<1>3. ASSUME ItemMoves PROVE ItemTypeOK' /\ faults' >= faults
    BY <1>0, <1>3, CodexRunsAssumption DEF ItemMoves, EditorAppends, PlanChanges, Tick
<1>4. ASSUME NEW r \in DraftRuns, AppendDraft(r) PROVE ItemTypeOK' /\ faults' >= faults
    <2>1. madeFor' = plan
        BY <1>4 DEF AppendDraft, CurrentContext
    <2> QED BY <1>0, <1>4, <2>1, CodexRunsAssumption DEF AppendDraft
<1>5. ASSUME ReviewStep PROVE UNCHANGED itemVars \/ Fault
    BY <1>5, ReviewLeavesItem
<1>6. ASSUME DraftStep
      PROVE  UNCHANGED itemVars \/ Fault \/ \E r \in DraftRuns : AppendDraft(r)
    BY <1>6 DEF DraftStep, DraftWorkerStep, ClaimDraft, SubmitDraft, DraftQueueFull,
        BeginDraft, StartDraft, DraftTurn, DraftFails, ReleasePermit,
        ReadExpiresDraft, DraftWriteLost
<1>7. UNCHANGED vars => UNCHANGED itemVars
    BY DEF vars
<1> QED BY <1>1, <1>2, <1>3, <1>4, <1>5, <1>6, <1>7 DEF Next, Crash

\* Inserting a row for a revision without a review keeps the rows in order.
LEMMA ReviewClaimStep ==
    ASSUME ReviewInv, ItemTypeOK', faults' >= faults,
           NEW v \in Revisions, NEW r \in ReviewRuns, ClaimReview(v, r)
    PROVE  ReviewInv'
<1> USE DEF ReviewInv, ReviewTypeOK
<1>0. /\ reviewRun' = ClaimRow(reviewRun, r, v)
      /\ reviewJob' = [reviewJob EXCEPT ![r] = "claimed"]
      /\ UNCHANGED <<review, reviewVerdict, faults>>
      /\ review[v] = 0 /\ reviewRun[r].status = "none"
    BY DEF ClaimReview, ReviewGoto, itemVars, NextReviewRun
<1>1. /\ reviewRun' \in [ReviewRuns -> Row(Revisions)]
      /\ reviewRun'[r].key = v
      /\ reviewRun'[r].status = "started"
      /\ \A s \in ReviewRuns \ {r} :
            /\ reviewRun'[s].key = reviewRun[s].key
            /\ reviewRun'[s].status =
                 IF reviewRun[s].status = "started" /\ reviewRun[s].key = v
                 THEN "failed" ELSE reviewRun[s].status
    BY <1>0, ClaimRows
<1>2. ReviewTypeOK'
    BY <1>0, <1>1 DEF ReviewPlace
<1>3. ReviewsStored'
    BY <1>0, <1>1 DEF ReviewRows, ReviewsStored
<1>4. ReviewedIsDone'
    BY <1>0, <1>1 DEF ReviewRows, ReviewedIsDone
<1>5. OneStartedReview'
    BY <1>1 DEF ReviewRows, OneStartedReview
<1>6. CompletedIsReported'
    BY <1>0, <1>1 DEF CompletedIsReported
<1>7. ReviewWorkerEndsRun'
    BY <1>0, <1>1 DEF ReviewWorkerEndsRun
<1> QED BY <1>2, <1>3, <1>4, <1>5, <1>6, <1>7 DEF ReviewRows

\* Ending a started row, wherever its worker is sent, keeps the rows in order.
LEMMA ReviewRowsEnd ==
    ASSUME ReviewTypeOK, ReviewRows, NEW r \in ReviewRuns, NEW status \in RunStatus,
           reviewRun[r].status = "started" => status \in Ended,
           reviewRun' = Transition(reviewRun, r, status), review' = review
    PROVE  /\ ReviewRows'
           /\ reviewRun' \in [ReviewRuns -> Row(Revisions)]
           /\ reviewRun'[r].status # "started"
           /\ \A s \in ReviewRuns :
                /\ reviewRun'[s].key = reviewRun[s].key
                /\ reviewRun'[s].status = "started" => reviewRun[s].status = "started"
<1>1. /\ reviewRun' \in [ReviewRuns -> Row(Revisions)]
      /\ \A s \in ReviewRuns : reviewRun'[s].key = reviewRun[s].key
      /\ \A s \in ReviewRuns \ {r} : reviewRun'[s] = reviewRun[s]
      /\ reviewRun'[r].status = IF reviewRun[r].status = "started" THEN status
                                ELSE reviewRun[r].status
    BY TransitionRows DEF ReviewTypeOK
<1>2. reviewRun'[r].status # "started"
    BY <1>1 DEF Ended
<1>3. ReviewsStored'
    <2> SUFFICES ASSUME NEW v \in Revisions, review[v] # 0
                 PROVE  reviewRun'[review[v]].key = v /\ reviewRun'[review[v]].status = "completed"
        BY DEF ReviewsStored
    <2>1. /\ review[v] \in ReviewRuns
          /\ reviewRun[review[v]].key = v /\ reviewRun[review[v]].status = "completed"
        BY DEF ReviewRows, ReviewsStored, ReviewTypeOK
    <2>2. CASE review[v] = r
        BY <1>1, <2>1, <2>2
    <2>3. CASE review[v] # r
        BY <1>1, <2>1, <2>3
    <2> QED BY <2>2, <2>3
<1>4. ReviewedIsDone'
    BY <1>1, <1>2 DEF ReviewRows, ReviewedIsDone
<1>5. OneStartedReview'
    BY <1>1, <1>2 DEF ReviewRows, OneStartedReview
<1> QED BY <1>1, <1>2, <1>3, <1>4, <1>5 DEF ReviewRows

\* A review committed with the completion of its run keeps the rows in order.
LEMMA ReviewSaveStep ==
    ASSUME ReviewInv, ItemTypeOK', faults' >= faults,
           NEW r \in ReviewRuns, SaveReview(r)
    PROVE  ReviewInv'
<1> USE DEF ReviewInv, ReviewTypeOK
<1>0. PICK v \in Revisions : v = reviewRun[r].key
    BY DEF Row
<1>1. /\ reviewRun' = [reviewRun EXCEPT ![r].status = "completed"]
      /\ review' = [review EXCEPT ![v] = r]
      /\ reviewJob' = [reviewJob EXCEPT ![r] = "report"]
      /\ reviewVerdict' = [reviewVerdict EXCEPT ![r] = "completed"]
      /\ review[v] = 0 /\ reviewRun[r].status = "started" /\ faults' = faults
    BY <1>0 DEF SaveReview, ReviewGoto, itemVars
<1>2. /\ reviewRun' \in [ReviewRuns -> Row(Revisions)]
      /\ \A s \in ReviewRuns : reviewRun'[s].key = reviewRun[s].key
      /\ \A s \in ReviewRuns \ {r} : reviewRun'[s] = reviewRun[s]
      /\ reviewRun'[r].status = "completed"
    <2>1. "completed" \in RunStatus
        BY DEF RunStatus
    <2> QED BY <1>1, <2>1, StatusWrite
<1>3. ReviewTypeOK'
    <2>1. /\ review' = [review EXCEPT ![v] = r]
          /\ reviewJob' = [reviewJob EXCEPT ![r] = "report"]
          /\ reviewVerdict' = [reviewVerdict EXCEPT ![r] = "completed"]
          /\ reviewRun' \in [ReviewRuns -> Row(Revisions)]
        BY <1>1, <1>2
    <2>2. "report" \in ReviewPlace
        BY DEF ReviewPlace, ReviewRunning
    <2> HIDE <1>1, <1>2
    <2> QED BY <2>1, <2>2
<1>4. r # 0 /\ \A w \in Revisions : review'[w] = IF w = v THEN r ELSE review[w]
    BY <1>1 DEF ReviewRuns
<1>5. ReviewsStored'
    <2> SUFFICES ASSUME NEW w \in Revisions, review'[w] # 0
                 PROVE  reviewRun'[review'[w]].key = w /\ reviewRun'[review'[w]].status = "completed"
        BY DEF ReviewsStored
    <2>1. CASE w = v
        BY <1>0, <1>2, <1>4, <2>1
    <2>2. CASE w # v
        <3>1. /\ review'[w] = review[w] /\ review[w] \in ReviewRuns
              /\ reviewRun[review[w]].key = w /\ reviewRun[review[w]].status = "completed"
            BY <1>4, <2>2 DEF ReviewRows, ReviewsStored
        <3> QED BY <1>1, <1>2, <3>1
    <2> QED BY <2>1, <2>2
<1>6. ReviewedIsDone'
    <2> SUFFICES ASSUME NEW w \in Revisions, NEW s \in ReviewRuns, review'[w] # 0,
                        reviewRun'[s].key = w, reviewRun'[s].status = "started"
                 PROVE  FALSE
        BY DEF ReviewedIsDone
    <2>1. s # r /\ reviewRun[s].key = w /\ reviewRun[s].status = "started"
        BY <1>2
    <2>2. CASE w = v
        BY <1>0, <1>1, <2>1, <2>2 DEF ReviewRows, OneStartedReview
    <2>3. CASE w # v
        BY <1>4, <2>1, <2>3 DEF ReviewRows, ReviewedIsDone
    <2> QED BY <2>2, <2>3
<1>7. OneStartedReview'
    BY <1>2 DEF ReviewRows, OneStartedReview
<1>8. CompletedIsReported'
    BY <1>1, <1>2 DEF CompletedIsReported
<1>9. ReviewWorkerEndsRun'
    BY <1>1, <1>2 DEF ReviewWorkerEndsRun
<1> QED BY <1>3, <1>5, <1>6, <1>7, <1>8, <1>9 DEF ReviewRows

\* Steps of a worker that change no row and say "completed" only of a reviewed
\* revision.
LEMMA ReviewWorkStep ==
    ASSUME ReviewInv, ItemTypeOK', faults' >= faults, UNCHANGED <<reviewRun, review>>,
           reviewJob' \in [ReviewRuns -> ReviewPlace],
           reviewVerdict' \in [ReviewRuns -> {"completed"} \cup Ended],
           \A r \in ReviewRuns :
              \/ reviewJob'[r] = reviewJob[r] /\ reviewVerdict'[r] = reviewVerdict[r]
              \/ reviewJob'[r] = "report" /\ reviewVerdict'[r] = "completed"
                   /\ reviewRun[r].status # "started"
              \/ reviewJob'[r] = "report" /\ reviewVerdict'[r] # "completed"
              \/ reviewJob'[r] \notin {"report", "gone"}
              \/ reviewJob'[r] = "gone" /\ faults' > 0
    PROVE  ReviewInv'
<1> USE DEF ReviewInv, ReviewTypeOK
<1>1. ReviewTypeOK'
    OBVIOUS
<1>2. ReviewRows'
    BY DEF ReviewRows, ReviewsStored, ReviewedIsDone, OneStartedReview
<1>3. CompletedIsReported'
    BY DEF CompletedIsReported
<1>4. ReviewWorkerEndsRun'
    BY DEF ReviewWorkerEndsRun, ItemTypeOK
<1> QED BY <1>1, <1>2, <1>3, <1>4

\* Steps that end a started row, and perhaps send its worker to its report or
\* from its report away.
LEMMA ReviewEndStep ==
    ASSUME ReviewInv, ItemTypeOK', faults' >= faults,
           NEW r \in ReviewRuns, NEW status \in RunStatus,
           reviewRun[r].status = "started" => status \in Ended,
           reviewRun' = Transition(reviewRun, r, status), review' = review,
           reviewJob' \in [ReviewRuns -> ReviewPlace],
           reviewVerdict' \in [ReviewRuns -> {"completed"} \cup Ended],
           \A s \in ReviewRuns \ {r} :
              reviewJob'[s] = reviewJob[s] /\ reviewVerdict'[s] = reviewVerdict[s]
    PROVE  ReviewInv'
<1> USE DEF ReviewInv
<1>1. /\ ReviewRows'
      /\ reviewRun' \in [ReviewRuns -> Row(Revisions)]
      /\ reviewRun'[r].status # "started"
      /\ \A s \in ReviewRuns :
           /\ reviewRun'[s].key = reviewRun[s].key
           /\ reviewRun'[s].status = "started" => reviewRun[s].status = "started"
    BY ReviewRowsEnd
<1>2. ReviewTypeOK'
    BY <1>1 DEF ReviewTypeOK
<1>3. CompletedIsReported'
    BY <1>1 DEF CompletedIsReported
<1>4. ReviewWorkerEndsRun'
    BY <1>1 DEF ReviewWorkerEndsRun, ReviewTypeOK, ItemTypeOK
<1> QED BY <1>1, <1>2, <1>3, <1>4

\* Every step keeps the rows and the workers of the reviews in order.
LEMMA ReviewInvStep ==
    ASSUME ReviewInv, DraftTypeOK, [Next]_vars
    PROVE  ReviewInv'
<1> USE DEF ReviewGoto
<1>item. ItemTypeOK' /\ faults' >= faults
    BY ItemTypes DEF ReviewInv
<1>types. /\ reviewRun \in [ReviewRuns -> Row(Revisions)]
          /\ review \in [Revisions -> {0} \cup ReviewRuns]
          /\ reviewJob \in [ReviewRuns -> ReviewPlace]
          /\ reviewVerdict \in [ReviewRuns -> {"completed"} \cup Ended]
          /\ faults \in Nat
    BY DEF ReviewInv, ReviewTypeOK, ItemTypeOK
<1>sets. /\ Ended \subseteq RunStatus /\ "failed" \in Ended /\ "completed" \in RunStatus
         /\ {"claimed", "queued", "prepare", "start", "turn", "persist", "report", "gone",
             "none"} \subseteq ReviewPlace
    BY DEF Ended, RunStatus, ReviewPlace, ReviewRunning
<1>1. ASSUME NEW v \in Revisions, NEW r \in ReviewRuns, ClaimReview(v, r) PROVE ReviewInv'
    BY <1>1, <1>item, ReviewClaimStep
<1>2. ASSUME NEW r \in ReviewRuns, SubmitReview(r) PROVE ReviewInv'
    <2> USE <1>2 DEF SubmitReview
    <2> QED BY <1>item, <1>types, <1>sets, ReviewWorkStep
<1>3. ASSUME NEW r \in ReviewRuns, BeginReview(r) PROVE ReviewInv'
    <2>1. reviewJob' = [reviewJob EXCEPT ![r] = "prepare"]
          /\ UNCHANGED <<reviewRun, review, reviewVerdict>>
        BY <1>3 DEF BeginReview
    <2> QED BY <2>1, <1>item, <1>types, <1>sets, ReviewWorkStep
<1>4. ASSUME NEW r \in ReviewRuns, ReviewPrepareEnds(r) PROVE ReviewInv'
    <2>1. /\ reviewJob' = [reviewJob EXCEPT ![r] = "report"]
          /\ UNCHANGED <<reviewRun, review>>
        BY <1>4 DEF ReviewPrepareEnds
    <2>2. PICK status \in {"completed"} \cup Ended :
             /\ reviewVerdict' = [reviewVerdict EXCEPT ![r] = status]
             /\ status = "completed" => review[reviewRun[r].key] # 0
        BY <1>4 DEF ReviewPrepareEnds, Ended
    <2>3. status = "completed" => reviewRun[r].status # "started"
        BY <1>types, <2>2 DEF ReviewInv, ReviewRows, ReviewedIsDone, Row
    <2> QED BY <2>1, <2>2, <2>3, <1>item, <1>types, <1>sets, ReviewWorkStep
<1>5. ASSUME NEW r \in ReviewRuns, ReviewPrepared(r) PROVE ReviewInv'
    <2>1. reviewJob' = [reviewJob EXCEPT ![r] = "start"]
          /\ UNCHANGED <<reviewRun, review, reviewVerdict>>
        BY <1>5 DEF ReviewPrepared
    <2> QED BY <2>1, <1>item, <1>types, <1>sets, ReviewWorkStep
<1>6. ASSUME NEW r \in ReviewRuns, StartReview(r) PROVE ReviewInv'
    <2>1. /\ UNCHANGED <<reviewRun, review>>
          /\ \/ reviewJob' = [reviewJob EXCEPT ![r] = "turn"] /\ UNCHANGED reviewVerdict
             \/ /\ reviewJob' = [reviewJob EXCEPT ![r] = "report"]
                /\ reviewVerdict' = [reviewVerdict EXCEPT ![r] = "failed"]
        BY <1>6 DEF StartReview
    <2> QED BY <2>1, <1>item, <1>types, <1>sets, ReviewWorkStep
<1>7. ASSUME NEW r \in ReviewRuns, NEW status \in Ended, ReviewEnds(r, status), review' = review
      PROVE  ReviewInv'
    BY <1>7, <1>item, <1>types, <1>sets, ReviewEndStep DEF ReviewEnds
<1>8. ASSUME NEW r \in ReviewRuns, ReviewTurnFails(r) \/ ReviewNotSaved(r) PROVE ReviewInv'
    BY <1>7, <1>8 DEF ReviewTurnFails, ReviewNotSaved
<1>9. ASSUME NEW r \in ReviewRuns, ReviewTurnSucceeds(r) PROVE ReviewInv'
    <2>1. reviewJob' = [reviewJob EXCEPT ![r] = "persist"]
          /\ UNCHANGED <<reviewRun, review, reviewVerdict>>
        BY <1>9 DEF ReviewTurnSucceeds
    <2> QED BY <2>1, <1>item, <1>types, <1>sets, ReviewWorkStep
<1>10. ASSUME NEW r \in ReviewRuns, SaveReview(r) PROVE ReviewInv'
    BY <1>10, <1>item, ReviewSaveStep
<1>11. ASSUME NEW r \in ReviewRuns, ReportReview(r) PROVE ReviewInv'
    <2>1. /\ reviewJob[r] = "report" /\ review' = review /\ reviewVerdict' = reviewVerdict
          /\ reviewRun' = Transition(reviewRun, r, reviewVerdict[r])
          /\ reviewJob' = [reviewJob EXCEPT ![r] = "gone"]
        BY <1>11 DEF ReportReview
    <2>2. reviewRun[r].status = "started" => reviewVerdict[r] \in Ended
        BY <1>types, <2>1 DEF ReviewInv, CompletedIsReported
    <2>3. reviewVerdict[r] \in RunStatus
        BY <1>types, <1>sets
    <2> QED BY <2>1, <2>2, <2>3, <1>item, <1>types, <1>sets, ReviewEndStep
<1>12. ASSUME NEW r \in ReviewRuns, ReadExpiresReview(r) PROVE ReviewInv'
    <2>1. /\ UNCHANGED <<review, reviewVerdict, reviewJob>>
          /\ reviewRun' = Transition(reviewRun, r, "failed")
        BY <1>12 DEF ReadExpiresReview
    <2> QED BY <2>1, <1>item, <1>types, <1>sets, ReviewEndStep
<1>13. ASSUME NEW r \in ReviewRuns, ReviewWriteLost(r) PROVE ReviewInv'
    <2>1. /\ UNCHANGED <<review, reviewVerdict, reviewRun>> /\ faults' > 0
          /\ reviewJob' = [reviewJob EXCEPT ![r] = "gone"]
        BY <1>13, <1>types DEF ReviewWriteLost, Fault
    <2> QED BY <2>1, <1>item, <1>types, <1>sets, ReviewWorkStep
<1>14. ASSUME Crash PROVE ReviewInv'
    <2>1. /\ UNCHANGED <<review, reviewVerdict, reviewRun>> /\ faults' > 0
          /\ reviewJob' = [r \in ReviewRuns |-> IF reviewJob[r] = "none" THEN "none" ELSE "gone"]
        BY <1>14, <1>types DEF Crash, ReviewCrash, Fault
    <2> QED BY <2>1, <1>item, <1>types, <1>sets, ReviewWorkStep
<1>15. ASSUME UNCHANGED reviewVars PROVE ReviewInv'
    <2>1. UNCHANGED <<reviewRun, review, reviewJob, reviewVerdict>>
        BY <1>15 DEF reviewVars
    <2> QED BY <2>1, <1>item, <1>types, ReviewWorkStep
<1>16. CASE ReviewStep
    BY <1>16, <1>1, <1>2, <1>3, <1>4, <1>5, <1>6, <1>8, <1>9, <1>10, <1>11, <1>12, <1>13
    DEF ReviewStep, ReviewWorkerStep
<1>17. UNCHANGED vars => UNCHANGED reviewVars
    BY DEF vars
<1> QED BY <1>14, <1>15, <1>16, <1>17 DEF Next

-----------------------------------------------------------------------------
(* The drafts.                                                             *)

\* A revision names the completed run that was bound to the revision before
\* it; no revision above the newest names one.
DraftsAppended ==
    \A v \in Revisions : author[v] # 0 =>
        /\ v <= latest
        /\ draftRun[author[v]].key.base = v - 1
        /\ draftRun[author[v]].status = "completed"

OneStartedDraft ==
    \A r, s \in DraftRuns :
        /\ draftRun[r].status = "started"
        /\ draftRun[s].status = "started"
        /\ draftRun[r].key = draftRun[s].key
        => r = s

\* A worker that gives its permit back has ended its run.
ReleasedIsEnded ==
    faults = 0 =>
        \A r \in DraftRuns :
            draftJob[r] \in {"release", "gone"} => draftRun[r].status # "started"

\* A run that was not claimed has no worker.
FreshIsIdle ==
    \A r \in DraftRuns : draftRun[r].status = "none" => draftJob[r] = "none"

DraftRows == DraftsAppended /\ OneStartedDraft
DraftInv == DraftTypeOK /\ DraftRows /\ ReleasedIsEnded /\ FreshIsIdle

Holders == {r \in DraftRuns : draftJob[r] \in DraftHolding}

LEMMA ContextType ==
    ASSUME ItemTypeOK
    PROVE  CurrentContext \in Contexts /\ CurrentContext.base = latest
BY DEF CurrentContext, Contexts, ItemTypeOK

\* Inserting a row for the current context keeps the rows in order.
LEMMA DraftClaimStep ==
    ASSUME DraftInv, ItemTypeOK', faults' >= faults,
           NEW r \in DraftRuns, ClaimDraft(r)
    PROVE  DraftInv'
<1> USE DEF DraftInv, DraftTypeOK
<1>0. PICK k \in Contexts : k = CurrentContext
    BY ContextType
<1>1. /\ draftRun' = ClaimRow(draftRun, r, k)
      /\ draftJob' = [draftJob EXCEPT ![r] = "claimed"]
      /\ UNCHANGED <<author, permits, faults, latest>>
      /\ draftRun[r].status = "none"
    BY <1>0 DEF ClaimDraft, DraftGoto, itemVars, NextDraftRun
<1>2. /\ draftRun' \in [DraftRuns -> Row(Contexts)]
      /\ draftRun'[r].key = k
      /\ draftRun'[r].status = "started"
      /\ \A s \in DraftRuns \ {r} :
            /\ draftRun'[s].key = draftRun[s].key
            /\ draftRun'[s].status =
                 IF draftRun[s].status = "started" /\ draftRun[s].key = k
                 THEN "failed" ELSE draftRun[s].status
    BY <1>1, ClaimRows
<1>3. DraftTypeOK'
    BY <1>1, <1>2 DEF DraftPlace
<1>4. DraftsAppended'
    BY <1>1, <1>2 DEF DraftRows, DraftsAppended
<1>5. OneStartedDraft'
    BY <1>2 DEF DraftRows, OneStartedDraft
<1>6. ReleasedIsEnded'
    BY <1>1, <1>2 DEF ReleasedIsEnded
<1>7. FreshIsIdle'
    BY <1>1, <1>2 DEF FreshIsIdle
<1> QED BY <1>3, <1>4, <1>5, <1>6, <1>7 DEF DraftRows

\* Ending a started row keeps the rows in order, wherever its worker goes.
LEMMA DraftEndStep ==
    ASSUME DraftInv, ItemTypeOK', faults' >= faults,
           NEW r \in DraftRuns, NEW status \in Ended,
           draftRun' = Transition(draftRun, r, status),
           author' = author, latest' = latest, permits' \in 0 .. DraftWorkers,
           draftJob' \in [DraftRuns -> DraftPlace],
           \A s \in DraftRuns \ {r} : draftJob'[s] = draftJob[s],
           draftRun[r].status # "none"
    PROVE  DraftInv'
<1> USE DEF DraftInv
<1>0. status \in RunStatus /\ status # "started"
    BY DEF Ended, RunStatus
<1>1. /\ draftRun' \in [DraftRuns -> Row(Contexts)]
      /\ \A s \in DraftRuns : draftRun'[s].key = draftRun[s].key
      /\ \A s \in DraftRuns \ {r} : draftRun'[s] = draftRun[s]
      /\ draftRun'[r].status = IF draftRun[r].status = "started" THEN status
                               ELSE draftRun[r].status
    BY <1>0, TransitionRows DEF DraftTypeOK
<1>2. DraftTypeOK'
    BY <1>1 DEF DraftTypeOK
<1>3. DraftsAppended'
    <2> SUFFICES ASSUME NEW v \in Revisions, author[v] # 0
                 PROVE  /\ v <= latest
                        /\ draftRun'[author[v]].key.base = v - 1
                        /\ draftRun'[author[v]].status = "completed"
        BY DEF DraftsAppended
    <2>1. /\ author[v] \in DraftRuns /\ v <= latest
          /\ draftRun[author[v]].key.base = v - 1
          /\ draftRun[author[v]].status = "completed"
        BY DEF DraftRows, DraftsAppended, DraftTypeOK
    <2>2. CASE author[v] = r
        BY <1>1, <2>1, <2>2
    <2>3. CASE author[v] # r
        BY <1>1, <2>1, <2>3
    <2> QED BY <2>2, <2>3
<1>4. OneStartedDraft'
    BY <1>0, <1>1 DEF DraftRows, OneStartedDraft
<1>5. ReleasedIsEnded'
    BY <1>0, <1>1 DEF ReleasedIsEnded, DraftTypeOK, ItemTypeOK
<1>6. FreshIsIdle'
    BY <1>0, <1>1 DEF FreshIsIdle, Ended
<1> QED BY <1>2, <1>3, <1>4, <1>5, <1>6 DEF DraftRows

\* Steps that change no row keep the rows in order.
LEMMA DraftWorkStep ==
    ASSUME DraftInv, ItemTypeOK', faults' >= faults, UNCHANGED <<draftRun, author>>,
           latest' >= latest, permits' \in 0 .. DraftWorkers,
           draftJob' \in [DraftRuns -> DraftPlace],
           \A r \in DraftRuns : draftJob[r] = "none" => draftJob'[r] = "none",
           \/ faults' > 0
           \/ \A r \in DraftRuns :
                 draftJob'[r] \in {"release", "gone"} => draftJob[r] \in {"release", "gone"}
    PROVE  DraftInv'
<1> USE DEF DraftInv
<1>1. DraftTypeOK'
    BY DEF DraftTypeOK
<1>2. DraftsAppended'
    <2>1. \A v \in Revisions : v <= latest => v <= latest'
        BY DEF Revisions, DraftTypeOK, ItemTypeOK
    <2> QED BY <2>1 DEF DraftRows, DraftsAppended
<1>3. OneStartedDraft'
    BY DEF DraftRows, OneStartedDraft
<1>4. ReleasedIsEnded'
    BY DEF ReleasedIsEnded, DraftTypeOK, ItemTypeOK
<1>5. FreshIsIdle'
    BY DEF FreshIsIdle
<1> QED BY <1>1, <1>2, <1>3, <1>4, <1>5 DEF DraftRows

\* A text committed with the completion of its run keeps the rows in order.
LEMMA DraftAppendStep ==
    ASSUME DraftInv, ItemTypeOK', faults' >= faults,
           NEW r \in DraftRuns, AppendDraft(r)
    PROVE  DraftInv'
<1> USE DEF DraftInv, DraftTypeOK
<1>0. PICK v \in Revisions : v = latest + 1
    BY DEF AppendDraft, Revisions, ItemTypeOK
<1>1. /\ draftRun' = [draftRun EXCEPT ![r].status = "completed"]
      /\ author' = [author EXCEPT ![v] = r]
      /\ draftJob' = [draftJob EXCEPT ![r] = "release"]
      /\ latest' = v /\ permits' = permits
    BY <1>0 DEF AppendDraft, DraftGoto
<1>2. /\ draftRun' \in [DraftRuns -> Row(Contexts)]
      /\ \A s \in DraftRuns : draftRun'[s].key = draftRun[s].key
      /\ \A s \in DraftRuns \ {r} : draftRun'[s] = draftRun[s]
      /\ draftRun'[r].status = "completed"
    <2>1. "completed" \in RunStatus
        BY DEF RunStatus
    <2> QED BY <1>1, <2>1, StatusWrite
<1>3. draftRun[r].key.base = v - 1 /\ draftRun[r].status = "started"
    BY <1>0, ContextType DEF AppendDraft, ItemTypeOK
<1>4. /\ author' \in [Revisions -> {0} \cup DraftRuns]
      /\ draftJob' \in [DraftRuns -> DraftPlace]
      /\ \A w \in Revisions : author'[w] = IF w = v THEN r ELSE author[w]
      /\ \A s \in DraftRuns : draftJob'[s] = IF s = r THEN "release" ELSE draftJob[s]
    <2>1. /\ author' = [author EXCEPT ![v] = r]
          /\ draftJob' = [draftJob EXCEPT ![r] = "release"]
        BY <1>1
    <2> HIDE <1>1, <1>2
    <2> QED BY <2>1 DEF DraftPlace, DraftHolding
<1>5. DraftTypeOK'
    <2>1. permits' = permits
        BY <1>1
    <2> QED BY <1>2, <1>4, <2>1
<1>6. DraftsAppended'
    <2> SUFFICES ASSUME NEW w \in Revisions, author'[w] # 0
                 PROVE  /\ w <= latest'
                        /\ draftRun'[author'[w]].key.base = w - 1
                        /\ draftRun'[author'[w]].status = "completed"
        BY DEF DraftsAppended
    <2>0. latest' = v
        BY <1>1
    <2>1. CASE w = v
        <3>1. author'[w] = r
            BY <1>4, <2>1
        <3> QED BY <1>2, <1>3, <2>0, <2>1, <3>1 DEF Revisions
    <2>2. CASE w # v
        <3>1. author'[w] = author[w] /\ author[w] \in DraftRuns
            BY <1>4, <2>2
        <3>2. w <= latest /\ draftRun[author[w]].key.base = w - 1
                /\ draftRun[author[w]].status = "completed"
            BY <3>1 DEF DraftRows, DraftsAppended
        <3>3. author[w] # r
            BY <1>3, <3>2
        <3>4. draftRun'[author[w]] = draftRun[author[w]]
            BY <1>2, <3>1, <3>3
        <3>5. w <= latest'
            BY <1>0, <2>0, <3>2 DEF Revisions, ItemTypeOK
        <3> QED BY <3>1, <3>2, <3>4, <3>5
    <2> QED BY <2>1, <2>2
<1>7. OneStartedDraft'
    BY <1>2 DEF DraftRows, OneStartedDraft
<1>8. ReleasedIsEnded'
    BY <1>2, <1>4 DEF ReleasedIsEnded, ItemTypeOK
<1>9. FreshIsIdle'
    BY <1>2, <1>4 DEF FreshIsIdle
<1> QED BY <1>5, <1>6, <1>7, <1>8, <1>9 DEF DraftRows

\* Every step keeps the rows and the workers of the drafts in order, as far as
\* the permits stay within the executor's size.
LEMMA DraftInvStep ==
    ASSUME DraftInv, PermitsMatchWorkers, ReviewTypeOK, [Next]_vars
    PROVE  DraftInv'
<1> USE DEF DraftGoto
<1>item. ItemTypeOK' /\ faults' >= faults
    BY ItemTypes DEF DraftInv
<1>types. /\ draftRun \in [DraftRuns -> Row(Contexts)]
          /\ author \in [Revisions -> {0} \cup DraftRuns]
          /\ draftJob \in [DraftRuns -> DraftPlace]
          /\ permits \in 0 .. DraftWorkers
          /\ faults \in Nat /\ latest \in Nat
    BY CodexRunsAssumption DEF DraftInv, DraftTypeOK, ItemTypeOK
<1>sets. /\ {"blocked", "failed"} \subseteq Ended
         /\ {"claimed", "queued", "start", "turn", "persist", "release", "gone",
             "none"} \subseteq DraftPlace
    BY DEF Ended, DraftPlace, DraftHolding
<1>1. ASSUME NEW r \in DraftRuns, ClaimDraft(r) PROVE DraftInv'
    BY <1>1, <1>item, DraftClaimStep
<1>2. ASSUME NEW r \in DraftRuns, NEW place \in {"queued", "start", "turn", "persist"},
             UNCHANGED <<draftRun, author, latest>>, permits' \in 0 .. DraftWorkers,
             draftJob[r] # "none", draftJob' = [draftJob EXCEPT ![r] = place]
      PROVE  DraftInv'
    <2>1. \A s \in DraftRuns :
             /\ draftJob'[s] \in {"release", "gone"} => draftJob[s] \in {"release", "gone"}
             /\ draftJob[s] = "none" => draftJob'[s] = "none"
        BY <1>2, <1>types
    <2>2. draftJob' \in [DraftRuns -> DraftPlace]
        BY <1>2, <1>types, <1>sets
    <2> QED BY <1>2, <2>1, <2>2, <1>item, <1>types, DraftWorkStep
<1>3. ASSUME NEW r \in DraftRuns, SubmitDraft(r) PROVE DraftInv'
    <2>1. /\ UNCHANGED <<draftRun, author, latest>> /\ permits' \in 0 .. DraftWorkers
          /\ draftJob' = [draftJob EXCEPT ![r] = "queued"] /\ draftJob[r] # "none"
        BY <1>3, <1>types, DraftAssumption DEF SubmitDraft, itemVars
    <2> QED BY <1>2, <2>1
<1>4. ASSUME NEW r \in DraftRuns, BeginDraft(r) \/ StartDraft(r) \/ DraftTurn(r) PROVE DraftInv'
    <2>1. /\ UNCHANGED <<draftRun, author, latest, permits>> /\ draftJob[r] # "none"
          /\ \E place \in {"start", "turn", "persist"} :
                draftJob' = [draftJob EXCEPT ![r] = place]
        BY <1>4 DEF BeginDraft, StartDraft, DraftTurn, itemVars
    <2> QED BY <1>2, <1>types, <2>1
<1>5. ASSUME NEW r \in DraftRuns, NEW status \in Ended, NEW place \in {"release", "gone"},
             UNCHANGED <<author, latest, permits>>, draftRun[r].status # "none",
             draftRun' = Transition(draftRun, r, status),
             draftJob' = [draftJob EXCEPT ![r] = place] \/ draftJob' = draftJob
      PROVE  DraftInv'
    <2>1. draftJob' \in [DraftRuns -> DraftPlace]
          /\ \A s \in DraftRuns \ {r} : draftJob'[s] = draftJob[s]
        BY <1>5, <1>types, <1>sets
    <2> QED BY <1>5, <2>1, <1>item, <1>types, DraftEndStep
<1>6. ASSUME NEW r \in DraftRuns, DraftQueueFull(r) \/ DraftFails(r) \/ ReadExpiresDraft(r)
      PROVE  DraftInv'
    <2>0. draftRun[r].status # "none"
        BY <1>6 DEF DraftInv, FreshIsIdle, DraftQueueFull, DraftFails, ReadExpiresDraft
    <2>1. /\ UNCHANGED <<author, latest, permits>>
          /\ \E status \in Ended : draftRun' = Transition(draftRun, r, status)
          /\ \/ \E place \in {"release", "gone"} : draftJob' = [draftJob EXCEPT ![r] = place]
             \/ draftJob' = draftJob
        BY <1>6, <1>sets DEF DraftQueueFull, DraftFails, DraftEnds, ReadExpiresDraft, itemVars
    <2> QED BY <1>5, <2>0, <2>1
<1>7. ASSUME NEW r \in DraftRuns, AppendDraft(r) PROVE DraftInv'
    BY <1>7, <1>item, DraftAppendStep
<1>8. ASSUME NEW r \in DraftRuns, ReleasePermit(r) PROVE DraftInv'
    <2>1. /\ UNCHANGED <<draftRun, author, latest>> /\ permits' = permits + 1
          /\ draftJob' = [draftJob EXCEPT ![r] = "gone"] /\ draftJob[r] = "release"
        BY <1>8 DEF ReleasePermit, itemVars
    <2>2. permits < DraftWorkers
        <3>1. IsFiniteSet(Holders)
            <4>1. IsFiniteSet(DraftRuns)
                BY FS_Interval, DraftAssumption DEF DraftRuns
            <4> QED BY <4>1, FS_Subset DEF Holders
        <3>2. r \in Holders
            BY <2>1 DEF Holders, DraftHolding
        <3>3. Cardinality(Holders) # 0 /\ Cardinality(Holders) \in Nat
            BY <3>1, <3>2, FS_EmptySet, FS_CardinalityType
        <3> QED BY <1>types, <3>3, DraftAssumption DEF PermitsMatchWorkers, Holders
    <2>3. permits' \in 0 .. DraftWorkers
        BY <1>types, <2>1, <2>2, DraftAssumption
    <2>4. \A s \in DraftRuns :
             /\ draftJob'[s] \in {"release", "gone"} => draftJob[s] \in {"release", "gone"}
             /\ draftJob[s] = "none" => draftJob'[s] = "none"
        BY <1>types, <2>1
    <2>5. draftJob' \in [DraftRuns -> DraftPlace] /\ latest' >= latest
        BY <1>types, <1>sets, <2>1
    <2> QED BY <2>1, <2>3, <2>4, <2>5, <1>item, DraftWorkStep
<1>9. ASSUME NEW r \in DraftRuns, DraftWriteLost(r) PROVE DraftInv'
    <2>0. PICK place \in {"gone", "release"} :
             place = IF draftJob[r] = "claimed" THEN "gone" ELSE "release"
        OBVIOUS
    <2>1. /\ UNCHANGED <<draftRun, author, permits, latest>> /\ faults' > 0
          /\ draftJob' = [draftJob EXCEPT ![r] = place] /\ draftJob[r] # "none"
        BY <1>9, <1>types, <2>0 DEF DraftWriteLost, DraftHolding, Fault
    <2> QED BY <2>1, <1>item, <1>types, <1>sets, DraftWorkStep
<1>10. ASSUME Crash PROVE DraftInv'
    <2>1. /\ UNCHANGED <<draftRun, author, latest>> /\ faults' > 0 /\ permits' = DraftWorkers
          /\ draftJob' = [r \in DraftRuns |-> IF draftJob[r] = "none" THEN "none" ELSE "gone"]
        BY <1>10, <1>types DEF Crash, DraftCrash, Fault
    <2>2. permits' \in 0 .. DraftWorkers
        BY <2>1, DraftAssumption
    <2> QED BY <2>1, <2>2, <1>item, <1>types, <1>sets, DraftWorkStep
<1>11. ASSUME UNCHANGED draftVars, latest' >= latest PROVE DraftInv'
    <2>1. UNCHANGED <<draftRun, author, draftJob, permits>>
        BY <1>11 DEF draftVars
    <2> QED BY <1>11, <2>1, <1>item, <1>types, DraftWorkStep
<1>12. CASE DraftStep
    BY <1>12, <1>1, <1>3, <1>4, <1>6, <1>7, <1>8, <1>9 DEF DraftStep, DraftWorkerStep
<1>13. ASSUME ReviewStep \/ ItemMoves \/ UNCHANGED vars PROVE latest' >= latest
    <2>1. ReviewStep => UNCHANGED itemVars \/ Fault
        BY ReviewLeavesItem
    <2>2. UNCHANGED itemVars \/ Fault => latest' >= latest
        BY <1>types DEF itemVars, Fault
    <2>3. ItemMoves => latest' >= latest
        BY <1>types DEF ItemMoves, EditorAppends, PlanChanges, Tick
    <2> QED BY <1>13, <2>1, <2>2, <2>3 DEF vars
<1>14. ReviewStep /\ UNCHANGED draftVars => DraftInv'
    BY <1>11, <1>13
<1>15. ItemMoves /\ UNCHANGED <<reviewVars, draftVars>> => DraftInv'
    BY <1>11, <1>13
<1>16. UNCHANGED vars => DraftInv'
    BY <1>11, <1>13 DEF vars
<1> QED BY <1>10, <1>12, <1>14, <1>15, <1>16 DEF Next

\* A permit is taken with a worker and given back with it.
LEMMA PermitsStep ==
    ASSUME DraftInv, PermitsMatchWorkers, [Next]_vars
    PROVE  PermitsMatchWorkers'
<1> USE DEF DraftGoto
<1>types. /\ draftJob \in [DraftRuns -> DraftPlace]
          /\ permits \in 0 .. DraftWorkers
          /\ DraftWorkers \in Nat
    BY DraftAssumption DEF DraftInv, DraftTypeOK
<1>finite. IsFiniteSet(Holders) /\ Cardinality(Holders) \in Nat
    <2>1. IsFiniteSet(DraftRuns)
        BY FS_Interval, DraftAssumption DEF DraftRuns
    <2>2. IsFiniteSet(Holders)
        BY <2>1, FS_Subset DEF Holders
    <2> QED BY <2>2, FS_CardinalityType
<1>old. permits + Cardinality(Holders) = DraftWorkers
    BY DEF PermitsMatchWorkers, Holders
<1>same. ASSUME permits' = permits, Holders' = Holders PROVE PermitsMatchWorkers'
    BY <1>same, <1>old DEF PermitsMatchWorkers, Holders
<1>1. ASSUME NEW r \in DraftRuns, SubmitDraft(r) PROVE PermitsMatchWorkers'
    <2>1. /\ draftJob[r] = "claimed" /\ permits' = permits - 1
          /\ draftJob' = [draftJob EXCEPT ![r] = "queued"]
        BY <1>1 DEF SubmitDraft
    <2>2. r \notin Holders /\ Holders' = Holders \cup {r}
        BY <1>types, <2>1 DEF Holders, DraftHolding
    <2>3. Cardinality(Holders') = Cardinality(Holders) + 1
        BY <1>finite, <2>2, FS_AddElement
    <2>4. permits' + Cardinality(Holders') = DraftWorkers
        BY <1>types, <1>finite, <1>old, <2>1, <2>3
    <2> QED BY <2>4 DEF PermitsMatchWorkers, Holders
<1>2. ASSUME NEW r \in DraftRuns, ReleasePermit(r) PROVE PermitsMatchWorkers'
    <2>1. /\ draftJob[r] = "release" /\ permits' = permits + 1
          /\ draftJob' = [draftJob EXCEPT ![r] = "gone"]
        BY <1>2 DEF ReleasePermit
    <2>2. r \in Holders /\ Holders' = Holders \ {r}
        BY <1>types, <2>1 DEF Holders, DraftHolding
    <2>3. Cardinality(Holders') = Cardinality(Holders) - 1
        BY <1>finite, <2>2, FS_RemoveElement
    <2>4. permits' + Cardinality(Holders') = DraftWorkers
        BY <1>types, <1>finite, <1>old, <2>1, <2>3
    <2> QED BY <2>4 DEF PermitsMatchWorkers, Holders
<1>3. ASSUME NEW r \in DraftRuns, NEW place \in DraftPlace, permits' = permits,
             draftJob' = [draftJob EXCEPT ![r] = place],
             place \in DraftHolding <=> draftJob[r] \in DraftHolding
      PROVE  PermitsMatchWorkers'
    <2>1. Holders' = Holders
        BY <1>3, <1>types DEF Holders
    <2> QED BY <1>3, <1>same, <2>1
<1>4. ASSUME NEW r \in DraftRuns,
             ClaimDraft(r) \/ DraftQueueFull(r) \/ BeginDraft(r) \/ StartDraft(r)
               \/ DraftTurn(r) \/ DraftFails(r) \/ AppendDraft(r) \/ DraftWriteLost(r)
      PROVE  PermitsMatchWorkers'
    <2>sets. /\ DraftHolding = {"queued", "start", "turn", "persist", "release"}
             /\ {"claimed", "gone"} \cap DraftHolding = {}
             /\ {"claimed", "gone"} \cup DraftHolding \subseteq DraftPlace
        BY DEF DraftHolding, DraftPlace
    <2>1. CASE ClaimDraft(r)
        <3>1. draftJob' = [draftJob EXCEPT ![r] = "claimed"] /\ permits' = permits
            BY <2>1 DEF ClaimDraft
        <3>2. draftJob[r] = "none"
            BY <2>1 DEF ClaimDraft, NextDraftRun, DraftInv, FreshIsIdle
        <3>3. draftJob[r] \notin DraftHolding
            BY <3>2 DEF DraftHolding
        <3> QED BY <3>1, <3>3, <2>sets, <1>3
    <2>2. CASE DraftQueueFull(r)
        BY <2>2, <2>sets, <1>3 DEF DraftQueueFull
    <2>3. CASE BeginDraft(r)
        BY <2>3, <2>sets, <1>3 DEF BeginDraft
    <2>4. CASE StartDraft(r)
        BY <2>4, <2>sets, <1>3 DEF StartDraft
    <2>5. CASE DraftTurn(r)
        BY <2>5, <2>sets, <1>3 DEF DraftTurn
    <2>6. CASE DraftFails(r)
        BY <2>6, <2>sets, <1>3 DEF DraftFails, DraftEnds
    <2>7. CASE AppendDraft(r)
        <3>1. /\ draftJob[r] = "persist" /\ permits' = permits
              /\ draftJob' = [draftJob EXCEPT ![r] = "release"]
            BY <2>7 DEF AppendDraft
        <3> QED BY <3>1, <2>sets, <1>3
    <2>8. CASE DraftWriteLost(r) /\ draftJob[r] = "claimed"
        BY <2>8, <2>sets, <1>3 DEF DraftWriteLost
    <2>9. CASE DraftWriteLost(r) /\ draftJob[r] # "claimed"
        BY <2>9, <2>sets, <1>3 DEF DraftWriteLost
    <2> QED BY <1>4, <2>1, <2>2, <2>3, <2>4, <2>5, <2>6, <2>7, <2>8, <2>9
<1>5. ASSUME Crash PROVE PermitsMatchWorkers'
    <2>1. /\ permits' = DraftWorkers
          /\ draftJob' = [r \in DraftRuns |-> IF draftJob[r] = "none" THEN "none" ELSE "gone"]
        BY <1>5 DEF Crash, DraftCrash
    <2>2. Holders' = {}
        BY <2>1 DEF Holders, DraftHolding
    <2>3. permits' + Cardinality(Holders') = DraftWorkers
        BY <1>types, <2>1, <2>2, FS_EmptySet
    <2> QED BY <2>3 DEF PermitsMatchWorkers, Holders
<1>6. ASSUME UNCHANGED <<draftJob, permits>> PROVE PermitsMatchWorkers'
    BY <1>6, <1>same DEF Holders
<1>7. ASSUME NEW r \in DraftRuns, ReadExpiresDraft(r) PROVE PermitsMatchWorkers'
    BY <1>6, <1>7 DEF ReadExpiresDraft
<1>8. UNCHANGED draftVars => UNCHANGED <<draftJob, permits>>
    BY DEF draftVars
<1>9. CASE DraftStep
    BY <1>9, <1>1, <1>2, <1>4, <1>7 DEF DraftStep, DraftWorkerStep
<1>10. UNCHANGED vars => UNCHANGED draftVars
    BY DEF vars
<1> QED BY <1>5, <1>6, <1>8, <1>9, <1>10 DEF Next

-----------------------------------------------------------------------------
(* The ledgers.                                                            *)

reviewKeys == [r \in ReviewRuns |-> reviewRun[r].key]
reviewStatuses == [r \in ReviewRuns |-> reviewRun[r].status]
reviewed == {r \in ReviewRuns : \E v \in Revisions : review[v] = r}

draftKeys == [r \in DraftRuns |-> draftRun[r].key]
draftStatuses == [r \in DraftRuns |-> draftRun[r].status]
drafted == {r \in DraftRuns : \E v \in Revisions : author[v] = r}

\* A step on the reviews starts, completes or ends a run, or stutters.
LEMMA ReviewLedgerStep ==
    ASSUME ReviewInv, [Next]_vars
    PROVE  [ReviewLedger!Next]_<<reviewKeys, reviewStatuses, reviewed>>
<1> DEFINE Goal == [ReviewLedger!Next]_<<reviewKeys, reviewStatuses, reviewed>>
<1>types. /\ reviewRun \in [ReviewRuns -> Row(Revisions)]
          /\ review \in [Revisions -> {0} \cup ReviewRuns]
          /\ reviewJob \in [ReviewRuns -> ReviewPlace]
          /\ reviewVerdict \in [ReviewRuns -> {"completed"} \cup Ended]
    BY DEF ReviewInv, ReviewTypeOK
<1>view. /\ \A r \in ReviewRuns : reviewKeys[r] = reviewRun[r].key
         /\ \A r \in ReviewRuns : reviewStatuses[r] = reviewRun[r].status
         /\ reviewKeys = [r \in ReviewRuns |-> reviewKeys[r]]
         /\ reviewStatuses = [r \in ReviewRuns |-> reviewStatuses[r]]
         /\ reviewKeys' = [r \in ReviewRuns |-> reviewRun'[r].key]
         /\ reviewStatuses' = [r \in ReviewRuns |-> reviewRun'[r].status]
    BY DEF reviewKeys, reviewStatuses
<1>item. ItemTypeOK
    BY DEF ReviewInv, ReviewTypeOK
<1>runs. \A v \in Revisions, s \in ReviewRuns :
            s \in ReviewLedger!RunsOf(v) => reviewRun[s].key = v
    BY DEF ReviewLedger!RunsOf
<1>unreviewed. \A v \in Revisions : review[v] = 0 => ReviewLedger!RunsOf(v) \cap reviewed = {}
    <2>1. \A s \in reviewed : s \in ReviewRuns /\ review[reviewRun[s].key] = s /\ s # 0
        <3>1. 0 \notin ReviewRuns
            BY DEF ReviewRuns
        <3> QED BY <3>1 DEF reviewed, ReviewInv, ReviewRows, ReviewsStored
    <2> QED BY <1>runs, <2>1
<1>1. ASSUME NEW v \in Revisions, NEW r \in ReviewRuns, ClaimReview(v, r) PROVE Goal
    <2>1. /\ reviewRun' = ClaimRow(reviewRun, r, v) /\ review' = review
          /\ review[v] = 0 /\ reviewRun[r].status = "none"
        BY <1>1 DEF ClaimReview, NextReviewRun
    <2>2. /\ reviewRun' \in [ReviewRuns -> Row(Revisions)]
          /\ reviewRun'[r].key = v
          /\ reviewRun'[r].status = "started"
          /\ \A s \in ReviewRuns \ {r} :
                /\ reviewRun'[s].key = reviewRun[s].key
                /\ reviewRun'[s].status =
                     IF reviewRun[s].status = "started" /\ reviewRun[s].key = v
                     THEN "failed" ELSE reviewRun[s].status
        <3>1. reviewRun \in [ReviewRuns -> Row(Revisions)]
            BY <1>types
        <3>2. reviewRun' = ClaimRow(reviewRun, r, v)
            BY <2>1
        <3> QED BY <1>item, <3>1, <3>2, ClaimRows
    <2>3. reviewed' = reviewed
        BY <2>1 DEF reviewed
    <2>4. reviewKeys' = [reviewKeys EXCEPT ![r] = v]
        BY <1>view, <2>2
    <2>5. \A s \in ReviewRuns : s \in ReviewLedger!RunsOf(v) /\ reviewStatuses[s] = "started"
                                 <=> reviewRun[s].status = "started" /\ reviewRun[s].key = v
        BY <1>view DEF ReviewLedger!RunsOf
    <2>6. reviewStatuses' =
             [s \in ReviewRuns |->
                IF s = r THEN "started"
                ELSE IF s \in ReviewLedger!RunsOf(v) /\ reviewStatuses[s] = "started" THEN "failed"
                ELSE reviewStatuses[s]]
        BY <1>view, <2>2, <2>5
    <2>7. ReviewLedger!Start(r, v)
        BY <1>view, <1>unreviewed, <2>1, <2>3, <2>4, <2>6
        DEF ReviewLedger!Start, reviewKeys, reviewStatuses, reviewed
    <2> QED BY <2>7 DEF ReviewLedger!Next
<1>2. ASSUME NEW r \in ReviewRuns, NEW status \in Ended,
             reviewRun' = Transition(reviewRun, r, status), review' = review
      PROVE  Goal
    <2>0. status \in RunStatus
        BY DEF Ended, RunStatus
    <2>1. /\ \A s \in ReviewRuns : reviewRun'[s].key = reviewRun[s].key
          /\ \A s \in ReviewRuns \ {r} : reviewRun'[s] = reviewRun[s]
          /\ reviewRun'[r].status =
               IF reviewRun[r].status = "started" THEN status ELSE reviewRun[r].status
        BY <1>2, <1>types, <2>0, TransitionRows
    <2>2. reviewed' = reviewed
        BY <1>2 DEF reviewed
    <2>3. reviewKeys' = reviewKeys
        BY <1>view, <2>1
    <2>4. CASE reviewRun[r].status = "started"
        <3>1. reviewStatuses' = [reviewStatuses EXCEPT ![r] = status]
            BY <1>view, <2>1, <2>4
        <3>2. ReviewLedger!End(r)
            BY <1>view, <2>2, <2>3, <2>4, <3>1
            DEF ReviewLedger!End, reviewKeys, reviewStatuses, reviewed, Ended
        <3> QED BY <3>2 DEF ReviewLedger!Next
    <2>5. CASE reviewRun[r].status # "started"
        <3>1. reviewStatuses' = reviewStatuses
            BY <1>view, <2>1, <2>5
        <3> QED BY <2>2, <2>3, <3>1
    <2> QED BY <2>4, <2>5
<1>3. ASSUME UNCHANGED <<reviewRun, review>> PROVE Goal
    BY <1>3 DEF reviewKeys, reviewStatuses, reviewed
<1>4. ASSUME NEW r \in ReviewRuns, SaveReview(r) PROVE Goal
    <2>0. PICK v \in Revisions : v = reviewRun[r].key
        BY <1>types DEF Row
    <2>1. /\ reviewRun' = [reviewRun EXCEPT ![r].status = "completed"]
          /\ review' = [review EXCEPT ![v] = r]
          /\ review[v] = 0 /\ reviewRun[r].status = "started"
        BY <1>4, <2>0 DEF SaveReview
    <2>2. /\ \A s \in ReviewRuns : reviewRun'[s].key = reviewRun[s].key
          /\ \A s \in ReviewRuns \ {r} : reviewRun'[s] = reviewRun[s]
          /\ reviewRun'[r].status = "completed"
        <3>1. "completed" \in RunStatus
            BY DEF RunStatus
        <3> QED BY <1>types, <2>1, <3>1, StatusWrite
    <2>3. \A w \in Revisions : review'[w] = IF w = v THEN r ELSE review[w]
        BY <1>types, <2>1
    <2>4. reviewed' = reviewed \cup {r}
        <3>0. 0 \notin ReviewRuns /\ review[v] = 0
            BY <2>1 DEF ReviewRuns
        <3> QED BY <2>3, <3>0 DEF reviewed
    <2>5. reviewKeys' = reviewKeys
        BY <1>view, <2>2
    <2>6. reviewStatuses' = [reviewStatuses EXCEPT ![r] = "completed"]
        BY <1>view, <2>2
    <2>7. /\ reviewStatuses[r] = "started"
          /\ ReviewLedger!RunsOf(reviewKeys[r]) \cap reviewed = {}
        BY <1>view, <1>unreviewed, <2>0, <2>1
    <2>8. ReviewLedger!Complete(r)
        BY <2>4, <2>5, <2>6, <2>7
        DEF ReviewLedger!Complete, reviewKeys, reviewStatuses, reviewed
    <2> QED BY <2>8 DEF ReviewLedger!Next
<1>5. ASSUME NEW r \in ReviewRuns, ReportReview(r) PROVE Goal
    <2>1. /\ reviewJob[r] = "report" /\ review' = review
          /\ reviewRun' = Transition(reviewRun, r, reviewVerdict[r])
        BY <1>5 DEF ReportReview
    <2>2. CASE reviewRun[r].status = "started"
        <3>1. reviewVerdict[r] \in Ended
            BY <1>types, <2>1, <2>2 DEF ReviewInv, CompletedIsReported
        <3> QED BY <1>2, <2>1, <3>1
    <2>3. CASE reviewRun[r].status # "started"
        <3>1. reviewRun' = reviewRun
            BY <2>1, <2>3 DEF Transition
        <3> QED BY <1>3, <2>1, <3>1
    <2> QED BY <2>2, <2>3
<1>6. ASSUME NEW r \in ReviewRuns,
             ReviewTurnFails(r) \/ ReviewNotSaved(r) \/ ReadExpiresReview(r)
      PROVE  Goal
    <2>1. \E status \in Ended :
             reviewRun' = Transition(reviewRun, r, status) /\ review' = review
        BY <1>6 DEF ReviewTurnFails, ReviewNotSaved, ReadExpiresReview, ReviewEnds, Ended
    <2> QED BY <1>2, <2>1
<1>7. ASSUME NEW r \in ReviewRuns,
             SubmitReview(r) \/ BeginReview(r) \/ ReviewPrepareEnds(r) \/ ReviewPrepared(r)
               \/ StartReview(r) \/ ReviewTurnSucceeds(r) \/ ReviewWriteLost(r)
      PROVE  Goal
    <2>1. UNCHANGED <<reviewRun, review>>
        BY <1>7 DEF SubmitReview, BeginReview, ReviewPrepareEnds, ReviewPrepared,
            StartReview, ReviewTurnSucceeds, ReviewWriteLost
    <2> QED BY <1>3, <2>1
<1>8. ASSUME Crash \/ UNCHANGED reviewVars PROVE Goal
    <2>1. UNCHANGED <<reviewRun, review>>
        BY <1>8 DEF Crash, ReviewCrash, reviewVars
    <2> QED BY <1>3, <2>1
<1> HIDE DEF Goal
<1>9. ASSUME ReviewStep PROVE Goal
    BY <1>9, <1>1, <1>4, <1>5, <1>6, <1>7 DEF ReviewStep, ReviewWorkerStep
<1>10. Goal
    <2>1. UNCHANGED vars => UNCHANGED reviewVars
        BY DEF vars
    <2> QED BY <1>8, <1>9, <2>1 DEF Next
<1> QED BY <1>10 DEF Goal

\* A step on the drafts starts, completes or ends a run, or stutters.
LEMMA DraftLedgerStep ==
    ASSUME DraftInv, [Next]_vars
    PROVE  [DraftLedger!Next]_<<draftKeys, draftStatuses, drafted>>
<1> DEFINE Goal == [DraftLedger!Next]_<<draftKeys, draftStatuses, drafted>>
<1>types. /\ draftRun \in [DraftRuns -> Row(Contexts)]
          /\ author \in [Revisions -> {0} \cup DraftRuns]
          /\ latest \in 0 .. MaxRevisions
    BY DEF DraftInv, DraftTypeOK, ItemTypeOK
<1>item. ItemTypeOK
    BY DEF DraftInv, DraftTypeOK
<1>view. /\ \A r \in DraftRuns : draftKeys[r] = draftRun[r].key
         /\ \A r \in DraftRuns : draftStatuses[r] = draftRun[r].status
         /\ draftKeys = [r \in DraftRuns |-> draftKeys[r]]
         /\ draftStatuses = [r \in DraftRuns |-> draftStatuses[r]]
         /\ draftKeys' = [r \in DraftRuns |-> draftRun'[r].key]
         /\ draftStatuses' = [r \in DraftRuns |-> draftRun'[r].status]
    BY DEF draftKeys, draftStatuses
<1>runs. \A k \in Contexts, s \in DraftRuns :
            s \in DraftLedger!RunsOf(k) => draftRun[s].key = k
    BY DEF DraftLedger!RunsOf
<1>undrafted. \A k \in Contexts : k.base = latest => DraftLedger!RunsOf(k) \cap drafted = {}
    <2>1. \A s \in drafted : s \in DraftRuns /\ draftRun[s].key.base < latest
        <3> SUFFICES ASSUME NEW s \in DraftRuns, NEW v \in Revisions, author[v] = s
                     PROVE  draftRun[s].key.base < latest
            BY DEF drafted
        <3>1. s # 0
            BY DEF DraftRuns
        <3>2. v <= latest /\ draftRun[s].key.base = v - 1
            BY <3>1 DEF DraftInv, DraftRows, DraftsAppended
        <3> QED BY <1>types, <3>2, CodexRunsAssumption DEF Revisions
    <2>2. \A s \in drafted : draftRun[s].key.base # latest
        <3> SUFFICES ASSUME NEW s \in drafted PROVE draftRun[s].key.base # latest
            OBVIOUS
        <3>1. draftRun[s].key.base \in Int
            BY <1>types, <2>1 DEF Row, Contexts
        <3> QED BY <1>types, <2>1, <3>1
    <2> QED BY <1>runs, <2>1, <2>2
<1>1. ASSUME NEW r \in DraftRuns, ClaimDraft(r) PROVE Goal
    <2>0. PICK k \in Contexts : k = CurrentContext /\ k.base = latest
        BY <1>item, ContextType
    <2>1. /\ draftRun' = ClaimRow(draftRun, r, k) /\ author' = author
          /\ draftRun[r].status = "none"
        BY <1>1, <2>0 DEF ClaimDraft, NextDraftRun
    <2>2. /\ draftRun' \in [DraftRuns -> Row(Contexts)]
          /\ draftRun'[r].key = k
          /\ draftRun'[r].status = "started"
          /\ \A s \in DraftRuns \ {r} :
                /\ draftRun'[s].key = draftRun[s].key
                /\ draftRun'[s].status =
                     IF draftRun[s].status = "started" /\ draftRun[s].key = k
                     THEN "failed" ELSE draftRun[s].status
        <3>1. draftRun \in [DraftRuns -> Row(Contexts)]
            BY <1>types
        <3>2. draftRun' = ClaimRow(draftRun, r, k)
            BY <2>1
        <3> QED BY <1>item, <3>1, <3>2, ClaimRows
    <2>3. drafted' = drafted
        BY <2>1 DEF drafted
    <2>4. draftKeys' = [draftKeys EXCEPT ![r] = k]
        BY <1>view, <2>2
    <2>5. \A s \in DraftRuns : s \in DraftLedger!RunsOf(k) /\ draftStatuses[s] = "started"
                                <=> draftRun[s].status = "started" /\ draftRun[s].key = k
        BY <1>view DEF DraftLedger!RunsOf
    <2>6. draftStatuses' =
             [s \in DraftRuns |->
                IF s = r THEN "started"
                ELSE IF s \in DraftLedger!RunsOf(k) /\ draftStatuses[s] = "started" THEN "failed"
                ELSE draftStatuses[s]]
        BY <1>view, <2>2, <2>5
    <2>7. DraftLedger!RunsOf(k) \cap drafted = {} /\ draftStatuses[r] = "none"
        BY <1>view, <1>undrafted, <2>0, <2>1
    <2>8. DraftLedger!Start(r, k)
        BY <2>3, <2>4, <2>6, <2>7
        DEF DraftLedger!Start, draftKeys, draftStatuses, drafted
    <2> QED BY <2>8 DEF DraftLedger!Next
<1>2. ASSUME NEW r \in DraftRuns, NEW status \in Ended,
             draftRun' = Transition(draftRun, r, status), author' = author
      PROVE  Goal
    <2>0. status \in RunStatus
        BY DEF Ended, RunStatus
    <2>1. /\ \A s \in DraftRuns : draftRun'[s].key = draftRun[s].key
          /\ \A s \in DraftRuns \ {r} : draftRun'[s] = draftRun[s]
          /\ draftRun'[r].status =
               IF draftRun[r].status = "started" THEN status ELSE draftRun[r].status
        BY <1>2, <1>types, <2>0, TransitionRows
    <2>2. drafted' = drafted
        BY <1>2 DEF drafted
    <2>3. draftKeys' = draftKeys
        BY <1>view, <2>1
    <2>4. CASE draftRun[r].status = "started"
        <3>1. draftStatuses' = [draftStatuses EXCEPT ![r] = status]
            BY <1>view, <2>1, <2>4
        <3>2. DraftLedger!End(r)
            BY <1>view, <2>2, <2>3, <2>4, <3>1
            DEF DraftLedger!End, draftKeys, draftStatuses, drafted, Ended
        <3> QED BY <3>2 DEF DraftLedger!Next
    <2>5. CASE draftRun[r].status # "started"
        <3>1. draftStatuses' = draftStatuses
            BY <1>view, <2>1, <2>5
        <3> QED BY <2>2, <2>3, <3>1
    <2> QED BY <2>4, <2>5
<1>3. ASSUME UNCHANGED <<draftRun, author>> PROVE Goal
    BY <1>3 DEF draftKeys, draftStatuses, drafted
<1>4. ASSUME NEW r \in DraftRuns, AppendDraft(r) PROVE Goal
    <2>0. PICK v \in Revisions : v = latest + 1
        <3>1. latest \in Nat /\ latest < MaxRevisions
            BY <1>4, <1>types DEF AppendDraft
        <3>2. latest + 1 \in Revisions
            BY <3>1, CodexRunsAssumption DEF Revisions
        <3> QED BY <3>2
    <2>1. /\ draftRun' = [draftRun EXCEPT ![r].status = "completed"]
          /\ author' = [author EXCEPT ![v] = r]
          /\ draftRun[r].status = "started"
        BY <1>4, <2>0 DEF AppendDraft
    <2>2. /\ \A s \in DraftRuns : draftRun'[s].key = draftRun[s].key
          /\ \A s \in DraftRuns \ {r} : draftRun'[s] = draftRun[s]
          /\ draftRun'[r].status = "completed"
        <3>1. "completed" \in RunStatus
            BY DEF RunStatus
        <3> QED BY <1>types, <2>1, <3>1, StatusWrite
    <2>3. \A w \in Revisions : author'[w] = IF w = v THEN r ELSE author[w]
        BY <1>types, <2>1
    <2>4. drafted' = drafted \cup {r}
        <3>0. 0 \notin DraftRuns
            BY DEF DraftRuns
        <3>1. author[v] = 0
            BY <1>types, <2>0 DEF DraftInv, DraftRows, DraftsAppended
        <3> QED BY <2>3, <3>0, <3>1 DEF drafted
    <2>5. draftKeys' = draftKeys
        BY <1>view, <2>2
    <2>6. draftStatuses' = [draftStatuses EXCEPT ![r] = "completed"]
        BY <1>view, <2>2
    <2>7. PICK k \in Contexts : k = CurrentContext /\ k.base = latest
        BY <1>item, ContextType
    <2>8. draftKeys[r] = k
        BY <1>4, <1>view, <2>7 DEF AppendDraft
    <2>9. draftStatuses[r] = "started" /\ DraftLedger!RunsOf(draftKeys[r]) \cap drafted = {}
        BY <1>view, <1>undrafted, <2>1, <2>7, <2>8
    <2>10. DraftLedger!Complete(r)
        BY <2>4, <2>5, <2>6, <2>9
        DEF DraftLedger!Complete, draftKeys, draftStatuses, drafted
    <2> QED BY <2>10 DEF DraftLedger!Next
<1>5. ASSUME NEW r \in DraftRuns, DraftQueueFull(r) \/ DraftFails(r) \/ ReadExpiresDraft(r)
      PROVE  Goal
    <2>1. \E status \in Ended :
             draftRun' = Transition(draftRun, r, status) /\ author' = author
        BY <1>5 DEF DraftQueueFull, DraftFails, DraftEnds, ReadExpiresDraft, Ended
    <2> QED BY <1>2, <2>1
<1>6. ASSUME NEW r \in DraftRuns,
             SubmitDraft(r) \/ BeginDraft(r) \/ StartDraft(r) \/ DraftTurn(r)
               \/ ReleasePermit(r) \/ DraftWriteLost(r)
      PROVE  Goal
    <2>1. UNCHANGED <<draftRun, author>>
        BY <1>6 DEF SubmitDraft, BeginDraft, StartDraft, DraftTurn, ReleasePermit,
            DraftWriteLost
    <2> QED BY <1>3, <2>1
<1>7. ASSUME Crash \/ UNCHANGED draftVars PROVE Goal
    <2>1. UNCHANGED <<draftRun, author>>
        BY <1>7 DEF Crash, DraftCrash, draftVars
    <2> QED BY <1>3, <2>1
<1> HIDE DEF Goal
<1>8. ASSUME DraftStep PROVE Goal
    BY <1>8, <1>1, <1>4, <1>5, <1>6 DEF DraftStep, DraftWorkerStep
<1>9. Goal
    <2>1. UNCHANGED vars => UNCHANGED draftVars
        BY DEF vars
    <2> QED BY <1>7, <1>8, <2>1 DEF Next
<1> QED BY <1>9 DEF Goal

\* A text is appended only by AppendDraft, whose guards bind it to the context.
LEMMA DraftFitStep ==
    ASSUME DraftInv, [Next]_vars, author' # author
    PROVE  \E r \in DraftRuns :
              /\ author'[latest'] = r
              /\ draftRun[r].key = CurrentContext
              /\ latest' = latest + 1
<1>1. PICK r \in DraftRuns : AppendDraft(r)
    <2>1. UNCHANGED vars => author' = author
        BY DEF vars, draftVars
    <2> QED BY <2>1 DEF Next, DraftStep, DraftWorkerStep, ClaimDraft, SubmitDraft,
            DraftQueueFull, BeginDraft, StartDraft, DraftTurn, DraftFails, ReleasePermit,
            ReadExpiresDraft, DraftWriteLost, Crash, DraftCrash, draftVars
<1>2. latest + 1 \in Revisions /\ author \in [Revisions -> {0} \cup DraftRuns]
    BY <1>1 DEF AppendDraft, DraftInv, DraftTypeOK, ItemTypeOK, Revisions
<1>3. /\ latest' = latest + 1 /\ draftRun[r].key = CurrentContext
      /\ author' = [author EXCEPT ![latest + 1] = r]
    BY <1>1 DEF AppendDraft
<1>4. author'[latest'] = r
    BY <1>2, <1>3
<1> QED BY <1>3, <1>4

-----------------------------------------------------------------------------
(* The theorems.                                                           *)

LEMMA InitInvs == Init => ReviewInv /\ DraftInv /\ PermitsMatchWorkers
<1> SUFFICES ASSUME Init PROVE ReviewInv /\ DraftInv /\ PermitsMatchWorkers
    OBVIOUS
<1> USE CodexRunsAssumption, ReviewAssumption, DraftAssumption
<1>1. ItemTypeOK
    BY DEF Init, ItemInit, ItemTypeOK
<1>2. ReviewTypeOK
    <2>1. 1 \in Revisions /\ 0 \in 0 .. MaxClock + RunTimeout /\ "none" \in RunStatus
        BY DEF Revisions, RunStatus
    <2>2. NoRow(1) \in Row(Revisions)
        BY <2>1 DEF NoRow, Row
    <2>3. "none" \in ReviewPlace /\ "failed" \in Ended
        BY DEF ReviewPlace, Ended
    <2> QED BY <1>1, <2>2, <2>3 DEF Init, ReviewInit, ReviewTypeOK
<1>3. DraftTypeOK
    <2>1. [plan |-> plan, base |-> 0] \in Contexts
        BY <1>1 DEF ItemTypeOK, Contexts
    <2>2. NoRow([plan |-> plan, base |-> 0]) \in Row(Contexts)
        <3>1. 0 \in 0 .. MaxClock + RunTimeout /\ "none" \in RunStatus
            BY DEF RunStatus
        <3> QED BY <2>1, <3>1 DEF NoRow, Row
    <2>3. "none" \in DraftPlace
        BY DEF DraftPlace
    <2> QED BY <1>1, <2>2, <2>3 DEF Init, DraftInit, DraftTypeOK
<1>4. ReviewRows /\ CompletedIsReported /\ ReviewWorkerEndsRun
    BY DEF Init, ReviewInit, NoRow, ReviewRows, ReviewsStored, ReviewedIsDone,
        OneStartedReview, CompletedIsReported, ReviewWorkerEndsRun
<1>5. DraftRows /\ ReleasedIsEnded /\ FreshIsIdle
    BY DEF Init, DraftInit, NoRow, DraftRows, DraftsAppended, OneStartedDraft,
        ReleasedIsEnded, FreshIsIdle
<1>6. PermitsMatchWorkers
    <2>1. permits = DraftWorkers /\ Holders = {}
        BY DEF Init, DraftInit, Holders, DraftHolding
    <2>2. permits + Cardinality(Holders) = DraftWorkers
        BY <2>1, FS_EmptySet
    <2> QED BY <2>2 DEF PermitsMatchWorkers, Holders
<1> QED BY <1>2, <1>3, <1>4, <1>5, <1>6 DEF ReviewInv, DraftInv

\* The strengthened invariants of both operations hold throughout.
THEOREM RunsInvariant == Spec => [](ReviewInv /\ DraftInv /\ PermitsMatchWorkers)
<1>1. Init => ReviewInv /\ DraftInv /\ PermitsMatchWorkers
    BY InitInvs
<1>2. ReviewInv /\ DraftInv /\ PermitsMatchWorkers /\ [Next]_vars =>
         (ReviewInv /\ DraftInv /\ PermitsMatchWorkers)'
    <2> SUFFICES ASSUME ReviewInv, DraftInv, PermitsMatchWorkers, [Next]_vars
                 PROVE  (ReviewInv /\ DraftInv /\ PermitsMatchWorkers)'
        OBVIOUS
    <2>1. ReviewInv'
        BY ReviewInvStep DEF DraftInv
    <2>2. DraftInv'
        BY DraftInvStep DEF ReviewInv
    <2>3. PermitsMatchWorkers'
        BY PermitsStep
    <2> QED BY <2>1, <2>2, <2>3
<1> QED BY <1>1, <1>2, PTL DEF Spec

\* Rows, workers and counters of both operations keep their types (the tables
\* of semantic_review_store and initial_draft_persistence).
THEOREM TypeCorrect == Spec => []TypeOK
<1>1. ReviewInv /\ DraftInv => TypeOK
    BY DEF ReviewInv, DraftInv, TypeOK
<1> QED BY <1>1, RunsInvariant, PTL

\* Without crash or lost write, a review worker that is done has ended its run
\* (run_queued_semantic_review and its report).
THEOREM ReviewWorkersEndTheirRuns == Spec => []ReviewWorkerEndsRun
<1>1. ReviewInv => ReviewWorkerEndsRun
    BY DEF ReviewInv
<1> QED BY <1>1, RunsInvariant, PTL

\* Without crash or lost write, a draft nobody works on is ended, the one the
\* full executor refused as well (run_initial_draft_request).
THEOREM DraftWorkersEndTheirRuns == Spec => []DraftWorkerEndsRun
<1>1. DraftInv => DraftWorkerEndsRun
    BY DEF DraftInv, ReleasedIsEnded, DraftWorkerEndsRun
<1> QED BY <1>1, RunsInvariant, PTL

\* A worker of either operation that is done has ended its run.
THEOREM WorkersEndTheirRuns == Spec => []RunsAreEnded
<1>1. ReviewWorkerEndsRun /\ DraftWorkerEndsRun => RunsAreEnded
    BY DEF RunsAreEnded
<1> QED BY <1>1, ReviewWorkersEndTheirRuns, DraftWorkersEndTheirRuns, PTL

\* The semaphore of BoundedInitialDraftExecutor counts the workers exactly.
THEOREM PermitsCountWorkers == Spec => []PermitsMatchWorkers
BY RunsInvariant, PTL

\* A text is appended on the base and for the plan it was written for
\* (append_draft_revision with the completion of its run).
THEOREM TextsFitTheirContext == Spec => DraftsFitTheirContext
<1>1. DraftInv /\ [Next]_vars =>
         [author' # author =>
            \E r \in DraftRuns :
               /\ author'[latest'] = r
               /\ draftRun[r].key = CurrentContext
               /\ latest' = latest + 1]_<<itemVars, draftVars>>
    BY DraftFitStep
<1> QED BY <1>1, RunsInvariant, PTL DEF Spec, DraftsFitTheirContext

\* The reviews implement the run ledger: one started run a revision, one review
\* for good, and no review by a run that ended (save_generated, latest_semantic_run).
THEOREM ReviewRefinement == Spec => ReviewKeepsLedger
<1>1. Init => ReviewLedger!Init
    <2> SUFFICES ASSUME Init PROVE ReviewLedger!Init
        OBVIOUS
    <2>1. \A r \in ReviewRuns : reviewRun[r].key \in Revisions /\ reviewRun[r].status = "none"
        BY CodexRunsAssumption DEF Init, ReviewInit, NoRow, Revisions
    <2>2. 0 \notin ReviewRuns /\ \A v \in Revisions : review[v] = 0
        BY DEF Init, ReviewInit, ReviewRuns
    <2> QED BY <2>1, <2>2 DEF ReviewLedger!Init
<1>2. ReviewInv /\ [Next]_vars =>
         [ReviewLedger!Next]_<<reviewKeys, reviewStatuses, reviewed>>
    BY ReviewLedgerStep
<1> QED
    BY <1>1, <1>2, RunsInvariant, PTL
    DEF Spec, ReviewKeepsLedger, ReviewLedger!Spec, ReviewLedger!vars,
        reviewKeys, reviewStatuses, reviewed

\* The drafts implement the run ledger: one started run a context, one revision
\* for good, and no revision by a run that ended (claim_initial_draft_run,
\* append_draft_revision).
THEOREM DraftRefinement == Spec => DraftKeepsLedger
<1>1. Init => DraftLedger!Init
    <2> SUFFICES ASSUME Init PROVE DraftLedger!Init
        OBVIOUS
    <2>1. \A r \in DraftRuns : draftRun[r].key \in Contexts /\ draftRun[r].status = "none"
        <3>1. [plan |-> plan, base |-> 0] \in Contexts
            BY CodexRunsAssumption DEF Init, ItemInit, Contexts
        <3> QED BY <3>1 DEF Init, DraftInit, NoRow
    <2>2. 0 \notin DraftRuns /\ \A v \in Revisions : author[v] = 0
        BY DEF Init, DraftInit, DraftRuns
    <2> QED BY <2>1, <2>2 DEF DraftLedger!Init
<1>2. DraftInv /\ [Next]_vars =>
         [DraftLedger!Next]_<<draftKeys, draftStatuses, drafted>>
    BY DraftLedgerStep
<1> QED
    BY <1>1, <1>2, RunsInvariant, PTL
    DEF Spec, DraftKeepsLedger, DraftLedger!Spec, DraftLedger!vars,
        draftKeys, draftStatuses, drafted
=============================================================================
