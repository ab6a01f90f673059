----------------------- MODULE WordPressApplyProofs -------------------------
(***************************************************************************)
(* Proofs about WordPressApply for every number of threads, revisions and  *)
(* decisions.  The inductive invariant Inv relates the claim rows to the   *)
(* revision they were approved for, to the threads that write under them   *)
(* and to the receipts.                                                    *)
(***************************************************************************)
EXTENDS WordPressApply, TLAPS

\* Rows name recorded decisions only, so a decision recorded later finds no
\* claim of its own.
RowsWereDecided ==
    \A b \in Binding :
        /\ b \in approved => b.dec <= decided[b.rev]
        /\ claims[b].status # "none" => b.dec <= decided[b.rev]

\* The safety properties of the runs, with the strengthening above.
Safe ==
    /\ RowsWereDecided
    /\ ClaimedIsCurrent
    /\ WriterHoldsClaim
    /\ OneWriterAtATime
    /\ ReceiptMatches

\* Inductive: NextInv.
Inv == TypeOK /\ Safe

-----------------------------------------------------------------------------
\* Types.

\* The empty tables are well typed.
LEMMA InitTypes == Init => TypeOK
<1> SUFFICES ASSUME Init PROVE TypeOK
    OBVIOUS
<1>1. AnyBinding \in Binding
    BY BoundsAssumption DEF AnyBinding, Binding, Revisions
<1>2. NoClaim \in [status : ClaimStatus, at : 0 .. MaxClock]
    BY BoundsAssumption DEF NoClaim, ClaimStatus
<1>. QED
    BY <1>1, <1>2, BoundsAssumption DEF Init, TypeOK, Outcome, Writing

\* Every transaction and every remote call keeps the variables in their types.
LEMMA NextTypes == TypeOK /\ [Next]_vars => TypeOK'
<1> SUFFICES ASSUME TypeOK, [Next]_vars PROVE TypeOK'
    OBVIOUS
<1> USE BoundsAssumption
<1>1. CASE AppendRevision
    BY <1>1 DEF TypeOK, AppendRevision
<1>2. ASSUME NEW verdict \in {"approved", "rejected"}, RecordReview(verdict)
      PROVE  TypeOK'
  <2>1. latest \in Revisions /\ decided[latest] + 1 \in 1 .. MaxDecisions
    BY <1>2 DEF TypeOK, RecordReview, Revisions
  <2>2. [rev |-> latest, dec |-> decided[latest] + 1] \in Binding
    BY <2>1 DEF Binding
  <2>3. approved' \in SUBSET Binding
    BY <1>2, <2>2 DEF TypeOK, RecordReview
  <2>4. decided' \in [Revisions -> 0 .. MaxDecisions]
    BY <1>2, <2>1 DEF TypeOK, RecordReview
  <2>. QED
    BY <1>2, <2>3, <2>4 DEF TypeOK, RecordReview
<1>3. ASSUME NEW p \in Threads, NEW b \in Binding, RequestApply(p, b)
      PROVE  TypeOK'
    BY <1>3 DEF TypeOK, RequestApply, Goto, rows, Outcome
<1>4. ASSUME NEW p \in Threads, ThreadStep(p) PROVE TypeOK'
  <2>0. bind[p] \in Binding /\ bind[p].rev \in Revisions
    BY <1>4 DEF TypeOK, Binding
  <2>1. CASE Acquire(p)
    <3>1. [status |-> "claimed", at |-> clock] \in
            [status : ClaimStatus, at : 0 .. MaxClock]
      BY DEF TypeOK, ClaimStatus
    <3>. QED
      BY <1>4, <2>0, <2>1, <3>1 DEF TypeOK, Acquire, Goto, Writing
  <2>2. CASE Refused(p) \/ FoundFailed(p) \/ JudgeRetry(p) \/ FinishRollsBack(p)
    BY <1>4, <2>2
    DEF TypeOK, Refused, FoundFailed, JudgeRetry, FinishRollsBack, Goto, rows
  <2>3. CASE DropFailed(p)
    <3>1. NoClaim \in [status : ClaimStatus, at : 0 .. MaxClock]
      BY DEF NoClaim, ClaimStatus
    <3>. QED
      BY <1>4, <2>0, <2>3, <3>1 DEF TypeOK, DropFailed, Goto
  <2>4. CASE AdapterRefuses(p) \/ CreateLost(p)
    BY <1>4, <2>4
    DEF TypeOK, AdapterRefuses, CreateLost, Goto, rows, Outcome, Writing
  <2>5. CASE SendCreate(p)
    BY <1>4, <2>0, <2>5 DEF TypeOK, SendCreate, Goto, rows, Outcome, Writing
  <2>6. CASE Finish(p)
    <3>1. claims' \in [Binding -> [status : ClaimStatus, at : 0 .. MaxClock]]
      BY <1>4, <2>0, <2>6 DEF TypeOK, Finish, ClaimStatus
    <3>2. history' \in [Revisions -> Outcome]
      BY <1>4, <2>0, <2>6 DEF TypeOK, Finish
    <3>. QED
      BY <1>4, <2>6, <3>1, <3>2 DEF TypeOK, Finish, Goto
  <2>. QED
    BY <1>4, <2>1, <2>2, <2>3, <2>4, <2>5, <2>6 DEF ThreadStep
<1>5. ASSUME NEW p \in Threads, Abandon(p) PROVE TypeOK'
    BY <1>5 DEF TypeOK, Abandon, Goto, rows
<1>6. ASSUME NEW b \in Binding, NEW result \in {"applied", "failed"},
             Reconcile(b, result)
      PROVE  TypeOK'
    BY <1>6 DEF TypeOK, Reconcile, ClaimStatus
<1>7. CASE Tick
    BY <1>7 DEF TypeOK, Tick, rows
<1>8. CASE UNCHANGED vars
    BY <1>8 DEF TypeOK, vars
<1>. QED
    BY <1>1, <1>2, <1>3, <1>4, <1>5, <1>6, <1>7, <1>8 DEF Next

\* Every reachable state is well typed.
THEOREM TypeCorrect == Spec => []TypeOK
<1>. QED
    BY InitTypes, NextTypes, PTL DEF Spec

-----------------------------------------------------------------------------
\* How each transaction moves the claim rows, the writers and the receipts.

\* ClaimedIsCurrent pins the only claimed binding.
LEMMA CurrentIsUnique ==
    ASSUME NEW b \in Binding, NEW c \in Binding,
           CurrentAndApproved(b), CurrentAndApproved(c)
    PROVE  b = c
<1>1. b.rev = c.rev /\ b.dec = c.dec
    BY DEF CurrentAndApproved
<1>. QED
    BY <1>1 DEF Binding

\* No claim, no writer and no receipt: the invariant holds of empty tables.
LEMMA InitInv == Init => Inv
<1> SUFFICES ASSUME Init PROVE Inv
    OBVIOUS
<1>1. TypeOK
    BY InitTypes
<1>2. \A b \in Binding : claims[b].status = "none"
    BY DEF Init, NoClaim
<1>3. \A p \in Threads : pc[p] = "idle"
    BY DEF Init
<1>4. RowsWereDecided /\ ClaimedIsCurrent /\ ReceiptMatches
    BY <1>2 DEF Init, RowsWereDecided, ClaimedIsCurrent, Claimed, ReceiptMatches
<1>5. WriterHoldsClaim /\ OneWriterAtATime
    BY <1>3 DEF WriterHoldsClaim, OneWriterAtATime, Writing
<1>. QED
    BY <1>1, <1>4, <1>5 DEF Inv, Safe

\* A thread that moves and leaves the rows alone keeps everything, as long as
\* it does not start to write without a claim.
LEMMA PlaceStep ==
    ASSUME Inv, NEW p \in Threads,
           NEW place, Goto(p, place), UNCHANGED <<rows, bind>>,
           place \in Writing => pc[p] \in Writing
    PROVE  Safe'
<1>1. \A q \in Threads : pc[q]' \in Writing => pc[q] \in Writing
    BY DEF Inv, TypeOK, Goto
<1>2. RowsWereDecided' /\ ClaimedIsCurrent' /\ ReceiptMatches'
    BY DEF Inv, Safe, rows, RowsWereDecided, ClaimedIsCurrent, Claimed,
           CurrentAndApproved, ReceiptMatches
<1>3. WriterHoldsClaim'
    BY <1>1 DEF Inv, Safe, rows, WriterHoldsClaim, Claimed
<1>4. OneWriterAtATime'
    BY <1>1 DEF Inv, Safe, rows, OneWriterAtATime
<1>. QED
    BY <1>2, <1>3, <1>4 DEF Safe

\* A request that begins is not writing yet.
LEMMA RequestStep ==
    ASSUME Inv, NEW p \in Threads, NEW b \in Binding, RequestApply(p, b)
    PROVE  Safe'
<1>1. \A q \in Threads : pc'[q] \in Writing =>
         pc[q] \in Writing /\ bind[q]' = bind[q]
    BY DEF Inv, TypeOK, RequestApply, Goto, Writing
<1>2. RowsWereDecided' /\ ClaimedIsCurrent' /\ ReceiptMatches'
    BY DEF Inv, Safe, RequestApply, rows, RowsWereDecided, ClaimedIsCurrent,
           Claimed, CurrentAndApproved, ReceiptMatches
<1>3. WriterHoldsClaim'
    BY <1>1 DEF Inv, Safe, RequestApply, rows, WriterHoldsClaim, Claimed
<1>4. OneWriterAtATime'
    BY <1>1 DEF Inv, Safe, RequestApply, rows, OneWriterAtATime
<1>. QED
    BY <1>2, <1>3, <1>4 DEF Safe

\* A revision is appended only while nothing is claimed.
LEMMA AppendStep == Inv /\ AppendRevision => Safe'
<1> SUFFICES ASSUME Inv, AppendRevision PROVE Safe'
    OBVIOUS
<1>1. ClaimedIsCurrent'
    BY DEF AppendRevision, ApplyInProgress, ClaimedIsCurrent, Claimed
<1>2. RowsWereDecided' /\ ReceiptMatches'
    BY DEF Inv, Safe, AppendRevision, RowsWereDecided, ReceiptMatches
<1>3. WriterHoldsClaim' /\ OneWriterAtATime'
    BY DEF Inv, Safe, AppendRevision, WriterHoldsClaim, OneWriterAtATime, Claimed
<1>. QED
    BY <1>1, <1>2, <1>3 DEF Safe

\* A review is recorded only while nothing is claimed, and its decision is one
\* no claim row names.
LEMMA ReviewStep ==
    ASSUME Inv, NEW verdict \in {"approved", "rejected"}, RecordReview(verdict)
    PROVE  Safe'
<1> USE BoundsAssumption
<1>0. /\ latest \in Revisions
      /\ decided' = [decided EXCEPT ![latest] = @ + 1]
      /\ decided \in [Revisions -> 0 .. MaxDecisions]
      /\ claims' = claims /\ history' = history /\ resolved' = resolved
      /\ approved' \subseteq
           approved \cup {[rev |-> latest, dec |-> decided[latest] + 1]}
    BY DEF Inv, TypeOK, RecordReview, Revisions
<1>1. \A b \in Binding : /\ b.rev \in Revisions
                         /\ b.dec \in Nat
                         /\ decided[b.rev] \in Nat
    BY <1>0 DEF Binding
<1>2. \A b \in Binding : decided'[b.rev] =
         IF b.rev = latest THEN decided[b.rev] + 1 ELSE decided[b.rev]
    BY <1>0, <1>1
<1>3. ClaimedIsCurrent'
    BY DEF RecordReview, ApplyInProgress, ClaimedIsCurrent, Claimed
<1>4. RowsWereDecided'
  <2> SUFFICES ASSUME NEW b \in Binding
               PROVE  /\ b \in approved' => b.dec <= decided'[b.rev]
                      /\ claims'[b].status # "none" => b.dec <= decided'[b.rev]
    BY DEF RowsWereDecided
  <2>1. b \in approved => b.dec <= decided[b.rev]
    BY DEF Inv, Safe, RowsWereDecided
  <2>2. claims[b].status # "none" => b.dec <= decided[b.rev]
    BY DEF Inv, Safe, RowsWereDecided
  <2>3. b = [rev |-> latest, dec |-> decided[latest] + 1]
          => b.dec <= decided'[b.rev]
    BY <1>1, <1>2
  <2>. QED
    BY <1>0, <1>1, <1>2, <2>1, <2>2, <2>3
<1>5. ReceiptMatches'
  <2> SUFFICES ASSUME NEW b \in Binding, claims[b].status = "applied",
                      resolved[b] = "none", b.dec = decided'[b.rev]
               PROVE  history[b.rev] = "created"
    BY <1>0 DEF ReceiptMatches
  <2>1. b.dec <= decided[b.rev]
    BY DEF Inv, Safe, RowsWereDecided
  <2>2. b.dec = decided[b.rev]
    BY <1>1, <1>2, <2>1
  <2>. QED
    BY <2>2 DEF Inv, Safe, ReceiptMatches
<1>6. WriterHoldsClaim' /\ OneWriterAtATime'
    BY DEF Inv, Safe, RecordReview, WriterHoldsClaim, OneWriterAtATime, Claimed
<1>. QED
    BY <1>3, <1>4, <1>5, <1>6 DEF Safe

\* An acquired claim is new, so no unresolved writer was under it, and current.
LEMMA AcquireStep ==
    ASSUME Inv, NEW p \in Threads, Acquire(p)
    PROVE  Safe'
<1> DEFINE b == bind[p]
<1>0. b \in Binding
    BY DEF Inv, TypeOK
<1>1. /\ claims[b].status = "none"
      /\ CurrentAndApproved(b)
      /\ UNCHANGED <<latest, decided, approved, history, resolved, bind>>
    BY DEF Acquire
<1>2. \A c \in Binding : claims'[c].status =
         IF c = b THEN "claimed" ELSE claims[c].status
    BY <1>0 DEF Inv, TypeOK, Acquire
<1>3. \A q \in Threads : q # p => pc'[q] = pc[q]
    BY DEF Inv, TypeOK, Acquire, Goto
<1>4. \A q \in Threads : pc[q] \in Writing /\ bind[q] = b => resolved[b] # "none"
    BY <1>1 DEF Inv, Safe, WriterHoldsClaim, Claimed
<1> HIDE DEF b
<1>5. RowsWereDecided'
    BY <1>0, <1>1, <1>2 DEF Inv, Safe, RowsWereDecided, CurrentAndApproved
<1>6. ClaimedIsCurrent'
    BY <1>1, <1>2 DEF Inv, Safe, ClaimedIsCurrent, Claimed, CurrentAndApproved
<1>7. WriterHoldsClaim'
    BY <1>1, <1>2, <1>3 DEF b, Inv, Safe, TypeOK, WriterHoldsClaim, Claimed
<1>8. OneWriterAtATime'
    BY <1>1, <1>3, <1>4 DEF b, Inv, Safe, OneWriterAtATime
<1>9. ReceiptMatches'
    BY <1>1, <1>2 DEF Inv, Safe, ReceiptMatches
<1>. QED
    BY <1>5, <1>6, <1>7, <1>8, <1>9 DEF Safe

\* Only a failed row is dropped, and nobody writes under a failed row.
LEMMA DropStep ==
    ASSUME Inv, NEW p \in Threads, DropFailed(p)
    PROVE  Safe'
<1> DEFINE b == bind[p]
<1>0. b \in Binding
    BY DEF Inv, TypeOK
<1>1. UNCHANGED <<latest, decided, approved, history, resolved, bind>>
    BY DEF DropFailed
<1>2. \A c \in Binding :
         \/ claims'[c] = claims[c]
         \/ claims'[c].status = "none" /\ claims[c].status = "failed"
    BY <1>0 DEF Inv, TypeOK, DropFailed, NoClaim
<1>3. \A q \in Threads : pc[q]' \in Writing => pc[q] \in Writing
    BY DEF Inv, TypeOK, DropFailed, Goto, Writing
<1> HIDE DEF b
<1>4. RowsWereDecided'
    BY <1>1, <1>2 DEF Inv, Safe, RowsWereDecided
<1>5. ClaimedIsCurrent'
    BY <1>1, <1>2 DEF Inv, Safe, ClaimedIsCurrent, Claimed, CurrentAndApproved
<1>6. WriterHoldsClaim'
    BY <1>1, <1>2, <1>3 DEF Inv, Safe, TypeOK, WriterHoldsClaim, Claimed
<1>7. OneWriterAtATime'
    BY <1>1, <1>3 DEF Inv, Safe, OneWriterAtATime
<1>8. ReceiptMatches'
    BY <1>1, <1>2 DEF Inv, Safe, ReceiptMatches
<1>. QED
    BY <1>4, <1>5, <1>6, <1>7, <1>8 DEF Safe

\* A finish ends the claim of the only unresolved writer, and writes the receipt
\* of the current decision.
LEMMA FinishStep ==
    ASSUME Inv, NEW p \in Threads, Finish(p)
    PROVE  Safe'
<1> DEFINE b == bind[p]
<1>0. b \in Binding /\ b.rev \in Revisions
    BY DEF Inv, TypeOK, Binding
<1>1. /\ UNCHANGED <<latest, decided, approved, resolved, bind>>
      /\ Claimed(b)
      /\ pc[p] \in Writing
    BY DEF Finish, Writing
<1>2. \A c \in Binding : c # b => claims'[c] = claims[c]
    BY <1>0 DEF Inv, TypeOK, Finish
<1>3. claims'[b].status = IF outcome[p] = "created" THEN "applied" ELSE "failed"
    BY <1>0 DEF Inv, TypeOK, Finish
<1>4. \A r \in Revisions : history'[r] = IF r = b.rev THEN outcome[p] ELSE history[r]
    BY <1>0 DEF Inv, TypeOK, Finish
<1>5. \A q \in Threads : pc[q]' \in Writing => pc[q] \in Writing /\ q # p
    BY DEF Inv, TypeOK, Finish, Goto, Writing
<1>6. \A q \in Threads : pc[q]' \in Writing /\ resolved[bind[q]] = "none"
                          => bind[q] # b
    BY <1>1, <1>5 DEF Inv, Safe, OneWriterAtATime
<1>7. CurrentAndApproved(b)
    BY <1>0, <1>1 DEF Inv, Safe, ClaimedIsCurrent
<1> HIDE DEF b
<1>8. RowsWereDecided'
    BY <1>0, <1>1, <1>2, <1>7 DEF Inv, Safe, RowsWereDecided, Claimed
<1>9. ClaimedIsCurrent'
    BY <1>1, <1>2, <1>3 DEF Inv, Safe, ClaimedIsCurrent, Claimed, CurrentAndApproved
<1>10. WriterHoldsClaim'
    BY <1>1, <1>2, <1>5, <1>6 DEF Inv, Safe, TypeOK, WriterHoldsClaim, Claimed
<1>11. OneWriterAtATime'
    BY <1>1, <1>5 DEF Inv, Safe, OneWriterAtATime
<1>12. ReceiptMatches'
  <2> SUFFICES ASSUME NEW c \in Binding, claims'[c].status = "applied",
                      resolved[c] = "none", c.dec = decided[c.rev]
               PROVE  history'[c.rev] = "created"
    BY <1>1 DEF ReceiptMatches
  <2>0. c.rev \in Revisions
    BY DEF Binding
  <2>1. CASE c = b
    BY <2>0, <2>1, <1>3, <1>4
  <2>2. CASE c # b
    <3>1. history[c.rev] = "created"
      BY <2>2, <1>2 DEF Inv, Safe, ReceiptMatches
    <3>2. c.rev # b.rev
      BY <1>0, <1>7, <2>2 DEF Binding, CurrentAndApproved
    <3>. QED
      BY <2>0, <3>1, <3>2, <1>4
  <2>. QED
    BY <2>1, <2>2
<1>. QED
    BY <1>8, <1>9, <1>10, <1>11, <1>12 DEF Safe

\* An operator's resolution ends a claim and marks its consent as resolved.
LEMMA ReconcileStep ==
    ASSUME Inv, NEW b \in Binding, NEW result \in {"applied", "failed"},
           Reconcile(b, result)
    PROVE  Safe'
<1>1. UNCHANGED <<latest, decided, approved, history, pc, bind>> /\ Claimed(b)
    BY DEF Reconcile
<1>2. \A c \in Binding : c # b => claims'[c] = claims[c] /\ resolved'[c] = resolved[c]
    BY DEF Inv, TypeOK, Reconcile
<1>3. claims'[b].status = result /\ resolved'[b] = result
    BY DEF Inv, TypeOK, Reconcile
<1>4. RowsWereDecided'
    BY <1>1, <1>2 DEF Inv, Safe, RowsWereDecided, Claimed
<1>5. ClaimedIsCurrent'
    BY <1>1, <1>2, <1>3 DEF Inv, Safe, ClaimedIsCurrent, Claimed, CurrentAndApproved
<1>6. WriterHoldsClaim'
    BY <1>1, <1>2, <1>3 DEF Inv, Safe, TypeOK, WriterHoldsClaim, Claimed
<1>7. OneWriterAtATime'
    BY <1>1, <1>2, <1>3 DEF Inv, Safe, TypeOK, OneWriterAtATime
<1>8. ReceiptMatches'
    BY <1>1, <1>2, <1>3 DEF Inv, Safe, ReceiptMatches
<1>. QED
    BY <1>4, <1>5, <1>6, <1>7, <1>8 DEF Safe

-----------------------------------------------------------------------------
\* The invariant and what follows from it.

\* Every step keeps the invariant, one lemma a transaction.
LEMMA NextInv == Inv /\ [Next]_vars => Inv'
<1> SUFFICES ASSUME Inv, [Next]_vars PROVE Safe'
    BY NextTypes DEF Inv
<1>1. CASE AppendRevision
    BY <1>1, AppendStep
<1>2. ASSUME NEW verdict \in {"approved", "rejected"}, RecordReview(verdict)
      PROVE  Safe'
    BY <1>2, ReviewStep
<1>3. ASSUME NEW p \in Threads, NEW b \in Binding, RequestApply(p, b)
      PROVE  Safe'
    BY <1>3, RequestStep
<1>4. ASSUME NEW p \in Threads, ThreadStep(p) PROVE Safe'
  <2>1. CASE Acquire(p)
    BY <1>4, <2>1, AcquireStep
  <2>2. CASE Refused(p)
    BY <1>4, <2>2, PlaceStep DEF Refused, Writing
  <2>3. CASE FoundFailed(p)
    BY <1>4, <2>3, PlaceStep DEF FoundFailed, Writing
  <2>4. CASE JudgeRetry(p)
    <3> DEFINE place == IF FailedClaimIsRetryable(bind[p]) THEN "drop" ELSE "idle"
    <3>1. Goto(p, place) /\ UNCHANGED <<rows, bind>>
      BY <2>4 DEF JudgeRetry
    <3>2. place \notin Writing
      BY DEF Writing
    <3> HIDE DEF place
    <3>. QED
      BY <1>4, <3>1, <3>2, PlaceStep
  <2>5. CASE DropFailed(p)
    BY <1>4, <2>5, DropStep
  <2>6. CASE AdapterRefuses(p) \/ CreateLost(p)
    BY <1>4, <2>6, PlaceStep DEF AdapterRefuses, CreateLost, Writing
  <2>7. CASE SendCreate(p)
    BY <1>4, <2>7, PlaceStep DEF SendCreate, Writing
  <2>8. CASE Finish(p)
    BY <1>4, <2>8, FinishStep
  <2>9. CASE FinishRollsBack(p)
    BY <1>4, <2>9, PlaceStep DEF FinishRollsBack, Writing
  <2>. QED
    BY <1>4, <2>1, <2>2, <2>3, <2>4, <2>5, <2>6, <2>7, <2>8, <2>9 DEF ThreadStep
<1>5. ASSUME NEW p \in Threads, Abandon(p) PROVE Safe'
    BY <1>5, PlaceStep DEF Abandon, Writing
<1>6. ASSUME NEW b \in Binding, NEW result \in {"applied", "failed"},
             Reconcile(b, result)
      PROVE  Safe'
    BY <1>6, ReconcileStep
<1>7. CASE Tick \/ UNCHANGED vars
  <2>1. UNCHANGED <<rows, pc, bind>>
    BY <1>7 DEF Tick, vars, rows
  <2>2. RowsWereDecided' /\ ClaimedIsCurrent' /\ ReceiptMatches'
    BY <2>1 DEF Inv, Safe, rows, RowsWereDecided, ClaimedIsCurrent, Claimed,
                CurrentAndApproved, ReceiptMatches
  <2>3. WriterHoldsClaim' /\ OneWriterAtATime'
    BY <2>1 DEF Inv, Safe, rows, WriterHoldsClaim, OneWriterAtATime, Claimed
  <2>. QED
    BY <2>2, <2>3 DEF Safe
<1>. QED
    BY <1>1, <1>2, <1>3, <1>4, <1>5, <1>6, <1>7 DEF Next

\* The invariant holds of every reachable state.
LEMMA Invariance == Spec => []Inv
<1>. QED
    BY InitInv, NextInv, PTL DEF Spec

\* Nothing supersedes a revision or its approval while it is being written.
THEOREM ClaimsAreCurrent == Spec => []ClaimedIsCurrent
<1>1. Inv => ClaimedIsCurrent
    BY DEF Inv, Safe
<1>. QED
    BY <1>1, Invariance, PTL

\* A thread that may write holds the active claim of its consent, unless an
\* operator resolved it: no request deletes a claim another one is using.
THEOREM WritersHoldTheirClaim == Spec => []WriterHoldsClaim
<1>1. Inv => WriterHoldsClaim
    BY DEF Inv, Safe
<1>. QED
    BY <1>1, Invariance, PTL

\* Two requests of one consent never write at a time, unless an operator
\* resolved the claim of the first one.
THEOREM WritersExcludeEachOther == Spec => []OneWriterAtATime
<1>1. Inv => OneWriterAtATime
    BY DEF Inv, Safe
<1>. QED
    BY <1>1, Invariance, PTL

\* The receipt of an applied consent is the receipt of a created draft.
THEOREM ReceiptsMatch == Spec => []ReceiptMatches
<1>1. Inv => ReceiptMatches
    BY DEF Inv, Safe
<1>. QED
    BY <1>1, Invariance, PTL

\* Every transaction that writes a claim row finds it in a state other than
\* applied.
LEMMA AppliedKept ==
    ASSUME TypeOK, [Next]_vars, NEW b \in Binding, claims[b].status = "applied"
    PROVE  claims'[b] = claims[b]
<1>1. ASSUME NEW p \in Threads, ThreadStep(p) PROVE claims'[b] = claims[b]
  <2>0. claims \in [Binding -> [status : ClaimStatus, at : 0 .. MaxClock]]
        /\ bind[p] \in Binding
    BY <1>1 DEF TypeOK
  <2>1. CASE Acquire(p)
    BY <2>0, <2>1 DEF Acquire
  <2>2. CASE DropFailed(p)
    BY <2>0, <2>2 DEF DropFailed
  <2>3. CASE Finish(p)
    <3>1. bind[p] # b
      BY <2>3 DEF Finish, Claimed
    <3>. QED
      BY <2>0, <2>3, <3>1 DEF Finish
  <2>4. CASE Refused(p) \/ FoundFailed(p) \/ JudgeRetry(p) \/ AdapterRefuses(p)
             \/ CreateLost(p) \/ SendCreate(p) \/ FinishRollsBack(p)
    BY <2>4 DEF Refused, FoundFailed, JudgeRetry, AdapterRefuses, CreateLost,
                SendCreate, FinishRollsBack, rows
  <2>. QED
    BY <1>1, <2>1, <2>2, <2>3, <2>4 DEF ThreadStep
<1>2. ASSUME NEW c \in Binding, NEW result \in {"applied", "failed"},
             Reconcile(c, result)
      PROVE  claims'[b] = claims[b]
  <2>1. c # b
    BY <1>2 DEF Reconcile, Claimed
  <2>. QED
    BY <1>2, <2>1 DEF Reconcile, TypeOK
<1>3. ASSUME NEW verdict \in {"approved", "rejected"}, RecordReview(verdict)
      PROVE  claims'[b] = claims[b]
    BY <1>3 DEF RecordReview
<1>4. ASSUME NEW p \in Threads, NEW c \in Binding, RequestApply(p, c)
      PROVE  claims'[b] = claims[b]
    BY <1>4 DEF RequestApply, rows
<1>5. ASSUME NEW p \in Threads, Abandon(p) PROVE claims'[b] = claims[b]
    BY <1>5 DEF Abandon, rows
<1>6. CASE AppendRevision \/ Tick \/ UNCHANGED vars
    BY <1>6 DEF AppendRevision, Tick, vars, rows
<1>. QED
    BY <1>1, <1>2, <1>3, <1>4, <1>5, <1>6 DEF Next

\* A consent that was applied is used up for good.
THEOREM AppliedConsentIsFinal == Spec => AppliedIsFinal
<1>1. TypeOK /\ [Next]_vars =>
        [\A b \in Binding :
           claims[b].status = "applied" => claims'[b] = claims[b]]_vars
    BY AppliedKept
<1>. QED
    BY <1>1, InitTypes, NextTypes, PTL DEF Spec, AppliedIsFinal
=============================================================================
