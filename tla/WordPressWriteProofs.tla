----------------------- MODULE WordPressWriteProofs --------------------------
(***************************************************************************)
(* Proofs about what WordPress receives from the applies of WordPressApply: *)
(* which consent a create request is made for, that what the rows say was  *)
(* written was written, and when one consent is written a second time.     *)
(***************************************************************************)
EXTENDS WordPressApplyProofs

-----------------------------------------------------------------------------
\* Formulas.

\* A request that is being served applies a consent a human gave.
RequestsAreApproved ==
    \A p \in Threads : pc[p] # "idle" => bind[p] \in approved

\* WordPress is asked for a draft of an approved consent only.
WritesAreApproved == \A b \in Binding : sent[b] > 0 => b \in approved

\* A create request leaves only for the newest revision under its newest
\* decision, unless an operator resolved the consent while its request ran.
WritesAreCurrent ==
    [][\A b \in Binding :
         sent'[b] # sent[b] => CurrentAndApproved(b) \/ resolved[b] # "none"]_vars

\* An execution result of "created" that is not recorded yet is true.
ResultsAreTrue ==
    \A p \in Threads :
        pc[p] = "finish" /\ outcome[p] = "created" => sent[bind[p]] > 0

\* A consent that is applied without an operator's word was sent to WordPress.
AppliedWasSent ==
    \A b \in Binding :
        claims[b].status = "applied" /\ resolved[b] = "none" => sent[b] > 0

\* A receipt of "created" names a revision that was sent to WordPress.
CreatedWasSent ==
    \A r \in Revisions :
        history[r] = "created" => \E b \in Binding : b.rev = r /\ sent[b] > 0

-----------------------------------------------------------------------------
\* What the rows say was written was written.

\* Together inductive, on top of Inv: TruthStep.
Truth ==
    /\ RequestsAreApproved
    /\ WritesAreApproved
    /\ ResultsAreTrue
    /\ AppliedWasSent
    /\ CreatedWasSent

\* Nothing was asked, sent or recorded at first.
LEMMA InitTruth == Init => Truth
<1> SUFFICES ASSUME Init PROVE Truth
    OBVIOUS
<1>1. RequestsAreApproved /\ ResultsAreTrue
    BY DEF Init, RequestsAreApproved, ResultsAreTrue
<1>2. WritesAreApproved
    BY DEF Init, WritesAreApproved
<1>3. AppliedWasSent /\ CreatedWasSent
    BY DEF Init, AppliedWasSent, CreatedWasSent, NoClaim
<1>. QED
    BY <1>1, <1>2, <1>3 DEF Truth

\* A step that sends nothing and records nothing keeps the truth, if a thread
\* that runs was running on the same consent and a result is one it had.
LEMMA QuietStep ==
    ASSUME Inv, Truth,
           UNCHANGED <<history, sent>>,
           approved \subseteq approved',
           \A p \in Threads : pc'[p] # "idle" =>
              \/ bind'[p] \in approved
              \/ pc[p] # "idle" /\ bind'[p] = bind[p],
           \A p \in Threads : pc'[p] = "finish" /\ outcome'[p] = "created" =>
              pc[p] = "finish" /\ outcome[p] = "created" /\ bind'[p] = bind[p],
           \A b \in Binding : claims'[b].status = "applied" /\ resolved'[b] = "none" =>
              claims[b].status = "applied" /\ resolved[b] = "none"
    PROVE  Truth'
<1>1. RequestsAreApproved'
    BY DEF Truth, RequestsAreApproved
<1>2. WritesAreApproved'
    BY DEF Truth, WritesAreApproved
<1>3. ResultsAreTrue'
    BY DEF Truth, ResultsAreTrue
<1>4. AppliedWasSent'
    BY DEF Truth, AppliedWasSent
<1>5. CreatedWasSent'
    BY DEF Truth, CreatedWasSent
<1>. QED
    BY <1>1, <1>2, <1>3, <1>4, <1>5 DEF Truth

\* The create request makes the result that says so true.
LEMMA SendTruth ==
    ASSUME Inv, Truth, NEW p \in Threads, SendCreate(p)
    PROVE  Truth'
<1> DEFINE b == bind[p]
<1>0. b \in Binding /\ sent \in [Binding -> Nat] /\ b \in approved
    BY DEF Inv, TypeOK, Truth, RequestsAreApproved, SendCreate
<1>1. UNCHANGED <<approved, claims, history, resolved, bind>>
    BY DEF SendCreate, rows
<1>2. /\ sent'[b] > 0
      /\ \A c \in Binding : c # b => sent'[c] = sent[c]
    BY <1>0 DEF SendCreate
<1>3. \A q \in Threads : q # p => pc'[q] = pc[q] /\ outcome'[q] = outcome[q]
    BY DEF Inv, TypeOK, SendCreate, Goto
<1>4. pc[p] # "idle"
    BY DEF SendCreate
<1> HIDE DEF b
<1>5. RequestsAreApproved'
    BY <1>1, <1>3, <1>4 DEF Truth, RequestsAreApproved
<1>6. WritesAreApproved'
    BY <1>0, <1>1, <1>2 DEF Truth, WritesAreApproved
<1>7. ResultsAreTrue'
    BY <1>0, <1>1, <1>2, <1>3 DEF b, Inv, TypeOK, Truth, ResultsAreTrue
<1>8. AppliedWasSent'
    BY <1>1, <1>2 DEF Truth, AppliedWasSent
<1>9. CreatedWasSent'
    BY <1>0, <1>1, <1>2 DEF Truth, CreatedWasSent
<1>. QED
    BY <1>5, <1>6, <1>7, <1>8, <1>9 DEF Truth

\* A finish records its own result, for the claim and for the revision.
LEMMA FinishTruth ==
    ASSUME Inv, Truth, NEW p \in Threads, Finish(p)
    PROVE  Truth'
<1> DEFINE b == bind[p]
<1>0. b \in Binding /\ b.rev \in Revisions
    BY DEF Inv, TypeOK, Binding
<1>1. UNCHANGED <<approved, resolved, sent, bind, outcome>>
    BY DEF Finish
<1>2. /\ claims'[b].status = "applied" => outcome[p] = "created"
      /\ \A c \in Binding : c # b => claims'[c] = claims[c]
    BY <1>0 DEF Inv, TypeOK, Finish
<1>3. \A r \in Revisions : history'[r] = IF r = b.rev THEN outcome[p] ELSE history[r]
    BY <1>0 DEF Inv, TypeOK, Finish
<1>4. \A q \in Threads : pc'[q] # "idle" => pc'[q] = pc[q]
    BY DEF Inv, TypeOK, Finish, Goto
<1>5. outcome[p] = "created" => sent[b] > 0
    BY DEF Finish, Truth, ResultsAreTrue
<1> HIDE DEF b
<1>6. RequestsAreApproved' /\ ResultsAreTrue'
    BY <1>1, <1>4 DEF Truth, RequestsAreApproved, ResultsAreTrue
<1>7. WritesAreApproved'
    BY <1>1 DEF Truth, WritesAreApproved
<1>8. AppliedWasSent'
    BY <1>1, <1>2, <1>5 DEF Truth, AppliedWasSent
<1>9. CreatedWasSent'
    BY <1>0, <1>1, <1>3, <1>5 DEF Truth, CreatedWasSent
<1>. QED
    BY <1>6, <1>7, <1>8, <1>9 DEF Truth

\* Every step keeps the truth: only a create request and a finish write what it
\* speaks of.
LEMMA TruthStep == Inv /\ Truth /\ [Next]_vars => Truth'
<1> SUFFICES ASSUME Inv, Truth, [Next]_vars PROVE Truth'
    OBVIOUS
<1>1. CASE AppendRevision \/ Tick \/ UNCHANGED vars
    BY <1>1, QuietStep DEF AppendRevision, Tick, rows, vars
<1>2. ASSUME NEW verdict \in {"approved", "rejected"}, RecordReview(verdict)
      PROVE  Truth'
    BY <1>2, QuietStep DEF RecordReview
<1>3. ASSUME NEW p \in Threads, NEW b \in Binding, RequestApply(p, b)
      PROVE  Truth'
  <2>1. \A q \in Threads : q # p => pc'[q] = pc[q] /\ bind'[q] = bind[q]
                                     /\ outcome'[q] = outcome[q]
    BY <1>3 DEF Inv, TypeOK, RequestApply, Goto
  <2>2. pc'[p] = "claim" /\ bind'[p] \in approved
    BY <1>3 DEF Inv, TypeOK, RequestApply, Goto
  <2>3. \A q \in Threads : pc'[q] # "idle" =>
           \/ bind'[q] \in approved
           \/ pc[q] # "idle" /\ bind'[q] = bind[q]
    BY <2>1, <2>2
  <2>4. \A q \in Threads : pc'[q] = "finish" => q # p
    BY <2>2
  <2>5. UNCHANGED <<approved, claims, history, resolved, sent>>
    BY <1>3 DEF RequestApply, rows
  <2>. QED
    BY <2>1, <2>3, <2>4, <2>5, QuietStep
<1>4. ASSUME NEW p \in Threads, ThreadStep(p) PROVE Truth'
  <2>0. ASSUME NEW place, Goto(p, place), pc[p] # "idle"
        PROVE  /\ pc'[p] = place
               /\ \A q \in Threads : q # p => pc'[q] = pc[q]
    BY <2>0 DEF Inv, TypeOK, Goto
  <2>1. CASE Acquire(p)
    <3>1. pc'[p] = "adapter" /\ \A q \in Threads : q # p => pc'[q] = pc[q]
      BY <2>0, <2>1 DEF Acquire
    <3>2. \A c \in Binding : claims'[c].status = "applied" => claims[c].status = "applied"
      BY <2>1 DEF Inv, TypeOK, Acquire
    <3>. QED
      BY <2>1, <3>1, <3>2, QuietStep DEF Acquire
  <2>2. CASE Refused(p) \/ FinishRollsBack(p)
    <3>1. pc'[p] = "idle" /\ \A q \in Threads : q # p => pc'[q] = pc[q]
      BY <2>0, <2>2 DEF Refused, FinishRollsBack
    <3>. QED
      BY <2>2, <3>1, QuietStep DEF Refused, FinishRollsBack, rows
  <2>3. CASE FoundFailed(p)
    <3>1. pc'[p] = "judge" /\ \A q \in Threads : q # p => pc'[q] = pc[q]
      BY <2>0, <2>3 DEF FoundFailed
    <3>. QED
      BY <2>3, <3>1, QuietStep DEF FoundFailed, rows
  <2>4. CASE JudgeRetry(p)
    <3>1. pc'[p] \in {"drop", "idle"} /\ \A q \in Threads : q # p => pc'[q] = pc[q]
      BY <2>4 DEF Inv, TypeOK, JudgeRetry, Goto
    <3>. QED
      BY <2>4, <3>1, QuietStep DEF JudgeRetry, rows
  <2>5. CASE DropFailed(p)
    <3>1. pc'[p] = "claim" /\ \A q \in Threads : q # p => pc'[q] = pc[q]
      BY <2>0, <2>5 DEF DropFailed
    <3>2. \A c \in Binding : claims'[c].status = "applied" => claims[c].status = "applied"
      BY <2>5 DEF Inv, TypeOK, DropFailed, NoClaim
    <3>. QED
      BY <2>5, <3>1, <3>2, QuietStep DEF DropFailed
  <2>6. CASE AdapterRefuses(p) \/ CreateLost(p)
    <3>1. pc'[p] = "finish" /\ \A q \in Threads : q # p => pc'[q] = pc[q]
      BY <2>0, <2>6 DEF AdapterRefuses, CreateLost
    <3>2. outcome'[p] # "created" /\ \A q \in Threads : q # p => outcome'[q] = outcome[q]
      BY <2>6 DEF Inv, TypeOK, AdapterRefuses, CreateLost
    <3>. QED
      BY <2>6, <3>1, <3>2, QuietStep DEF AdapterRefuses, CreateLost, rows
  <2>7. CASE SendCreate(p)
    BY <1>4, <2>7, SendTruth
  <2>8. CASE Finish(p)
    BY <1>4, <2>8, FinishTruth
  <2>. QED
    BY <1>4, <2>1, <2>2, <2>3, <2>4, <2>5, <2>6, <2>7, <2>8 DEF ThreadStep
<1>5. ASSUME NEW p \in Threads, Abandon(p) PROVE Truth'
  <2>1. \A q \in Threads : pc'[q] # "idle" => pc'[q] = pc[q]
    BY <1>5 DEF Inv, TypeOK, Abandon, Goto
  <2>. QED
    BY <1>5, <2>1, QuietStep DEF Abandon, rows
<1>6. ASSUME NEW b \in Binding, NEW result \in {"applied", "failed"},
             Reconcile(b, result)
      PROVE  Truth'
  <2>1. resolved'[b] # "none" /\ \A c \in Binding : c # b =>
           claims'[c] = claims[c] /\ resolved'[c] = resolved[c]
    BY <1>6 DEF Inv, TypeOK, Reconcile
  <2>. QED
    BY <1>6, <2>1, QuietStep DEF Reconcile
<1>. QED
    BY <1>1, <1>2, <1>3, <1>4, <1>5, <1>6 DEF Next

\* The truth holds of every reachable state.
LEMMA Truthful == Spec => [](Inv /\ Truth)
<1>. QED
    BY InitInv, NextInv, InitTruth, TruthStep, PTL DEF Spec

\* WordPress receives create requests for approved consents only, whatever was
\* retried, superseded, abandoned or resolved meanwhile (claim_wordpress_revision_apply).
THEOREM OnlyApprovedIsWritten == Spec => []WritesAreApproved
<1>1. Truth => WritesAreApproved
    BY DEF Truth
<1>. QED
    BY <1>1, Truthful, PTL

\* An applied consent was written, as was every revision whose receipt says so:
\* neither row tells of a draft that was never asked for.
THEOREM RecordsAreTrue == Spec => [](AppliedWasSent /\ CreatedWasSent)
<1>1. Truth => AppliedWasSent /\ CreatedWasSent
    BY DEF Truth
<1>. QED
    BY <1>1, Truthful, PTL

\* Between the check of the binding and the create request lies a remote call of
\* any length; what was checked still holds when the request leaves, unless an
\* operator resolved the claim meanwhile.
THEOREM WritesFindTheirConsentCurrent == Spec => WritesAreCurrent
<1>1. ASSUME Inv, [Next]_vars, NEW b \in Binding, sent'[b] # sent[b]
      PROVE  CurrentAndApproved(b) \/ resolved[b] # "none"
  <2>1. PICK p \in Threads : SendCreate(p)
    BY <1>1 DEF Next, ThreadStep, AppendRevision, RecordReview, RequestApply,
                Acquire, Refused, FoundFailed, JudgeRetry, DropFailed,
                AdapterRefuses, CreateLost, Finish, FinishRollsBack, Abandon,
                Reconcile, Tick, vars
  <2>2. bind[p] = b
    BY <1>1, <2>1 DEF Inv, TypeOK, SendCreate
  <2>3. resolved[b] = "none" => Claimed(b)
    BY <1>1, <2>1, <2>2 DEF Inv, Safe, WriterHoldsClaim, SendCreate, Writing
  <2>. QED
    BY <1>1, <2>3 DEF Inv, Safe, ClaimedIsCurrent
<1>2. Inv /\ [Next]_vars =>
        [\A b \in Binding :
           sent'[b] # sent[b] => CurrentAndApproved(b) \/ resolved[b] # "none"]_vars
    BY <1>1
<1>. QED
    BY <1>2, Invariance, PTL DEF Spec, WritesAreCurrent

-----------------------------------------------------------------------------
\* When a consent is written a second time.  OneWritePerConsent fails, and the
\* run that shows it has two requests that both found the same failed claim.
\* Without such a pair, and without an operator's resolution, it holds.

\* While a request is about to drop the failed claim it judged retryable, no
\* other request of the consent is there too or writes.
RetryIsAlone ==
    \A p, q \in Threads :
        /\ pc[p] = "drop"
        /\ pc[q] \in {"drop"} \cup Writing
        /\ bind[p] = bind[q]
        => p = q

\* A consent no operator resolved sends one create request at most.
WrittenOnceUnlessResolved ==
    \A b \in Binding : resolved[b] = "none" => sent[b] <= 1

\* A newer revision, or a newer decision on the revision, took b's place.
Superseded(b) == b.rev < latest \/ b.dec < decided[b.rev]

UnresolvedAt(p, place) == pc[p] = place /\ resolved[bind[p]] = "none"

\* A request that is about to write finds that nothing was written, and a clean
\* result it brings back says the same.
WriterIsFirst ==
    \A p \in Threads :
        /\ UnresolvedAt(p, "adapter") => sent[bind[p]] = 0
        /\ UnresolvedAt(p, "finish") /\ outcome[p] = "clean" => sent[bind[p]] = 0

\* A consent that can still be claimed was not written: it has no claim, or a
\* failed one that its receipt, or the verdict of a request, lets go.
ClaimableIsUnwritten ==
    \A b \in Binding :
        /\ resolved[b] = "none"
        /\ ~Superseded(b)
        /\ \/ claims[b].status = "none"
           \/ /\ claims[b].status = "failed"
              /\ \/ FailedClaimIsRetryable(b)
                 \/ \E p \in Threads : pc[p] = "drop" /\ bind[p] = b
        => sent[b] = 0

\* Inductive while retries are alone, on top of Inv: OnceStep.
Once == WrittenOnceUnlessResolved /\ WriterIsFirst /\ ClaimableIsUnwritten

\* Nothing was sent at first.
LEMMA InitOnce == Init => Once
<1> SUFFICES ASSUME Init PROVE Once
    OBVIOUS
<1>1. WrittenOnceUnlessResolved /\ ClaimableIsUnwritten
    BY DEF Init, WrittenOnceUnlessResolved, ClaimableIsUnwritten
<1>2. WriterIsFirst
    BY DEF Init, WriterIsFirst, UnresolvedAt
<1>. QED
    BY <1>1, <1>2 DEF Once

\* What was superseded stays so: revisions and decisions are only added.
LEMMA SupersededKept ==
    ASSUME TypeOK, [Next]_vars, NEW b \in Binding, Superseded(b)
    PROVE  Superseded(b)'
<1>0. /\ b.rev \in Revisions /\ b.dec \in Nat
      /\ latest \in Int /\ \A r \in Revisions : decided[r] \in Int
    BY BoundsAssumption DEF TypeOK, Binding, Revisions
<1>1. CASE AppendRevision
    BY <1>0, <1>1 DEF AppendRevision, Superseded, Revisions
<1>2. ASSUME NEW verdict \in {"approved", "rejected"}, RecordReview(verdict)
      PROVE  Superseded(b)'
  <2>1. latest' = latest /\ decided' = [decided EXCEPT ![latest] = @ + 1]
    BY <1>2 DEF RecordReview
  <2>2. decided'[b.rev] \in {decided[b.rev], decided[b.rev] + 1}
    BY <1>0, <2>1 DEF TypeOK
  <2>. QED
    BY <1>0, <2>1, <2>2 DEF Superseded
<1>3. CASE UNCHANGED <<latest, decided>>
    BY <1>3 DEF Superseded
<1>. QED
    BY <1>1, <1>2, <1>3
    DEF Next, ThreadStep, RequestApply, Acquire, Refused, FoundFailed,
        JudgeRetry, DropFailed, AdapterRefuses, CreateLost, SendCreate, Finish,
        FinishRollsBack, Abandon, Reconcile, Tick, rows, vars

\* A step that leaves the claims, the receipts and WordPress alone, and brings
\* no thread to a place where it drops or writes.
LEMMA AsideStep ==
    ASSUME Inv, Once, [Next]_vars,
           UNCHANGED <<claims, history, resolved, sent>>,
           \A p \in Threads : pc'[p] \in {"drop"} \cup Writing =>
              pc'[p] = pc[p] /\ bind'[p] = bind[p] /\ outcome'[p] = outcome[p]
    PROVE  Once'
<1>1. WrittenOnceUnlessResolved'
    BY DEF Once, WrittenOnceUnlessResolved
<1>2. WriterIsFirst'
    BY DEF Once, WriterIsFirst, UnresolvedAt, Writing
<1>3. \A b \in Binding : Superseded(b) => Superseded(b)'
    BY SupersededKept DEF Inv
<1>4. ClaimableIsUnwritten'
    BY <1>3 DEF Once, ClaimableIsUnwritten, FailedClaimIsRetryable
<1>. QED
    BY <1>1, <1>2, <1>4 DEF Once

\* A verdict is read from the receipt that says nothing was written.
LEMMA JudgeOnce ==
    ASSUME Inv, Once, NEW p \in Threads, JudgeRetry(p)
    PROVE  Once'
<1>1. UNCHANGED <<latest, decided, claims, history, resolved, sent, bind, outcome>>
    BY DEF JudgeRetry, rows
<1>2. \A q \in Threads : q # p => pc'[q] = pc[q]
    BY DEF Inv, TypeOK, JudgeRetry, Goto
<1>3. /\ pc'[p] \in {"drop", "idle"}
      /\ pc'[p] = "drop" => FailedClaimIsRetryable(bind[p])
    BY DEF Inv, TypeOK, JudgeRetry, Goto
<1>4. WrittenOnceUnlessResolved'
    BY <1>1 DEF Once, WrittenOnceUnlessResolved
<1>5. WriterIsFirst'
    BY <1>1, <1>2, <1>3 DEF Once, WriterIsFirst, UnresolvedAt
<1>6. ClaimableIsUnwritten'
    BY <1>1, <1>2, <1>3
    DEF Once, ClaimableIsUnwritten, Superseded, FailedClaimIsRetryable
<1>. QED
    BY <1>4, <1>5, <1>6 DEF Once

\* A claim is acquired where none is, of a consent that is current.
LEMMA AcquireOnce ==
    ASSUME Inv, Once, NEW p \in Threads, Acquire(p)
    PROVE  Once'
<1> DEFINE b == bind[p]
<1>0. b \in Binding
    BY DEF Inv, TypeOK
<1>1. /\ UNCHANGED <<latest, decided, history, resolved, sent, bind, outcome>>
      /\ claims[b].status = "none"
    BY DEF Acquire
<1>2. /\ claims'[b].status = "claimed"
      /\ \A c \in Binding : c # b => claims'[c] = claims[c]
    BY <1>0 DEF Inv, TypeOK, Acquire
<1>3. /\ pc'[p] = "adapter"
      /\ \A q \in Threads : q # p => pc'[q] = pc[q]
    BY DEF Inv, TypeOK, Acquire, Goto
<1>4. ~Superseded(b)
    BY <1>0, BoundsAssumption
    DEF Acquire, CurrentAndApproved, Superseded, Inv, TypeOK, Binding, Revisions
<1>5. resolved[b] = "none" => sent[b] = 0
    BY <1>0, <1>1, <1>4 DEF Once, ClaimableIsUnwritten
<1> HIDE DEF b
<1>6. WrittenOnceUnlessResolved'
    BY <1>1 DEF Once, WrittenOnceUnlessResolved
<1>7. WriterIsFirst'
    BY <1>1, <1>3, <1>5 DEF b, Once, WriterIsFirst, UnresolvedAt
<1>8. ClaimableIsUnwritten'
    BY <1>1, <1>2, <1>3
    DEF Once, ClaimableIsUnwritten, Superseded, FailedClaimIsRetryable
<1>. QED
    BY <1>6, <1>7, <1>8 DEF Once

\* What a request drops, its verdict says was not written.
LEMMA DropOnce ==
    ASSUME Inv, Once, NEW p \in Threads, DropFailed(p)
    PROVE  Once'
<1> DEFINE b == bind[p]
<1>0. b \in Binding /\ pc[p] = "drop"
    BY DEF Inv, TypeOK, DropFailed
<1>1. UNCHANGED <<latest, decided, history, resolved, sent, bind, outcome>>
    BY DEF DropFailed
<1>2. /\ \A c \in Binding : c # b => claims'[c] = claims[c]
      /\ claims[b].status # "failed" => claims'[b] = claims[b]
      /\ claims[b].status = "failed" => claims'[b].status = "none"
    BY <1>0 DEF Inv, TypeOK, DropFailed, NoClaim
<1>3. /\ pc'[p] = "claim"
      /\ \A q \in Threads : q # p => pc'[q] = pc[q]
    BY DEF Inv, TypeOK, DropFailed, Goto
<1>4. WrittenOnceUnlessResolved'
    BY <1>1 DEF Once, WrittenOnceUnlessResolved
<1>5. WriterIsFirst'
    BY <1>1, <1>3 DEF Once, WriterIsFirst, UnresolvedAt
<1>6. ASSUME NEW c \in Binding, resolved[c] = "none", ~Superseded(c),
             claims'[c].status = "none"
      PROVE  sent[c] = 0
    BY <1>0, <1>2, <1>6 DEF Once, ClaimableIsUnwritten
<1>7. ASSUME NEW c \in Binding, claims'[c].status = "failed"
      PROVE  claims[c].status = "failed"
    BY <1>2, <1>7
<1> HIDE DEF b
<1>8. ClaimableIsUnwritten'
    BY <1>1, <1>3, <1>6, <1>7
    DEF Once, ClaimableIsUnwritten, Superseded, FailedClaimIsRetryable
<1>. QED
    BY <1>4, <1>5, <1>8 DEF Once

\* A result that comes without a write tells the truth about the consent.
LEMMA UnsentOnce ==
    ASSUME Inv, Once, NEW p \in Threads, AdapterRefuses(p) \/ CreateLost(p)
    PROVE  Once'
<1>1. /\ UNCHANGED <<latest, decided, claims, history, resolved, sent, bind>>
      /\ pc[p] = "adapter"
    BY DEF AdapterRefuses, CreateLost, rows
<1>2. /\ pc'[p] = "finish"
      /\ \A q \in Threads : q # p => pc'[q] = pc[q] /\ outcome'[q] = outcome[q]
    BY DEF Inv, TypeOK, AdapterRefuses, CreateLost, Goto
<1>3. WrittenOnceUnlessResolved'
    BY <1>1 DEF Once, WrittenOnceUnlessResolved
<1>4. WriterIsFirst'
    BY <1>1, <1>2 DEF Once, WriterIsFirst, UnresolvedAt
<1>5. ClaimableIsUnwritten'
    BY <1>1, <1>2
    DEF Once, ClaimableIsUnwritten, Superseded, FailedClaimIsRetryable
<1>. QED
    BY <1>3, <1>4, <1>5 DEF Once

\* A create request is the first of its consent, and its sender the only writer.
LEMMA SendOnce ==
    ASSUME Inv, Once, NEW p \in Threads, SendCreate(p)
    PROVE  Once'
<1> DEFINE b == bind[p]
<1>0. b \in Binding /\ pc[p] = "adapter"
    BY DEF Inv, TypeOK, SendCreate
<1>1. UNCHANGED <<latest, decided, claims, history, resolved, bind>>
    BY DEF SendCreate, rows
<1>2. /\ sent'[b] = sent[b] + 1
      /\ \A c \in Binding : c # b => sent'[c] = sent[c]
    BY <1>0 DEF Inv, TypeOK, SendCreate
<1>3. /\ pc'[p] = "finish"
      /\ outcome'[p] # "clean"
      /\ \A q \in Threads : q # p => pc'[q] = pc[q] /\ outcome'[q] = outcome[q]
    BY DEF Inv, TypeOK, SendCreate, Goto
<1>4. resolved[b] = "none" => sent[b] = 0 /\ Claimed(b)
    BY <1>0 DEF Inv, Safe, Once, WriterIsFirst, UnresolvedAt, WriterHoldsClaim,
                Writing
<1>5. \A q \in Threads : pc[q] \in Writing /\ bind[q] = b /\ q # p
                          => resolved[b] # "none"
    BY <1>0 DEF Inv, Safe, OneWriterAtATime, Writing
<1> HIDE DEF b
<1>6. WrittenOnceUnlessResolved'
    BY <1>1, <1>2, <1>4 DEF Once, WrittenOnceUnlessResolved
<1>7. WriterIsFirst'
    BY <1>1, <1>2, <1>3, <1>5
    DEF b, Inv, TypeOK, Once, WriterIsFirst, UnresolvedAt, Writing
<1>8. ClaimableIsUnwritten'
    BY <1>1, <1>2, <1>3, <1>4
    DEF Claimed, Once, ClaimableIsUnwritten, Superseded, FailedClaimIsRetryable
<1>. QED
    BY <1>6, <1>7, <1>8 DEF Once

\* A finish fails a claim nobody is about to drop, and its receipt speaks of the
\* current consent: every other one of the revision is superseded.
LEMMA FinishOnce ==
    ASSUME Inv, Once, RetryIsAlone, NEW p \in Threads, Finish(p)
    PROVE  Once'
<1> DEFINE b == bind[p]
<1>0. b \in Binding /\ b.rev \in Revisions /\ pc[p] = "finish"
    BY DEF Inv, TypeOK, Binding, Finish
<1>1. UNCHANGED <<latest, decided, resolved, sent, bind, outcome>>
    BY DEF Finish
<1>2. /\ claims'[b].status \in {"applied", "failed"}
      /\ \A c \in Binding : c # b => claims'[c] = claims[c]
    BY <1>0 DEF Inv, TypeOK, Finish
<1>3. \A r \in Revisions : history'[r] = IF r = b.rev THEN outcome[p] ELSE history[r]
    BY <1>0 DEF Inv, TypeOK, Finish
<1>4. /\ pc'[p] = "idle"
      /\ \A q \in Threads : q # p => pc'[q] = pc[q]
    BY DEF Inv, TypeOK, Finish, Goto
<1>5. \A q \in Threads : ~(pc'[q] = "drop" /\ bind[q] = b)
    BY <1>0, <1>4 DEF RetryIsAlone, Writing
<1>6. resolved[b] = "none" /\ outcome[p] = "clean" => sent[b] = 0
    BY <1>0 DEF Once, WriterIsFirst, UnresolvedAt
<1>7. ASSUME NEW c \in Binding, c # b, c.rev = b.rev, claims[c].status = "failed"
      PROVE  Superseded(c)
  <2>1. CurrentAndApproved(b)
    BY <1>0 DEF Finish, Inv, Safe, ClaimedIsCurrent
  <2>2. c.dec <= decided[c.rev]
    BY <1>7 DEF Inv, Safe, RowsWereDecided
  <2>3. c.dec # b.dec
    BY <1>0, <1>7 DEF Binding
  <2>4. c.dec \in Nat /\ decided[c.rev] \in Int
    BY BoundsAssumption DEF Inv, TypeOK, Binding
  <2> HIDE DEF b
  <2>. QED
    BY <1>7, <2>1, <2>2, <2>3, <2>4 DEF Superseded, CurrentAndApproved
<1> HIDE DEF b
<1>8. WrittenOnceUnlessResolved'
    BY <1>1 DEF Once, WrittenOnceUnlessResolved
<1>9. WriterIsFirst'
    BY <1>1, <1>4 DEF Once, WriterIsFirst, UnresolvedAt
<1>10. ASSUME NEW c \in Binding, (resolved[c] = "none")', ~Superseded(c)',
             \/ claims'[c].status = "none"
             \/ /\ claims'[c].status = "failed"
                /\ \/ FailedClaimIsRetryable(c)'
                   \/ \E q \in Threads : pc'[q] = "drop" /\ bind'[q] = c
      PROVE  sent'[c] = 0
  <2>0. c.rev \in Revisions
    BY DEF Binding
  <2>1. CASE c = b
    BY <1>1, <1>2, <1>3, <1>5, <1>6, <1>10, <2>0, <2>1 DEF FailedClaimIsRetryable
  <2>2. CASE c # b
    <3>1. resolved[c] = "none" /\ ~Superseded(c)
      BY <1>1, <1>10 DEF Superseded
    <3>2. claims'[c] = claims[c]
      BY <1>2, <2>2
    <3>3. claims[c].status = "failed" => history'[c.rev] = history[c.rev]
      BY <1>3, <1>7, <2>0, <2>2, <3>1
    <3>4. \A q \in Threads : pc'[q] = "drop" => pc[q] = "drop"
      BY <1>4
    <3>. QED
      BY <1>1, <1>10, <3>1, <3>2, <3>3, <3>4
      DEF Once, ClaimableIsUnwritten, FailedClaimIsRetryable
  <2>. QED
    BY <2>1, <2>2
<1>11. ClaimableIsUnwritten'
    BY <1>10 DEF ClaimableIsUnwritten
<1>. QED
    BY <1>8, <1>9, <1>11 DEF Once

\* What an operator resolves is not spoken of any more.
LEMMA ReconcileOnce ==
    ASSUME Inv, Once, NEW b \in Binding, NEW result \in {"applied", "failed"},
           Reconcile(b, result)
    PROVE  Once'
<1>1. UNCHANGED <<latest, decided, history, sent, pc, bind, outcome>>
    BY DEF Reconcile
<1>2. /\ resolved'[b] # "none"
      /\ \A c \in Binding : c # b =>
            claims'[c] = claims[c] /\ resolved'[c] = resolved[c]
    BY DEF Inv, TypeOK, Reconcile
<1>3. WrittenOnceUnlessResolved'
    BY <1>1, <1>2 DEF Once, WrittenOnceUnlessResolved
<1>4. WriterIsFirst'
    BY <1>1, <1>2 DEF Inv, TypeOK, Once, WriterIsFirst, UnresolvedAt
<1>5. ClaimableIsUnwritten'
    BY <1>1, <1>2
    DEF Once, ClaimableIsUnwritten, Superseded, FailedClaimIsRetryable
<1>. QED
    BY <1>3, <1>4, <1>5 DEF Once

\* Every step of requests whose retries are alone keeps it, one lemma an action
\* that writes or comes to a place from where it may.
LEMMA OnceStep == Inv /\ Once /\ RetryIsAlone /\ [Next]_vars => Once'
<1> SUFFICES ASSUME Inv, Once, RetryIsAlone, [Next]_vars PROVE Once'
    OBVIOUS
<1>1. CASE AppendRevision \/ Tick \/ UNCHANGED vars
    BY <1>1, AsideStep DEF AppendRevision, Tick, rows, vars
<1>2. ASSUME NEW verdict \in {"approved", "rejected"}, RecordReview(verdict)
      PROVE  Once'
    BY <1>2, AsideStep DEF RecordReview
<1>3. ASSUME NEW p \in Threads, NEW b \in Binding, RequestApply(p, b)
      PROVE  Once'
  <2>1. \A q \in Threads : pc'[q] \in {"drop"} \cup Writing =>
           pc'[q] = pc[q] /\ bind'[q] = bind[q] /\ outcome'[q] = outcome[q]
    BY <1>3 DEF Inv, TypeOK, RequestApply, Goto, Writing
  <2>. QED
    BY <1>3, <2>1, AsideStep DEF RequestApply, rows
<1>4. ASSUME NEW p \in Threads, ThreadStep(p) PROVE Once'
  <2>1. CASE Refused(p) \/ FoundFailed(p) \/ FinishRollsBack(p)
    <3>1. \A q \in Threads : pc'[q] \in {"drop"} \cup Writing => pc'[q] = pc[q]
      BY <2>1 DEF Inv, TypeOK, Refused, FoundFailed, FinishRollsBack, Goto, Writing
    <3>. QED
      BY <2>1, <3>1, AsideStep DEF Refused, FoundFailed, FinishRollsBack, rows
  <2>2. CASE Acquire(p)
    BY <1>4, <2>2, AcquireOnce
  <2>3. CASE JudgeRetry(p)
    BY <1>4, <2>3, JudgeOnce
  <2>4. CASE DropFailed(p)
    BY <1>4, <2>4, DropOnce
  <2>5. CASE AdapterRefuses(p) \/ CreateLost(p)
    BY <1>4, <2>5, UnsentOnce
  <2>6. CASE SendCreate(p)
    BY <1>4, <2>6, SendOnce
  <2>7. CASE Finish(p)
    BY <1>4, <2>7, FinishOnce
  <2>. QED
    BY <1>4, <2>1, <2>2, <2>3, <2>4, <2>5, <2>6, <2>7 DEF ThreadStep
<1>5. ASSUME NEW p \in Threads, Abandon(p) PROVE Once'
  <2>1. \A q \in Threads : pc'[q] \in {"drop"} \cup Writing => pc'[q] = pc[q]
    BY <1>5 DEF Inv, TypeOK, Abandon, Goto, Writing
  <2>. QED
    BY <1>5, <2>1, AsideStep DEF Abandon, rows
<1>6. ASSUME NEW b \in Binding, NEW result \in {"applied", "failed"},
             Reconcile(b, result)
      PROVE  Once'
    BY <1>6, ReconcileOnce
<1>. QED
    BY <1>1, <1>2, <1>3, <1>4, <1>5, <1>6 DEF Next

\* A consent is written a second time only where a retry was not alone or an
\* operator resolved the claim: _failed_claim_is_retryable, read outside of the
\* transaction that deletes the claim, is safe for everything else that happens
\* (abandoned applies, lost answers, newer revisions and newer decisions).
THEOREM SecondWritesNeedOverlap ==
    Spec /\ []RetryIsAlone => []WrittenOnceUnlessResolved
<1>1. Once => WrittenOnceUnlessResolved
    BY DEF Once
<1>. QED
    BY <1>1, InitInv, NextInv, InitOnce, OnceStep, PTL DEF Spec

\* So the documented promise, one create request for each consent, holds of every
\* behaviour in which retries are alone and nobody resolves a claim by hand
\* (_wordpress_apply_claim_blocker).
COROLLARY PromiseOfTheBlocker ==
    Spec /\ []RetryIsAlone /\ [](\A b \in Binding : resolved[b] = "none")
        => []OneWritePerConsent
<1>1. WrittenOnceUnlessResolved /\ (\A b \in Binding : resolved[b] = "none")
        => OneWritePerConsent
    BY DEF WrittenOnceUnlessResolved, OneWritePerConsent
<1>. QED
    BY <1>1, SecondWritesNeedOverlap, PTL

-----------------------------------------------------------------------------
\* When an inspected consent is retried.  InspectedIsNotRetried fails, and the
\* run that shows it has an old receipt of the revision that says "clean".

\* A consent that was resolved keeps its claim row, and nobody is about to drop
\* it: inductive as long as the revision's receipt is not "clean".
ResolvedKeepsRow(b) ==
    /\ resolved[b] # "none" => claims[b].status # "none"
    /\ \A p \in Threads : pc[p] = "drop" => bind[p] # b

\* Only a verdict on a clean receipt leads to a drop, and only a drop takes a row
\* away.
LEMMA RowKept ==
    ASSUME TypeOK, [Next]_vars, NEW b \in Binding,
           history[b.rev] # "clean", ResolvedKeepsRow(b)
    PROVE  ResolvedKeepsRow(b)'
<1>0. /\ claims \in [Binding -> [status : ClaimStatus, at : 0 .. MaxClock]]
      /\ pc \in [Threads -> {"idle", "claim", "judge", "drop"} \cup Writing]
      /\ bind \in [Threads -> Binding]
    BY DEF TypeOK
<1>1. CASE AppendRevision \/ Tick \/ UNCHANGED vars
    BY <1>1 DEF AppendRevision, Tick, rows, vars, ResolvedKeepsRow
<1>2. ASSUME NEW verdict \in {"approved", "rejected"}, RecordReview(verdict)
      PROVE  ResolvedKeepsRow(b)'
    BY <1>2 DEF RecordReview, ResolvedKeepsRow
<1>3. ASSUME NEW p \in Threads, NEW c \in Binding, RequestApply(p, c)
      PROVE  ResolvedKeepsRow(b)'
    BY <1>0, <1>3 DEF RequestApply, Goto, rows, ResolvedKeepsRow
<1>4. ASSUME NEW p \in Threads, ThreadStep(p) PROVE ResolvedKeepsRow(b)'
  <2>1. CASE Acquire(p)
    BY <1>0, <1>4, <2>1 DEF Acquire, Goto, ResolvedKeepsRow
  <2>2. CASE Refused(p) \/ FoundFailed(p) \/ AdapterRefuses(p) \/ CreateLost(p)
             \/ SendCreate(p) \/ FinishRollsBack(p)
    BY <1>0, <1>4, <2>2
    DEF Refused, FoundFailed, AdapterRefuses, CreateLost, SendCreate,
        FinishRollsBack, Goto, rows, ResolvedKeepsRow
  <2>3. CASE JudgeRetry(p)
    <3>1. bind[p] = b => pc'[p] = "idle"
      BY <1>0, <2>3 DEF JudgeRetry, Goto, FailedClaimIsRetryable
    <3>2. UNCHANGED <<claims, resolved, bind>> /\ \A q \in Threads : q # p => pc'[q] = pc[q]
      BY <1>0, <2>3 DEF JudgeRetry, Goto, rows
    <3>. QED
      BY <3>1, <3>2 DEF ResolvedKeepsRow
  <2>4. CASE DropFailed(p)
    <3>1. bind[p] # b
      BY <2>4 DEF DropFailed, ResolvedKeepsRow
    <3>. QED
      BY <1>0, <1>4, <2>4, <3>1 DEF DropFailed, Goto, ResolvedKeepsRow
  <2>5. CASE Finish(p)
    BY <1>0, <1>4, <2>5 DEF Finish, Goto, ResolvedKeepsRow
  <2>. QED
    BY <1>4, <2>1, <2>2, <2>3, <2>4, <2>5 DEF ThreadStep
<1>5. ASSUME NEW p \in Threads, Abandon(p) PROVE ResolvedKeepsRow(b)'
    BY <1>0, <1>5 DEF Abandon, Goto, rows, ResolvedKeepsRow
<1>6. ASSUME NEW c \in Binding, NEW result \in {"applied", "failed"},
             Reconcile(c, result)
      PROVE  ResolvedKeepsRow(b)'
    BY <1>0, <1>6 DEF Reconcile, ResolvedKeepsRow, TypeOK
<1>. QED
    BY <1>1, <1>2, <1>3, <1>4, <1>5, <1>6 DEF Next

\* A consent an operator resolved is claimed again only if its revision once had
\* a receipt that says "clean": the resolution writes no receipt, so the retry
\* reads the one of an earlier attempt (reconcile_wordpress_revision_apply_claim).
THEOREM InspectedRetriesNeedCleanReceipt ==
    ASSUME NEW b \in Binding
    PROVE  Spec /\ [](history[b.rev] # "clean") =>
             [][resolved[b] = "failed" /\ ~Claimed(b) => ~Claimed(b)']_vars
<1>1. Init => ResolvedKeepsRow(b)
    BY DEF Init, ResolvedKeepsRow
<1>2. TypeOK /\ [Next]_vars /\ history[b.rev] # "clean" /\ ResolvedKeepsRow(b)
        => ResolvedKeepsRow(b)'
    BY RowKept
<1>3. TypeOK /\ [Next]_vars /\ ResolvedKeepsRow(b)
        => [resolved[b] = "failed" /\ ~Claimed(b) => ~Claimed(b)']_vars
  <2> SUFFICES ASSUME TypeOK, [Next]_vars, ResolvedKeepsRow(b),
                      resolved[b] = "failed", ~Claimed(b)
               PROVE  ~Claimed(b)'
    OBVIOUS
  <2>0. /\ claims \in [Binding -> [status : ClaimStatus, at : 0 .. MaxClock]]
        /\ claims[b].status # "none"
    BY DEF TypeOK, ResolvedKeepsRow
  <2>1. ASSUME NEW p \in Threads, ThreadStep(p) PROVE ~Claimed(b)'
    <3>1. CASE Acquire(p)
      <4>1. bind[p] # b
        BY <2>0, <3>1 DEF Acquire
      <4>. QED
        BY <2>0, <3>1, <4>1 DEF Acquire, Claimed
    <3>2. CASE DropFailed(p)
      BY <2>0, <3>2 DEF DropFailed, Claimed, NoClaim, TypeOK
    <3>3. CASE Finish(p)
      BY <2>0, <3>3 DEF Finish, Claimed, TypeOK
    <3>. QED
      BY <2>1, <3>1, <3>2, <3>3
      DEF ThreadStep, Refused, FoundFailed, JudgeRetry, AdapterRefuses,
          CreateLost, SendCreate, FinishRollsBack, rows, Claimed
  <2>2. ASSUME NEW c \in Binding, NEW result \in {"applied", "failed"},
               Reconcile(c, result)
        PROVE  ~Claimed(b)'
    BY <2>0, <2>2 DEF Reconcile, Claimed
  <2>. QED
    BY <2>1, <2>2 DEF Next, AppendRevision, RecordReview, RequestApply, Abandon,
                      Tick, rows, vars, Claimed
<1>. QED
    BY <1>1, <1>2, <1>3, InitTypes, NextTypes, PTL DEF Spec

-----------------------------------------------------------------------------
\* Who is behind a claim.

\* A work item has one claimed consent at most.
OneClaim == \A b, c \in Binding : Claimed(b) /\ Claimed(c) => b = c

\* While nothing was abandoned, a claimed consent has a request that writes
\* under it.
ClaimedIsServed ==
    faults = 0 =>
        \A b \in Binding : Claimed(b) =>
            \E p \in Threads : pc[p] \in Writing /\ bind[p] = b

\* A request stops writing by ending the claim it finds, or by dying.
LEMMA ServedStep ==
    ASSUME Inv, ClaimedIsServed, [Next]_vars
    PROVE  ClaimedIsServed'
<1> USE DEF Goto, Writing, rows
<1>types. /\ pc \in [Threads -> {"idle", "claim", "judge", "drop"} \cup Writing]
          /\ bind \in [Threads -> Binding] /\ faults \in Nat
          /\ claims \in [Binding -> [status : ClaimStatus, at : 0 .. MaxClock]]
    BY BoundsAssumption DEF Inv, TypeOK
<1> SUFFICES ASSUME faults' = 0, NEW b \in Binding, Claimed(b)'
             PROVE  \E p \in Threads : pc'[p] \in Writing /\ bind'[p] = b
    BY DEF ClaimedIsServed
<1>1. ASSUME Claimed(b), faults = 0
      PROVE  \E q \in Threads : pc[q] \in Writing /\ bind[q] = b
    BY <1>1 DEF ClaimedIsServed
<1>2. ASSUME NEW p \in Threads, Acquire(p)
      PROVE  \E q \in Threads : pc'[q] \in Writing /\ bind'[q] = b
  <2>1. CASE bind[p] = b
    BY <1>2, <1>types, <2>1 DEF Acquire
  <2>2. CASE bind[p] # b
    <3>1. Claimed(b) /\ faults = 0
      BY <1>2, <1>types, <2>2 DEF Acquire, Claimed
    <3>. QED
      BY <1>1, <1>2, <1>types, <3>1 DEF Acquire
  <2>. QED
    BY <2>1, <2>2
<1>3. ASSUME NEW p \in Threads, Finish(p)
      PROVE  \E q \in Threads : pc'[q] \in Writing /\ bind'[q] = b
  <2>1. bind[p] # b
    BY <1>3, <1>types DEF Finish, Claimed
  <2>2. Claimed(b) /\ faults = 0
    BY <1>3, <1>types, <2>1 DEF Finish, Claimed
  <2>. QED
    BY <1>1, <1>3, <1>types, <2>1, <2>2 DEF Finish
<1>4. ASSUME NEW p \in Threads, FinishRollsBack(p)
      PROVE  \E q \in Threads : pc'[q] \in Writing /\ bind'[q] = b
  <2>1. Claimed(b) /\ faults = 0 /\ bind[p] # b
    BY <1>4 DEF FinishRollsBack, Claimed
  <2>. QED
    BY <1>1, <1>4, <1>types, <2>1 DEF FinishRollsBack
<1>5. ASSUME NEW p \in Threads, AdapterRefuses(p) \/ CreateLost(p) \/ SendCreate(p)
      PROVE  \E q \in Threads : pc'[q] \in Writing /\ bind'[q] = b
  <2>1. Claimed(b) /\ faults = 0 /\ bind' = bind
    BY <1>5 DEF AdapterRefuses, CreateLost, SendCreate, Claimed
  <2>2. PICK q \in Threads : pc[q] \in Writing /\ bind[q] = b
    BY <1>1, <2>1
  <2>3. pc'[q] \in Writing
    BY <1>5, <1>types, <2>2 DEF AdapterRefuses, CreateLost, SendCreate
  <2>. QED
    BY <2>1, <2>2, <2>3
<1>6. ASSUME NEW p \in Threads,
             \/ Refused(p) \/ FoundFailed(p) \/ JudgeRetry(p) \/ DropFailed(p)
             \/ \E c \in Binding : RequestApply(p, c)
      PROVE  \E q \in Threads : pc'[q] \in Writing /\ bind'[q] = b
  <2>1. Claimed(b)
    <3>1. CASE DropFailed(p)
      BY <1>types, <3>1 DEF DropFailed, Claimed, NoClaim
    <3>2. CASE ~DropFailed(p)
      BY <1>6, <3>2 DEF Refused, FoundFailed, JudgeRetry, RequestApply, Claimed
    <3>. QED
      BY <3>1, <3>2
  <2>2. /\ faults = 0 /\ pc[p] \notin Writing
        /\ \A q \in Threads \ {p} : pc'[q] = pc[q] /\ bind'[q] = bind[q]
    BY <1>6, <1>types
    DEF Refused, FoundFailed, JudgeRetry, DropFailed, RequestApply
  <2>. QED
    BY <1>1, <2>1, <2>2
<1>7. ASSUME NEW c \in Binding, NEW result \in {"applied", "failed"},
             Reconcile(c, result)
      PROVE  \E q \in Threads : pc'[q] \in Writing /\ bind'[q] = b
  <2>1. Claimed(b)
    BY <1>7, <1>types DEF Reconcile, Claimed
  <2>. QED
    BY <1>1, <1>7, <2>1 DEF Reconcile
<1>8. CASE UNCHANGED <<claims, pc, bind, faults>>
    BY <1>1, <1>8 DEF Claimed
<1>9. \A p \in Threads : ~Abandon(p)
    BY <1>types DEF Abandon
<1>10. \/ UNCHANGED <<claims, pc, bind, faults>>
       \/ \E p \in Threads :
            \/ ThreadStep(p)
            \/ \E c \in Binding : RequestApply(p, c)
       \/ \E c \in Binding, result \in {"applied", "failed"} : Reconcile(c, result)
    BY <1>9 DEF Next, vars, AppendRevision, RecordReview, Tick
<1>. QED
    BY <1>2, <1>3, <1>4, <1>5, <1>6, <1>7, <1>8, <1>10 DEF ThreadStep

\* The resolution of a claim names no consent: it takes the one claimed row of
\* the work item, and there never is another
\* (reconcile_wordpress_revision_apply_claim).
THEOREM WorkItemsHaveOneClaim == Spec => []OneClaim
<1>1. Inv => OneClaim
    BY CurrentIsUnique DEF Inv, Safe, ClaimedIsCurrent, OneClaim
<1>. QED
    BY <1>1, Invariance, PTL

\* A consent stays claimed without a request that writes under it only when one
\* was abandoned: refusals, errors, retries and late finishes leave no claim
\* behind that an operator would have to resolve (apply_action).
THEOREM ClaimsHaveWriters == Spec => []ClaimedIsServed
<1>1. Init => ClaimedIsServed
    BY DEF Init, ClaimedIsServed, Claimed, NoClaim
<1>2. Inv /\ ClaimedIsServed /\ [Next]_vars => ClaimedIsServed'
    BY ServedStep
<1>. QED
    BY <1>1, <1>2, Invariance, PTL DEF Spec

=============================================================================
