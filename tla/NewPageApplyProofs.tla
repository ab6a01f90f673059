------------------------- MODULE NewPageApplyProofs -------------------------
(***************************************************************************)
(* Proofs about NewPageApply for every number of threads, actions,         *)
(* revisions and requests.  The inductive invariant Inv ties every draft   *)
(* to the claim it was made under, and every claim to its writer until the *)
(* row is final.                                                           *)
(***************************************************************************)
EXTENDS NewPageApply, TLAPS

\* The draft thread p made, if it made one.
DraftOf(p) == [id |-> number[p], rev |-> Target(p), act |-> doing[p]]

\* A request serves an action that names a revision, has no outcome before its
\* executor ran, and told the truth when it has one.
RequestsAreSound ==
    \A p \in Threads :
        /\ pc[p] # "idle" => Target(p) # 0
        /\ pc[p] \in {"idle", "claim", "executor"} => outcome[p] = "none"
        /\ pc[p] = "finish" /\ outcome[p] \in Succeeded => DraftOf(p) \in drafts
        /\ pc[p] = "record" /\ outcome[p] \in Succeeded =>
             "applied" \in audits[doing[p]]

\* A row belongs to an action that names its revision, and what it answers is
\* a draft of the two.
ClaimsAreSound ==
    \A r \in Revisions :
        /\ claims[r].status # "none" => names[claims[r].act] = r
        /\ claims[r].post # 0 =>
             [id |-> claims[r].post, rev |-> r, act |-> claims[r].act] \in drafts

\* A draft was made under the claim of its revision, and a thread that is
\* about to make one finds none.
DraftsAreClaimed ==
    /\ \A x \in drafts : claims[x.rev].status # "none"
    /\ \A p \in Threads : pc[p] = "executor" => \A x \in drafts : x.rev # Target(p)

Safe ==
    /\ WriterOwnsClaim
    /\ RequestsAreSound
    /\ ClaimsAreSound
    /\ DraftsAreClaimed
    /\ OneDraftPerRevision
    /\ AppliedIffAudited

\* Inductive: NextInv.
Inv == TypeOK /\ Safe

-----------------------------------------------------------------------------
\* Types.

\* The default action is an action.
LEMMA AnyActionType == AnyAction \in Actions
    BY BoundsAssumption DEF AnyAction

\* The empty tables are well typed.
LEMMA InitTypes == Init => TypeOK
<1> SUFFICES ASSUME Init PROVE TypeOK
    OBVIOUS
<1>1. [status |-> "none", act |-> AnyAction, post |-> 0] \in Claim
    BY AnyActionType DEF Claim
<1>. QED
    BY <1>1, AnyActionType, BoundsAssumption
    DEF Init, TypeOK, Requests, Outcome, Writing

\* A thread that is not idle has the revision of its action as target.
LEMMA TargetType ==
    ASSUME TypeOK, RequestsAreSound, NEW p \in Threads, pc[p] # "idle"
    PROVE  Target(p) \in Revisions
    BY DEF TypeOK, RequestsAreSound, Target

\* The row a finish writes is a row.
LEMMA FinishedType ==
    ASSUME TypeOK, RequestsAreSound, NEW p \in Threads, pc[p] # "idle"
    PROVE  /\ Finished(p) \in Claim
           /\ Finished(p).status =
                (IF outcome[p] \in Succeeded THEN "applied" ELSE "failed")
           /\ Finished(p).post = (IF outcome[p] = "created" THEN number[p] ELSE 0)
           /\ Finished(p).act = claims[Target(p)].act
<1>1. Target(p) \in Revisions
    BY TargetType
<1>2. claims[Target(p)] \in Claim /\ number[p] \in Requests
    BY <1>1 DEF TypeOK
<1>. QED
    BY <1>2 DEF Finished, Claim

\* Every transaction and every executor call keeps the variables in their types.
LEMMA NextTypes == TypeOK /\ RequestsAreSound /\ [Next]_vars => TypeOK'
<1> SUFFICES ASSUME TypeOK, RequestsAreSound, [Next]_vars PROVE TypeOK'
    OBVIOUS
<1> USE AnyActionType, BoundsAssumption
<1>1. CASE AppendRevision
    BY <1>1 DEF TypeOK, AppendRevision, thread
<1>2. ASSUME NEW verdict \in {"approved", "rejected"}, RecordReview(verdict)
      PROVE  TypeOK'
    BY <1>2 DEF TypeOK, RecordReview, thread
<1>3. ASSUME NEW a \in Actions, CreateAction(a) PROVE TypeOK'
  <2>1. latest \in Revisions
    BY <1>3 DEF TypeOK, CreateAction, Revisions
  <2>. QED
    BY <1>3, <2>1 DEF TypeOK, CreateAction, thread
<1>4. ASSUME NEW a \in Actions, RequestBlocked(a) PROVE TypeOK'
    BY <1>4 DEF TypeOK, RequestBlocked, thread
<1>5. ASSUME NEW p \in Threads, NEW a \in Actions, RequestApply(p, a)
      PROVE  TypeOK'
  <2>1. requests + 1 \in Requests
    BY <1>5 DEF TypeOK, RequestApply, Requests
  <2>. QED
    BY <1>5, <2>1 DEF TypeOK, RequestApply, Goto, rows, Requests
<1>6. ASSUME NEW p \in Threads, Acquire(p) PROVE TypeOK'
  <2>1. [status |-> "claimed", act |-> doing[p], post |-> 0] \in Claim
    BY DEF TypeOK, Claim
  <2>. QED
    BY <1>6, <2>1 DEF TypeOK, Acquire, Goto, Writing, thread
<1>7. ASSUME NEW p \in Threads, Refused(p) \/ NothingCreated(p) PROVE TypeOK'
    BY <1>7
    DEF TypeOK, Refused, NothingCreated, Goto, rows, thread, Outcome, Writing
<1>8. ASSUME NEW p \in Threads, CreateDraft(p) PROVE TypeOK'
  <2>1. Target(p) \in Revisions
    BY <1>8, TargetType DEF CreateDraft
  <2>2. [id |-> number[p], rev |-> Target(p), act |-> doing[p]] \in Draft
    BY <2>1 DEF TypeOK, Draft
  <2>. QED
    BY <1>8, <2>2 DEF TypeOK, CreateDraft, Goto, rows, Outcome, Writing
<1>9. ASSUME NEW p \in Threads, Finish(p) PROVE TypeOK'
  <2>1. Finished(p) \in Claim
    BY <1>9, FinishedType DEF Finish
  <2>2. claims' \in [Revisions -> Claim]
    BY <1>9, <2>1 DEF TypeOK, Finish
  <2>3. audits' \in [Actions -> SUBSET {"applied", "blocked"}]
    BY <1>9 DEF TypeOK, Finish, Audited
  <2>. QED
    BY <1>9, <2>2, <2>3 DEF TypeOK, Finish, Goto, thread
<1>10. ASSUME NEW p \in Threads, Record(p) \/ Abandon(p) PROVE TypeOK'
  <2>1. /\ pc' \in [Threads -> {"idle", "claim", "record"} \cup Writing]
        /\ doing' \in [Threads -> Actions]
        /\ number' \in [Threads -> Requests]
        /\ outcome' \in [Threads -> Outcome]
    BY <1>10 DEF TypeOK, Record, Abandon, End, Goto, Requests, Outcome
  <2>2. audits' \in [Actions -> SUBSET {"applied", "blocked"}]
    BY <1>10 DEF TypeOK, Record, Abandon, rows, Audited
  <2>. QED
    BY <1>10, <2>1, <2>2 DEF TypeOK, Record, Abandon, rows
<1>11. CASE UNCHANGED vars
    BY <1>11 DEF TypeOK, vars
<1>. QED
    BY <1>1, <1>2, <1>3, <1>4, <1>5, <1>6, <1>7, <1>8, <1>9, <1>10, <1>11
    DEF Next, ThreadStep

-----------------------------------------------------------------------------
\* What the steps that write to the rows and to WordPress disturb.

\* Nothing is claimed and nobody works at first.
LEMMA InitSafe == Init => Safe
<1> SUFFICES ASSUME Init PROVE Safe
    OBVIOUS
<1>1. WriterOwnsClaim /\ RequestsAreSound /\ OneDraftPerRevision
    BY DEF Init, WriterOwnsClaim, RequestsAreSound, OneDraftPerRevision, Writing
<1>2. ClaimsAreSound /\ DraftsAreClaimed
    BY DEF Init, ClaimsAreSound, DraftsAreClaimed
<1>3. AppliedIffAudited
    BY DEF Init, AppliedIffAudited, AppliedBy
<1>. QED
    BY <1>1, <1>2, <1>3 DEF Safe

\* Steps that leave claims, drafts, names and threads alone.
LEMMA EditorsSafe ==
    ASSUME Inv,
           UNCHANGED <<names, claims, drafts, pc, doing, number, outcome>>,
           \A a \in Actions :
              /\ audits[a] \subseteq audits'[a]
              /\ "applied" \in audits'[a] => "applied" \in audits[a]
    PROVE  Safe'
<1>1. WriterOwnsClaim'
    BY DEF Inv, Safe, WriterOwnsClaim, Target
<1>2. RequestsAreSound'
    BY DEF Inv, Safe, TypeOK, RequestsAreSound, Target, DraftOf
<1>3. ClaimsAreSound' /\ DraftsAreClaimed' /\ OneDraftPerRevision'
    BY DEF Inv, Safe, ClaimsAreSound, DraftsAreClaimed, OneDraftPerRevision, Target
<1>4. AppliedIffAudited'
    BY DEF Inv, Safe, AppliedIffAudited, AppliedBy
<1>. QED
    BY <1>1, <1>2, <1>3, <1>4 DEF Safe

\* A new action has no claim, no draft and no request yet.
LEMMA CreateActionSafe ==
    ASSUME Inv, NEW a \in Actions, CreateAction(a)
    PROVE  Safe'
<1>1. /\ names[a] = 0
      /\ names' = [names EXCEPT ![a] = latest]
      /\ UNCHANGED <<claims, drafts, audits, pc, doing, number, outcome>>
      /\ latest \in Revisions
    BY DEF Inv, TypeOK, CreateAction, thread, Revisions
<1>2. \A b \in Actions : b # a => names'[b] = names[b]
    BY <1>1 DEF Inv, TypeOK
<1>3. \A p \in Threads : pc[p] # "idle" => doing[p] # a /\ Target(p)' = Target(p)
    BY <1>1, <1>2 DEF Inv, Safe, TypeOK, RequestsAreSound, Target
<1>4. ASSUME NEW r \in Revisions, claims[r].status # "none"
      PROVE  claims[r].act # a
  <2>1. names[claims[r].act] = r
    BY <1>4 DEF Inv, Safe, ClaimsAreSound
  <2>2. r # 0
    BY BoundsAssumption DEF Revisions
  <2>. QED
    BY <1>1, <2>1, <2>2
<1>5. WriterOwnsClaim'
    BY <1>1, <1>3 DEF Inv, Safe, WriterOwnsClaim, Writing
<1>6. RequestsAreSound'
    BY <1>1, <1>3 DEF Inv, Safe, RequestsAreSound, DraftOf
<1>7. ClaimsAreSound'
  <2>1. ASSUME NEW r \in Revisions PROVE claims[r].act \in Actions
    BY DEF Inv, TypeOK, Claim
  <2>2. ASSUME NEW r \in Revisions, claims[r].status # "none"
        PROVE  names'[claims[r].act] = names[claims[r].act]
    BY <1>2, <1>4, <2>1, <2>2
  <2>. QED
    BY <1>1, <2>2 DEF Inv, Safe, ClaimsAreSound
<1>8. DraftsAreClaimed' /\ OneDraftPerRevision'
    BY <1>1, <1>3 DEF Inv, Safe, DraftsAreClaimed, OneDraftPerRevision
<1>9. ASSUME NEW b \in Actions, NEW r \in Revisions
      PROVE  AppliedBy(b, r)' <=> AppliedBy(b, r)
    BY <1>1, <1>2, <1>4 DEF AppliedBy
<1>10. AppliedIffAudited'
    BY <1>1, <1>9 DEF Inv, Safe, AppliedIffAudited
<1>. QED
    BY <1>5, <1>6, <1>7, <1>8, <1>10 DEF Safe

\* Steps of one thread that write neither claims nor drafts nor audits, and
\* enter no place where the thread writes: a request comes or is refused.
LEMMA RequestSafe ==
    ASSUME Inv, NEW p \in Threads,
           \/ \E a \in Actions : RequestApply(p, a)
           \/ Refused(p)
    PROVE  Safe'
<1>1. /\ UNCHANGED <<names, claims, drafts, audits, outcome>>
      /\ outcome[p] = "none"
      /\ pc'[p] \in {"claim", "record"}
      /\ Target(p)' # 0
    BY DEF Inv, Safe, TypeOK, RequestsAreSound, RequestApply, Refused, Goto, rows,
           thread, Target
<1>2. \A q \in Threads : q # p =>
         pc'[q] = pc[q] /\ doing'[q] = doing[q] /\ number'[q] = number[q]
    BY DEF Inv, TypeOK, RequestApply, Refused, Goto, thread
<1>3. \A q \in Threads : q # p => Target(q)' = Target(q) /\ DraftOf(q)' = DraftOf(q)
    BY <1>1, <1>2 DEF Target, DraftOf
<1>4. WriterOwnsClaim'
    BY <1>1, <1>2, <1>3 DEF Inv, Safe, WriterOwnsClaim, Writing
<1>5. RequestsAreSound'
  <2> SUFFICES ASSUME NEW q \in Threads
               PROVE  /\ pc'[q] # "idle" => Target(q)' # 0
                      /\ pc'[q] \in {"idle", "claim", "executor"} => outcome'[q] = "none"
                      /\ pc'[q] = "finish" /\ outcome'[q] \in Succeeded =>
                           DraftOf(q)' \in drafts'
                      /\ pc'[q] = "record" /\ outcome'[q] \in Succeeded =>
                           "applied" \in audits'[doing'[q]]
    BY DEF RequestsAreSound
  <2>1. CASE q = p
    BY <1>1, <2>1 DEF Succeeded
  <2>2. CASE q # p
    BY <1>1, <1>2, <1>3, <2>2 DEF Inv, Safe, RequestsAreSound
  <2>. QED
    BY <2>1, <2>2
<1>6. ClaimsAreSound' /\ OneDraftPerRevision' /\ AppliedIffAudited'
    BY <1>1
    DEF Inv, Safe, ClaimsAreSound, OneDraftPerRevision, AppliedIffAudited, AppliedBy
<1>7. DraftsAreClaimed'
    BY <1>1, <1>2, <1>3 DEF Inv, Safe, DraftsAreClaimed
<1>. QED
    BY <1>4, <1>5, <1>6, <1>7 DEF Safe

\* A claim is inserted: for a revision without a claim, and so without a draft
\* and without a thread that works on it.
LEMMA AcquireSafe ==
    ASSUME Inv, NEW p \in Threads, Acquire(p)
    PROVE  Safe'
<1> DEFINE r == Target(p)
<1>1. /\ r \in Revisions
      /\ claims[r].status = "none"
      /\ claims' = [claims EXCEPT ![r] =
                      [status |-> "claimed", act |-> doing[p], post |-> 0]]
      /\ pc' = [pc EXCEPT ![p] = "executor"]
      /\ UNCHANGED <<names, drafts, audits, doing, number, outcome>>
      /\ outcome[p] = "none"
      /\ pc[p] = "claim"
      /\ doing[p] \in Actions
    BY TargetType DEF Inv, Safe, TypeOK, RequestsAreSound, Acquire, Goto, thread
<1>2. /\ claims'[r].status = "claimed"
      /\ claims'[r].act = doing[p]
      /\ claims'[r].post = 0
      /\ \A s \in Revisions : s # r => claims'[s] = claims[s]
    BY <1>1 DEF Inv, TypeOK
<1>3. /\ pc'[p] = "executor"
      /\ \A q \in Threads : q # p => pc'[q] = pc[q]
      /\ \A q \in Threads : Target(q)' = Target(q) /\ DraftOf(q)' = DraftOf(q)
    BY <1>1 DEF Inv, TypeOK, Target, DraftOf
<1>4. \A q \in Threads : pc[q] \in Writing => Target(q) # r /\ Target(q) \in Revisions
    BY <1>1, TargetType DEF Inv, Safe, WriterOwnsClaim, Writing
<1>5. WriterOwnsClaim'
  <2>1. ASSUME NEW q \in Threads, pc'[q] \in Writing
        PROVE  /\ Target(q)' # 0
               /\ claims'[Target(q)'].status = "claimed"
               /\ claims'[Target(q)'].act = doing'[q]
    <3>1. CASE q = p
      BY <1>1, <1>2, <1>3, <3>1 DEF Revisions
    <3>2. CASE q # p
      BY <1>1, <1>2, <1>3, <1>4, <2>1, <3>2 DEF Inv, Safe, WriterOwnsClaim
    <3>. QED
      BY <3>1, <3>2
  <2>2. ASSUME NEW q \in Threads, NEW s \in Threads,
               pc'[q] \in Writing, pc'[s] \in Writing, Target(q)' = Target(s)'
        PROVE  q = s
    BY <1>3, <1>4, <2>2 DEF Inv, Safe, WriterOwnsClaim
  <2>. QED
    BY <2>1, <2>2 DEF WriterOwnsClaim
<1>6. RequestsAreSound'
    BY <1>1, <1>3 DEF Inv, Safe, RequestsAreSound
<1>7. \A x \in drafts : x.rev # r
    BY <1>1 DEF Inv, Safe, DraftsAreClaimed
<1>8. ClaimsAreSound'
  <2>1. ASSUME NEW s \in Revisions
        PROVE  /\ claims'[s].status # "none" => names'[claims'[s].act] = s
               /\ claims'[s].post # 0 =>
                    [id |-> claims'[s].post, rev |-> s, act |-> claims'[s].act] \in drafts'
    <3>1. CASE s = r
      BY <1>1, <1>2, <3>1 DEF Target
    <3>2. CASE s # r
      BY <1>1, <1>2, <3>2 DEF Inv, Safe, ClaimsAreSound
    <3>. QED
      BY <3>1, <3>2
  <2>. QED
    BY <2>1 DEF ClaimsAreSound
<1>9. DraftsAreClaimed'
  <2>1. \A x \in drafts : x.rev \in Revisions
    BY DEF Inv, TypeOK, Draft
  <2>. QED
    BY <1>1, <1>2, <1>3, <1>7, <2>1 DEF Inv, Safe, DraftsAreClaimed
<1>10. OneDraftPerRevision'
    BY <1>1 DEF Inv, Safe, OneDraftPerRevision
<1>11. ASSUME NEW a \in Actions, NEW s \in Revisions
       PROVE  AppliedBy(a, s)' <=> AppliedBy(a, s)
    BY <1>1, <1>2 DEF AppliedBy
<1>12. AppliedIffAudited'
    BY <1>1, <1>11 DEF Inv, Safe, AppliedIffAudited
<1>. QED
    BY <1>5, <1>6, <1>8, <1>9, <1>10, <1>12 DEF Safe

\* The executor of the only thread that holds the claim of the revision ends,
\* with or without a draft.
LEMMA ExecutorSafe ==
    ASSUME Inv, NEW p \in Threads, NothingCreated(p) \/ CreateDraft(p)
    PROVE  Safe'
<1> DEFINE r == Target(p)
<1>1. /\ r \in Revisions
      /\ pc[p] = "executor"
      /\ pc' = [pc EXCEPT ![p] = "finish"]
      /\ UNCHANGED <<names, claims, audits, doing, number>>
      /\ claims[r].status = "claimed"
      /\ drafts' = drafts \/ drafts' = drafts \cup {DraftOf(p)}
      /\ outcome'[p] \in Succeeded => DraftOf(p) \in drafts'
    BY TargetType
    DEF Inv, Safe, TypeOK, WriterOwnsClaim, NothingCreated, CreateDraft, Goto, rows,
        Writing, DraftOf, Succeeded
<1>2. /\ pc'[p] = "finish"
      /\ \A q \in Threads : q # p => pc'[q] = pc[q] /\ outcome'[q] = outcome[q]
      /\ \A q \in Threads : Target(q)' = Target(q) /\ DraftOf(q)' = DraftOf(q)
    BY <1>1 DEF Inv, TypeOK, NothingCreated, CreateDraft, Target, DraftOf
<1>3. \A x \in drafts : x.rev # r
    BY <1>1 DEF Inv, Safe, DraftsAreClaimed
<1>4. \A q \in Threads : q # p /\ pc[q] = "executor" => Target(q) # r
    BY <1>1 DEF Inv, Safe, WriterOwnsClaim, Writing
<1>5. WriterOwnsClaim'
    BY <1>1, <1>2 DEF Inv, Safe, WriterOwnsClaim, Writing
<1>6. RequestsAreSound'
  <2> SUFFICES ASSUME NEW q \in Threads
               PROVE  /\ pc'[q] # "idle" => Target(q)' # 0
                      /\ pc'[q] \in {"idle", "claim", "executor"} => outcome'[q] = "none"
                      /\ pc'[q] = "finish" /\ outcome'[q] \in Succeeded =>
                           DraftOf(q)' \in drafts'
                      /\ pc'[q] = "record" /\ outcome'[q] \in Succeeded =>
                           "applied" \in audits'[doing'[q]]
    BY DEF RequestsAreSound
  <2>1. CASE q = p
    BY <1>1, <1>2, <2>1 DEF Revisions
  <2>2. CASE q # p
    BY <1>1, <1>2, <2>2 DEF Inv, Safe, RequestsAreSound
  <2>. QED
    BY <2>1, <2>2
<1>7. ClaimsAreSound'
    BY <1>1 DEF Inv, Safe, ClaimsAreSound
<1>8. DraftOf(p).rev = r
    BY DEF DraftOf
<1>9. DraftsAreClaimed'
    BY <1>1, <1>2, <1>4, <1>8 DEF Inv, Safe, DraftsAreClaimed
<1>10. OneDraftPerRevision'
    BY <1>1, <1>3, <1>8 DEF Inv, Safe, OneDraftPerRevision
<1>11. AppliedIffAudited'
    BY <1>1 DEF Inv, Safe, AppliedIffAudited, AppliedBy
<1>. QED
    BY <1>5, <1>6, <1>7, <1>9, <1>10, <1>11 DEF Safe

\* The claim and the audit of its outcome become final together.
LEMMA FinishSafe ==
    ASSUME Inv, NEW p \in Threads, Finish(p)
    PROVE  Safe'
<1> DEFINE r == Target(p)
<1>1. /\ r \in Revisions
      /\ pc[p] = "finish"
      /\ claims[r].status = "claimed"
      /\ claims[r].act = doing[p]
      /\ doing[p] \in Actions
      /\ claims' = [claims EXCEPT ![r] = Finished(p)]
      /\ audits' = [audits EXCEPT ![doing[p]] = @ \cup {Audited(p)}]
      /\ pc' = [pc EXCEPT ![p] = "record"]
      /\ UNCHANGED <<names, drafts, doing, number, outcome>>
    BY TargetType
    DEF Inv, Safe, TypeOK, WriterOwnsClaim, Finish, Goto, thread, Writing
<1>2. /\ Finished(p).status = (IF outcome[p] \in Succeeded THEN "applied" ELSE "failed")
      /\ Finished(p).post = (IF outcome[p] = "created" THEN number[p] ELSE 0)
      /\ Finished(p).act = doing[p]
    BY <1>1, FinishedType DEF Inv, Safe
<1>3. /\ claims'[r] = Finished(p)
      /\ \A s \in Revisions : s # r => claims'[s] = claims[s]
    BY <1>1 DEF Inv, TypeOK
<1>4. /\ pc'[p] = "record"
      /\ \A q \in Threads : q # p => pc'[q] = pc[q]
      /\ \A q \in Threads : Target(q)' = Target(q) /\ DraftOf(q)' = DraftOf(q)
    BY <1>1 DEF Inv, TypeOK, Target, DraftOf
<1>5. \A q \in Threads : q # p /\ pc[q] \in Writing =>
         Target(q) # r /\ Target(q) \in Revisions
    BY <1>1, TargetType DEF Inv, Safe, WriterOwnsClaim, Writing
<1>6. /\ audits'[doing[p]] = audits[doing[p]] \cup {Audited(p)}
      /\ \A a \in Actions : a # doing[p] => audits'[a] = audits[a]
    BY <1>1 DEF Inv, TypeOK
<1>7. WriterOwnsClaim'
  <2>1. \A q \in Threads : pc'[q] \in Writing => q # p /\ pc[q] \in Writing
    BY <1>4 DEF Writing
  <2>2. ASSUME NEW q \in Threads, pc'[q] \in Writing
        PROVE  claims'[Target(q)'] = claims[Target(q)]
    BY <1>3, <1>4, <1>5, <2>1, <2>2
  <2>. QED
    BY <1>1, <1>4, <2>1, <2>2 DEF Inv, Safe, WriterOwnsClaim
<1>8. RequestsAreSound'
  <2> SUFFICES ASSUME NEW q \in Threads
               PROVE  /\ pc'[q] # "idle" => Target(q)' # 0
                      /\ pc'[q] \in {"idle", "claim", "executor"} => outcome'[q] = "none"
                      /\ pc'[q] = "finish" /\ outcome'[q] \in Succeeded =>
                           DraftOf(q)' \in drafts'
                      /\ pc'[q] = "record" /\ outcome'[q] \in Succeeded =>
                           "applied" \in audits'[doing'[q]]
    BY DEF RequestsAreSound
  <2>1. CASE q = p
    BY <1>1, <1>4, <1>6, <2>1 DEF Revisions, Audited
  <2>2. CASE q # p
    <3>1. audits[doing[q]] \subseteq audits'[doing[q]]
      BY <1>6 DEF Inv, TypeOK
    <3>. QED
      BY <1>1, <1>4, <2>2, <3>1 DEF Inv, Safe, RequestsAreSound
  <2>. QED
    BY <2>1, <2>2
<1>9. ClaimsAreSound'
  <2> SUFFICES ASSUME NEW s \in Revisions
               PROVE  /\ claims'[s].status # "none" => names'[claims'[s].act] = s
                      /\ claims'[s].post # 0 =>
                           [id |-> claims'[s].post, rev |-> s, act |-> claims'[s].act]
                             \in drafts'
    BY DEF ClaimsAreSound
  <2>1. CASE s = r
    <3>1. names'[claims'[s].act] = s
      BY <1>1, <1>2, <1>3, <2>1 DEF Target
    <3>2. claims'[s].post # 0 => DraftOf(p) \in drafts /\ claims'[s].post = number[p]
      BY <1>1, <1>2, <1>3, <2>1 DEF Inv, Safe, RequestsAreSound, Succeeded
    <3>. QED
      BY <1>1, <1>2, <1>3, <2>1, <3>1, <3>2 DEF DraftOf
  <2>2. CASE s # r
    BY <1>1, <1>3, <2>2 DEF Inv, Safe, ClaimsAreSound
  <2>. QED
    BY <2>1, <2>2
<1>10. DraftsAreClaimed'
  <2>1. \A x \in drafts : x.rev \in Revisions
    BY DEF Inv, TypeOK, Draft
  <2>2. claims'[r].status # "none"
    BY <1>2, <1>3
  <2>3. \A x \in drafts' : claims'[x.rev].status # "none"
    BY <1>1, <1>3, <2>1, <2>2 DEF Inv, Safe, DraftsAreClaimed
  <2>. QED
    BY <1>1, <1>4, <2>3 DEF Inv, Safe, DraftsAreClaimed
<1>11. OneDraftPerRevision'
    BY <1>1 DEF Inv, Safe, OneDraftPerRevision
<1>12. AppliedIffAudited'
  <2> SUFFICES ASSUME NEW a \in Actions
               PROVE  "applied" \in audits'[a] <=> \E s \in Revisions : AppliedBy(a, s)'
    BY DEF AppliedIffAudited
  <2>1. ASSUME NEW s \in Revisions, s # r PROVE AppliedBy(a, s)' <=> AppliedBy(a, s)
    BY <1>1, <1>3, <2>1 DEF AppliedBy
  <2>2. ~AppliedBy(a, r)
    BY <1>1 DEF AppliedBy
  <2>3. AppliedBy(a, r)' <=> a = doing[p] /\ outcome[p] \in Succeeded
    BY <1>1, <1>2, <1>3 DEF AppliedBy, Target
  <2>4. "applied" \in audits[a] <=> \E s \in Revisions : AppliedBy(a, s)
    BY DEF Inv, Safe, AppliedIffAudited
  <2>5. "applied" \in audits'[a] <=>
          "applied" \in audits[a] \/ (a = doing[p] /\ outcome[p] \in Succeeded)
    BY <1>6 DEF Audited
  <2>6. CASE a = doing[p] /\ outcome[p] \in Succeeded
    BY <1>1, <1>4, <2>3, <2>5, <2>6
  <2>7. CASE ~(a = doing[p] /\ outcome[p] \in Succeeded)
    <3>1. \A s \in Revisions : AppliedBy(a, s)' <=> AppliedBy(a, s)
      BY <1>4, <2>1, <2>2, <2>3, <2>7
    <3>. QED
      BY <2>4, <2>5, <2>7, <3>1
  <2>. QED
    BY <2>6, <2>7
<1>. QED
    BY <1>7, <1>8, <1>9, <1>10, <1>11, <1>12 DEF Safe

\* A request ends: what it audits was audited with the claim, or says nothing
\* of a draft.
LEMMA EndSafe ==
    ASSUME Inv, NEW p \in Threads, Record(p) \/ Abandon(p)
    PROVE  Safe'
<1>1. /\ UNCHANGED <<names, claims, drafts>>
      /\ pc'[p] = "idle"
      /\ outcome'[p] = "none"
      /\ \A q \in Threads : q # p =>
            /\ pc'[q] = pc[q]
            /\ doing'[q] = doing[q]
            /\ number'[q] = number[q]
            /\ outcome'[q] = outcome[q]
    BY DEF Inv, TypeOK, Record, Abandon, End, Goto, rows
<1>2. \A q \in Threads : q # p => Target(q)' = Target(q) /\ DraftOf(q)' = DraftOf(q)
    BY <1>1 DEF Target, DraftOf
<1>3. ASSUME NEW a \in Actions
      PROVE  /\ audits[a] \subseteq audits'[a]
             /\ "applied" \in audits'[a] => "applied" \in audits[a]
  <2>1. CASE Abandon(p)
    BY <2>1 DEF Abandon, rows
  <2>2. CASE Record(p)
    <3>1. audits'[a] = IF a = doing[p] THEN audits[a] \cup {Audited(p)} ELSE audits[a]
      BY <2>2 DEF Inv, TypeOK, Record
    <3>2. outcome[p] \in Succeeded => "applied" \in audits[doing[p]]
      BY <2>2 DEF Inv, Safe, RequestsAreSound, Record
    <3>. QED
      BY <3>1, <3>2 DEF Audited
  <2>. QED
    BY <2>1, <2>2
<1>4. WriterOwnsClaim'
    BY <1>1, <1>2 DEF Inv, Safe, WriterOwnsClaim, Writing
<1>5. RequestsAreSound'
  <2> SUFFICES ASSUME NEW q \in Threads
               PROVE  /\ pc'[q] # "idle" => Target(q)' # 0
                      /\ pc'[q] \in {"idle", "claim", "executor"} => outcome'[q] = "none"
                      /\ pc'[q] = "finish" /\ outcome'[q] \in Succeeded =>
                           DraftOf(q)' \in drafts'
                      /\ pc'[q] = "record" /\ outcome'[q] \in Succeeded =>
                           "applied" \in audits'[doing'[q]]
    BY DEF RequestsAreSound
  <2>1. CASE q = p
    BY <1>1, <2>1
  <2>2. CASE q # p
    <3>1. audits[doing[q]] \subseteq audits'[doing[q]]
      BY <1>3 DEF Inv, TypeOK
    <3>. QED
      BY <1>1, <1>2, <2>2, <3>1 DEF Inv, Safe, RequestsAreSound
  <2>. QED
    BY <2>1, <2>2
<1>6. ClaimsAreSound' /\ OneDraftPerRevision'
    BY <1>1 DEF Inv, Safe, ClaimsAreSound, OneDraftPerRevision
<1>7. DraftsAreClaimed'
    BY <1>1, <1>2 DEF Inv, Safe, DraftsAreClaimed
<1>8. AppliedIffAudited'
    BY <1>1, <1>3 DEF Inv, Safe, AppliedIffAudited, AppliedBy
<1>. QED
    BY <1>4, <1>5, <1>6, <1>7, <1>8 DEF Safe

-----------------------------------------------------------------------------
\* The inductive invariant.

LEMMA InitInv == Init => Inv
    BY InitTypes, InitSafe DEF Inv

LEMMA NextInv == Inv /\ [Next]_vars => Inv'
<1> SUFFICES ASSUME Inv, [Next]_vars PROVE Inv'
    OBVIOUS
<1>0. TypeOK'
    BY NextTypes DEF Inv, Safe
<1>1. CASE AppendRevision \/ (\E v \in {"approved", "rejected"} : RecordReview(v))
  <2>1. UNCHANGED <<names, claims, drafts, audits, pc, doing, number, outcome>>
    BY <1>1 DEF AppendRevision, RecordReview, thread
  <2>. QED
    BY <1>0, <2>1, EditorsSafe DEF Inv
<1>2. ASSUME NEW a \in Actions, CreateAction(a) PROVE Inv'
    BY <1>0, <1>2, CreateActionSafe DEF Inv
<1>3. ASSUME NEW a \in Actions, RequestBlocked(a) PROVE Inv'
  <2>1. UNCHANGED <<names, claims, drafts, pc, doing, number, outcome>>
    BY <1>3 DEF RequestBlocked, thread
  <2>2. \A b \in Actions :
          /\ audits[b] \subseteq audits'[b]
          /\ "applied" \in audits'[b] => "applied" \in audits[b]
    BY <1>3 DEF Inv, TypeOK, RequestBlocked
  <2>. QED
    BY <1>0, <2>1, <2>2, EditorsSafe DEF Inv
<1>4. ASSUME NEW p \in Threads, NEW a \in Actions, RequestApply(p, a) PROVE Inv'
    BY <1>0, <1>4, RequestSafe DEF Inv
<1>5. ASSUME NEW p \in Threads, ThreadStep(p) \/ Abandon(p) PROVE Inv'
    BY <1>0, <1>5, RequestSafe, AcquireSafe, ExecutorSafe, FinishSafe, EndSafe
    DEF Inv, ThreadStep
<1>6. CASE UNCHANGED vars
  <2>1. UNCHANGED <<names, claims, drafts, audits, pc, doing, number, outcome>>
    BY <1>6 DEF vars
  <2>. QED
    BY <1>0, <2>1, EditorsSafe DEF Inv
<1>. QED
    BY <1>1, <1>2, <1>3, <1>4, <1>5, <1>6 DEF Next

LEMMA Invariance == Spec => []Inv
    BY InitInv, NextInv, PTL DEF Spec

-----------------------------------------------------------------------------
\* The theorems.

\* Every reachable state is well typed.
THEOREM TypeCorrect == Spec => []TypeOK
<1>1. Inv => TypeOK
    BY DEF Inv
<1>. QED
    BY <1>1, Invariance, PTL

\* Whoever may write to WordPress holds the claim of the revision, alone and in
\* the name of its own action.
THEOREM WritersOwnTheirClaims == Spec => []WriterOwnsClaim
<1>1. Inv => WriterOwnsClaim
    BY DEF Inv, Safe
<1>. QED
    BY <1>1, Invariance, PTL

\* An approved revision becomes at most one WordPress draft.
THEOREM RevisionsBecomeOneDraft == Spec => []OneDraftPerRevision
<1>1. Inv => OneDraftPerRevision
    BY DEF Inv, Safe
<1>. QED
    BY <1>1, Invariance, PTL

\* What is recovered for an action is a draft this action made.
THEOREM RecoveredDraftsAreOwn == Spec => []RecoveredIsOwn
<1>1. Inv => RecoveredIsOwn
  <2> SUFFICES ASSUME Inv, NEW a \in Actions, NEW i \in Recovered(a)
               PROVE  [id |-> i, rev |-> names[a], act |-> a] \in drafts
    BY DEF RecoveredIsOwn
  <2>1. PICK r \in Revisions : AppliedBy(a, r) /\ i = claims[r].post /\ i # 0
    BY DEF Recovered
  <2>. QED
    BY <2>1 DEF Inv, Safe, ClaimsAreSound, AppliedBy
<1>. QED
    BY <1>1, Invariance, PTL

\* A revision is applied by an action exactly when that is audited.
THEOREM AppliedClaimsAreAudited == Spec => []AppliedIffAudited
<1>1. Inv => AppliedIffAudited
    BY DEF Inv, Safe
<1>. QED
    BY <1>1, Invariance, PTL

-----------------------------------------------------------------------------
\* What a settled claim says is final, and a claim is not forgotten.

\* Once the claim of a revision is applied or failed, neither its row nor the
\* drafts of the revision change again, whatever actions still name it and
\* whoever was in flight when it settled.
SettledIsFinal ==
    [][\A r \in Revisions :
           claims[r].status \in {"applied", "failed"} =>
               claims'[r] = claims[r] /\ DraftIds(r)' = DraftIds(r)]_vars

\* While nothing was abandoned, a claimed revision has its writer.
ClaimedHasWriter ==
    faults = 0 =>
        \A r \in Revisions : claims[r].status = "claimed" =>
            \E p \in Threads : pc[p] \in Writing /\ Target(p) = r

\* Only the holder of the claim makes a draft, and the holder's row is claimed.
LEMMA SettledKept ==
    ASSUME Inv, [Next]_vars, NEW r \in Revisions,
           claims[r].status \in {"applied", "failed"}
    PROVE  claims'[r] = claims[r] /\ DraftIds(r)' = DraftIds(r)
<1>1. ASSUME NEW p \in Threads, Acquire(p) \/ Finish(p)
      PROVE  claims'[r] = claims[r] /\ drafts' = drafts
  <2>1. claims[Target(p)].status \in {"none", "claimed"}
    BY <1>1 DEF Acquire, Finish
  <2>2. Target(p) # r
    BY <2>1
  <2>. QED
    BY <1>1, <2>2 DEF Acquire, Finish, Inv, TypeOK
<1>2. ASSUME NEW p \in Threads, CreateDraft(p)
      PROVE  claims'[r] = claims[r] /\ DraftIds(r)' = DraftIds(r)
  <2>1. claims[Target(p)].status = "claimed"
    BY <1>2 DEF CreateDraft, Inv, Safe, WriterOwnsClaim, Writing
  <2>2. Target(p) # r
    BY <2>1
  <2>3. {y \in drafts' : y.rev = r} = {y \in drafts : y.rev = r}
    BY <1>2, <2>2 DEF CreateDraft
  <2>. QED
    BY <1>2, <2>3 DEF CreateDraft, rows, DraftIds
<1>3. CASE claims' = claims /\ drafts' = drafts
    BY <1>3 DEF DraftIds
<1>4. \/ claims' = claims /\ drafts' = drafts
      \/ \E p \in Threads : Acquire(p) \/ Finish(p) \/ CreateDraft(p)
    BY DEF Next, vars, rows, ThreadStep, AppendRevision, RecordReview, CreateAction,
           RequestBlocked, RequestApply, Refused, NothingCreated, Record, Abandon
<1>. QED
    BY <1>1, <1>2, <1>3, <1>4 DEF DraftIds

\* A step that is no abandonment takes a writer's claim with it.
LEMMA WriterStep ==
    ASSUME Inv, ClaimedHasWriter, [Next]_vars
    PROVE  ClaimedHasWriter'
<1> USE DEF Goto, Writing
<1>types. /\ pc \in [Threads -> {"idle", "claim", "record"} \cup Writing]
          /\ doing \in [Threads -> Actions] /\ names \in [Actions -> Revisions \cup {0}]
          /\ claims \in [Revisions -> Claim] /\ faults \in Nat
    BY BoundsAssumption DEF Inv, TypeOK
<1> SUFFICES ASSUME faults' = 0, NEW r \in Revisions, claims'[r].status = "claimed"
             PROVE  \E p \in Threads : pc'[p] \in Writing /\ Target(p)' = r
    BY DEF ClaimedHasWriter
<1>1. ASSUME NEW q \in Threads, pc'[q] = pc[q], doing'[q] = doing[q],
             pc[q] \in Writing, Target(q) = r, names' = names
      PROVE  \E p \in Threads : pc'[p] \in Writing /\ Target(p)' = r
    BY <1>1 DEF Target
<1>2. ASSUME claims[r].status = "claimed", faults = 0
      PROVE  \E q \in Threads : pc[q] \in Writing /\ Target(q) = r
    BY <1>2 DEF ClaimedHasWriter
<1>3. ASSUME NEW p \in Threads, Acquire(p)
      PROVE  \E q \in Threads : pc'[q] \in Writing /\ Target(q)' = r
  <2>1. CASE Target(p) = r
    BY <1>3, <1>types, <2>1 DEF Acquire, thread, Target
  <2>2. CASE Target(p) # r
    <3>1. claims[r].status = "claimed" /\ faults = 0
      BY <1>3, <1>types, <2>2 DEF Acquire
    <3>2. PICK q \in Threads : pc[q] \in Writing /\ Target(q) = r
      BY <1>2, <3>1
    <3>. QED
      BY <1>1, <1>3, <1>types, <2>2, <3>2 DEF Acquire, thread
  <2>. QED
    BY <2>1, <2>2
<1>4. ASSUME NEW p \in Threads, NothingCreated(p) \/ CreateDraft(p)
      PROVE  \E q \in Threads : pc'[q] \in Writing /\ Target(q)' = r
  <2>1. claims[r].status = "claimed" /\ faults = 0 /\ names' = names /\ doing' = doing
    BY <1>4 DEF NothingCreated, CreateDraft, rows
  <2>2. PICK q \in Threads : pc[q] \in Writing /\ Target(q) = r
    BY <1>2, <2>1
  <2>3. pc'[q] \in Writing
    BY <1>4, <1>types, <2>2 DEF NothingCreated, CreateDraft
  <2>. QED
    BY <2>1, <2>2, <2>3 DEF Target
<1>5. ASSUME NEW p \in Threads, Finish(p)
      PROVE  \E q \in Threads : pc'[q] \in Writing /\ Target(q)' = r
  <2>1. Target(p) # r
    BY <1>5, <1>types DEF Finish, Finished
  <2>2. claims[r].status = "claimed" /\ faults = 0
    BY <1>5, <1>types, <2>1 DEF Finish
  <2>3. PICK q \in Threads : pc[q] \in Writing /\ Target(q) = r
    BY <1>2, <2>2
  <2>. QED
    BY <1>1, <1>5, <1>types, <2>1, <2>3 DEF Finish, thread
<1>6. ASSUME NEW p \in Threads,
             \/ Refused(p) \/ Record(p)
             \/ \E a \in Actions : RequestApply(p, a)
      PROVE  \E q \in Threads : pc'[q] \in Writing /\ Target(q)' = r
  <2>1. claims[r].status = "claimed" /\ faults = 0 /\ pc[p] \notin Writing
        /\ names' = names
        /\ \A s \in Threads \ {p} : pc'[s] = pc[s] /\ doing'[s] = doing[s]
    BY <1>6, <1>types DEF Refused, Record, RequestApply, End, rows, thread
  <2>2. PICK q \in Threads : pc[q] \in Writing /\ Target(q) = r
    BY <1>2, <2>1
  <2>. QED
    BY <1>1, <2>1, <2>2
<1>7. ASSUME NEW a \in Actions, CreateAction(a)
      PROVE  \E q \in Threads : pc'[q] \in Writing /\ Target(q)' = r
  <2>1. claims[r].status = "claimed" /\ faults = 0
    BY <1>7 DEF CreateAction
  <2>2. PICK q \in Threads : pc[q] \in Writing /\ Target(q) = r
    BY <1>2, <2>1
  <2>3. names[doing[q]] = r /\ r # 0
    BY <2>2 DEF Target, Revisions
  <2>4. names'[doing[q]] = r
    BY <1>7, <1>types, <2>3 DEF CreateAction
  <2>. QED
    BY <1>7, <2>2, <2>4 DEF CreateAction, thread, Target
<1>8. CASE UNCHANGED <<names, claims, pc, doing, faults>>
  <2>1. PICK q \in Threads : pc[q] \in Writing /\ Target(q) = r
    BY <1>2, <1>8
  <2>. QED
    BY <1>1, <1>8, <2>1
<1>9. \A p \in Threads : ~Abandon(p)
    BY <1>types DEF Abandon
<1>10. \/ UNCHANGED <<names, claims, pc, doing, faults>>
       \/ \E a \in Actions : CreateAction(a)
       \/ \E p \in Threads :
            \/ Acquire(p) \/ NothingCreated(p) \/ CreateDraft(p) \/ Finish(p)
            \/ Refused(p) \/ Record(p)
            \/ \E a \in Actions : RequestApply(p, a)
    BY <1>9 DEF Next, vars, rows, thread, ThreadStep, AppendRevision, RecordReview,
                RequestBlocked
<1>. QED
    BY <1>3, <1>4, <1>5, <1>6, <1>7, <1>8, <1>10

\* No request in flight, retry or further action turns a settled revision into
\* another draft or changes what its row answers
\* (claim_new_page_revision_apply, finish_new_page_revision_apply_claim).
THEOREM SettledClaimsAreFinal == Spec => SettledIsFinal
<1>1. Inv /\ [Next]_vars =>
          [\A r \in Revisions :
               claims[r].status \in {"applied", "failed"} =>
                   claims'[r] = claims[r] /\ DraftIds(r)' = DraftIds(r)]_vars
    BY SettledKept
<1>. QED
    BY <1>1, Invariance, PTL DEF Spec, SettledIsFinal

\* A revision stays claimed without anybody writing it only when an apply was
\* abandoned: what nothing of the store resolves is left by a death, never by
\* a refusal or an error of WordPress (apply_action).
THEOREM ClaimsAreLeftByDeathsOnly == Spec => []ClaimedHasWriter
<1>1. Init => ClaimedHasWriter
    BY DEF Init, ClaimedHasWriter
<1>2. Inv /\ ClaimedHasWriter /\ [Next]_vars => ClaimedHasWriter'
    BY WriterStep
<1>. QED
    BY <1>1, <1>2, Invariance, PTL DEF Spec

-----------------------------------------------------------------------------
\* The rows implement the one-time consent.

\* Everything is open and nothing is made at first.
LEMMA InitConsent == Init => Consent!Init
<1> SUFFICES ASSUME Init PROVE Consent!Init
    OBVIOUS
<1>1. Phases = [r \in Revisions |-> "open"]
    BY DEF Init, Phases
<1>2. Made = [r \in Revisions |-> {}]
    BY DEF Init, Made, DraftIds
<1>3. Answers = [r \in Revisions |-> {}]
    BY DEF Init, Answers
<1>. QED
    BY <1>1, <1>2, <1>3 DEF Consent!Init

\* Steps that leave claims and drafts alone are not seen by the consent.
LEMMA ConsentUnseen ==
    ASSUME UNCHANGED <<claims, drafts>>
    PROVE  UNCHANGED <<Phases, Made, Answers>>
    BY DEF Phases, Made, DraftIds, Answers

\* An acquired claim takes the consent.
LEMMA AcquireTakes ==
    ASSUME Inv, NEW p \in Threads, Acquire(p)
    PROVE  Consent!Next
<1>1. PICK r \in Revisions : r = Target(p)
    BY TargetType DEF Inv, Safe, Acquire
<1>2. /\ claims[r].status = "none"
      /\ claims' = [claims EXCEPT ![r] =
                      [status |-> "claimed", act |-> doing[p], post |-> 0]]
      /\ drafts' = drafts
    BY <1>1 DEF Acquire
<1>3. claims[r].post = 0
  <2>1. claims[r].post # 0 => \E x \in drafts : x.rev = r
    BY DEF Inv, Safe, ClaimsAreSound
  <2>. QED
    BY <1>2, <2>1 DEF Inv, Safe, DraftsAreClaimed
<1>4. /\ claims'[r].status = "claimed" /\ claims'[r].post = 0
      /\ \A s \in Revisions : s # r => claims'[s] = claims[s]
    BY <1>2 DEF Inv, TypeOK
<1>5. Phases[r] = "open" /\ Phases' = [Phases EXCEPT ![r] = "taken"]
    BY <1>2, <1>4 DEF Phases
<1>6. Made' = Made
    BY <1>2 DEF Made, DraftIds
<1>7. Answers' = Answers
    BY <1>3, <1>4 DEF Answers
<1>8. Consent!Take(r)
    BY <1>5, <1>6, <1>7 DEF Consent!Take
<1>. QED
    BY <1>8 DEF Consent!Next

\* A draft is the first product of a taken consent.
LEMMA CreateMakes ==
    ASSUME Inv, NEW p \in Threads, CreateDraft(p)
    PROVE  Consent!Next
<1>1. PICK r \in Revisions : r = Target(p)
    BY TargetType DEF Inv, Safe, CreateDraft
<1>2. /\ claims[r].status = "claimed"
      /\ claims' = claims
      /\ drafts' = drafts \cup {DraftOf(p)}
      /\ DraftOf(p).id = number[p] /\ DraftOf(p).rev = r
      /\ number[p] \in Requests
    BY <1>1
    DEF Inv, Safe, TypeOK, WriterOwnsClaim, CreateDraft, Writing, rows, DraftOf
<1>3. \A x \in drafts : x.rev # r
    BY <1>1 DEF Inv, Safe, DraftsAreClaimed, CreateDraft
<1>4. DraftIds(r) = {}
    BY <1>3 DEF DraftIds
<1>5. ASSUME NEW s \in Revisions
      PROVE  DraftIds(s)' = IF s = r THEN {number[p]} ELSE DraftIds(s)
  <2>1. CASE s = r
    <3>1. {x \in drafts' : x.rev = r} = {DraftOf(p)}
      BY <1>2, <1>3
    <3>. QED
      BY <1>2, <2>1, <3>1 DEF DraftIds
  <2>2. CASE s # r
    <3>1. {x \in drafts' : x.rev = s} = {x \in drafts : x.rev = s}
      BY <1>2, <2>2
    <3>. QED
      BY <2>2, <3>1 DEF DraftIds
  <2>. QED
    BY <2>1, <2>2
<1>6. Made[r] = {} /\ Made' = [Made EXCEPT ![r] = {number[p]}]
    BY <1>4, <1>5 DEF Made
<1>7. Phases[r] = "taken" /\ Phases' = Phases /\ Answers' = Answers
    BY <1>2 DEF Phases, Answers
<1>8. Consent!Make(r, number[p])
    BY <1>6, <1>7 DEF Consent!Make
<1>. QED
    BY <1>2, <1>8 DEF Consent!Next

\* A finished claim spends the consent, and answers with its draft or nothing.
LEMMA FinishSpends ==
    ASSUME Inv, NEW p \in Threads, Finish(p)
    PROVE  Consent!Next
<1>1. PICK r \in Revisions : r = Target(p)
    BY TargetType DEF Inv, Safe, Finish
<1>2. /\ claims[r].status = "claimed"
      /\ claims' = [claims EXCEPT ![r] = Finished(p)]
      /\ drafts' = drafts
    BY <1>1 DEF Finish
<1>3. /\ Finished(p).status \in {"applied", "failed"}
      /\ Finished(p).post = (IF outcome[p] = "created" THEN number[p] ELSE 0)
    BY FinishedType DEF Inv, Safe, Finish
<1>4. /\ claims'[r] = Finished(p)
      /\ \A s \in Revisions : s # r => claims'[s] = claims[s]
    BY <1>2 DEF Inv, TypeOK
<1>5. outcome[p] = "created" => Made[r] = {number[p]}
  <2> SUFFICES ASSUME outcome[p] = "created" PROVE Made[r] = {number[p]}
    OBVIOUS
  <2>1. DraftOf(p) \in drafts /\ DraftOf(p).rev = r /\ DraftOf(p).id = number[p]
    BY <1>1 DEF Inv, Safe, RequestsAreSound, Finish, DraftOf, Succeeded
  <2>2. \A x \in drafts : x.rev = r => x = DraftOf(p)
    BY <2>1 DEF Inv, Safe, OneDraftPerRevision
  <2>. QED
    BY <2>1, <2>2 DEF Made, DraftIds
<1>6. Phases[r] = "taken" /\ Phases' = [Phases EXCEPT ![r] = "spent"]
    BY <1>2, <1>3, <1>4 DEF Phases
<1>7. Made' = Made
    BY <1>2 DEF Made, DraftIds
<1>8. PICK known : /\ known \in {{}, Made[r]}
                   /\ known = {Finished(p).post} \ {0}
  <2>1. number[p] # 0
    BY DEF Inv, TypeOK, Requests
  <2>. QED
    BY <1>3, <1>5, <2>1
<1>9. Answers' = [Answers EXCEPT ![r] = known]
    BY <1>4, <1>8 DEF Answers
<1>10. Consent!Spend(r)
    BY <1>6, <1>7, <1>8, <1>9 DEF Consent!Spend
<1>. QED
    BY <1>10 DEF Consent!Next

\* Every step is a step of the consent or is not seen by it.
LEMMA NextConsent ==
    Inv /\ [Next]_vars => [Consent!Next]_<<Phases, Made, Answers>>
<1> SUFFICES ASSUME Inv, [Next]_vars
             PROVE  Consent!Next \/ UNCHANGED <<Phases, Made, Answers>>
    OBVIOUS
<1>1. ASSUME NEW p \in Threads, Acquire(p) \/ CreateDraft(p) \/ Finish(p)
      PROVE  Consent!Next
    BY <1>1, AcquireTakes, CreateMakes, FinishSpends
<1>2. ASSUME NEW p \in Threads,
             Refused(p) \/ NothingCreated(p) \/ Record(p) \/ Abandon(p)
      PROVE  UNCHANGED <<claims, drafts>>
    BY <1>2 DEF Refused, NothingCreated, Record, Abandon, rows
<1>3. ASSUME NEW p \in Threads, NEW a \in Actions, RequestApply(p, a)
      PROVE  UNCHANGED <<claims, drafts>>
    BY <1>3 DEF RequestApply, rows
<1>4. ASSUME NEW a \in Actions, CreateAction(a) \/ RequestBlocked(a)
      PROVE  UNCHANGED <<claims, drafts>>
    BY <1>4 DEF CreateAction, RequestBlocked
<1>5. ASSUME AppendRevision \/ \E v \in {"approved", "rejected"} : RecordReview(v)
      PROVE  UNCHANGED <<claims, drafts>>
    BY <1>5 DEF AppendRevision, RecordReview
<1>6. ASSUME UNCHANGED vars PROVE UNCHANGED <<claims, drafts>>
    BY <1>6 DEF vars
<1>7. ASSUME UNCHANGED <<claims, drafts>> PROVE UNCHANGED <<Phases, Made, Answers>>
    BY <1>7, ConsentUnseen
<1>. QED
    BY <1>1, <1>2, <1>3, <1>4, <1>5, <1>6, <1>7 DEF Next, ThreadStep

\* The rows keep the promises of a one-time consent.
THEOREM ConsentsAreOneTime == Spec => ImplementsConsent
<1>1. Init => Consent!Init
    BY InitConsent
<1>. QED
    BY <1>1, NextConsent, Invariance, PTL
    DEF Spec, ImplementsConsent, Consent!Spec, Consent!vars
=============================================================================
