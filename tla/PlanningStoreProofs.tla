-------------------------- MODULE PlanningStoreProofs --------------------------
(***************************************************************************)
(* What the rows of PlanningGeneration say of each other, for every set of *)
(* attempts, digests and bindings and every bound: one input is freshly    *)
(* queued, a claim is released, overlapped only after it expired, a plan   *)
(* stands with its run, and the plans of the work item are numbered        *)
(* without a gap.  Each follows from Inv and PlanInv of                    *)
(* PlanningGenerationProofs and a strengthening of its own.                *)
(***************************************************************************)
EXTENDS PlanningGenerationProofs, FiniteSetTheorems

\* Only the enqueue transaction and the terminal save write the job's row.
LEMMA JobWriters ==
    ASSUME [Next]_vars
    PROVE  job' = job \/ \E p \in Attempts : Enqueue(p) \/ SaveTerminal(p)
BY DEF Next, vars, durable, Handle, Work, Post, Confirm, Claim, Submit, SubmitFails,
       Start, PrepareEarly, StartRun, TurnFails, TurnSucceeds, PersistRefused,
       PersistIdempotent, PersistPlan, Context, CheckBinding, SaveTerminalLost,
       FinishClaim, Tick, Reclassify, Crash

\* Time never runs back.
LEMMA ClockStep ==
    ASSUME TypeOK, [Next]_vars
    PROVE  clock' \in Nat /\ clock <= clock'
<1>1. clock' = clock \/ Tick
    BY DEF Next, vars, durable, Handle, Work, Post, Enqueue, Confirm, Claim, Submit,
           SubmitFails, Start, PrepareEarly, StartRun, TurnFails, TurnSucceeds,
           PersistRefused, PersistIdempotent, PersistPlan, Context, CheckBinding,
           SaveTerminal, SaveTerminalLost, FinishClaim, Reclassify, Crash
<1> QED BY <1>1 DEF TypeOK, Tick

-----------------------------------------------------------------------------
(* The queue of the subject.                                               *)

\* A row whose job was fresh after a step, and which the step left alone, was
\* fresh before it; a terminal save queues nothing.
LEMMA FreshStep ==
    ASSUME Inv, OneFreshDigest, [Next]_vars
    PROVE  OneFreshDigest'
<1>types. /\ job \in [Digests -> JobRow] /\ clock \in Nat /\ StaleAfter \in Nat
          /\ \A d \in Digests : job[d].at \in Nat
    BY ConstantsAssumption DEF Inv, TypeOK, JobRow
<1>clock. clock' \in Nat /\ clock <= clock'
    BY ClockStep DEF Inv
<1>same. ASSUME NEW d \in Digests, job'[d] = job[d], FreshQueued(d)'
         PROVE  FreshQueued(d)
    BY <1>same, <1>types, <1>clock DEF FreshQueued, Expired
<1>1. CASE job' = job
    BY <1>1, <1>same DEF OneFreshDigest
<1>2. ASSUME NEW p \in Attempts, Enqueue(p), job' # job
      PROVE  OneFreshDigest'
    <2> DEFINE d == req[p].digest
    <2>1. /\ \A e \in Digests \ {d} : job'[e] = job[e]
          /\ ~SiblingFreshQueued(d)
        BY <1>2, <1>types DEF Enqueue
    <2>2. \A e \in Digests \ {d} : ~FreshQueued(e)'
        BY <2>1, <1>same DEF SiblingFreshQueued
    <2> QED BY <2>2 DEF OneFreshDigest
<1>3. ASSUME NEW p \in Attempts, SaveTerminal(p)
      PROVE  OneFreshDigest'
    <2> DEFINE d == req[p].digest
    <2>1. \A e \in Digests \ {d} : job'[e] = job[e]
        BY <1>3, <1>types DEF SaveTerminal
    <2>2. d \in Digests => job'[d] = job[d] \/ job'[d].status # "queued"
        BY <1>3, <1>types DEF SaveTerminal, BadReply
    <2>3. \A e \in Digests : FreshQueued(e)' => FreshQueued(e)
        BY <2>1, <2>2, <1>same DEF FreshQueued
    <2> QED BY <2>3 DEF OneFreshDigest
<1> QED BY <1>1, <1>2, <1>3, JobWriters

\* At most one exact input of a subject has a fresh queued job, whatever
\* expires, is saved late or queued again (_enqueue_subject_pending).
THEOREM SubjectsQueueOneInput == Spec => []OneFreshDigest
<1>1. Init => OneFreshDigest
    BY DEF Init, OneFreshDigest, FreshQueued, NoJob
<1> QED BY <1>1, FreshStep, InductiveInvariant, PTL DEF Spec

-----------------------------------------------------------------------------
(* Claims.                                                                 *)

\* The newest acquisition of an input holds the claim until it is over.
NewestHolds ==
    \A p \in Attempts :
        /\ ~Settled(p) /\ ver[p] > 0
        /\ ver[p] = claim[req[p].digest].version
        => claim[req[p].digest].status = "claimed"

\* A worker whose claim was taken over outlived a stale period.
OvertakenExpired ==
    \A p \in Attempts :
        /\ ~Settled(p) /\ 0 < ver[p]
        /\ ver[p] < claim[req[p].digest].version
        => claim[req[p].digest].at > StaleAfter

ClaimsDated == \A d \in Digests : claim[d].at <= clock

ClaimInv == NewestHolds /\ OvertakenExpired /\ ClaimsDated /\ ClaimReleased

\* A claim is taken when it is free or expired, and released by its holder.
LEMMA ClaimStep ==
    ASSUME Inv, ClaimInv, [Next]_vars
    PROVE  ClaimInv'
<1> USE DEF Inv, Goto, durable
<1>types. /\ pc \in [Attempts -> PC] /\ ver \in [Attempts -> Nat]
          /\ claim \in [Digests -> ClaimRow] /\ clock \in Nat /\ faults \in Nat
          /\ \A d \in Digests : claim[d].version \in Nat /\ claim[d].at \in Nat
    BY DEF TypeOK, ClaimRow
<1>req. \A p \in Attempts : pc[p] # "idle" => req[p].digest \in Digests
    BY DEF RequestKnown, Request
<1>ver. \A p \in Attempts : /\ ver[p] > 0 => pc[p] \notin BeforeClaim
                            /\ ver[p] > 0 => req[p].digest \in Digests
                            /\ ver[p] > 0 => ver[p] <= claim[req[p].digest].version
    BY <1>types, <1>req DEF VersionsHandedOut, BeforeClaim
<1>clock. clock' \in Nat /\ clock <= clock'
    BY ClockStep

\* A step that neither takes nor releases a claim, nor lets its holder go.
<1>quiet. ASSUME claim' = claim, ver' = ver,
                 \A q \in Attempts : ver[q] > 0 =>
                    /\ req'[q] = req[q]
                    /\ Settled(q) => Settled(q)'
                    /\ pc'[q] = "done" /\ faults' = 0 => pc[q] = "done" /\ faults = 0
          PROVE  ClaimInv'
    <2>1. NewestHolds'
        BY <1>quiet, <1>types DEF ClaimInv, NewestHolds
    <2>2. OvertakenExpired'
        BY <1>quiet, <1>types DEF ClaimInv, OvertakenExpired
    <2>3. ClaimsDated'
        BY <1>quiet, <1>types, <1>clock DEF ClaimInv, ClaimsDated
    <2>4. ClaimReleased'
        BY <1>quiet, <1>types DEF ClaimInv, ClaimReleased, Owns
    <2> QED BY <2>1, <2>2, <2>3, <2>4 DEF ClaimInv
<1>1. ASSUME NEW p \in Attempts, NEW d \in Digests, NEW r \in BOOLEAN, Post(p, d, r)
      PROVE  ClaimInv'
    <2>1. /\ ver[p] = 0 /\ ver' = ver /\ claim' = claim /\ faults' = faults
          /\ \A q \in Attempts \ {p} : req'[q] = req[q] /\ pc'[q] = pc[q]
        BY <1>1, <1>types DEF Post, VersionsHandedOut, BeforeClaim
    <2> QED BY <2>1, <1>quiet DEF Settled
<1>2. ASSUME NEW p \in Attempts, Enqueue(p) \/ Confirm(p) \/ Submit(p) \/ SubmitFails(p)
      PROVE  ClaimInv'
    <2>1. /\ ver' = ver /\ claim' = claim /\ req' = req
          /\ \A q \in Attempts \ {p} : pc'[q] = pc[q]
          /\ ~Settled(p)
          /\ faults' = faults \/ faults' = faults + 1
        BY <1>2, <1>types DEF Enqueue, Confirm, Submit, SubmitFails, Settled
    <2>2. ver[p] > 0 => ~(pc'[p] = "done" /\ faults' = 0)
        BY <1>2, <1>types, <1>ver DEF Enqueue, Confirm, Submit, SubmitFails, BeforeClaim
    <2> QED BY <2>1, <2>2, <1>types, <1>quiet DEF Settled
<1>3. ASSUME NEW p \in Attempts, Claim(p), claim' = claim, ver' = ver
      PROVE  ClaimInv'
    <2>1. /\ req' = req /\ faults' = faults /\ ver[p] = 0
          /\ \A q \in Attempts \ {p} : pc'[q] = pc[q]
        BY <1>3, <1>types, <1>ver DEF Claim, BeforeClaim
    <2> QED BY <2>1, <1>3, <1>quiet DEF Settled
<1>4. ASSUME NEW p \in Attempts, Claim(p), ~(claim' = claim /\ ver' = ver)
      PROVE  ClaimInv'
    <2> DEFINE d == req[p].digest
               v == claim[d].version
    <2>1. d \in Digests
        BY <1>4, <1>req DEF Claim
    <2>2. /\ claim'[d].version = v + 1 /\ claim'[d].at = clock
          /\ claim'[d].status = "claimed"
          /\ \A e \in Digests \ {d} : claim'[e] = claim[e]
        BY <1>4, <1>types, <2>1 DEF Claim
    <2>3. /\ ver'[p] = v + 1 /\ pc'[p] = "submit" /\ req' = req
          /\ clock' = clock /\ faults' = faults
          /\ \A q \in Attempts \ {p} : ver'[q] = ver[q] /\ pc'[q] = pc[q]
        BY <1>4, <1>types, <2>1 DEF Claim
    <2>4. ~LiveClaim(d)
        BY <1>4 DEF Claim
    <2>5. \A q \in Attempts : ver[q] > 0 /\ req[q].digest = d => ver[q] <= v
        BY <1>ver
    <2>6. v \in Nat /\ claim[d].at \in Nat
        BY <1>types, <2>1
    <2>7. NewestHolds'
        BY <1>ver, <1>types, <2>1, <2>2, <2>3, <2>5, <2>6 DEF ClaimInv, NewestHolds, Settled
    <2>8. OvertakenExpired'
        <3> SUFFICES ASSUME NEW q \in Attempts, ~Settled(q)', 0 < ver'[q],
                            ver'[q] < claim'[req[q].digest].version
                     PROVE  claim'[req[q].digest].at > StaleAfter
            BY <2>3 DEF OvertakenExpired
        <3>1. q # p
            BY <2>2, <2>3, <2>6
        <3>2. ~Settled(q) /\ ver'[q] = ver[q]
            BY <2>3, <3>1 DEF Settled
        <3>3. CASE req[q].digest # d
            BY <1>ver, <2>2, <3>2, <3>3 DEF ClaimInv, OvertakenExpired
        <3>4. CASE req[q].digest = d /\ ver[q] = v
            <4>1. claim[d].status = "claimed"
                BY <3>2, <3>4 DEF ClaimInv, NewestHolds
            <4>2. clock - claim[d].at > StaleAfter
                BY <2>4, <4>1 DEF LiveClaim, Expired
            <4> QED BY <1>types, <2>2, <2>6, <3>4, <4>2, ConstantsAssumption
        <3>5. CASE req[q].digest = d /\ ver[q] # v
            <4>1. ver[q] \in Nat /\ ver[q] < v
                BY <1>types, <2>5, <2>6, <3>2, <3>5
            <4>2. claim[d].at > StaleAfter /\ claim[d].at <= clock
                BY <2>1, <3>2, <3>5, <4>1 DEF ClaimInv, OvertakenExpired, ClaimsDated
            <4> QED BY <1>types, <2>2, <2>6, <3>5, <4>2, ConstantsAssumption
        <3> QED BY <3>3, <3>4, <3>5
    <2>9. ClaimsDated'
        BY <1>types, <2>1, <2>2, <2>3 DEF ClaimInv, ClaimsDated
    <2>10. ClaimReleased'
        <3> SUFFICES ASSUME NEW q \in Attempts, pc'[q] = "done", ver'[q] > 0, faults' = 0
                     PROVE  ~Owns(q)'
            BY DEF ClaimReleased
        <3>1. q # p /\ pc[q] = "done" /\ ver'[q] = ver[q] /\ ver[q] > 0 /\ ~Owns(q)
            BY <2>3 DEF ClaimInv, ClaimReleased
        <3>2. CASE req[q].digest = d
            <4>1. ver[q] # claim'[d].version
                BY <1>types, <2>2, <2>5, <2>6, <3>1, <3>2
            <4> QED BY <2>3, <3>1, <3>2, <4>1 DEF Owns
        <3>3. CASE req[q].digest # d
            BY <1>ver, <2>2, <2>3, <3>1, <3>3 DEF Owns
        <3> QED BY <3>2, <3>3
    <2> QED BY <2>7, <2>8, <2>9, <2>10 DEF ClaimInv
<1>5. ASSUME NEW p \in Attempts, Work(p), ~FinishClaim(p)
      PROVE  ClaimInv'
    <2>1. /\ ver' = ver /\ claim' = claim /\ req' = req
          /\ \A q \in Attempts \ {p} : pc'[q] = pc[q]
          /\ ~Settled(p) /\ pc'[p] # "done"
          /\ faults' = faults \/ faults' = faults + 1
        BY <1>5, <1>types
        DEF Work, Start, PrepareEarly, StartRun, TurnFails, TurnSucceeds, PersistRefused,
            PersistIdempotent, PersistPlan, Context, CheckBinding, SaveTerminal,
            SaveTerminalLost, Conclude, Settled
    <2> QED BY <2>1, <1>types, <1>quiet DEF Settled
<1>6. ASSUME NEW p \in Attempts, FinishClaim(p)
      PROVE  ClaimInv'
    <2> DEFINE d == req[p].digest
    <2>1. d \in Digests /\ ver[p] > 0
        BY <1>6, <1>req DEF FinishClaim, VersionsHandedOut, Working
    <2>2. /\ ver' = ver /\ req' = req /\ clock' = clock /\ faults' = faults
          /\ pc'[p] = "done" /\ \A q \in Attempts \ {p} : pc'[q] = pc[q]
        BY <1>6, <1>types DEF FinishClaim
    <2>3. /\ \A e \in Digests : /\ claim'[e].version = claim[e].version
                                /\ claim'[e].at = claim[e].at
                                /\ claim'[e].binding = claim[e].binding
          /\ \A e \in Digests \ {d} : claim'[e] = claim[e]
          /\ ~Owns(p) => claim' = claim
          /\ Owns(p) => claim'[d].status # "claimed"
        BY <1>6, <1>types, <2>1 DEF FinishClaim, ClaimRow
    <2>4. NewestHolds'
        <3> SUFFICES ASSUME NEW q \in Attempts, ~Settled(q)', ver[q] > 0,
                            ver[q] = claim[req[q].digest].version
                     PROVE  claim'[req[q].digest].status = "claimed"
            BY <1>ver, <2>2, <2>3 DEF NewestHolds
        <3>1. q # p /\ ~Settled(q)
            BY <2>2 DEF Settled
        <3>2. claim[req[q].digest].status = "claimed"
            BY <3>1 DEF ClaimInv, NewestHolds
        <3>3. ~(Owns(p) /\ req[q].digest = d)
            BY <2>1, <3>1 DEF Owns, UniqueClaimVersion, SameInput
        <3> QED BY <1>ver, <2>3, <3>2, <3>3
    <2>5. OvertakenExpired' /\ ClaimsDated'
        BY <1>ver, <2>2, <2>3 DEF ClaimInv, OvertakenExpired, ClaimsDated, Settled
    <2>6. ClaimReleased'
        <3> SUFFICES ASSUME NEW q \in Attempts, pc'[q] = "done", ver[q] > 0, faults = 0,
                            Owns(q)'
                     PROVE  FALSE
            BY <2>2 DEF ClaimReleased
        <3>1. req[q].digest \in Digests
            BY <1>ver
        <3>2. Owns(q) /\ (req[q].digest = d => ~Owns(p))
            BY <2>2, <2>3, <3>1 DEF Owns
        <3>3. q # p
            BY <3>2
        <3> QED BY <2>2, <3>2, <3>3 DEF ClaimInv, ClaimReleased
    <2> QED BY <2>4, <2>5, <2>6 DEF ClaimInv
<1>7. CASE Crash
    <2>1. /\ ver' = ver /\ claim' = claim /\ req' = req /\ faults' # 0
          /\ \A q \in Attempts : Settled(q) => pc'[q] = pc[q]
        BY <1>7, <1>types DEF Crash
    <2> QED BY <2>1, <1>quiet DEF Settled
<1>8. CASE Tick \/ Reclassify \/ UNCHANGED vars
    BY <1>8, <1>quiet DEF Tick, Reclassify, vars, Settled
<1> QED BY <1>1, <1>2, <1>3, <1>4, <1>5, <1>6, <1>7, <1>8 DEF Next, Handle

\* The rows of claims, the versions handed out and the attempts alive agree in
\* every reachable state (ContentPlanningGenerationClaimStore).
THEOREM ClaimInvariant == Spec => []ClaimInv
<1>1. Init => ClaimInv
    BY DEF Init, ClaimInv, NewestHolds, OvertakenExpired, ClaimsDated, ClaimReleased,
           Settled, NoClaim
<1> QED BY <1>1, ClaimStep, InductiveInvariant, PTL DEF Spec

\* Without a fault an attempt that returned does not hold the claim of its
\* input: the finally block of the worker released it.
THEOREM ReturnedAttemptsReleaseTheirClaim == Spec => []ClaimReleased
BY ClaimInvariant, PTL DEF ClaimInv

\* Two workers of one input are alive at once only if the newer claim dates from
\* after a whole stale period, for any number of requests and take-overs.
THEOREM WorkersOverlapOnlyAfterExpiry == Spec => []OverlapOnlyAfterExpiry
<1>1. Inv /\ ClaimInv => OverlapOnlyAfterExpiry
    <2> SUFFICES ASSUME Inv, ClaimInv, NEW p \in Attempts, NEW q \in Attempts,
                        SameInput(p, q), ~Settled(p), 0 < ver[p], ver[p] < ver[q]
                 PROVE  claim[req[q].digest].at > StaleAfter
        BY DEF OverlapOnlyAfterExpiry
    <2>1. ver[p] \in Nat /\ ver[q] \in Nat
        BY DEF Inv, TypeOK
    <2>2. req[q].digest \in Digests /\ claim[req[q].digest].version \in Nat
        BY <2>1 DEF Inv, TypeOK, RequestKnown, Request, VersionsHandedOut, BeforeClaim,
                    ClaimRow
    <2>3. ver[q] <= claim[req[q].digest].version
        BY <2>1 DEF Inv, VersionsHandedOut
    <2> QED BY <2>1, <2>2, <2>3 DEF ClaimInv, OvertakenExpired, SameInput
<1> QED BY <1>1, InductiveInvariant, ClaimInvariant, PTL

-----------------------------------------------------------------------------
(* What a worker that lost its claim is told.                              *)

\* A later acquisition of p's input was made.
Overtaken(p) == \E q \in Attempts : SameInput(p, q) /\ ver[p] < ver[q]

\* A worker that is alive and does not hold its claim any more lost it to a
\* later acquisition.
LostToSuccessor ==
    \A p \in Attempts : ~Settled(p) /\ ver[p] > 0 /\ ~Owns(p) => Overtaken(p)

\* The claim row names the acquisition of a request, with its binding.
NewestIsNamed ==
    \A d \in Digests : claim[d].version > 0 =>
        \E q \in Attempts :
            /\ req[q].digest = d
            /\ ver[q] = claim[d].version
            /\ claim[d].binding = req[q].binding

\* A step acquires one claim, or leaves version and binding of every claim and
\* what the requests acquired as they are.
LEMMA AcquisitionStep ==
    ASSUME Inv, [Next]_vars
    PROVE  \/ \E p \in Attempts :
                /\ req[p].digest \in Digests
                /\ ver[p] = 0
                /\ req' = req
                /\ claim'[req[p].digest].version = claim[req[p].digest].version + 1
                /\ claim'[req[p].digest].binding = req[p].binding
                /\ claim'[req[p].digest].status = "claimed"
                /\ \A e \in Digests \ {req[p].digest} : claim'[e] = claim[e]
                /\ ver'[p] = claim[req[p].digest].version + 1
                /\ \A q \in Attempts \ {p} : ver'[q] = ver[q] /\ pc'[q] = pc[q]
                /\ pc[p] = "claim" /\ pc'[p] = "submit"
           \/ /\ ver' = ver
              /\ \A q \in Attempts : ver[q] > 0 => req'[q] = req[q]
              /\ \A d \in Digests :
                    /\ claim'[d].version = claim[d].version
                    /\ claim'[d].binding = claim[d].binding
                    /\ claim'[d].status = "claimed" => claim[d].status = "claimed"
<1>types. /\ ver \in [Attempts -> Nat] /\ claim \in [Digests -> ClaimRow]
          /\ pc \in [Attempts -> PC]
          /\ \A q \in Attempts : pc[q] \in BeforeClaim => ver[q] = 0
    BY DEF Inv, TypeOK, VersionsHandedOut
<1>1. ASSUME NEW p \in Attempts, Claim(p), ~LiveClaim(req[p].digest)
      PROVE  /\ req[p].digest \in Digests
             /\ ver[p] = 0
             /\ req' = req
             /\ claim'[req[p].digest].version = claim[req[p].digest].version + 1
             /\ claim'[req[p].digest].binding = req[p].binding
             /\ claim'[req[p].digest].status = "claimed"
             /\ \A e \in Digests \ {req[p].digest} : claim'[e] = claim[e]
             /\ ver'[p] = claim[req[p].digest].version + 1
             /\ \A q \in Attempts \ {p} : ver'[q] = ver[q] /\ pc'[q] = pc[q]
             /\ pc[p] = "claim" /\ pc'[p] = "submit"
    <2>1. req[p].digest \in Digests
        BY <1>1 DEF Claim, Inv, RequestKnown, Request
    <2>2. pc[p] = "claim" /\ ver[p] = 0
        BY <1>1, <1>types DEF Claim, BeforeClaim
    <2>3. /\ req' = req /\ pc' = [pc EXCEPT ![p] = "submit"]
          /\ ver' = [ver EXCEPT ![p] = claim[req[p].digest].version + 1]
          /\ claim' = [claim EXCEPT ![req[p].digest] =
                         [status |-> "claimed", version |-> @.version + 1,
                          at |-> clock, binding |-> req[p].binding]]
        BY <1>1 DEF Claim, Goto
    <2> QED BY <1>types, <2>1, <2>2, <2>3
<1>2. ASSUME NEW p \in Attempts, Claim(p), LiveClaim(req[p].digest)
      PROVE  UNCHANGED <<claim, ver, req>>
    BY <1>2 DEF Claim
<1>3. ASSUME NEW p \in Attempts, NEW d \in Digests, NEW r \in BOOLEAN, Post(p, d, r)
      PROVE  /\ claim' = claim /\ ver' = ver
             /\ \A q \in Attempts : ver[q] > 0 => req'[q] = req[q]
    <2>1. ver[p] = 0 /\ req' = [req EXCEPT ![p] = [digest |-> d, binding |-> authority, regen |-> r]]
        BY <1>3, <1>types DEF Post, BeforeClaim
    <2>2. req \in [Attempts -> Request \cup {NoRequest}]
        BY DEF Inv, TypeOK
    <2> QED BY <1>3, <2>1, <2>2 DEF Post, durable
<1>4. ASSUME NEW p \in Attempts, FinishClaim(p)
      PROVE  /\ ver' = ver /\ req' = req
             /\ \A d \in Digests :
                   /\ claim'[d].version = claim[d].version
                   /\ claim'[d].binding = claim[d].binding
                   /\ claim'[d].status = "claimed" => claim[d].status = "claimed"
    BY <1>4, <1>types DEF FinishClaim, ClaimRow
<1>5. \/ \E p \in Attempts : Claim(p) /\ ~LiveClaim(req[p].digest)
      \/ \E p \in Attempts : Claim(p) /\ LiveClaim(req[p].digest)
      \/ \E p \in Attempts, d \in Digests, r \in BOOLEAN : Post(p, d, r)
      \/ \E p \in Attempts : FinishClaim(p)
      \/ UNCHANGED <<claim, ver, req>>
    BY DEF Next, vars, durable, Handle, Work, Enqueue, Confirm, Submit, SubmitFails,
        Start, PrepareEarly, StartRun, TurnFails, TurnSucceeds, PersistRefused,
        PersistIdempotent, PersistPlan, Context, CheckBinding, SaveTerminal,
        SaveTerminalLost, Tick, Reclassify, Crash
<1>6. CASE \E p \in Attempts : Claim(p) /\ ~LiveClaim(req[p].digest)
    BY <1>1, <1>6
<1>7. CASE \E p \in Attempts : Claim(p) /\ LiveClaim(req[p].digest)
    BY <1>2, <1>7
<1>8. CASE \E p \in Attempts, d \in Digests, r \in BOOLEAN : Post(p, d, r)
    BY <1>3, <1>8
<1>9. CASE \E p \in Attempts : FinishClaim(p)
    BY <1>4, <1>9
<1>10. CASE UNCHANGED <<claim, ver, req>>
    BY <1>10
<1> QED BY <1>5, <1>6, <1>7, <1>8, <1>9, <1>10

\* An acquisition writes its version and its binding to the row together.
LEMMA NamedStep ==
    ASSUME Inv, NewestIsNamed, [Next]_vars
    PROVE  NewestIsNamed'
<1>types. /\ ver \in [Attempts -> Nat]
          /\ \A d \in Digests : claim[d].version \in Nat
    BY DEF Inv, TypeOK, ClaimRow
<1>1. ASSUME NEW p \in Attempts, req[p].digest \in Digests, ver[p] = 0, req' = req,
             claim'[req[p].digest].version = claim[req[p].digest].version + 1,
             claim'[req[p].digest].binding = req[p].binding,
             \A e \in Digests \ {req[p].digest} : claim'[e] = claim[e],
             ver'[p] = claim[req[p].digest].version + 1,
             \A q \in Attempts \ {p} : ver'[q] = ver[q]
      PROVE  NewestIsNamed'
    <2> SUFFICES ASSUME NEW d \in Digests, claim'[d].version > 0
                 PROVE  \E q \in Attempts :
                            /\ req[q].digest = d
                            /\ ver'[q] = claim'[d].version
                            /\ claim'[d].binding = req[q].binding
        BY <1>1 DEF NewestIsNamed
    <2>1. CASE d = req[p].digest
        BY <1>1, <2>1
    <2>2. CASE d # req[p].digest
        <3>1. claim'[d] = claim[d]
            BY <1>1, <2>2
        <3>2. PICK q \in Attempts : /\ req[q].digest = d
                                   /\ ver[q] = claim[d].version
                                   /\ claim[d].binding = req[q].binding
            BY <3>1 DEF NewestIsNamed
        <3>3. q # p
            BY <2>2, <3>2
        <3> QED BY <1>1, <3>1, <3>2, <3>3
    <2> QED BY <2>1, <2>2
<1>2. ASSUME ver' = ver,
             \A q \in Attempts : ver[q] > 0 => req'[q] = req[q],
             \A d \in Digests : /\ claim'[d].version = claim[d].version
                                /\ claim'[d].binding = claim[d].binding
      PROVE  NewestIsNamed'
    BY <1>2, <1>types DEF NewestIsNamed
<1> QED BY <1>1, <1>2, AcquisitionStep

\* The claim rows name acquisitions in every reachable state.
LEMMA NamedInvariant == Spec => []NewestIsNamed
<1>1. Init => NewestIsNamed
    BY DEF Init, NewestIsNamed, NoClaim
<1> QED BY <1>1, NamedStep, InductiveInvariant, PTL DEF Spec

\* The claim of a living worker is taken from it by a later acquisition of the
\* input and by nothing else: not by a crash, a release by somebody else, or an
\* acquisition under another authorization that keeps its version.
LEMMA LossIsOvertaking ==
    ASSUME Inv, ClaimInv, NewestIsNamed, NEW p \in Attempts,
           ~Settled(p), ver[p] > 0, ~Owns(p)
    PROVE  Overtaken(p)
<1> DEFINE d == req[p].digest
<1>1. /\ d \in Digests /\ ver[p] \in Nat /\ claim[d].version \in Nat
      /\ ver[p] <= claim[d].version
    BY DEF Inv, TypeOK, RequestKnown, Request, VersionsHandedOut, BeforeClaim, ClaimRow,
           Settled
<1>2. PICK q \in Attempts : /\ req[q].digest = d
                           /\ ver[q] = claim[d].version
                           /\ claim[d].binding = req[q].binding
    BY <1>1 DEF NewestIsNamed
<1>3. ver[p] # claim[d].version
    <2> SUFFICES ASSUME ver[p] = claim[d].version PROVE FALSE
        OBVIOUS
    <2>1. claim[d].status = "claimed"
        BY DEF ClaimInv, NewestHolds
    <2>2. q = p
        BY <1>1, <1>2 DEF Inv, UniqueClaimVersion, SameInput
    <2> QED BY <1>2, <2>1, <2>2 DEF Owns
<1> QED BY <1>1, <1>2, <1>3 DEF Overtaken, SameInput

\* "A newer worker took the expired claim over", as the response to a fenced
\* save says (planning_generation_claim_stale_response): whoever finds its
\* claim gone while it works was overtaken, after its claim had expired.
THEOREM ClaimsAreLostToSuccessors ==
    Spec => [](LostToSuccessor /\ OvertakenExpired)
<1>1. Inv /\ ClaimInv /\ NewestIsNamed => LostToSuccessor /\ OvertakenExpired
    BY LossIsOvertaking DEF LostToSuccessor, ClaimInv
<1> QED BY <1>1, InductiveInvariant, ClaimInvariant, NamedInvariant, PTL

\* A worker that is told its result is stale had acquired its input, and a later
\* acquisition of it was made.
StaleReplyIsTrue ==
    \A p \in Attempts : reply[p].status = "claim_stale" => ver[p] > 0 /\ Overtaken(p)

\* All that is stored or carried to the store has the current authorization.
Agreed ==
    /\ \A p \in Attempts : pc[p] # "idle" => req[p].binding = authority
    /\ \A x \in plans : x.binding = authority
    /\ \A p \in Attempts :
          pc[p] \in {"context", "save", "update"} => reply[p].binding = authority
    /\ \A d \in Digests : job[d].status # "none" => job[d].binding = authority
    /\ \A p \in Attempts :
          pc[p] \notin {"idle", "enqueue", "done", "dead"} =>
             job[req[p].digest].status # "none"

\* What was overtaken stays so: versions that were handed out are kept.
LEMMA OvertakenKept ==
    ASSUME Inv, [Next]_vars, NEW p \in Attempts, ver[p] > 0, Overtaken(p)
    PROVE  ver'[p] > 0 /\ Overtaken(p)'
<1>1. PICK q \in Attempts : SameInput(p, q) /\ ver[p] < ver[q]
    BY DEF Overtaken
<1>2. ver[p] \in Nat /\ ver[q] \in Nat /\ ver[q] > 0
    BY <1>1 DEF Inv, TypeOK
<1>3. /\ ver'[p] = ver[p] /\ ver'[q] = ver[q]
      /\ req'[p] = req[p] /\ req'[q] = req[q]
    BY <1>2, AcquisitionStep
<1> QED BY <1>1, <1>2, <1>3 DEF Overtaken, SameInput

\* Only the fence and the check of the binding call a result stale.
LEMMA StaleReplyStep ==
    ASSUME Inv, [Next]_vars, NEW p \in Attempts,
           reply'[p].status = "claim_stale", reply[p].status # "claim_stale"
    PROVE  \/ SaveTerminal(p) /\ ~Owns(p)
           \/ /\ pc[p] = "save"
              /\ ~(/\ reply[p].binding = req[p].binding
                   /\ job[req[p].digest].binding = req[p].binding)
<1>types. reply \in [Attempts -> Reply]
    BY DEF Inv, TypeOK
<1>status. "claim_stale" \notin BadReply \cup {"created", "idempotent", "raised"}
    BY DEF BadReply
<1>1. reply' # reply
    OBVIOUS
<1>2. PICK q \in Attempts : \/ SubmitFails(q) \/ PrepareEarly(q) \/ TurnFails(q)
                           \/ PersistRefused(q) \/ PersistIdempotent(q)
                           \/ PersistPlan(q) \/ Context(q) \/ CheckBinding(q)
                           \/ SaveTerminal(q)
    BY <1>1 DEF Next, vars, durable, Handle, Work, Post, Enqueue, Confirm, Claim,
        Submit, Start, StartRun, TurnSucceeds, SaveTerminalLost, FinishClaim, Tick,
        Reclassify, Crash
<1>3. q = p
    <2>1. \A r \in Attempts \ {q} : reply'[r] = reply[r]
        BY <1>2, <1>types
        DEF SubmitFails, PrepareEarly, TurnFails, PersistRefused, PersistIdempotent,
            PersistPlan, Context, CheckBinding, SaveTerminal, Conclude
    <2> QED BY <2>1
<1>4. ~(\/ SubmitFails(p) \/ PrepareEarly(p) \/ TurnFails(p) \/ PersistRefused(p)
        \/ PersistIdempotent(p) \/ PersistPlan(p) \/ Context(p))
    BY <1>types, <1>status
    DEF SubmitFails, PrepareEarly, TurnFails, PersistRefused, PersistIdempotent,
        PersistPlan, Context, Conclude, Reply
<1>5. CASE SaveTerminal(p)
    BY <1>1, <1>5 DEF SaveTerminal
<1>6. CASE CheckBinding(p)
    BY <1>1, <1>6 DEF CheckBinding
<1> QED BY <1>2, <1>3, <1>4, <1>5, <1>6

\* Under one authorization everything agrees, so that the check of the binding
\* passes and only the fence turns a result away.
LEMMA AgreedStep ==
    ASSUME Inv, Agreed, [Next]_vars, authority' = authority
    PROVE  Agreed'
<1> USE DEF Goto, durable
<1>types. /\ pc \in [Attempts -> PC] /\ job \in [Digests -> JobRow]
          /\ req \in [Attempts -> Request \cup {NoRequest}]
          /\ reply \in [Attempts -> Reply]
    BY DEF Inv, TypeOK
<1>req. \A p \in Attempts : pc[p] # "idle" =>
           req[p].digest \in Digests /\ req[p].binding = authority
    BY DEF Inv, RequestKnown, Request, Agreed
<1>latest. \A d \in Digests : PlansFor(d) # {} => LatestPlan(d).binding = authority
    BY LatestPlanIsStored DEF Inv, Agreed, PlansFor
\* A step of one attempt that keeps the requests.
<1>quiet. ASSUME NEW p \in Attempts, ~Settled(p), req' = req,
                 \A x \in plans' : x \in plans \/ x.binding = authority,
                 \A q \in Attempts \ {p} : pc'[q] = pc[q] /\ reply'[q] = reply[q],
                 pc'[p] \in {"context", "save", "update"} => reply'[p].binding = authority,
                 \A d \in Digests :
                    \/ job'[d] = job[d]
                    \/ job'[d].status # "none" /\ job'[d].binding = authority,
                 pc'[p] # "enqueue",
                 pc[p] = "enqueue" =>
                    pc'[p] = "done" \/ job'[req[p].digest].status # "none"
          PROVE  Agreed'
    <2>1. \A q \in Attempts : pc'[q] # "idle" => req'[q].binding = authority'
        BY <1>quiet, <1>req DEF Settled
    <2>2. \A x \in plans' : x.binding = authority'
        BY <1>quiet DEF Agreed
    <2>3. \A q \in Attempts : pc'[q] \in {"context", "save", "update"} =>
              reply'[q].binding = authority'
        BY <1>quiet DEF Agreed
    <2>4. \A d \in Digests : job'[d].status # "none" => job'[d].binding = authority'
        BY <1>quiet DEF Agreed
    <2>5. ASSUME NEW q \in Attempts, pc'[q] \notin {"idle", "enqueue", "done", "dead"}
          PROVE  job'[req'[q].digest].status # "none"
        <3>1. pc[q] # "idle" /\ req[q].digest \in Digests
            BY <1>quiet, <1>req, <2>5 DEF Settled
        <3>2. CASE q = p /\ pc[p] = "enqueue"
            BY <1>quiet, <2>5, <3>2
        <3>3. CASE q # p \/ pc[p] # "enqueue"
            <4>1. pc[q] \notin {"idle", "enqueue", "done", "dead"}
                BY <1>quiet, <2>5, <3>1, <3>3 DEF Settled
            <4> QED BY <1>quiet, <3>1, <4>1 DEF Agreed
        <3> QED BY <3>2, <3>3
    <2> QED BY <2>1, <2>2, <2>3, <2>4, <2>5 DEF Agreed
<1>1. ASSUME NEW p \in Attempts, NEW d \in Digests, NEW r \in BOOLEAN, Post(p, d, r)
      PROVE  Agreed'
    BY <1>1, <1>types DEF Post, Agreed
<1>2. ASSUME NEW p \in Attempts, Enqueue(p) PROVE Agreed'
    <2>1. req[p].digest \in Digests /\ req[p].binding = authority /\ ~Settled(p)
        BY <1>2, <1>req DEF Enqueue, Settled
    <2>2. /\ req' = req /\ plans' = plans /\ reply' = reply
          /\ \A q \in Attempts \ {p} : pc'[q] = pc[q]
          /\ pc'[p] \in {"done", "confirm", "claim"}
        BY <1>2, <1>types DEF Enqueue
    <2>3. \/ job' = job /\ (pc'[p] = "done" \/ job[req[p].digest].status = "queued")
          \/ job' = [job EXCEPT ![req[p].digest] =
                       [status |-> "queued", at |-> clock, binding |-> req[p].binding]]
        BY <1>2, <1>types DEF Enqueue, FreshQueued
    <2> QED BY <1>types, <2>1, <2>2, <2>3, <1>quiet
<1>3. ASSUME NEW p \in Attempts,
             \/ Confirm(p) \/ Claim(p) \/ Submit(p) \/ Start(p) \/ StartRun(p)
             \/ TurnSucceeds(p) \/ FinishClaim(p)
      PROVE  Agreed'
    <2>1. /\ req' = req /\ plans' = plans /\ reply' = reply /\ job' = job
          /\ \A q \in Attempts \ {p} : pc'[q] = pc[q]
          /\ ~Settled(p) /\ pc[p] # "enqueue"
          /\ pc'[p] \notin {"enqueue", "context", "save", "update"}
        BY <1>3, <1>types
        DEF Confirm, Claim, Submit, Start, StartRun, TurnSucceeds, FinishClaim, Settled
    <2> QED BY <2>1, <1>quiet
<1>4. ASSUME NEW p \in Attempts,
             \/ SubmitFails(p) \/ PrepareEarly(p) \/ TurnFails(p) \/ PersistRefused(p)
             \/ PersistIdempotent(p)
      PROVE  Agreed'
    <2>1. /\ req' = req /\ plans' = plans /\ job' = job
          /\ ~Settled(p) /\ pc[p] # "enqueue"
        BY <1>4
        DEF SubmitFails, PrepareEarly, TurnFails, PersistRefused, PersistIdempotent,
            Settled
    <2>2. /\ \A q \in Attempts \ {p} : pc'[q] = pc[q] /\ reply'[q] = reply[q]
          /\ pc'[p] \in {"context", "save", "done"}
        BY <1>4, <1>types
        DEF SubmitFails, PrepareEarly, TurnFails, PersistRefused, PersistIdempotent,
            Conclude
    <2>3. req[p].digest \in Digests /\ req[p].binding = authority
        BY <2>1, <1>req DEF Settled
    <2>4. reply'[p].binding = authority
        BY <1>4, <1>types, <2>3, <1>latest
        DEF SubmitFails, PrepareEarly, TurnFails, PersistRefused, PersistIdempotent,
            Conclude
    <2> QED BY <2>1, <2>2, <2>4, <1>quiet
<1>5. ASSUME NEW p \in Attempts, PersistPlan(p) PROVE Agreed'
    <2>1. /\ req' = req /\ job' = job /\ ~Settled(p) /\ pc[p] # "enqueue"
          /\ req[p].binding = authority
          /\ plans' = plans \cup
               {[version |-> NextVersion, digest |-> req[p].digest,
                 binding |-> req[p].binding, by |-> p,
                 repair |-> PlansFor(req[p].digest) # {}]}
        BY <1>5 DEF PersistPlan, Settled
    <2>2. /\ \A q \in Attempts \ {p} : pc'[q] = pc[q] /\ reply'[q] = reply[q]
          /\ pc'[p] \in {"context", "save"}
          /\ reply'[p].binding = req[p].binding
        BY <1>5, <1>types DEF PersistPlan, Conclude
    <2>3. \A x \in plans' : x \in plans \/ x.binding = authority
        BY <2>1
    <2> QED BY <2>1, <2>2, <2>3, <1>quiet
<1>6. ASSUME NEW p \in Attempts, Context(p) \/ CheckBinding(p) \/ SaveTerminalLost(p)
      PROVE  Agreed'
    <2>1. /\ req' = req /\ plans' = plans /\ job' = job
          /\ ~Settled(p) /\ pc[p] \in {"context", "save"}
        BY <1>6 DEF Context, CheckBinding, SaveTerminalLost, Settled
    <2>2. /\ \A q \in Attempts \ {p} : pc'[q] = pc[q] /\ reply'[q] = reply[q]
          /\ pc'[p] \in {"save", "update", "finish"}
          /\ reply'[p].binding = reply[p].binding
        BY <1>6, <1>types DEF Context, CheckBinding, SaveTerminalLost, Reply
    <2>3. reply[p].binding = authority
        BY <2>1 DEF Agreed
    <2> QED BY <2>1, <2>2, <2>3, <1>quiet
<1>7. ASSUME NEW p \in Attempts, SaveTerminal(p) PROVE Agreed'
    <2>1. /\ req' = req /\ plans' = plans /\ ~Settled(p) /\ pc[p] = "update"
          /\ reply[p].binding = authority
        BY <1>7 DEF SaveTerminal, Settled, Agreed
    <2>2. /\ \A q \in Attempts \ {p} : pc'[q] = pc[q] /\ reply'[q] = reply[q]
          /\ pc'[p] = "finish"
        BY <1>7, <1>types DEF SaveTerminal
    <2>3. \A d \in Digests :
             \/ job'[d] = job[d]
             \/ job'[d].status # "none" /\ job'[d].binding = authority
        <3>1. CASE job' = job
            BY <3>1
        <3>2. CASE job' # job
            <4> DEFINE t == IF reply[p].status \in BadReply THEN reply[p].status ELSE "finished"
            <4>1. /\ job' = [job EXCEPT ![req[p].digest] =
                              [status |-> t, at |-> clock, binding |-> reply[p].binding]]
                  /\ t # "none"
                BY <1>7, <3>2 DEF SaveTerminal, BadReply
            <4> HIDE DEF t
            <4> QED BY <1>types, <2>1, <4>1
        <3> QED BY <3>1, <3>2
    <2> QED BY <2>1, <2>2, <2>3, <1>quiet
<1>8. CASE Crash
    <2>1. /\ UNCHANGED <<req, plans, job, reply>>
          /\ \A q \in Attempts : pc'[q] = pc[q] \/ (pc'[q] = "dead" /\ ~Settled(q))
        BY <1>8, <1>types DEF Crash
    <2> QED BY <2>1 DEF Agreed, Settled
<1>9. CASE Tick \/ UNCHANGED vars
    BY <1>9 DEF Tick, vars, Agreed
<1>10. ~Reclassify
    BY DEF Reclassify
<1> QED
    BY <1>1, <1>2, <1>3, <1>4, <1>5, <1>6, <1>7, <1>8, <1>9, <1>10
    DEF Next, Handle, Work

\* "A newer worker took the expired claim over; the late result of this attempt
\* was rejected": as long as the authorization does not change, whoever is told so
\* was overtaken (planning_generation_claim_stale_response).  The second half of
\* the sentence is what LateResultRejected refutes, and without the hypothesis the
\* check of the binding gives the same answer to a worker nobody overtook.
THEOREM StaleRepliesAreTrue ==
    Spec /\ [][authority' = authority]_vars => []StaleReplyIsTrue
<1>1. Init => Agreed /\ StaleReplyIsTrue
    BY DEF Init, Agreed, StaleReplyIsTrue, NoJob, NoReply
<1>2. Inv /\ Agreed /\ [Next]_vars /\ [authority' = authority]_vars => Agreed'
    BY AgreedStep DEF vars
<1>3. Inv /\ ClaimInv /\ NewestIsNamed /\ Agreed /\ StaleReplyIsTrue /\ [Next]_vars
        => StaleReplyIsTrue'
    <2> SUFFICES ASSUME Inv, ClaimInv, NewestIsNamed, Agreed, StaleReplyIsTrue,
                        [Next]_vars, NEW p \in Attempts,
                        reply'[p].status = "claim_stale"
                 PROVE  ver'[p] > 0 /\ Overtaken(p)'
        BY DEF StaleReplyIsTrue
    <2>1. CASE reply[p].status = "claim_stale"
        BY <2>1, OvertakenKept DEF StaleReplyIsTrue
    <2>2. CASE reply[p].status # "claim_stale"
        <3>1. pc[p] = "save" => /\ reply[p].binding = req[p].binding
                                /\ job[req[p].digest].binding = req[p].binding
            BY DEF Agreed, Inv, RequestKnown, Request
        <3>2. SaveTerminal(p) /\ ~Owns(p)
            BY <2>2, <3>1, StaleReplyStep
        <3>3. ~Settled(p) /\ ver[p] > 0
            BY <3>2 DEF SaveTerminal, Settled, Inv, VersionsHandedOut, Working
        <3> QED BY <3>2, <3>3, LossIsOvertaking, OvertakenKept
    <2> QED BY <2>1, <2>2
<1> QED BY <1>1, <1>2, <1>3, InductiveInvariant, ClaimInvariant, NamedInvariant, PTL
        DEF Spec

-----------------------------------------------------------------------------
(* Who ends a queued job.  QueueEndedBySameBinding fails: the binding is       *)
(* checked before the transaction of the save.  It holds of every behaviour    *)
(* in which no request queues the input again between the two.                 *)

\* Nobody queues an input again while the holder of its claim is between the
\* check of its binding and its save.
NoRequeueInWindow ==
    \A p, q \in Attempts :
        /\ pc[p] = "update" /\ Owns(p)
        /\ pc[q] = "enqueue" /\ pc'[q] = "claim"
        => req[q].digest # req[p].digest

\* What was checked is still so when the holder of the claim saves.
UpdateIsChecked ==
    \A p \in Attempts :
        pc[p] = "update" /\ Owns(p) =>
            /\ reply[p].binding = req[p].binding
            /\ job[req[p].digest].binding = req[p].binding

\* A claim that is lost is not won back.
LEMMA OwnsBefore ==
    ASSUME Inv, [Next]_vars, NEW p \in Attempts, pc[p] = "update", Owns(p)'
    PROVE  Owns(p) /\ req'[p] = req[p]
<1> DEFINE d == req[p].digest
<1>1. /\ ver[p] \in Nat /\ ver[p] > 0 /\ d \in Digests
      /\ claim[d].version \in Nat /\ ver[p] <= claim[d].version
    BY DEF Inv, TypeOK, RequestKnown, Request, VersionsHandedOut, Working, ClaimRow
<1>2. req'[p] = req[p] /\ ver'[p] = ver[p]
    BY <1>1, AcquisitionStep
<1>3. /\ claim'[d].status = "claimed" /\ claim'[d].version = ver[p]
      /\ claim'[d].binding = req[p].binding
    BY <1>2 DEF Owns
<1> HIDE DEF d
<1>4. \/ claim'[d] = claim[d]
      \/ /\ claim'[d].version = claim[d].version
         /\ claim'[d].binding = claim[d].binding
         /\ claim[d].status = "claimed"
      \/ claim'[d].version = claim[d].version + 1
    BY <1>1, <1>3, AcquisitionStep
<1> QED BY <1>1, <1>2, <1>3, <1>4 DEF Owns, d

\* An attempt that is at its update came there by the check of its binding, or was
\* there and kept its reply.
LEMMA AtUpdate ==
    ASSUME Inv, [Next]_vars, NEW p \in Attempts, pc'[p] = "update"
    PROVE  \/ /\ pc[p] = "save" /\ reply' = reply /\ job' = job /\ req' = req
              /\ reply[p].binding = req[p].binding
              /\ job[req[p].digest].binding = req[p].binding
           \/ pc[p] = "update" /\ reply'[p] = reply[p]
<1> USE DEF Goto, durable
<1>types. pc \in [Attempts -> PC] /\ reply \in [Attempts -> Reply]
    BY DEF Inv, TypeOK
<1>1. ASSUME NEW q \in Attempts, NEW d \in Digests, NEW r \in BOOLEAN, Post(q, d, r)
      PROVE  pc[p] = "update" /\ reply'[p] = reply[p]
    BY <1>1, <1>types DEF Post
<1>2. ASSUME NEW q \in Attempts, Handle(q) \/ Work(q), q # p
      PROVE  pc[p] = "update" /\ reply'[p] = reply[p]
    <2>1. pc'[p] = pc[p] /\ reply'[p] = reply[p]
        BY <1>2, <1>types
        DEF Handle, Work, Enqueue, Confirm, Claim, Submit, SubmitFails, Start,
            PrepareEarly, StartRun, TurnFails, TurnSucceeds, PersistRefused,
            PersistIdempotent, PersistPlan, Context, CheckBinding, SaveTerminal,
            SaveTerminalLost, FinishClaim, Conclude
    <2> QED BY <2>1
<1>3. ASSUME Handle(p)
      PROVE  FALSE
    BY <1>3, <1>types DEF Handle, Enqueue, Confirm, Claim, Submit, SubmitFails
<1>4. ASSUME Work(p), ~CheckBinding(p)
      PROVE  FALSE
    BY <1>4, <1>types
    DEF Work, Start, PrepareEarly, StartRun, TurnFails, TurnSucceeds, PersistRefused,
        PersistIdempotent, PersistPlan, Context, SaveTerminal, SaveTerminalLost,
        FinishClaim, Conclude
<1>5. ASSUME CheckBinding(p)
      PROVE  /\ pc[p] = "save" /\ reply' = reply /\ job' = job /\ req' = req
             /\ reply[p].binding = req[p].binding
             /\ job[req[p].digest].binding = req[p].binding
    BY <1>5, <1>types DEF CheckBinding
<1>6. CASE Tick \/ Reclassify \/ Crash \/ UNCHANGED vars
    BY <1>6, <1>types DEF Tick, Reclassify, Crash, vars
<1> QED BY <1>1, <1>2, <1>3, <1>4, <1>5, <1>6 DEF Next

\* Until the save only its own attempt and an enqueue could write the job: another
\* holder of the claim there is none.
LEMMA CheckedStep ==
    ASSUME Inv, UpdateIsChecked, NoRequeueInWindow, [Next]_vars
    PROVE  UpdateIsChecked'
<1> SUFFICES ASSUME NEW p \in Attempts, pc'[p] = "update", Owns(p)'
             PROVE  /\ reply'[p].binding = req'[p].binding
                    /\ job'[req'[p].digest].binding = req'[p].binding
    BY DEF UpdateIsChecked
<1> DEFINE d == req[p].digest
<1>1. CASE pc[p] = "save" /\ reply' = reply /\ job' = job /\ req' = req
           /\ reply[p].binding = req[p].binding
           /\ job[req[p].digest].binding = req[p].binding
    BY <1>1
<1>2. CASE pc[p] = "update" /\ reply'[p] = reply[p]
    <2>1. Owns(p) /\ req'[p] = req[p]
        BY <1>2, OwnsBefore
    <2>2. /\ reply[p].binding = req[p].binding
          /\ job[d].binding = req[p].binding
        BY <1>2, <2>1 DEF UpdateIsChecked
    <2>3. job \in [Digests -> JobRow] /\ d \in Digests /\ ver[p] > 0
        BY <1>2 DEF Inv, TypeOK, RequestKnown, Request, VersionsHandedOut, Working
    <2>4. ASSUME NEW q \in Attempts, Enqueue(q), job' # job
          PROVE  job'[d] = job[d]
        <3>1. pc[q] = "enqueue" /\ pc'[q] = "claim"
            BY <2>4 DEF Enqueue, Goto, Inv, TypeOK
        <3>2. req[q].digest # d
            BY <1>2, <2>1, <3>1 DEF NoRequeueInWindow
        <3> QED BY <2>3, <2>4, <3>2 DEF Enqueue
    <2>5. ASSUME NEW q \in Attempts, SaveTerminal(q), job' # job
          PROVE  job'[d] = job[d]
        <3>1. Owns(q) /\ pc[q] = "update" /\ pc'[q] = "finish"
            BY <2>5 DEF SaveTerminal, Goto, Inv, TypeOK
        <3>2. q # p
            BY <3>1
        <3>3. ver[q] > 0
            BY <3>1 DEF Inv, VersionsHandedOut, Working
        <3>4. req[q].digest # d
            BY <2>1, <2>3, <3>1, <3>2, <3>3 DEF Owns, Inv, UniqueClaimVersion, SameInput
        <3> QED BY <2>3, <2>5, <3>4 DEF SaveTerminal
    <2>6. job'[d] = job[d]
        BY <2>4, <2>5, JobWriters
    <2> QED BY <1>2, <2>1, <2>2, <2>6
<1> QED BY <1>1, <1>2, AtUpdate

\* The gap between the SELECT of the binding and the UPDATE of the job is the only
\* way a worker ends a job queued under another authorization: in one transaction
\* the two would keep the promise, whatever goes stale or is taken over meanwhile
\* (_terminal_response_matches_durable_binding, _save_terminal_response).
THEOREM ForeignFinishNeedsWindow ==
    Spec /\ [][NoRequeueInWindow]_vars => QueueEndedBySameBinding
<1>1. Init => UpdateIsChecked
    BY DEF Init, UpdateIsChecked
<1>2. Inv /\ UpdateIsChecked /\ [Next]_vars /\ [NoRequeueInWindow]_vars
        => UpdateIsChecked'
    <2>1. UpdateIsChecked /\ UNCHANGED vars => UpdateIsChecked'
        BY DEF UpdateIsChecked, vars, Owns
    <2> QED BY <2>1, CheckedStep
<1>3. Inv /\ UpdateIsChecked /\ [Next]_vars =>
        [\A d \in Digests :
           job[d].status = "queued" /\ job'[d].status # "queued" =>
              job'[d].binding = job[d].binding]_vars
    <2> SUFFICES ASSUME Inv, UpdateIsChecked, [Next]_vars, NEW d \in Digests,
                        job[d].status = "queued", job'[d].status # "queued"
                 PROVE  job'[d].binding = job[d].binding
        OBVIOUS
    <2>1. job \in [Digests -> JobRow] /\ job' # job
        BY DEF Inv, TypeOK
    <2>2. ASSUME NEW p \in Attempts, Enqueue(p)
          PROVE  FALSE
        BY <2>1, <2>2 DEF Enqueue
    <2>3. ASSUME NEW p \in Attempts, SaveTerminal(p)
          PROVE  job'[d].binding = job[d].binding
        <3>1. Owns(p) /\ pc[p] = "update"
            BY <2>1, <2>3 DEF SaveTerminal
        <3>2. req[p].digest = d /\ job'[d].binding = reply[p].binding
            BY <2>1, <2>3, <3>1 DEF SaveTerminal
        <3> QED BY <3>1, <3>2 DEF UpdateIsChecked
    <2> QED BY <2>1, <2>2, <2>3, JobWriters
<1> QED BY <1>1, <1>2, <1>3, InductiveInvariant, PTL DEF Spec, QueueEndedBySameBinding

-----------------------------------------------------------------------------
(* Who generates a queued job.  GeneratingHasWorker fails: a request that      *)
(* queued its input again may be refused by a worker that has saved already.   *)
(* It holds of every behaviour of one authorization without such a refusal.    *)

\* The places of a worker whose save is still to come.
BeforeSave == {"submit", "pending"} \cup (Working \ {"finish"})

\* No request is refused the claim of its input by a worker that has saved.
NoLateRefusal ==
    \A p, q \in Attempts :
        SameInput(p, q) /\ pc[p] = "finish" /\ Owns(p) /\ pc[q] = "claim"
            => pc'[q] # "done"

\* A request that is about to claim the input, or a worker that holds its claim
\* and will save.
Serves(p, d) ==
    /\ pc[p] # "idle" /\ req[p].digest = d
    /\ pc[p] = "claim" \/ (Owns(p) /\ pc[p] \in BeforeSave)

\* A fresh queued job is served, as long as nothing failed.
QueuedIsServed ==
    /\ faults = 0 => \A d \in Digests : FreshQueued(d) => \E p \in Attempts : Serves(p, d)
    /\ \A p \in Attempts : pc[p] = "dead" => faults > 0
    /\ \A d \in Digests : claim[d].status = "claimed" => claim[d].version > 0

\* A step is a step of one attempt, a crash, or leaves the attempts alone.
LEMMA OneAttemptMoves ==
    ASSUME Inv, [Next]_vars
    PROVE  \/ \E q \in Attempts :
                /\ \/ \E d \in Digests, r \in BOOLEAN : Post(q, d, r)
                   \/ Handle(q)
                   \/ Work(q)
                /\ ~Settled(q) \/ pc[q] = "idle"
                /\ faults' = faults \/ faults' = faults + 1
                /\ \A r \in Attempts \ {q} : /\ pc'[r] = pc[r] /\ req'[r] = req[r]
                                            /\ ver'[r] = ver[r]
           \/ Crash
           \/ UNCHANGED <<pc, req, ver, claim, job, faults>>
<1> USE DEF Goto, durable
<1>types. /\ pc \in [Attempts -> PC] /\ ver \in [Attempts -> Nat]
          /\ req \in [Attempts -> Request \cup {NoRequest}]
    BY DEF Inv, TypeOK
<1>1. ASSUME NEW q \in Attempts, NEW d \in Digests, NEW r \in BOOLEAN, Post(q, d, r)
      PROVE  /\ pc[q] = "idle" /\ faults' = faults
             /\ \A s \in Attempts \ {q} : /\ pc'[s] = pc[s] /\ req'[s] = req[s]
                                         /\ ver'[s] = ver[s]
    BY <1>1, <1>types DEF Post
<1>2. ASSUME NEW q \in Attempts, Handle(q)
      PROVE  /\ ~Settled(q) /\ (faults' = faults \/ faults' = faults + 1)
             /\ \A s \in Attempts \ {q} : /\ pc'[s] = pc[s] /\ req'[s] = req[s]
                                         /\ ver'[s] = ver[s]
    BY <1>2, <1>types
    DEF Handle, Enqueue, Confirm, Claim, Submit, SubmitFails, Settled
<1>3. ASSUME NEW q \in Attempts, Work(q)
      PROVE  /\ ~Settled(q) /\ (faults' = faults \/ faults' = faults + 1)
             /\ \A s \in Attempts \ {q} : /\ pc'[s] = pc[s] /\ req'[s] = req[s]
                                         /\ ver'[s] = ver[s]
    BY <1>3, <1>types
    DEF Work, Start, PrepareEarly, StartRun, TurnFails, TurnSucceeds, PersistRefused,
        PersistIdempotent, PersistPlan, Context, CheckBinding, SaveTerminal,
        SaveTerminalLost, FinishClaim, Conclude, Settled
<1>4. CASE Tick \/ Reclassify \/ UNCHANGED vars
    BY <1>4 DEF Tick, Reclassify, vars
<1> QED BY <1>1, <1>2, <1>3, <1>4 DEF Next

\* While nothing failed, the claim of an input is held by a worker that is alive.
LEMMA HolderIsAlive ==
    ASSUME Inv, ClaimInv, NewestIsNamed, QueuedIsServed, faults = 0,
           NEW d \in Digests, claim[d].status = "claimed"
    PROVE  \E r \in Attempts : /\ Owns(r) /\ pc[r] # "idle" /\ req[r].digest = d
                               /\ pc[r] \in BeforeSave \cup {"finish"}
<1>1. claim[d].version > 0
    BY DEF QueuedIsServed
<1>2. PICK r \in Attempts : /\ req[r].digest = d
                           /\ ver[r] = claim[d].version
                           /\ claim[d].binding = req[r].binding
    BY <1>1 DEF NewestIsNamed
<1>3. Owns(r)
    BY <1>2 DEF Owns
<1>4. pc[r] # "done" /\ pc[r] # "dead"
    BY <1>1, <1>2, <1>3 DEF ClaimInv, ClaimReleased, QueuedIsServed
<1>5. pc[r] \notin BeforeClaim
    BY <1>1, <1>2 DEF Inv, VersionsHandedOut
<1>6. pc[r] \in PC
    BY DEF Inv, TypeOK
<1> QED BY <1>2, <1>3, <1>4, <1>5, <1>6
        DEF PC, BeforeClaim, BeforeSave, Handling, Working

\* Whoever serves a job goes on to serve it, hands it to the acquisition that takes
\* its claim over, or has saved it.
LEMMA ServedStep ==
    ASSUME Inv, Inv', ClaimInv, NewestIsNamed, Agreed, QueuedIsServed, [Next]_vars,
           NoLateRefusal, faults' = 0, NEW d \in Digests, FreshQueued(d)'
    PROVE  \E p \in Attempts : Serves(p, d)'
<1> USE DEF Goto, durable
<1>types. /\ pc \in [Attempts -> PC] /\ ver \in [Attempts -> Nat]
          /\ job \in [Digests -> JobRow] /\ claim \in [Digests -> ClaimRow]
          /\ req \in [Attempts -> Request \cup {NoRequest}]
          /\ clock \in Nat /\ faults \in Nat /\ job[d].at \in Nat /\ StaleAfter \in Nat
    BY ConstantsAssumption DEF Inv, TypeOK, JobRow
<1>faults. faults = 0 /\ ~Crash
    BY <1>types, OneAttemptMoves DEF Crash
<1>clock. clock' \in Nat /\ clock <= clock'
    BY ClockStep DEF Inv
<1>ver. \A p \in Attempts : pc[p] \in BeforeSave \cup {"finish"} =>
           ver[p] > 0 /\ req[p].digest \in Digests
    BY DEF Inv, VersionsHandedOut, RequestKnown, Request, BeforeSave, Working
<1>1. CASE ~FreshQueued(d)
    <2>1. job'[d] # job[d]
        BY <1>1, <1>types, <1>clock DEF FreshQueued, Expired
    <2>2. ASSUME NEW q \in Attempts, SaveTerminal(q)
          PROVE  FALSE
        BY <2>1, <2>2, <1>types DEF SaveTerminal, FreshQueued, BadReply
    <2>3. PICK q \in Attempts : Enqueue(q)
        BY <2>1, <2>2, JobWriters
    <2>4. req[q].digest = d /\ pc'[q] = "claim" /\ req' = req
        BY <2>1, <2>3, <1>types DEF Enqueue
    <2> QED BY <2>4 DEF Serves
\* A claim of d that is acquired is acquired by a new servant of d.
<1>2. ASSUME NEW q \in Attempts, Claim(q), ~LiveClaim(d), req[q].digest = d
      PROVE  Serves(q, d)'
    <2>1. /\ claim' = [claim EXCEPT ![d] =
                        [status |-> "claimed", version |-> @.version + 1,
                         at |-> clock, binding |-> req[q].binding]]
          /\ ver' = [ver EXCEPT ![q] = claim[d].version + 1]
          /\ pc' = [pc EXCEPT ![q] = "submit"] /\ req' = req
        BY <1>2 DEF Claim
    <2>2. Owns(q)' /\ pc'[q] = "submit" /\ req'[q].digest = d
        BY <1>2, <1>types, <2>1 DEF Owns
    <2> QED BY <2>2 DEF Serves, BeforeSave
\* A holder of the claim that does not move serves on or was overtaken.
<1>3. ASSUME NEW r \in Attempts, Owns(r), pc[r] \in BeforeSave, req[r].digest = d,
             pc'[r] = pc[r], req'[r] = req[r], ver'[r] = ver[r]
      PROVE  \E p \in Attempts : Serves(p, d)'
    <2>1. CASE claim'[d] = claim[d]
        BY <1>3, <2>1 DEF Serves, Owns, BeforeSave, Working
    <2>2. CASE claim'[d] # claim[d]
        <3>1. \E q \in Attempts : Claim(q) \/ FinishClaim(q)
            BY <2>2 DEF Next, vars, Handle, Work, Post, Enqueue, Confirm,
                Submit, SubmitFails, Start, PrepareEarly, StartRun, TurnFails,
                TurnSucceeds, PersistRefused, PersistIdempotent, PersistPlan, Context,
                CheckBinding, SaveTerminal, SaveTerminalLost, Tick, Reclassify, Crash
        <3>2. ASSUME NEW q \in Attempts, Claim(q)
              PROVE  Serves(q, d)'
            <4>1. req[q].digest = d /\ ~LiveClaim(d)
                BY <2>2, <3>2, <1>types DEF Claim
            <4> QED BY <3>2, <4>1, <1>2
        <3>3. ASSUME NEW q \in Attempts, FinishClaim(q)
              PROVE  FALSE
            <4>1. Owns(q) /\ req[q].digest = d /\ pc[q] = "finish"
                BY <2>2, <3>3, <1>types DEF FinishClaim
            <4>2. q # r
                BY <1>3, <4>1 DEF BeforeSave
            <4> QED BY <1>3, <1>ver, <4>1, <4>2 DEF Owns, Inv, UniqueClaimVersion, SameInput
        <3> QED BY <3>1, <3>2, <3>3
    <2> QED BY <2>1, <2>2
<1>4. CASE FreshQueued(d)
    <2>1. PICK p \in Attempts : Serves(p, d)
        BY <1>4, <1>faults DEF QueuedIsServed
    <2>2. CASE pc'[p] = pc[p] /\ req'[p] = req[p] /\ ver'[p] = ver[p]
        BY <2>1, <2>2, <1>3 DEF Serves
    <2>3. CASE pc[p] = "claim" /\ (Handle(p) \/ Work(p))
        <3>1. Claim(p)
            BY <2>3 DEF Handle, Work, Enqueue, Confirm, Submit, SubmitFails, Start,
                PrepareEarly, StartRun, TurnFails, TurnSucceeds, PersistRefused,
                PersistIdempotent, PersistPlan, Context, CheckBinding, SaveTerminal,
                SaveTerminalLost, FinishClaim
        <3>2. req[p].digest = d
            BY <2>1 DEF Serves
        <3>3. CASE LiveClaim(d)
            <4>1. pc'[p] = "done" /\ claim' = claim /\ req' = req /\ ver' = ver
                  /\ \A r \in Attempts \ {p} : pc'[r] = pc[r]
                BY <3>1, <3>2, <3>3, <1>types DEF Claim
            <4>2. PICK r \in Attempts : /\ Owns(r) /\ req[r].digest = d
                                       /\ pc[r] \in BeforeSave \cup {"finish"}
                BY <3>3, <1>faults, HolderIsAlive DEF LiveClaim
            <4>3. r # p
                BY <2>3, <4>2 DEF BeforeSave, Working
            <4>4. pc[r] # "finish"
                BY <2>3, <3>2, <4>1, <4>2, <4>3 DEF NoLateRefusal, SameInput
            <4> QED BY <4>1, <4>2, <4>3, <4>4, <1>3
        <3> QED BY <1>2, <3>1, <3>2, <3>3
    <2>4. CASE Owns(p) /\ pc[p] \in BeforeSave /\ (Handle(p) \/ Work(p))
        <3>1. req[p].digest = d
            BY <2>1 DEF Serves
        <3>2. ~SubmitFails(p) /\ ~SaveTerminalLost(p)
            BY <1>types, <1>faults DEF SubmitFails, SaveTerminalLost
        <3>3. ~SaveTerminal(p)
            BY <2>4, <3>1, <1>types DEF SaveTerminal, FreshQueued, BadReply
        <3>4. ASSUME Context(p) PROVE pc'[p] = "save"
            <4>1. ContextReadable(p)
                BY <1>4, <3>1 DEF ContextReadable, FreshQueued
            <4>2. reply[p].binding = req[p].binding
                BY <3>4 DEF Agreed, Context
            <4> QED BY <3>4, <4>1, <4>2, <1>types DEF Context
        <3>5. ASSUME CheckBinding(p) PROVE pc'[p] = "update"
            <4>1. /\ reply[p].binding = req[p].binding
                  /\ job[req[p].digest].binding = req[p].binding
                BY <3>1, <3>5, <1>4 DEF CheckBinding, Agreed, FreshQueued
            <4> QED BY <3>5, <4>1, <1>types DEF CheckBinding
        <3>6. pc'[p] \in BeforeSave /\ UNCHANGED <<claim, req, ver>>
            BY <2>4, <3>2, <3>3, <3>4, <3>5, <1>types
            DEF BeforeSave, Handle, Work, Enqueue, Confirm, Claim, Submit, Start,
                PrepareEarly, StartRun, TurnFails, TurnSucceeds, PersistRefused,
                PersistIdempotent, PersistPlan, Context, CheckBinding, FinishClaim,
                Conclude, Working
        <3>7. pc'[p] # "idle"
            BY <3>6 DEF BeforeSave, Working
        <3> QED BY <2>4, <3>1, <3>6, <3>7 DEF Serves, Owns
    <2>5. pc[p] # "idle"
        BY <2>1 DEF Serves
    <2>6. \/ pc'[p] = pc[p] /\ req'[p] = req[p] /\ ver'[p] = ver[p]
          \/ Handle(p) \/ Work(p)
        BY <2>5, <1>faults, OneAttemptMoves DEF Post
    <2> QED BY <2>1, <2>2, <2>3, <2>4, <2>6 DEF Serves
<1> QED BY <1>1, <1>4

\* "The plan is being prepared; this view refreshes when it ends" is true of every
\* behaviour in which nothing fails, the authorization stays, and no request is
\* refused the claim by a worker that has saved already and not released it yet
\* (planning_generation_generating_response, schedule_queued_planning_generation).
THEOREM LostWakeupsNeedLateRefusal ==
    Spec /\ [][authority' = authority]_vars /\ [][NoLateRefusal]_vars
        => []GeneratingHasWorker
<1>1. Init => Agreed /\ QueuedIsServed
    BY DEF Init, Agreed, QueuedIsServed, FreshQueued, NoJob, NoClaim
<1>2. Inv /\ Agreed /\ [Next]_vars /\ [authority' = authority]_vars => Agreed'
    BY AgreedStep DEF vars
<1>3. Inv /\ Inv' /\ ClaimInv /\ NewestIsNamed /\ Agreed /\ QueuedIsServed
        /\ [Next]_vars /\ [NoLateRefusal]_vars => QueuedIsServed'
    <2> SUFFICES ASSUME Inv, Inv', ClaimInv, NewestIsNamed, Agreed, QueuedIsServed,
                        [Next]_vars, [NoLateRefusal]_vars
                 PROVE  QueuedIsServed'
        OBVIOUS
    <2>1. CASE UNCHANGED vars
        BY <2>1 DEF vars, QueuedIsServed, FreshQueued, Expired, Serves, Owns
    <2>2. CASE ~UNCHANGED vars
        <3>1. (faults' = 0) => \A d \in Digests : FreshQueued(d)' => \E p \in Attempts : Serves(p, d)'
            BY <2>2, ServedStep
        <3>2. \A p \in Attempts : pc'[p] = "dead" => faults' > 0
            <4>1. CASE Crash
                BY <4>1 DEF Crash, Inv, TypeOK
            <4>2. CASE ~Crash
                <5> USE DEF Goto, durable
                <5>types. pc \in [Attempts -> PC]
                    BY DEF Inv, TypeOK
                <5>a. ASSUME NEW q \in Attempts, NEW d \in Digests, NEW r \in BOOLEAN,
                             Post(q, d, r)
                      PROVE  pc'[q] # "dead"
                    BY <5>a, <5>types DEF Post
                <5>b. ASSUME NEW q \in Attempts, Handle(q)
                      PROVE  pc'[q] # "dead"
                    BY <5>b, <5>types
                    DEF Handle, Enqueue, Confirm, Claim, Submit, SubmitFails
                <5>c. ASSUME NEW q \in Attempts, Work(q)
                      PROVE  pc'[q] # "dead"
                    BY <5>c, <5>types
                    DEF Work, Start, PrepareEarly, StartRun, TurnFails, TurnSucceeds,
                        PersistRefused, PersistIdempotent, PersistPlan, Context,
                        CheckBinding, SaveTerminal, SaveTerminalLost, FinishClaim,
                        Conclude
                <5>1. \A p \in Attempts : pc'[p] = "dead" => pc[p] = "dead"
                    BY <4>2, <5>a, <5>b, <5>c, OneAttemptMoves
                <5>2. faults \in Nat /\ (faults' = faults \/ faults' = faults + 1)
                    BY <4>2, OneAttemptMoves DEF Inv, TypeOK
                <5> QED BY <5>1, <5>2 DEF QueuedIsServed
            <4> QED BY <4>1, <4>2
        <3>3. \A d \in Digests : claim'[d].status = "claimed" => claim'[d].version > 0
            <4>1. \A d \in Digests : claim[d].version \in Nat
                BY DEF Inv, TypeOK, ClaimRow
            <4> QED BY <4>1, AcquisitionStep DEF QueuedIsServed
        <3> QED BY <3>1, <3>2, <3>3 DEF QueuedIsServed
    <2> QED BY <2>1, <2>2
<1>4. QueuedIsServed => GeneratingHasWorker
    BY DEF QueuedIsServed, GeneratingHasWorker, Serves, Settled, BeforeSave, Working
<1> QED BY <1>1, <1>2, <1>3, <1>4, InductiveInvariant, ClaimInvariant,
           NamedInvariant, PTL DEF Spec

-----------------------------------------------------------------------------
(* Plans.                                                                  *)

\* A step stores nothing, or is a save_generated that stores one plan: its
\* author has stored none before, and the version is the largest.
LEMMA PlanStep ==
    ASSUME Inv, PlanInv, [Next]_vars
    PROVE  \/ plans' = plans
           \/ \E p \in Attempts : \E x \in Plan :
                 /\ PersistPlan(p)
                 /\ plans' = plans \cup {x}
                 /\ x.by = p /\ x.digest = req[p].digest /\ x.version = NextVersion
                 /\ x.repair = (PlansFor(req[p].digest) # {})
                 /\ \A y \in plans : y.by # p /\ y.version < x.version
<1>1. plans' = plans \/ \E p \in Attempts : PersistPlan(p)
    BY DEF Next, vars, durable, Handle, Work, Post, Enqueue, Confirm, Claim, Submit,
           SubmitFails, Start, PrepareEarly, StartRun, TurnFails, TurnSucceeds,
           PersistRefused, PersistIdempotent, Context, CheckBinding, SaveTerminal,
           SaveTerminalLost, FinishClaim, Tick, Reclassify, Crash
<1>2. ASSUME NEW p \in Attempts, PersistPlan(p)
      PROVE  \E x \in Plan :
                /\ plans' = plans \cup {x}
                /\ x.by = p /\ x.digest = req[p].digest /\ x.version = NextVersion
                /\ x.repair = (PlansFor(req[p].digest) # {})
                /\ \A y \in plans : y.by # p /\ y.version < x.version
    <2> DEFINE new == [version |-> NextVersion, digest |-> req[p].digest,
                       binding |-> req[p].binding, by |-> p,
                       repair |-> PlansFor(req[p].digest) # {}]
    <2>1. plans' = plans \cup {new}
        BY <1>2 DEF PersistPlan
    <2>2. req[p].digest \in Digests /\ req[p].binding \in AnyBinding
        BY <1>2 DEF PersistPlan, Inv, RequestKnown, Request
    <2>3. NextVersion \in Nat \ {0} /\ \A y \in plans : y.version < NextVersion
        BY NextVersionIsAbove DEF Inv
    <2>4. new \in Plan
        BY <2>2, <2>3 DEF Plan
    <2>5. \A y \in plans : y.by # p
        BY <1>2 DEF PersistPlan, PlanInv, StoredOnce, Published
    <2>6. /\ new.by = p /\ new.digest = req[p].digest /\ new.version = NextVersion
          /\ new.repair = (PlansFor(req[p].digest) # {})
        OBVIOUS
    <2> HIDE DEF new
    <2> QED BY <2>1, <2>3, <2>4, <2>5, <2>6
<1> QED BY <1>1, <1>2

\* The run of an attempt is written by its own steps, between the start of the
\* turn and its persistence, where nothing is stored yet.
LEMMA RunStep ==
    ASSUME Inv, PlanInv, PlanIffCompletedRun, [Next]_vars
    PROVE  PlanIffCompletedRun'
<1> USE DEF Goto, durable
<1>types. /\ pc \in [Attempts -> PC] /\ run \in [Attempts -> RunStatus]
          /\ plans \subseteq Plan
    BY DEF Inv, TypeOK
<1> DEFINE By(p) == {x \in plans : x.by = p}
<1>1. ASSUME NEW p \in Attempts, PersistPlan(p)
      PROVE  PlanIffCompletedRun'
    <2>1. PICK x \in Plan : /\ plans' = plans \cup {x} /\ x.by = p
                            /\ \A y \in plans : y.by # p
        <3>1. PICK q \in Attempts, x \in Plan :
                 /\ PersistPlan(q) /\ plans' = plans \cup {x} /\ x.by = q
                 /\ \A y \in plans : y.by # q /\ y.version < x.version
            <4>1. plans' # plans
                <5> DEFINE new == [version |-> NextVersion, digest |-> req[p].digest,
                                   binding |-> req[p].binding, by |-> p,
                                   repair |-> PlansFor(req[p].digest) # {}]
                <5>1. new \in plans' /\ new.by = p
                    BY <1>1 DEF PersistPlan
                <5>2. \A y \in plans : y.by # p
                    BY <1>1 DEF PersistPlan, PlanInv, StoredOnce, Published
                <5> HIDE DEF new
                <5> QED BY <5>1, <5>2
            <4> QED BY <4>1, PlanStep
        <3>2. p = q
            BY <1>1, <3>1, <1>types DEF PersistPlan, Conclude
        <3> QED BY <3>1, <3>2
    <2>2. run'[p] = "completed" /\ \A q \in Attempts \ {p} : run'[q] = run[q]
        BY <1>1, <1>types DEF PersistPlan
    <2>3. \A y \in plans' : run'[y.by] = "completed"
        BY <1>types, <2>1, <2>2 DEF PlanIffCompletedRun, Plan
    <2>4. ASSUME NEW q \in Attempts, run'[q] = "completed"
          PROVE  Cardinality({y \in plans' : y.by = q}) = 1
        <3>1. CASE q = p
            <4>1. {y \in plans' : y.by = q} = {x}
                BY <2>1, <3>1
            <4> QED BY <4>1, FS_Singleton
        <3>2. CASE q # p
            <4>1. {y \in plans' : y.by = q} = By(q)
                BY <2>1, <3>2
            <4> QED BY <2>2, <2>4, <3>2, <4>1 DEF PlanIffCompletedRun
        <3> QED BY <3>1, <3>2
    <2> QED BY <2>3, <2>4 DEF PlanIffCompletedRun
<1>2. ASSUME plans' = plans,
             \A q \in Attempts :
                run'[q] = run[q] \/ (run'[q] # "completed" /\ pc[q] \notin Published)
      PROVE  PlanIffCompletedRun'
    <2>1. \A x \in plans : run'[x.by] = "completed"
        BY <1>2, <1>types DEF PlanIffCompletedRun, Plan, PlanInv, StoredOnce
    <2> QED BY <1>2, <2>1 DEF PlanIffCompletedRun
<1>3. ASSUME NEW p \in Attempts, StartRun(p) \/ TurnFails(p) \/ PersistRefused(p)
      PROVE  PlanIffCompletedRun'
    <2>1. plans' = plans /\ \A q \in Attempts \ {p} : run'[q] = run[q]
        BY <1>3, <1>types DEF StartRun, TurnFails, PersistRefused
    <2>2. run'[p] # "completed" /\ pc[p] \notin Published
        BY <1>3, <1>types DEF StartRun, TurnFails, PersistRefused, Published
    <2>3. \A q \in Attempts :
             run'[q] = run[q] \/ (run'[q] # "completed" /\ pc[q] \notin Published)
        BY <2>1, <2>2
    <2> QED BY <1>2, <2>1, <2>3
<1>4. \/ plans' = plans /\ run' = run
      \/ \E p \in Attempts : PersistPlan(p) \/ StartRun(p) \/ TurnFails(p)
                             \/ PersistRefused(p)
    BY DEF Next, vars, Handle, Work, Post, Enqueue, Confirm, Claim, Submit, SubmitFails,
           Start, PrepareEarly, TurnSucceeds, PersistIdempotent, Context, CheckBinding,
           SaveTerminal, SaveTerminalLost, FinishClaim, Tick, Reclassify, Crash
<1>5. CASE plans' = plans /\ run' = run
    BY <1>2, <1>5
<1> QED BY <1>1, <1>3, <1>4, <1>5

\* A plan and its completed CodexRun are stored together or not at all
\* (save_generated), whatever races, expires, fails or crashes.
THEOREM PlansStandWithTheirRuns == Spec => []PlanIffCompletedRun
<1>1. Init => PlanIffCompletedRun
    BY DEF Init, PlanIffCompletedRun
<1> QED BY <1>1, RunStep, InductiveInvariant, PlanInvariant, PTL DEF Spec

\* The versions are counted, so there are finitely many.
CanonicalInv == IsFiniteSet(plans) /\ CanonicalPlans

LEMMA CanonicalStep ==
    ASSUME Inv, PlanInv, CanonicalInv, [Next]_vars
    PROVE  CanonicalInv'
<1>types. /\ plans \subseteq Plan /\ req \in [Attempts -> Request \cup {NoRequest}]
          /\ \A x \in plans : x.version \in Nat /\ x.by \in Attempts
    BY DEF Inv, TypeOK, Plan

\* What an attempt that stored a plan asked for is not asked again.
<1>asked. \A x \in plans : req'[x.by] = req[x.by]
    <2>1. ASSUME NEW p \in Attempts, NEW d \in Digests, NEW r \in BOOLEAN, Post(p, d, r)
          PROVE  pc[p] = "idle" /\ \A q \in Attempts \ {p} : req'[q] = req[q]
        BY <2>1, <1>types DEF Post
    <2>2. req' = req \/ \E p \in Attempts, d \in Digests, r \in BOOLEAN : Post(p, d, r)
        BY DEF Next, vars, durable, Handle, Work, Enqueue, Confirm, Claim, Submit,
               SubmitFails, Start, PrepareEarly, StartRun, TurnFails, TurnSucceeds,
               PersistRefused, PersistIdempotent, PersistPlan, Context, CheckBinding,
               SaveTerminal, SaveTerminalLost, FinishClaim, Tick, Reclassify, Crash
    <2> QED BY <1>types, <2>1, <2>2 DEF PlanInv, StoredOnce, Published
<1>1. CASE plans' = plans
    BY <1>1, <1>asked DEF CanonicalInv, CanonicalPlans
<1>2. ASSUME NEW p \in Attempts, NEW x \in Plan, PersistPlan(p), plans' = plans \cup {x},
             x.by = p, x.digest = req[p].digest, x.version = NextVersion,
             x.repair = (PlansFor(req[p].digest) # {}),
             \A y \in plans : y.by # p /\ y.version < x.version
      PROVE  CanonicalInv'
    <2> DEFINE n == Cardinality(plans)
    <2>1. n \in Nat /\ IsFiniteSet(plans') /\ Cardinality(plans') = n + 1
        <3>1. x \notin plans
            BY <1>2
        <3> QED BY <1>2, <3>1, FS_CardinalityType, FS_AddElement DEF CanonicalInv
    <2>2. {y.version : y \in plans} = 1 .. n
        BY DEF CanonicalInv, CanonicalPlans
    <2>3. x.version = n + 1
        <3>1. CASE plans = {}
            <4>1. n = 0
                BY <3>1, FS_EmptySet
            <4> QED BY <1>2, <3>1, <4>1 DEF NextVersion
        <3>2. CASE plans # {}
            <4> DEFINE Top(v) == \A y \in plans : y.version <= v
                       m == CHOOSE v \in {y.version : y \in plans} : Top(v)
            <4>1. n \in 1 .. n
                <5>1. PICK y \in plans : TRUE
                    BY <3>2
                <5>2. y.version \in 1 .. n
                    BY <2>2
                <5> QED BY <2>1, <5>2
            <4>2. n \in {y.version : y \in plans} /\ Top(n)
                <5>1. \A y \in plans : y.version \in 1 .. n
                    BY <2>2
                <5> QED BY <2>1, <2>2, <4>1, <5>1
            <4>3. m \in 1 .. n /\ Top(m)
                <5>1. m \in {y.version : y \in plans} /\ Top(m)
                    BY <4>2
                <5> HIDE DEF m
                <5> QED BY <2>2, <5>1
            <4>4. n <= m
                BY <4>2, <4>3
            <4>5. NextVersion = m + 1
                BY <3>2 DEF NextVersion
            <4> HIDE DEF m
            <4> QED BY <1>2, <2>1, <4>3, <4>4, <4>5
        <3> QED BY <3>1, <3>2
    <2>4. {y.version : y \in plans'} = 1 .. n + 1
        <3>1. {y.version : y \in plans'} = {y.version : y \in plans} \cup {x.version}
            BY <1>2
        <3> HIDE DEF n
        <3>2. 1 .. n + 1 = (1 .. n) \cup {n + 1}
            BY <2>1
        <3> QED BY <2>2, <2>3, <3>1, <3>2
    <2>5. req'[p] = req[p] /\ (PlansFor(req[p].digest) = {} \/ req[p].regen)
        BY <1>2 DEF PersistPlan
    <2>6. ASSUME NEW y \in plans', NEW z \in plans', y.digest = z.digest,
                 y.version < z.version
          PROVE  z.repair /\ req'[z.by].regen
        <3>1. CASE z \in plans
            <4>1. y \in plans
                BY <1>2, <1>types, <2>1, <2>3, <2>6, <3>1
            <4> QED BY <1>asked, <2>6, <3>1, <4>1 DEF CanonicalInv, CanonicalPlans
        <3>2. CASE z = x
            <4>1. y \in plans
                BY <1>2, <2>1, <2>3, <2>6, <3>2
            <4>2. y \in PlansFor(req[p].digest)
                BY <1>2, <2>6, <3>2, <4>1 DEF PlansFor
            <4> QED BY <1>2, <2>5, <3>2, <4>2
        <3> QED BY <1>2, <3>1, <3>2
    <2>7. ASSUME NEW y \in plans', y.repair
          PROVE  \E z \in plans' : z.digest = y.digest /\ z.version < y.version /\ ~z.repair
        <3>1. CASE y \in plans
            BY <1>2, <2>7, <3>1 DEF CanonicalInv, CanonicalPlans
        <3>2. CASE y = x
            <4>1. PICK z \in plans : z.digest = x.digest /\ z.version < x.version
                BY <1>2, <2>7, <3>2 DEF PlansFor
            <4>2. CASE ~z.repair
                BY <1>2, <3>2, <4>1, <4>2
            <4>3. CASE z.repair
                <5>1. PICK w \in plans :
                         w.digest = z.digest /\ w.version < z.version /\ ~w.repair
                    BY <4>3 DEF CanonicalInv, CanonicalPlans
                <5>2. w.version < x.version
                    BY <1>2
                <5> QED BY <1>2, <3>2, <4>1, <5>1, <5>2
            <4> QED BY <4>2, <4>3
        <3> QED BY <1>2, <3>1, <3>2
    <2> QED BY <2>1, <2>4, <2>6, <2>7 DEF CanonicalInv, CanonicalPlans
<1> QED BY <1>1, <1>2, PlanStep

\* The plans of a work item are numbered 1..n without a gap by
\* _next_proposal_version, and all plans of an input but the oldest are repairs
\* that were asked for.
THEOREM PlansAreCanonical == Spec => []CanonicalPlans
<1>1. Init => CanonicalInv
    BY FS_EmptySet DEF Init, CanonicalInv, CanonicalPlans
<1>2. Spec => []CanonicalInv
    BY <1>1, CanonicalStep, InductiveInvariant, PlanInvariant, PTL DEF Spec
<1> QED BY <1>2, PTL DEF CanonicalInv
-----------------------------------------------------------------------------
(* Runs that nobody finishes.                                              *)

BeforeRun == {"idle", "pending", "prepare"} \cup Handling

\* The attempt lost to a plan that another attempt stored for its exact input.
LostToPlan(p) ==
    /\ ~req[p].regen
    /\ reply[p].status \in {"idempotent", "raised", "claim_stale"}
    /\ \E x \in plans : x.digest = req[p].digest /\ x.by # p

\* A run that was started and is no longer worked on was left by a failure, or by
\* an attempt that did not regenerate and found the plan of another one when it
\* came to store its own.
RunAccounted(p) ==
    /\ pc[p] \in BeforeRun => run[p] = "none"
    /\ run[p] = "started" /\ pc[p] \notin {"turn", "persist"} =>
          faults > 0 \/ LostToPlan(p)

RunsAreAccounted == \A p \in Attempts : RunAccounted(p)

LEMMA AccountedStep ==
    ASSUME Inv, PlanInv, RunsAreAccounted, [Next]_vars
    PROVE  RunsAreAccounted'
<1> USE DEF Goto, durable
<1>types. /\ pc \in [Attempts -> PC] /\ run \in [Attempts -> RunStatus]
          /\ req \in [Attempts -> Request \cup {NoRequest}]
          /\ reply \in [Attempts -> Reply] /\ faults \in Nat
    BY DEF Inv, TypeOK
<1>grow. plans \subseteq plans'
    BY PlanStep
<1>faults. faults' = faults \/ faults' = faults + 1
    BY OneAttemptMoves, <1>types DEF Crash
\* What an attempt that does not move is accounted for by stays.
<1>stay. ASSUME NEW r \in Attempts, pc'[r] = pc[r], req'[r] = req[r],
                reply'[r] = reply[r], run'[r] = run[r]
         PROVE  RunAccounted(r)'
    <2>1. RunAccounted(r)
        BY DEF RunsAreAccounted
    <2>2. LostToPlan(r) => LostToPlan(r)'
        BY <1>grow, <1>stay DEF LostToPlan
    <2> QED BY <1>stay, <1>types, <1>faults, <2>1, <2>2 DEF RunAccounted
<1>others. ASSUME NEW q \in Attempts,
                  \/ \E d \in Digests, g \in BOOLEAN : Post(q, d, g)
                  \/ Handle(q) \/ Work(q),
                  NEW r \in Attempts \ {q}
           PROVE  pc'[r] = pc[r] /\ req'[r] = req[r] /\ reply'[r] = reply[r]
                  /\ run'[r] = run[r]
    <2>1. CASE \E d \in Digests, g \in BOOLEAN : Post(q, d, g)
        BY <2>1, <1>types DEF Post
    <2>2. CASE Handle(q)
        BY <2>2, <1>types DEF Handle, Enqueue, Confirm, Claim, Submit, SubmitFails
    <2>3. CASE Work(q)
        BY <2>3, <1>types
        DEF Work, Start, PrepareEarly, StartRun, TurnFails, TurnSucceeds,
            PersistRefused, PersistIdempotent, PersistPlan, Context, CheckBinding,
            SaveTerminal, SaveTerminalLost, FinishClaim, Conclude
    <2> QED BY <1>others, <2>1, <2>2, <2>3
<1>1. ASSUME NEW q \in Attempts,
             \/ \E d \in Digests, g \in BOOLEAN : Post(q, d, g)
             \/ Handle(q) \/ Start(q) \/ PrepareEarly(q)
      PROVE  RunAccounted(q)'
    <2>1. pc[q] \in BeforeRun /\ run' = run
        BY <1>1 DEF BeforeRun, Handling, Post, Handle, Enqueue, Confirm, Claim, Submit,
               SubmitFails, Start, PrepareEarly
    <2>2. run'[q] = "none"
        BY <2>1 DEF RunsAreAccounted, RunAccounted
    <2> QED BY <2>2 DEF RunAccounted
<1>2. ASSUME NEW q \in Attempts,
             StartRun(q) \/ TurnSucceeds(q) \/ TurnFails(q) \/ PersistPlan(q)
      PROVE  RunAccounted(q)'
    <2>1. CASE StartRun(q) \/ TurnSucceeds(q)
        <3>1. pc'[q] \in {"turn", "persist"}
            BY <2>1, <1>types DEF StartRun, TurnSucceeds
        <3> QED BY <3>1 DEF RunAccounted, BeforeRun, Handling
    <2>2. CASE TurnFails(q) \/ PersistPlan(q)
        <3>1. run'[q] # "started" /\ pc'[q] \in {"save", "context"}
            BY <2>2, <1>types DEF TurnFails, PersistPlan, Conclude
        <3> QED BY <3>1 DEF RunAccounted, BeforeRun, Handling
    <2> QED BY <1>2, <2>1, <2>2
<1>3. ASSUME NEW q \in Attempts, PersistRefused(q)
      PROVE  RunAccounted(q)'
    <2>1. pc'[q] \in {"save", "context"} /\ (run'[q] # "started" \/ faults' > 0)
        BY <1>3, <1>types DEF PersistRefused, Conclude
    <2> QED BY <2>1 DEF RunAccounted, BeforeRun, Handling
<1>4. ASSUME NEW q \in Attempts, PersistIdempotent(q)
      PROVE  RunAccounted(q)'
    <2>1. /\ pc'[q] \in {"save", "context"} /\ reply'[q].status = "idempotent"
          /\ req' = req /\ plans' = plans /\ ~req[q].regen
          /\ PlansFor(req[q].digest) # {}
        BY <1>4, <1>types DEF PersistIdempotent, Conclude
    <2>2. PICK x \in plans : x.digest = req[q].digest
        BY <2>1 DEF PlansFor
    <2>3. x.by # q
        BY <1>4 DEF PersistIdempotent, PlanInv, StoredOnce, Published
    <2>4. LostToPlan(q)'
        BY <2>1, <2>2, <2>3 DEF LostToPlan
    <2> QED BY <2>1, <2>4 DEF RunAccounted, BeforeRun, Handling
\* A worker that concludes keeps its reply, or replaces it by a raised or stale one.
<1>5. ASSUME NEW q \in Attempts,
             \/ Context(q) \/ CheckBinding(q) \/ SaveTerminal(q)
             \/ SaveTerminalLost(q) \/ FinishClaim(q)
      PROVE  RunAccounted(q)'
    <2>1. /\ pc[q] \notin {"turn", "persist"}
          /\ pc'[q] \notin BeforeRun
          /\ run' = run /\ req' = req /\ plans' = plans
        BY <1>5, <1>types
        DEF Context, CheckBinding, SaveTerminal, SaveTerminalLost, FinishClaim,
            BeforeRun, Handling
    <2>2. \/ reply'[q].status = reply[q].status
          \/ reply'[q].status \in {"raised", "claim_stale"}
        <3>1. CASE Context(q)
            BY <3>1, <1>types DEF Context, Reply
        <3>2. CASE CheckBinding(q)
            BY <3>2, <1>types DEF CheckBinding, Reply
        <3>3. CASE SaveTerminal(q)
            BY <3>3, <1>types DEF SaveTerminal, Reply
        <3>4. CASE SaveTerminalLost(q) \/ FinishClaim(q)
            BY <3>4 DEF SaveTerminalLost, FinishClaim
        <3> QED BY <1>5, <3>1, <3>2, <3>3, <3>4
    <2>3. LostToPlan(q) => LostToPlan(q)'
        BY <2>1, <2>2 DEF LostToPlan
    <2> QED BY <1>types, <1>faults, <2>1, <2>3 DEF RunAccounted, RunsAreAccounted
<1>6. CASE Crash
    <2>1. /\ faults' > 0 /\ run' = run
          /\ \A r \in Attempts : pc'[r] \in BeforeRun => pc[r] \in BeforeRun
        BY <1>6, <1>types DEF Crash, BeforeRun, Handling
    <2> QED BY <2>1 DEF RunsAreAccounted, RunAccounted
<1>7. CASE Tick \/ Reclassify \/ UNCHANGED vars
    BY <1>7, <1>stay DEF RunsAreAccounted, Tick, Reclassify, vars
<1>8. ASSUME NEW q \in Attempts,
             \/ \E d \in Digests, g \in BOOLEAN : Post(q, d, g)
             \/ Handle(q) \/ Work(q)
      PROVE  RunsAreAccounted'
    <2>1. RunAccounted(q)'
        BY <1>8, <1>1, <1>2, <1>3, <1>4, <1>5 DEF Work
    <2>2. \A r \in Attempts \ {q} : RunAccounted(r)'
        BY <1>8, <1>others, <1>stay
    <2> QED BY <2>1, <2>2 DEF RunsAreAccounted
<1> QED BY <1>6, <1>7, <1>8 DEF Next

\* An attempt leaves its CodexRun "started" only if something failed (a guard that
\* raised, a crash) or if it lost to a plan that another attempt stored for the same
\* input: never by a failed or refused turn, and never beside a plan of its own
\* (persist_generated_proposal).
THEOREM StartedRunsAreAccounted == Spec => []RunsAreAccounted
<1>1. Init => RunsAreAccounted
    BY DEF Init, RunsAreAccounted, RunAccounted
<1>2. Inv /\ PlanInv /\ RunsAreAccounted /\ [Next]_vars => RunsAreAccounted'
    BY AccountedStep
<1> QED BY <1>1, <1>2, InductiveInvariant, PlanInvariant, PTL DEF Spec

-----------------------------------------------------------------------------
(* No attempt runs in circles.                                             *)

\* How many steps are left to an attempt at most.
StepsLeft(place) ==
    CASE place = "idle" -> 13
      [] place = "enqueue" -> 12
      [] place = "confirm" -> 11
      [] place = "claim" -> 10
      [] place = "submit" -> 9
      [] place = "pending" -> 8
      [] place = "prepare" -> 7
      [] place = "turn" -> 6
      [] place = "persist" -> 5
      [] place = "context" -> 4
      [] place = "save" -> 3
      [] place = "update" -> 2
      [] place = "finish" -> 1
      [] OTHER -> 0

\* Every step of a handler or of its worker brings its attempt nearer to its end,
\* and nobody's step takes another attempt back.
AttemptsDescend ==
    [][\A p \in Attempts :
          /\ Handle(p) \/ Work(p) => StepsLeft(pc'[p]) < StepsLeft(pc[p])
          /\ StepsLeft(pc'[p]) <= StepsLeft(pc[p])]_vars

LEMMA DescentStep ==
    ASSUME Inv, [Next]_vars, NEW p \in Attempts
    PROVE  /\ Handle(p) \/ Work(p) => StepsLeft(pc'[p]) < StepsLeft(pc[p])
           /\ StepsLeft(pc'[p]) <= StepsLeft(pc[p])
<1> USE DEF Goto
<1>types. pc \in [Attempts -> PC]
    BY DEF Inv, TypeOK
<1>nat. \A place : StepsLeft(place) \in 0 .. 13
    BY DEF StepsLeft
<1>1. ASSUME Handle(p)
      PROVE  StepsLeft(pc'[p]) < StepsLeft(pc[p])
    <2>1. \/ pc[p] = "enqueue" /\ pc'[p] \in {"done", "confirm", "claim"}
          \/ pc[p] = "confirm" /\ pc'[p] \in {"done", "claim"}
          \/ pc[p] = "claim" /\ pc'[p] \in {"done", "submit"}
          \/ pc[p] = "submit" /\ pc'[p] \in {"pending", "save", "done"}
        BY <1>1, <1>types DEF Handle, Enqueue, Confirm, Claim, Submit, SubmitFails
    <2> QED BY <2>1 DEF StepsLeft
<1>2. ASSUME Work(p)
      PROVE  StepsLeft(pc'[p]) < StepsLeft(pc[p])
    <2>1. \/ pc[p] = "pending" /\ pc'[p] = "prepare"
          \/ pc[p] = "prepare" /\ pc'[p] \in {"save", "context", "turn"}
          \/ pc[p] = "turn" /\ pc'[p] \in {"save", "context", "persist"}
          \/ pc[p] = "persist" /\ pc'[p] \in {"save", "context"}
          \/ pc[p] = "context" /\ pc'[p] \in {"save", "finish"}
          \/ pc[p] = "save" /\ pc'[p] \in {"update", "finish"}
          \/ pc[p] = "update" /\ pc'[p] = "finish"
          \/ pc[p] = "finish" /\ pc'[p] = "done"
        BY <1>2, <1>types
        DEF Work, Start, PrepareEarly, StartRun, TurnFails, TurnSucceeds,
            PersistRefused, PersistIdempotent, PersistPlan, Context, CheckBinding,
            SaveTerminal, SaveTerminalLost, FinishClaim, Conclude
    <2> QED BY <2>1 DEF StepsLeft
<1>3. ASSUME ~Handle(p), ~Work(p)
      PROVE  StepsLeft(pc'[p]) <= StepsLeft(pc[p])
    <2>1. CASE \E d \in Digests, g \in BOOLEAN : Post(p, d, g)
        <3>1. pc[p] = "idle"
            BY <2>1 DEF Post
        <3> QED BY <3>1, <1>nat DEF StepsLeft
    <2>2. CASE Crash
        <3>1. pc'[p] = pc[p] \/ pc'[p] = "dead"
            BY <2>2 DEF Crash
        <3> QED BY <3>1, <1>nat DEF StepsLeft
    <2>3. CASE pc'[p] = pc[p]
        BY <2>3, <1>nat
    <2> QED BY <1>3, <2>1, <2>2, <2>3, OneAttemptMoves
<1> QED BY <1>1, <1>2, <1>3, <1>nat

\* An attempt ends within thirteen steps of its own whatever else happens; what its
\* end needs besides (EveryAttemptSettles) is that its steps are taken.
THEOREM AttemptsTakeBoundedSteps == Spec => AttemptsDescend
<1>1. Inv /\ [Next]_vars =>
         [\A p \in Attempts :
             /\ Handle(p) \/ Work(p) => StepsLeft(pc'[p]) < StepsLeft(pc[p])
             /\ StepsLeft(pc'[p]) <= StepsLeft(pc[p])]_vars
    BY DescentStep
<1> QED BY <1>1, InductiveInvariant, PTL DEF Spec, AttemptsDescend

=============================================================================
