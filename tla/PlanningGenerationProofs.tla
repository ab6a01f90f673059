----------------------- MODULE PlanningGenerationProofs -----------------------
(***************************************************************************)
(* What holds of PlanningGeneration for every set of attempts, digests and *)
(* bindings and every bound.  Inv is the inductive strengthening of the    *)
(* type invariant and of the uniqueness of claim versions.                 *)
(***************************************************************************)
EXTENDS PlanningGeneration, TLAPS

\* An attempt that was posted carries a real request.
RequestKnown == \A p \in Attempts : pc[p] # "idle" => req[p] \in Request

\* LatestPlan and NextVersion choose a maximum: it exists.
LatestExists ==
    /\ \A d \in Digests : PlansFor(d) # {} =>
          \E x \in PlansFor(d) : \A y \in PlansFor(d) : y.version <= x.version
    /\ plans # {} => \E x \in plans : \A y \in plans : y.version <= x.version

\* No version was handed out before the claim, and none above the claim row's.
BeforeClaim == {"idle", "enqueue", "confirm", "claim"}

VersionsHandedOut ==
    \A p \in Attempts :
        /\ pc[p] \in BeforeClaim => ver[p] = 0
        /\ pc[p] \in Working \cup {"submit", "pending"} => ver[p] > 0
        /\ ver[p] > 0 => ver[p] <= claim[req[p].digest].version

Inv == TypeOK /\ RequestKnown /\ LatestExists /\ VersionsHandedOut /\ UniqueClaimVersion

-----------------------------------------------------------------------------

\* The chosen plan is one of the plans for the digest.
LEMMA LatestPlanIsStored ==
    ASSUME LatestExists, NEW d \in Digests, PlansFor(d) # {}
    PROVE  LatestPlan(d) \in PlansFor(d)
BY DEF LatestExists, LatestPlan

\* The next version is above the version of every plan stored.
LEMMA NextVersionIsAbove ==
    ASSUME TypeOK, LatestExists
    PROVE  /\ NextVersion \in Nat \ {0}
           /\ \A x \in plans : x.version < NextVersion
<1>1. CASE plans = {}
    BY <1>1 DEF NextVersion
<1>2. CASE plans # {}
    <2> DEFINE V == {x.version : x \in plans}
               Top(v) == \A x \in plans : x.version <= v
               m == CHOOSE v \in V : Top(v)
    <2>1. \E v \in V : Top(v)
        BY <1>2 DEF LatestExists
    <2>2. m \in V /\ Top(m)
        BY <2>1
    <2>3. \A x \in plans : x.version \in Nat \ {0}
        BY DEF TypeOK, Plan
    <2>4. m \in Nat
        BY <2>2, <2>3
    <2>5. NextVersion = m + 1
        BY <1>2 DEF NextVersion
    <2>6. \A x \in plans : x.version <= m
        BY <2>2
    <2> HIDE DEF m
    <2> QED BY <2>3, <2>4, <2>5, <2>6
<1> QED BY <1>1, <1>2

\* The initial store satisfies the invariant.
LEMMA InitInv == Init => Inv
<1> SUFFICES ASSUME Init PROVE Inv
    OBVIOUS
<1>1. TypeOK
    BY ConstantsAssumption
    DEF Init, TypeOK, Plan, AnyBinding, NoJob, NoClaim, NoReply, NoRequest, JobStatus,
        ClaimStatus, RunStatus, BadReply, GoodReply, PC, JobRow, ClaimRow, Reply
<1>2. RequestKnown /\ LatestExists
    BY DEF Init, RequestKnown, LatestExists, PlansFor
<1>3. VersionsHandedOut /\ UniqueClaimVersion
    BY DEF Init, VersionsHandedOut, UniqueClaimVersion, BeforeClaim, Working
<1> QED BY <1>1, <1>2, <1>3 DEF Inv

\* Every step keeps the types, and every posted attempt keeps its request.
LEMMA TypeStep ==
    ASSUME Inv, [Next]_vars
    PROVE  TypeOK' /\ RequestKnown'
<1> USE DEF Inv
<1> USE DEF RequestKnown, Goto, durable
<1>types. /\ BadReply \subseteq JobStatus /\ "queued" \in JobStatus /\ "finished" \in JobStatus
          /\ {"claimed", "finished", "failed"} \subseteq ClaimStatus
          /\ {"started", "completed", "failed", "blocked"} \subseteq RunStatus
          /\ {"failed", "blocked"} \subseteq BadReply
          /\ {"created", "idempotent"} \subseteq GoodReply
          /\ Handling \cup Working \cup {"pending", "done", "dead"} \subseteq PC
    BY DEF JobStatus, ClaimStatus, RunStatus, BadReply, GoodReply, PC
<1>labels. /\ {"enqueue", "confirm", "claim", "submit"} \subseteq PC
           /\ {"prepare", "turn", "persist", "context", "save", "update", "finish"} \subseteq PC
           /\ {"idle", "pending", "done", "dead"} \subseteq PC
    BY DEF PC, Handling, Working
<1>jobs. \A s \in JobStatus, t \in Nat, b \in AnyBinding :
            [status |-> s, at |-> t, binding |-> b] \in JobRow
    BY DEF JobRow
<1>claims. /\ \A s \in ClaimStatus, v, t \in Nat, b \in AnyBinding :
                 [status |-> s, version |-> v, at |-> t, binding |-> b] \in ClaimRow
           /\ \A c \in ClaimRow : c.version \in Nat
           /\ \A c \in ClaimRow, s \in ClaimStatus : [c EXCEPT !.status = s] \in ClaimRow
    BY DEF ClaimRow
<1>replies. /\ \A s \in GoodReply \cup BadReply, b \in AnyBinding :
                  [status |-> s, binding |-> b] \in Reply
            /\ \A r \in Reply : r.binding \in AnyBinding
            /\ \A r \in Reply, s \in {"raised", "claim_stale"} :
                  [r EXCEPT !.status = s] \in Reply
    BY DEF Reply
<1>reply. ASSUME NEW p \in Attempts, NEW s \in GoodReply \cup BadReply,
                 NEW b \in AnyBinding, Conclude(p, s, b)
          PROVE  reply' \in [Attempts -> Reply] /\ pc' \in [Attempts -> PC]
    BY <1>reply, <1>labels, <1>replies DEF TypeOK, Conclude
<1>req. \A p \in Attempts : pc[p] # "idle" =>
           req[p].digest \in Digests /\ req[p].binding \in AnyBinding
    BY DEF Request
<1>plan. \A d \in Digests : PlansFor(d) # {} => LatestPlan(d).binding \in AnyBinding
    BY LatestPlanIsStored DEF TypeOK, Plan, PlansFor
<1>1. ASSUME NEW p \in Attempts, NEW d \in Digests, NEW r \in BOOLEAN, Post(p, d, r)
      PROVE  TypeOK' /\ RequestKnown'
    BY <1>1, <1>labels DEF Post, TypeOK, Request
<1>2. ASSUME NEW p \in Attempts, Enqueue(p)
      PROVE  TypeOK' /\ RequestKnown'
    <2>1. job' = job \/ job' = [job EXCEPT ![req[p].digest] =
             [status |-> "queued", at |-> clock, binding |-> req[p].binding]]
        BY <1>2 DEF Enqueue
    <2>2. job' \in [Digests -> JobRow]
        BY <1>2, <1>jobs, <1>types, <1>req, <2>1 DEF Enqueue, TypeOK
    <2>3. pc[p] # "idle" /\ \E l \in {"done", "confirm", "claim"} : Goto(p, l)
        BY <1>2 DEF Enqueue
    <2>4. pc' \in [Attempts -> PC] /\ RequestKnown'
        BY <1>2, <1>labels, <2>3 DEF Enqueue, TypeOK
    <2> QED BY <1>2, <2>2, <2>4 DEF Enqueue, TypeOK
<1>3. ASSUME NEW p \in Attempts, Confirm(p)
      PROVE  TypeOK' /\ RequestKnown'
    BY <1>3, <1>labels DEF Confirm, TypeOK, Request
<1>4. ASSUME NEW p \in Attempts, Claim(p)
      PROVE  TypeOK' /\ RequestKnown'
    <2> DEFINE d == req[p].digest
    <2>0. d \in Digests
        BY <1>4, <1>req DEF Claim
    <2>1. \/ claim' = claim /\ ver' = ver
          \/ /\ claim' = [claim EXCEPT ![d] = [status |-> "claimed",
                             version |-> claim[d].version + 1, at |-> clock,
                             binding |-> req[p].binding]]
             /\ ver' = [ver EXCEPT ![p] = claim[d].version + 1]
        BY <1>4, <2>0 DEF Claim, TypeOK
    <2>2. claim[d].version + 1 \in Nat /\ clock \in Nat
        BY <1>claims, <2>0 DEF TypeOK
    <2>3. req[p].binding \in AnyBinding /\ "claimed" \in ClaimStatus
        BY <1>4, <1>req, <1>types DEF Claim
    <2>4. [status |-> "claimed", version |-> claim[d].version + 1, at |-> clock,
           binding |-> req[p].binding] \in ClaimRow
        <3> HIDE DEF d
        <3> QED BY <1>claims, <2>2, <2>3
    <2>5. claim' \in [Digests -> ClaimRow] /\ ver' \in [Attempts -> Nat]
        BY <2>0, <2>1, <2>2, <2>4 DEF TypeOK
    <2>6. pc[p] # "idle" /\ \E l \in {"done", "submit"} : Goto(p, l)
        BY <1>4 DEF Claim
    <2>7. pc' \in [Attempts -> PC] /\ RequestKnown'
        BY <1>4, <1>labels, <2>6 DEF Claim, TypeOK
    <2> QED BY <1>4, <2>5, <2>7 DEF Claim, TypeOK
<1>5. ASSUME NEW p \in Attempts, Submit(p)
      PROVE  TypeOK' /\ RequestKnown'
    BY <1>5, <1>labels DEF Submit, TypeOK
<1>6. ASSUME NEW p \in Attempts, SubmitFails(p)
      PROVE  TypeOK' /\ RequestKnown'
    <2>1. [status |-> "failed", binding |-> req[p].binding] \in Reply
        BY <1>6, <1>req, <1>replies, <1>types DEF SubmitFails
    <2>2. pc[p] # "idle" /\ \E l \in {"save", "done"} : Goto(p, l)
        BY <1>6 DEF SubmitFails
    <2>3. pc' \in [Attempts -> PC] /\ RequestKnown'
        BY <1>6, <1>labels, <2>2 DEF SubmitFails, TypeOK
    <2> QED BY <1>6, <2>1, <2>3 DEF SubmitFails, TypeOK
<1>7. ASSUME NEW p \in Attempts, Start(p) \/ StartRun(p) \/ TurnSucceeds(p)
      PROVE  TypeOK' /\ RequestKnown'
    BY <1>7, <1>labels, <1>types DEF Start, StartRun, TurnSucceeds, TypeOK

\* The actions that build a terminal response.
<1>8. ASSUME NEW p \in Attempts, PrepareEarly(p)
      PROVE  TypeOK' /\ RequestKnown'
    <2>1. reply' \in [Attempts -> Reply] /\ pc' \in [Attempts -> PC]
        BY <1>8, <1>types, <1>req, <1>plan, <1>reply DEF PrepareEarly
    <2> QED BY <1>8, <2>1 DEF PrepareEarly, Conclude, TypeOK
<1>9. ASSUME NEW p \in Attempts, TurnFails(p) \/ PersistRefused(p)
      PROVE  TypeOK' /\ RequestKnown'
    <2>1. reply' \in [Attempts -> Reply] /\ pc' \in [Attempts -> PC]
        BY <1>9, <1>types, <1>req, <1>reply DEF TurnFails, PersistRefused
    <2>2. run' \in [Attempts -> RunStatus]
        BY <1>9, <1>types DEF TurnFails, PersistRefused, TypeOK
    <2> QED BY <1>9, <2>1, <2>2 DEF TurnFails, PersistRefused, Conclude, TypeOK
<1>10. ASSUME NEW p \in Attempts, PersistIdempotent(p)
       PROVE  TypeOK' /\ RequestKnown'
    <2>1. reply' \in [Attempts -> Reply] /\ pc' \in [Attempts -> PC]
        BY <1>10, <1>types, <1>req, <1>plan, <1>reply DEF PersistIdempotent
    <2> QED BY <1>10, <2>1 DEF PersistIdempotent, Conclude, TypeOK
<1>11. ASSUME NEW p \in Attempts, PersistPlan(p)
       PROVE  TypeOK' /\ RequestKnown'
    <2>1. reply' \in [Attempts -> Reply] /\ pc' \in [Attempts -> PC]
        BY <1>11, <1>types, <1>req, <1>reply DEF PersistPlan
    <2>2. run' \in [Attempts -> RunStatus]
        BY <1>11, <1>types DEF PersistPlan, TypeOK
    <2>3. [version |-> NextVersion, digest |-> req[p].digest, binding |-> req[p].binding,
           by |-> p, repair |-> PlansFor(req[p].digest) # {}] \in Plan
        BY <1>11, <1>req, NextVersionIsAbove DEF PersistPlan, Plan
    <2>4. plans' \subseteq Plan
        BY <1>11, <2>3 DEF PersistPlan, TypeOK
    <2> QED BY <1>11, <2>1, <2>2, <2>4 DEF PersistPlan, Conclude, TypeOK
<1>12. ASSUME NEW p \in Attempts, Context(p) \/ CheckBinding(p)
       PROVE  TypeOK' /\ RequestKnown'
    <2>1. reply' \in [Attempts -> Reply]
        <3>1. reply' = reply \/ \E s \in {"raised", "claim_stale"} :
                 reply' = [reply EXCEPT ![p].status = s]
            BY <1>12 DEF Context, CheckBinding
        <3>2. reply \in [Attempts -> Reply] /\ reply[p] \in Reply
            BY DEF TypeOK
        <3>3. \A s \in {"raised", "claim_stale"} :
                 [reply EXCEPT ![p] = [reply[p] EXCEPT !.status = s]] \in [Attempts -> Reply]
            BY <1>replies, <3>2
        <3> QED BY <3>1, <3>2, <3>3
    <2>2. pc[p] # "idle" /\ \E l \in {"save", "update", "finish"} : Goto(p, l)
        BY <1>12 DEF Context, CheckBinding
    <2>3. pc' \in [Attempts -> PC] /\ RequestKnown'
        BY <1>12, <1>labels, <2>2 DEF Context, CheckBinding, TypeOK
    <2> QED BY <1>12, <2>1, <2>3 DEF Context, CheckBinding, TypeOK
<1>13. ASSUME NEW p \in Attempts, SaveTerminal(p)
       PROVE  TypeOK' /\ RequestKnown'
    <2>1. reply' \in [Attempts -> Reply]
        BY <1>13, <1>replies DEF SaveTerminal, TypeOK
    <2>2. \A s \in JobStatus :
             [status |-> s, at |-> clock, binding |-> reply[p].binding] \in JobRow
        BY <1>jobs, <1>replies DEF TypeOK
    <2>3. job' \in [Digests -> JobRow]
        BY <1>13, <1>types, <1>req, <2>2 DEF SaveTerminal, TypeOK
    <2>4. pc' \in [Attempts -> PC] /\ RequestKnown'
        BY <1>13, <1>labels DEF SaveTerminal, TypeOK
    <2> QED BY <1>13, <2>1, <2>3, <2>4 DEF SaveTerminal, TypeOK
<1>14. ASSUME NEW p \in Attempts, SaveTerminalLost(p)
       PROVE  TypeOK' /\ RequestKnown'
    BY <1>14, <1>labels DEF SaveTerminalLost, TypeOK
<1>15. ASSUME NEW p \in Attempts, FinishClaim(p)
       PROVE  TypeOK' /\ RequestKnown'
    <2>1. claim' \in [Digests -> ClaimRow]
        BY <1>15, <1>types, <1>claims, <1>req DEF FinishClaim, TypeOK
    <2>2. pc' \in [Attempts -> PC] /\ RequestKnown'
        BY <1>15, <1>labels DEF FinishClaim, TypeOK
    <2> QED BY <1>15, <2>1, <2>2 DEF FinishClaim, TypeOK
<1>16. CASE Tick \/ Reclassify
    BY <1>16 DEF Tick, Reclassify, TypeOK
<1>17. CASE Crash
    BY <1>17, <1>labels DEF Crash, TypeOK, Settled
<1>18. CASE UNCHANGED vars
    BY <1>18 DEF vars, TypeOK
<1> QED
    BY <1>1, <1>2, <1>3, <1>4, <1>5, <1>6, <1>7, <1>8, <1>9, <1>10, <1>11, <1>12,
       <1>13, <1>14, <1>15, <1>16, <1>17, <1>18 DEF Next, Handle, Work

\* Only a step of save_generated stores a plan, and its version is the largest.
LEMMA LatestStep ==
    ASSUME Inv, [Next]_vars
    PROVE  LatestExists'
<1>1. CASE plans' = plans
    BY <1>1 DEF Inv, LatestExists, PlansFor
<1>2. ASSUME NEW p \in Attempts, PersistPlan(p)
      PROVE  LatestExists'
    <2> DEFINE new == [version |-> NextVersion, digest |-> req[p].digest,
                       binding |-> req[p].binding, by |-> p,
                       repair |-> PlansFor(req[p].digest) # {}]
    <2>1. plans' = plans \cup {new}
        BY <1>2 DEF PersistPlan
    <2>2. new.version = NextVersion /\ new.digest = req[p].digest
        OBVIOUS
    <2> HIDE DEF new
    <2>3. \A y \in plans' : y.version <= new.version
        BY <2>1, <2>2, NextVersionIsAbove DEF Inv, TypeOK, Plan
    <2>4. ASSUME NEW d \in Digests, PlansFor(d)' # {}
          PROVE  \E x \in PlansFor(d)' : \A y \in PlansFor(d)' : y.version <= x.version
        <3>1. CASE d = req[p].digest
            BY <2>1, <2>2, <2>3, <3>1 DEF PlansFor
        <3>2. CASE d # req[p].digest
            BY <2>1, <2>2, <2>4, <3>2 DEF PlansFor, Inv, LatestExists
        <3> QED BY <3>1, <3>2
    <2> QED BY <2>1, <2>3, <2>4 DEF LatestExists
<1>3. plans' = plans \/ \E p \in Attempts : PersistPlan(p)
    BY DEF Next, vars, durable, Handle, Work, Post, Enqueue, Confirm, Claim, Submit,
           SubmitFails, Start, PrepareEarly, StartRun, TurnFails, TurnSucceeds,
           PersistRefused, PersistIdempotent, Context, CheckBinding, SaveTerminal,
           SaveTerminalLost, FinishClaim, Tick, Reclassify, Crash
<1> QED BY <1>1, <1>2, <1>3

\* Every step but a posting and an acquisition keeps the versions handed out,
\* the requests and the version of every claim row.
Keeps ==
    /\ ver' = ver /\ req' = req
    /\ \A d \in Digests : claim'[d].version = claim[d].version

\* An acquisition hands out a version above every one handed out before it.
LEMMA VersionStep ==
    ASSUME Inv, TypeOK', [Next]_vars
    PROVE  VersionsHandedOut' /\ UniqueClaimVersion'
<1> USE DEF Inv, Goto, durable
<1>types. /\ pc \in [Attempts -> PC] /\ ver \in [Attempts -> Nat]
          /\ req \in [Attempts -> Request \cup {NoRequest}]
          /\ claim \in [Digests -> ClaimRow]
    BY DEF TypeOK
<1>req. \A p \in Attempts : pc[p] # "idle" => req[p].digest \in Digests
    BY DEF RequestKnown, Request
<1>ver. \A d \in Digests : claim[d].version \in Nat
    BY <1>types DEF ClaimRow
<1>digest. \A p \in Attempts : ver[p] > 0 => req[p].digest \in Digests
    BY <1>types, <1>req DEF VersionsHandedOut, BeforeClaim
<1>labels. /\ BeforeClaim = {"idle", "enqueue", "confirm", "claim"}
           /\ Working = {"prepare", "turn", "persist", "context", "save", "update", "finish"}
    BY DEF BeforeClaim, Working
<1> DEFINE Late == Working \cup {"submit", "pending"}
<1> DEFINE Moves(p) == /\ pc'[p] \in BeforeClaim => pc[p] \in BeforeClaim
                       /\ pc'[p] \in Late => pc[p] \in Late
<1>1. ASSUME Keeps, \A p \in Attempts : Moves(p)
      PROVE  VersionsHandedOut' /\ UniqueClaimVersion'
    BY <1>1, <1>digest DEF Keeps, VersionsHandedOut, UniqueClaimVersion, SameInput
<1>2. ASSUME NEW p \in Attempts, NEW d \in Digests, NEW r \in BOOLEAN, Post(p, d, r)
      PROVE  VersionsHandedOut' /\ UniqueClaimVersion'
    <2>1. ver[p] = 0 /\ ver' = ver /\ claim' = claim
        BY <1>2 DEF Post, VersionsHandedOut, BeforeClaim
    <2>2. \A q \in Attempts \ {p} : req'[q] = req[q] /\ pc'[q] = pc[q]
        BY <1>2, <1>types DEF Post
    <2>3. pc'[p] = "enqueue"
        BY <1>2, <1>types DEF Post
    <2> QED BY <2>1, <2>2, <2>3, <1>labels DEF VersionsHandedOut, UniqueClaimVersion, SameInput
<1>3. ASSUME NEW p \in Attempts, Claim(p), claim' # claim \/ ver' # ver
      PROVE  VersionsHandedOut' /\ UniqueClaimVersion'
    <2> DEFINE d == req[p].digest
    <2>1. d \in Digests
        BY <1>3, <1>req DEF Claim
    <2>2. /\ claim'[d].version = claim[d].version + 1
          /\ \A e \in Digests \ {d} : claim'[e] = claim[e]
        BY <1>3, <1>types, <2>1 DEF Claim
    <2>3. /\ ver'[p] = claim[d].version + 1 /\ pc'[p] = "submit"
          /\ \A q \in Attempts \ {p} : ver'[q] = ver[q] /\ pc'[q] = pc[q]
        BY <1>3, <1>types, <2>1 DEF Claim
    <2>4. req' = req
        BY <1>3 DEF Claim
    <2>5. \A q \in Attempts : ver[q] > 0 /\ req[q].digest = d => ver[q] <= claim[d].version
        BY DEF VersionsHandedOut
    <2> HIDE DEF d
    <2>6. VersionsHandedOut'
        <3> SUFFICES ASSUME NEW q \in Attempts
                     PROVE  /\ pc'[q] \in BeforeClaim => ver'[q] = 0
                            /\ pc'[q] \in Late => ver'[q] > 0
                            /\ ver'[q] > 0 => ver'[q] <= claim'[req'[q].digest].version
            BY DEF VersionsHandedOut
        <3>1. CASE q = p
            BY <1>labels, <1>ver, <2>1, <2>2, <2>3, <2>4, <3>1 DEF d
        <3>2. CASE q # p /\ req[q].digest = d
            BY <1>ver, <1>types, <2>1, <2>2, <2>3, <2>4, <2>5, <3>2 DEF VersionsHandedOut
        <3>3. CASE q # p /\ req[q].digest # d
            BY <1>digest, <2>2, <2>3, <2>4, <3>3 DEF VersionsHandedOut
        <3> QED BY <3>1, <3>2, <3>3
    <2>7. UniqueClaimVersion'
        BY <1>ver, <1>types, <2>1, <2>3, <2>4, <2>5 DEF UniqueClaimVersion, SameInput, d
    <2> QED BY <2>6, <2>7
<1>4. ASSUME NEW p \in Attempts, Handle(p), ~(Claim(p) /\ (claim' # claim \/ ver' # ver))
      PROVE  Keeps /\ \A q \in Attempts : Moves(q)
    <2>1. ver' = ver /\ claim' = claim /\ req' = req
        BY <1>4 DEF Handle, Enqueue, Confirm, Claim, Submit, SubmitFails
    <2>2. \/ /\ pc[p] \in BeforeClaim
             /\ \E l \in BeforeClaim \cup {"done"} : Goto(p, l)
          \/ /\ pc[p] = "submit"
             /\ \E l \in {"pending", "save", "done"} : Goto(p, l)
        <3>1. CASE Enqueue(p)
            BY <3>1, <1>labels DEF Enqueue
        <3>2. CASE Confirm(p)
            BY <3>2, <1>labels DEF Confirm
        <3>3. CASE Claim(p)
            BY <3>3, <1>4, <1>types, <1>req, <1>ver, <1>labels DEF Claim
        <3>4. CASE Submit(p) \/ SubmitFails(p)
            BY <3>4 DEF Submit, SubmitFails
        <3> QED BY <1>4, <3>1, <3>2, <3>3, <3>4 DEF Handle
    <2> QED BY <1>types, <1>labels, <2>1, <2>2 DEF Keeps
<1>5. ASSUME NEW p \in Attempts, Work(p), ~FinishClaim(p)
      PROVE  Keeps /\ \A q \in Attempts : Moves(q)
    BY <1>5, <1>types, <1>labels
    DEF Work, Start, PrepareEarly, StartRun, TurnFails, TurnSucceeds, PersistRefused,
        PersistIdempotent, PersistPlan, Context, CheckBinding, SaveTerminal,
        SaveTerminalLost, Conclude, Keeps
<1>6. ASSUME NEW p \in Attempts, FinishClaim(p)
      PROVE  Keeps /\ \A q \in Attempts : Moves(q)
    <2>1. \A d \in Digests : claim'[d].version = claim[d].version
        BY <1>6, <1>types DEF FinishClaim, ClaimRow
    <2> QED BY <1>6, <1>types, <1>labels, <2>1 DEF FinishClaim, Keeps
<1>7. CASE Tick \/ Reclassify \/ UNCHANGED vars
    BY <1>1, <1>7 DEF Tick, Reclassify, vars, Keeps
<1>8. CASE Crash
    <2>1. Keeps /\ \A q \in Attempts : Moves(q)
        BY <1>8, <1>types, <1>labels DEF Crash, Keeps, Settled
    <2> QED BY <1>1, <2>1
<1> QED BY <1>1, <1>2, <1>3, <1>4, <1>5, <1>6, <1>7, <1>8 DEF Next

\* Inv is inductive: types, known requests, stored latest plans, and versions
\* that are handed out once hold in every reachable state of the queue.
THEOREM InductiveInvariant == Spec => []Inv
<1>1. Init => Inv
    BY InitInv
<1>2. Inv /\ [Next]_vars => Inv'
    BY TypeStep, LatestStep, VersionStep DEF Inv
<1> QED BY <1>1, <1>2, PTL DEF Spec

-----------------------------------------------------------------------------

\* Every reachable state has the types of the store's columns and statuses.
THEOREM TypeCorrect == Spec => []TypeOK
BY InductiveInvariant, PTL DEF Inv

\* The claim version is a fencing token: two acquisitions of one input never
\* share a version, for any number of attempts, expiries, crashes and retries.
THEOREM ClaimVersionsUnique == Spec => []UniqueClaimVersion
BY InductiveInvariant, PTL DEF Inv

\* Nothing but SaveTerminal of the attempt itself ends its update with a write.
LEMMA TerminalWriter ==
    ASSUME Inv, Next, NEW p \in Attempts, EndsWithWrite(p)
    PROVE  SaveTerminal(p)
<1> USE DEF EndsWithWrite
<1>types. pc \in [Attempts -> PC]
    BY DEF Inv, TypeOK
<1>1. ASSUME NEW q \in Attempts, Enqueue(q)
      PROVE  FALSE
    BY <1>1, <1>types DEF Enqueue, Goto
<1>2. \A q \in Attempts : SaveTerminal(q) => q = p
    BY <1>types DEF SaveTerminal, Goto
<1>3. \E q \in Attempts : Enqueue(q) \/ SaveTerminal(q)
    BY DEF Next, durable, Handle, Work, Post, Confirm, Claim, Submit, SubmitFails,
           Start, PrepareEarly, StartRun, TurnFails, TurnSucceeds, PersistRefused,
           PersistIdempotent, PersistPlan, Context, CheckBinding, SaveTerminalLost,
           FinishClaim, Tick, Reclassify, Crash
<1> QED BY <1>1, <1>2, <1>3

\* A worker whose claim was taken over never writes the terminal state of the
\* job: save_terminal_response is fenced by the newest claim version.
THEOREM TerminalFenced == Spec => FencedTerminal
<1>1. ASSUME Inv, [Next]_vars, NEW p \in Attempts, NEW q \in Attempts,
             EndsWithWrite(p), SameInput(p, q)
      PROVE  ver[q] < ver[p]
    <2>1. SaveTerminal(p)
        BY <1>1, TerminalWriter DEF vars, EndsWithWrite
    <2>2. claim[req[p].digest].version = ver[p]
        BY <1>1, <2>1 DEF SaveTerminal, Owns, EndsWithWrite
    <2>3. ver[p] \in Nat /\ ver[q] \in Nat
        BY <1>1 DEF Inv, TypeOK
    <2>4. ver[p] > 0
        BY <1>1 DEF Inv, VersionsHandedOut, Working, EndsWithWrite
    <2>5. ver[q] > 0 => ver[q] <= ver[p]
        BY <1>1, <2>2 DEF Inv, VersionsHandedOut, SameInput
    <2>6. ver[q] > 0 => ver[q] # ver[p]
        BY <1>1, <2>4 DEF Inv, UniqueClaimVersion, SameInput
    <2> QED BY <2>3, <2>4, <2>5, <2>6
<1>2. Inv /\ [Next]_vars => [\A p, q \in Attempts :
                                EndsWithWrite(p) /\ SameInput(p, q) => ver[q] < ver[p]]_vars
    BY <1>1
<1> QED BY <1>2, InductiveInvariant, PTL DEF Spec, FencedTerminal

-----------------------------------------------------------------------------

\* A response that reports a plan was given the binding of a stored one, and a
\* response on its way to the job's row is one of the five statuses.
ReplyStored ==
    \A p \in Attempts :
        /\ pc[p] = "idle" => reply[p].status \notin GoodReply
        /\ pc[p] \in {"context", "save", "update"} =>
              reply[p].status \in GoodReply \cup BadReply
        /\ reply[p].status \in GoodReply =>
              \E x \in PlansFor(req[p].digest) : x.binding = reply[p].binding

\* An attempt stores its plan once, in the step that leaves "persist".
Published == {"context", "save", "update", "finish", "done", "dead"}
StoredOnce == \A x \in plans : pc[x.by] \in Published

PlanInv == ReplyStored /\ StoredOnce /\ FinishedHasPlan

\* A successful reply refers to a stored plan, an attempt stores one plan, and a
\* finished job has one: each step keeps the three together.
LEMMA ReplyStep ==
    ASSUME Inv, Inv', PlanInv, [Next]_vars
    PROVE  PlanInv'
<1> USE DEF Inv, Goto, durable
<1>types. /\ pc \in [Attempts -> PC] /\ reply \in [Attempts -> Reply]
          /\ job \in [Digests -> JobRow] /\ plans \subseteq Plan
    BY DEF TypeOK
<1>req. \A p \in Attempts : pc[p] # "idle" => req[p].digest \in Digests
    BY DEF RequestKnown, Request
<1>replies. "none" \notin GoodReply /\ "raised" \notin GoodReply
            /\ "claim_stale" \notin GoodReply /\ GoodReply \cap BadReply = {}
    BY DEF GoodReply, BadReply

\* A plan, once stored, is stored for good.
<1>grows. \A d : PlansFor(d) \subseteq PlansFor(d)'
    <2>1. plans \subseteq plans'
        BY DEF Next, vars, Handle, Work, Post, Enqueue, Confirm, Claim, Submit,
               SubmitFails, Start, PrepareEarly, StartRun, TurnFails, TurnSucceeds,
               PersistRefused, PersistIdempotent, PersistPlan, Context, CheckBinding,
               SaveTerminal, SaveTerminalLost, FinishClaim, Tick, Reclassify, Crash
    <2> QED BY <2>1 DEF PlansFor
<1>latest. \A d \in Digests : PlansFor(d) # {} => LatestPlan(d) \in PlansFor(d)
    BY LatestPlanIsStored

\* A step that builds a response builds it from a stored plan or reports none.
<1>conclude. ASSUME NEW p \in Attempts, NEW s \in GoodReply \cup BadReply,
                    NEW b, pc[p] # "idle", req' = req, Conclude(p, s, b),
                    s \in GoodReply => \E x \in PlansFor(req[p].digest)' : x.binding = b
             PROVE  ReplyStored'
    <2>1. reply'[p].status = s /\ reply'[p].binding = b /\ pc'[p] \in {"save", "context"}
        BY <1>conclude, <1>types DEF Conclude
    <2>2. \A q \in Attempts \ {p} : reply'[q] = reply[q] /\ pc'[q] = pc[q]
        BY <1>conclude, <1>types DEF Conclude
    <2> QED BY <1>conclude, <1>grows, <2>1, <2>2 DEF PlanInv, ReplyStored

\* A step that answers from a stored plan.
<1>stored. ASSUME NEW p \in Attempts, pc[p] # "idle", req' = req,
                  PlansFor(req[p].digest) # {},
                  Conclude(p, "idempotent", LatestPlan(req[p].digest).binding)
           PROVE  ReplyStored'
    <2>1. LatestPlan(req[p].digest) \in PlansFor(req[p].digest)'
        BY <1>stored, <1>latest, <1>grows, <1>req
    <2> QED BY <1>stored, <1>conclude, <2>1 DEF GoodReply
<1>bad. ASSUME NEW p \in Attempts, pc[p] # "idle", req' = req,
               NEW s \in BadReply, NEW b, Conclude(p, s, b)
        PROVE  ReplyStored'
    BY <1>bad, <1>conclude, <1>replies

\* A step that leaves the responses alone and brings no attempt to its save.
<1>quiet. ASSUME reply' = reply, req' = req,
                 \A q \in Attempts : /\ pc'[q] = "idle" => pc[q] = "idle"
                                     /\ pc'[q] \in {"context", "save", "update"} =>
                                           pc[q] \in {"context", "save", "update"}
          PROVE  ReplyStored'
    BY <1>quiet, <1>grows DEF PlanInv, ReplyStored
<1>1. ReplyStored'
    <2>1. ASSUME NEW p \in Attempts, PrepareEarly(p)
          PROVE  ReplyStored'
        BY <2>1, <1>bad, <1>stored DEF PrepareEarly
    <2>2. ASSUME NEW p \in Attempts, TurnFails(p) \/ PersistRefused(p)
          PROVE  ReplyStored'
        <3>1. \E s \in {"failed", "blocked"} : Conclude(p, s, req[p].binding)
            BY <2>2 DEF TurnFails, PersistRefused
        <3> QED BY <2>2, <3>1, <1>bad DEF TurnFails, PersistRefused, BadReply
    <2>3. ASSUME NEW p \in Attempts, PersistIdempotent(p)
          PROVE  ReplyStored'
        BY <2>3, <1>stored DEF PersistIdempotent
    <2>4. ASSUME NEW p \in Attempts, PersistPlan(p)
          PROVE  ReplyStored'
        <3> DEFINE new == [version |-> NextVersion, digest |-> req[p].digest,
                           binding |-> req[p].binding, by |-> p,
                           repair |-> PlansFor(req[p].digest) # {}]
        <3>0. /\ plans' = plans \cup {new} /\ req' = req
              /\ new.digest = req[p].digest /\ new.binding = req[p].binding
            BY <2>4 DEF PersistPlan
        <3>1. \E x \in PlansFor(req[p].digest)' : x.binding = req[p].binding
            <4> HIDE DEF new
            <4> QED BY <3>0 DEF PlansFor
        <3>2. /\ Conclude(p, "created", req[p].binding)
              /\ pc[p] # "idle" /\ req' = req /\ "created" \in GoodReply
            BY <2>4 DEF PersistPlan, GoodReply
        <3> QED BY <3>1, <3>2, <1>conclude
    <2>5. ASSUME NEW p \in Attempts, SubmitFails(p)
          PROVE  ReplyStored'
        <3>1. /\ reply'[p].status = "failed" /\ pc'[p] # "idle"
              /\ \A q \in Attempts \ {p} : reply'[q] = reply[q] /\ pc'[q] = pc[q]
              /\ req' = req
            BY <2>5, <1>types DEF SubmitFails
        <3> QED BY <3>1, <1>grows DEF PlanInv, ReplyStored, GoodReply, BadReply
    <2>6. ASSUME NEW p \in Attempts, Context(p) \/ CheckBinding(p) \/ SaveTerminal(p)
          PROVE  ReplyStored'
        <3>1. /\ pc[p] \in {"context", "save", "update"} /\ pc'[p] # "idle"
              /\ \/ reply' = reply
                 \/ /\ reply'[p].status \in {"raised", "claim_stale"}
                    /\ pc'[p] = "finish"
              /\ \A q \in Attempts \ {p} : reply'[q] = reply[q] /\ pc'[q] = pc[q]
              /\ req' = req
            BY <2>6, <1>types DEF Context, CheckBinding, SaveTerminal, Reply
        <3> QED BY <3>1, <1>grows, <1>replies DEF PlanInv, ReplyStored
    <2>7. ASSUME NEW p \in Attempts, NEW d \in Digests, NEW r \in BOOLEAN, Post(p, d, r)
          PROVE  ReplyStored'
        <3>1. /\ pc[p] = "idle" /\ pc'[p] = "enqueue" /\ reply' = reply
              /\ \A q \in Attempts \ {p} : req'[q] = req[q] /\ pc'[q] = pc[q]
            BY <2>7, <1>types DEF Post, TypeOK
        <3> QED BY <3>1, <1>grows DEF PlanInv, ReplyStored
    <2>8. ASSUME NEW p \in Attempts,
                 Enqueue(p) \/ Confirm(p) \/ Claim(p) \/ Submit(p) \/ Start(p)
                   \/ StartRun(p) \/ TurnSucceeds(p) \/ SaveTerminalLost(p) \/ FinishClaim(p)
          PROVE  ReplyStored'
        <3>1. reply' = reply /\ req' = req
            BY <2>8 DEF Enqueue, Confirm, Claim, Submit, Start, StartRun, TurnSucceeds,
                        SaveTerminalLost, FinishClaim
        <3>2. \E l \in {"done", "confirm", "claim", "submit", "pending", "prepare",
                       "turn", "persist", "finish"} : Goto(p, l)
            BY <2>8 DEF Enqueue, Confirm, Claim, Submit, Start, StartRun, TurnSucceeds,
                        SaveTerminalLost, FinishClaim
        <3> QED BY <1>quiet, <1>types, <3>1, <3>2
    <2>9. CASE Tick \/ Reclassify \/ Crash \/ UNCHANGED vars
        BY <2>9, <1>quiet, <1>types DEF Tick, Reclassify, Crash, vars, Settled
    <2> QED BY <2>1, <2>2, <2>3, <2>4, <2>5, <2>6, <2>7, <2>8, <2>9
            DEF Next, Handle, Work
<1>2. StoredOnce'
    <2>1. \A q \in Attempts : pc[q] \in Published => pc'[q] \in Published
        <3>1. ASSUME NEW p \in Attempts,
                     \/ \E d \in Digests, r \in BOOLEAN : Post(p, d, r)
                     \/ Handle(p)
              PROVE  pc[p] \notin Published /\ \A q \in Attempts \ {p} : pc'[q] = pc[q]
            BY <3>1, <1>types
            DEF Post, Handle, Enqueue, Confirm, Claim, Submit, SubmitFails, Published
        <3>2. ASSUME NEW p \in Attempts, Work(p)
              PROVE  /\ pc[p] \in Published => pc'[p] \in Published
                     /\ \A q \in Attempts \ {p} : pc'[q] = pc[q]
            BY <3>2, <1>types
            DEF Work, Start, PrepareEarly, StartRun, TurnFails, TurnSucceeds, PersistRefused,
                PersistIdempotent, PersistPlan, Context, CheckBinding, SaveTerminal,
                SaveTerminalLost, FinishClaim, Conclude, Published
        <3>3. CASE Tick \/ Reclassify \/ Crash \/ UNCHANGED vars
            BY <3>3, <1>types DEF Tick, Reclassify, Crash, vars, Settled, Published
        <3> QED BY <3>1, <3>2, <3>3 DEF Next
    <2>2. \A x \in plans' \ plans : x.by \in Attempts /\ pc'[x.by] \in Published
        <3>1. ASSUME NEW p \in Attempts, PersistPlan(p)
              PROVE  \A x \in plans' \ plans : x.by = p /\ pc'[p] \in Published
            BY <3>1, <1>types DEF PersistPlan, Conclude, Published
        <3>2. plans' = plans \/ \E p \in Attempts : PersistPlan(p)
            BY DEF Next, vars, Handle, Work, Post, Enqueue, Confirm, Claim, Submit,
                   SubmitFails, Start, PrepareEarly, StartRun, TurnFails, TurnSucceeds,
                   PersistRefused, PersistIdempotent, Context, CheckBinding, SaveTerminal,
                   SaveTerminalLost, FinishClaim, Tick, Reclassify, Crash
        <3> QED BY <3>1, <3>2
    <2> QED BY <1>types, <2>1, <2>2 DEF PlanInv, StoredOnce, Plan
<1>3. FinishedHasPlan'
    <2>1. CASE job' = job
        BY <2>1, <1>grows DEF PlanInv, FinishedHasPlan
    <2>2. ASSUME NEW p \in Attempts, Enqueue(p)
          PROVE  FinishedHasPlan'
        <3>1. \A d \in Digests : job'[d].status = "finished" => job'[d] = job[d]
            BY <2>2, <1>types DEF Enqueue
        <3> QED BY <3>1, <1>grows DEF PlanInv, FinishedHasPlan
    <2>3. ASSUME NEW p \in Attempts, SaveTerminal(p), job' # job
          PROVE  FinishedHasPlan'
        <3> DEFINE d == req[p].digest
        <3>1. \A e \in Digests \ {d} : job'[e] = job[e]
            BY <2>3, <1>types DEF SaveTerminal
        <3>2. /\ job'[d].status = "finished" => reply[p].status \notin BadReply
              /\ job'[d].binding = reply[p].binding
            BY <2>3, <1>types, <1>req DEF SaveTerminal, BadReply
        <3>3. reply[p].status \notin BadReply =>
                 \E x \in PlansFor(d) : x.binding = reply[p].binding
            BY <2>3 DEF SaveTerminal, PlanInv, ReplyStored
        <3> HIDE DEF d
        <3> QED BY <3>1, <3>2, <3>3, <1>grows DEF PlanInv, FinishedHasPlan
    <2>4. job' = job \/ \E p \in Attempts : Enqueue(p) \/ SaveTerminal(p)
        BY DEF Next, vars, Handle, Work, Post, Confirm, Claim, Submit, SubmitFails,
               Start, PrepareEarly, StartRun, TurnFails, TurnSucceeds, PersistRefused,
               PersistIdempotent, PersistPlan, Context, CheckBinding, SaveTerminalLost,
               FinishClaim, Tick, Reclassify, Crash
    <2> QED BY <2>1, <2>2, <2>3, <2>4
<1> QED BY <1>1, <1>2, <1>3 DEF PlanInv

\* What a successful reply, a finished job and a stored plan say of each other
\* (persist_generated_proposal, _save_terminal_response) holds throughout.
THEOREM PlanInvariant == Spec => []PlanInv
<1>1. Init => PlanInv
    BY DEF Init, PlanInv, ReplyStored, StoredOnce, FinishedHasPlan, NoReply, NoJob, GoodReply
<1>2. Inv /\ Inv' /\ PlanInv /\ [Next]_vars => PlanInv'
    BY ReplyStep
<1> QED BY <1>1, <1>2, InductiveInvariant, PTL DEF Spec

\* A job is reported finished only when a plan for its exact input, with the
\* job's own refresh authorization, is stored.
THEOREM FinishedJobsHavePlans == Spec => []FinishedHasPlan
BY PlanInvariant, PTL DEF PlanInv

-----------------------------------------------------------------------------

ledgerBar == {[version |-> x.version, digest |-> x.digest, by |-> x.by] : x \in plans}
readyBar == {d \in Digests : job[d].status = "finished"}

\* A step maps to a publication, a delivery, a withdrawal or a stutter.
LEMMA LedgerStep ==
    ASSUME Inv, Inv', PlanInv, PlanInv', [Next]_vars
    PROVE  [Ledger!Next]_<<ledgerBar, readyBar>>
<1> USE DEF ledgerBar, readyBar
<1>types. /\ plans \subseteq Plan /\ job \in [Digests -> JobRow]
          /\ pc \in [Attempts -> PC]
    BY DEF Inv, TypeOK
<1>1. ASSUME NEW p \in Attempts, PersistPlan(p)
      PROVE  [Ledger!Next]_<<ledgerBar, readyBar>>
    <2>0. PICK d \in Digests : d = req[p].digest
        BY <1>1 DEF PersistPlan, Inv, RequestKnown, Request
    <2> DEFINE plan == [version |-> NextVersion, digest |-> d,
                        binding |-> req[p].binding, by |-> p, repair |-> PlansFor(d) # {}]
               new == [version |-> NextVersion, digest |-> d, by |-> p]
    <2>1. p \in Attempts /\ readyBar' = readyBar
        BY <1>1 DEF PersistPlan
    <2>2. plans' = plans \cup {plan}
        BY <1>1, <2>0 DEF PersistPlan
    <2>3. new = [version |-> plan.version, digest |-> plan.digest, by |-> plan.by]
        OBVIOUS
    <2>4. ledgerBar' = ledgerBar \cup {new}
        <3> HIDE DEF plan, new
        <3> QED BY <2>2, <2>3
    <2>5. \A x \in ledgerBar : x.by # p
        BY <1>1, <1>types DEF PersistPlan, PlanInv, StoredOnce, Published
    <2>6. NextVersion \in Nat \ {0} /\ \A x \in ledgerBar : x.version < NextVersion
        BY NextVersionIsAbove DEF Inv
    <2>7. new \in ledgerBar' /\ new.by = p /\ new.digest = d /\ new.version = NextVersion
        BY <2>4
    <2> HIDE DEF new, plan, ledgerBar, readyBar
    <2>8. Ledger!Publish(p, d)
        BY <2>1, <2>4, <2>5, <2>6, <2>7 DEF Ledger!Publish, ledgerBar, readyBar
    <2>9. Ledger!Next
        BY <2>1, <2>8 DEF Ledger!Next
    <2> QED BY <2>9
<1>2. ASSUME NEW p \in Attempts, Enqueue(p)
      PROVE  [Ledger!Next]_<<ledgerBar, readyBar>>
    <2>0. PICK d \in Digests : d = req[p].digest
        BY <1>2 DEF Enqueue, Inv, RequestKnown, Request
    <2>1. ledgerBar' = ledgerBar
        BY <1>2 DEF Enqueue, durable
    <2>2. readyBar' = readyBar \/ readyBar' = readyBar \ {d}
        <3> SUFFICES ASSUME job' # job
                     PROVE  readyBar' = readyBar \ {d}
            OBVIOUS
        <3>1. /\ \A e \in Digests \ {d} : job'[e] = job[e]
              /\ job'[d].status = "queued"
            BY <1>2, <1>types, <2>0 DEF Enqueue
        <3> QED BY <3>1
    <2> HIDE DEF ledgerBar, readyBar
    <2>3. CASE readyBar' = readyBar
        BY <2>1, <2>3
    <2>4. CASE readyBar' = readyBar \ {d}
        <3>1. Ledger!Withdraw(d)
            BY <2>1, <2>4 DEF Ledger!Withdraw, ledgerBar, readyBar
        <3>2. Ledger!Next
            BY <2>1, <3>1 DEF Ledger!Next
        <3> QED BY <3>2
    <2> QED BY <2>2, <2>3, <2>4
<1>3. ASSUME NEW p \in Attempts, SaveTerminal(p)
      PROVE  [Ledger!Next]_<<ledgerBar, readyBar>>
    <2>0. PICK d \in Digests : d = req[p].digest
        BY <1>3 DEF SaveTerminal, Inv, RequestKnown, Request
    <2>1. ledgerBar' = ledgerBar
        BY <1>3 DEF SaveTerminal, durable
    <2>2. \A e \in Digests \ {d} : job'[e] = job[e]
        BY <1>3, <1>types, <2>0 DEF SaveTerminal
    <2>3. readyBar' \in {readyBar \ {d}, readyBar \cup {d}}
        BY <2>2
    <2>4. d \in readyBar' => \E x \in ledgerBar : x.digest = d
        <3>1. job'[d].status = "finished" => \E x \in PlansFor(d)' : TRUE
            BY DEF PlanInv, FinishedHasPlan
        <3>2. plans' = plans
            BY <1>3 DEF SaveTerminal, durable
        <3>3. job'[d].status = "finished" => \E x \in plans : x.digest = d
            BY <3>1, <3>2 DEF PlansFor
        <3>4. ASSUME NEW x \in plans
              PROVE  \E y \in ledgerBar : y.digest = x.digest
            <4> DEFINE y == [version |-> x.version, digest |-> x.digest, by |-> x.by]
            <4>1. y \in ledgerBar /\ y.digest = x.digest
                OBVIOUS
            <4> QED BY <4>1
        <3>5. d \in readyBar' => job'[d].status = "finished"
            OBVIOUS
        <3> HIDE DEF ledgerBar, readyBar
        <3> QED BY <3>3, <3>4, <3>5
    <2> HIDE DEF ledgerBar, readyBar
    <2>5. CASE readyBar' = readyBar \ {d}
        <3>1. Ledger!Withdraw(d)
            BY <2>1, <2>5 DEF Ledger!Withdraw, ledgerBar, readyBar
        <3>2. Ledger!Next
            BY <2>1, <3>1 DEF Ledger!Next
        <3> QED BY <3>2
    <2>6. CASE readyBar' = readyBar \cup {d}
        <3>1. Ledger!Deliver(d)
            BY <2>1, <2>4, <2>6 DEF Ledger!Deliver, ledgerBar, readyBar
        <3>2. Ledger!Next
            BY <2>1, <3>1 DEF Ledger!Next
        <3> QED BY <3>2
    <2> QED BY <2>3, <2>5, <2>6
<1>4. CASE plans' = plans /\ job' = job
    BY <1>4
<1>5. \/ plans' = plans /\ job' = job
      \/ \E p \in Attempts : PersistPlan(p) \/ Enqueue(p) \/ SaveTerminal(p)
    BY DEF Next, vars, durable, Handle, Work, Post, Confirm, Claim, Submit, SubmitFails,
           Start, PrepareEarly, StartRun, TurnFails, TurnSucceeds, PersistRefused,
           PersistIdempotent, Context, CheckBinding, SaveTerminalLost, FinishClaim,
           Tick, Reclassify, Crash
<1> QED BY <1>1, <1>2, <1>3, <1>4, <1>5

\* The store implements the append-only ledger: whatever races, expires or
\* crashes, a plan is published once, above all others, and never withdrawn.
THEOREM LedgerRefinement == Spec => ImplementsLedger
<1>1. Init => Ledger!Init
    BY DEF Init, Ledger!Init, NoJob
<1>2. Inv /\ Inv' /\ PlanInv /\ PlanInv' /\ [Next]_vars =>
         [Ledger!Next]_<<ledgerBar, readyBar>>
    BY LedgerStep
<1> QED
    BY <1>1, <1>2, InductiveInvariant, PlanInvariant, PTL
    DEF Spec, ImplementsLedger, Ledger!Spec, ledgerBar, readyBar

=============================================================================
