----------------------------- MODULE PlanLedger -----------------------------
(***************************************************************************)
(* What the planning store promises to everything that reads plans: an     *)
(* append-only ledger.  A plan is published once, by one attempt, with a   *)
(* version above every earlier one, and is never changed or removed; the   *)
(* input's job is reported ready only while a plan for it is in the        *)
(* ledger.                                                                 *)
(***************************************************************************)
EXTENDS Integers

CONSTANTS Attempts, Digests

VARIABLES
    ledger,   \* the published plans
    ready     \* digests whose generation job reads "finished"

Init == ledger = {} /\ ready = {}

Publish(p, d) ==
    /\ \A x \in ledger : x.by # p
    /\ \E new \in ledger' :
          /\ new.by = p /\ new.digest = d
          /\ new.version > 0
          /\ \A x \in ledger : x.version < new.version
          /\ ledger' = ledger \cup {new}
    /\ UNCHANGED ready

Deliver(d) ==
    /\ \E x \in ledger : x.digest = d
    /\ ready' = ready \cup {d}
    /\ UNCHANGED ledger

\* A regeneration or a failed later attempt takes the report back, not the plan.
Withdraw(d) ==
    /\ ready' = ready \ {d}
    /\ UNCHANGED ledger

Next ==
    \/ \E p \in Attempts, d \in Digests : Publish(p, d)
    \/ \E d \in Digests : Deliver(d) \/ Withdraw(d)

Spec == Init /\ [][Next]_<<ledger, ready>>

=============================================================================
