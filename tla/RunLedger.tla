------------------------------ MODULE RunLedger ------------------------------
(***************************************************************************)
(* What a ledger of queued runs promises, whatever the runs produce.  A run *)
(* is started for a key, ends once, and is "completed" exactly when its     *)
(* product was committed.  A key has one started run at a time, and one     *)
(* product for good.                                                       *)
(***************************************************************************)
CONSTANTS Runs, Keys

VARIABLES
    key,      \* what each run was started for
    status,   \* how far each run is
    product   \* the runs whose product is stored

vars == <<key, status, product>>

Init ==
    /\ key \in [Runs -> Keys]
    /\ status = [r \in Runs |-> "none"]
    /\ product = {}

RunsOf(k) == {r \in Runs : key[r] = k /\ status[r] # "none"}

\* A run is started for a key without a product: the started runs of the key
\* are failed in the same step.
Start(r, k) ==
    /\ status[r] = "none"
    /\ RunsOf(k) \cap product = {}
    /\ key' = [key EXCEPT ![r] = k]
    /\ status' = [s \in Runs |->
                    IF s = r THEN "started"
                    ELSE IF s \in RunsOf(k) /\ status[s] = "started" THEN "failed"
                    ELSE status[s]]
    /\ UNCHANGED product

\* The product and the end of the run are one step.
Complete(r) ==
    /\ status[r] = "started"
    /\ RunsOf(key[r]) \cap product = {}
    /\ status' = [status EXCEPT ![r] = "completed"]
    /\ product' = product \cup {r}
    /\ UNCHANGED key

End(r) ==
    /\ status[r] = "started"
    /\ \E s \in {"blocked", "failed"} : status' = [status EXCEPT ![r] = s]
    /\ UNCHANGED <<key, product>>

Next ==
    \E r \in Runs :
        \/ \E k \in Keys : Start(r, k)
        \/ Complete(r)
        \/ End(r)

Spec == Init /\ [][Next]_vars
=============================================================================
