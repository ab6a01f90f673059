---------------------------- MODULE ConsentLedger ----------------------------
(***************************************************************************)
(* What a one-time consent to an external write promises, whoever asks for *)
(* the write and whatever fails: it is taken once, at most one product is  *)
(* made, only while it is taken, and the answer kept when it is spent      *)
(* names that product or nothing.                                          *)
(***************************************************************************)
CONSTANTS Consents, Products

VARIABLES
    phase,   \* "open", "taken" or "spent"
    made,    \* the products each consent made
    answer   \* the products named by the answer of each consent, at most one

vars == <<phase, made, answer>>

Init ==
    /\ phase = [c \in Consents |-> "open"]
    /\ made = [c \in Consents |-> {}]
    /\ answer = [c \in Consents |-> {}]

Take(c) ==
    /\ phase[c] = "open"
    /\ phase' = [phase EXCEPT ![c] = "taken"]
    /\ UNCHANGED <<made, answer>>

Make(c, x) ==
    /\ phase[c] = "taken"
    /\ made[c] = {}
    /\ made' = [made EXCEPT ![c] = {x}]
    /\ UNCHANGED <<phase, answer>>

\* The write may have failed, or be made and not be known: no answer.
Spend(c) ==
    /\ phase[c] = "taken"
    /\ phase' = [phase EXCEPT ![c] = "spent"]
    /\ \E known \in {{}, made[c]} : answer' = [answer EXCEPT ![c] = known]
    /\ UNCHANGED made

Next ==
    \E c \in Consents :
        \/ Take(c)
        \/ \E x \in Products : Make(c, x)
        \/ Spend(c)

Spec == Init /\ [][Next]_vars
=============================================================================
