---------------------------- MODULE MCContentRuns ----------------------------
(***************************************************************************)
(* Model values for ContentRuns.                                           *)
(***************************************************************************)
EXTENDS ContentRuns

CONSTANTS p1, p2

TwoPlans == {p1, p2}
=============================================================================
