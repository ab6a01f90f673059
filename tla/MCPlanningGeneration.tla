------------------------ MODULE MCPlanningGeneration ------------------------
(***************************************************************************)
(* Bounded instances of PlanningGeneration.  Attempts are interchangeable, *)
(* so the safety runs are reduced by their permutations.                   *)
(***************************************************************************)
EXTENDS PlanningGeneration, TLC

CONSTANTS a1, a2, d1, d2, b1

TwoAttempts == {a1, a2}
OneDigest == {d1}
TwoDigests == {d1, d2}
OneBinding == {b1}
NoBindings == {}

Symmetry == Permutations(Attempts)

=============================================================================
