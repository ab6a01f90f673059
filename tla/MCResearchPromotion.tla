------------------------- MODULE MCResearchPromotion -------------------------
(***************************************************************************)
(* Values for the model checker.                                           *)
(***************************************************************************)
EXTENDS ResearchPromotion, TLC

CONSTANTS t1, t2

TwoThreads == {t1, t2}
OneLifetime == {5}

ThreadSymmetry == Permutations(Threads)

=============================================================================
