-------------------------- MODULE MCWordPressApply --------------------------
(***************************************************************************)
(* Model values for WordPressApply.                                        *)
(***************************************************************************)
EXTENDS WordPressApply, TLC

CONSTANTS t1, t2

OneThread == {t1}
TwoThreads == {t1, t2}

\* The threads are interchangeable; the symmetry is used for safety only.
ThreadSymmetry == Permutations(Threads)
=============================================================================
