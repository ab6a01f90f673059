--------------------------- MODULE MCNewPageApply ---------------------------
(***************************************************************************)
(* Model values for NewPageApply.                                          *)
(***************************************************************************)
EXTENDS NewPageApply

CONSTANTS t1, t2, a1, a2

TwoThreads == {t1, t2}
TwoActions == {a1, a2}
=============================================================================
