--------------------------- MODULE MCTaskPlanner ---------------------------
(***************************************************************************)
(* Which tasks wake which and which timer callbacks start which timers, in *)
(* the instances TLC checks.                                               *)
(***************************************************************************)
EXTENDS TaskPlanner

NoStarts == {}
SelfStart == {<<1, 1>>}
FirstYields == {<<1, 1>>}
SecondWakesFirst == {<<2, 1>>}
=============================================================================
