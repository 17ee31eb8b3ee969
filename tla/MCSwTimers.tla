---------------------------- MODULE MCSwTimers ----------------------------
(***************************************************************************)
(* Which callbacks start which timers, in the instances TLC checks.        *)
(***************************************************************************)
EXTENDS SwTimers

FirstStartsSecond == {<<1, 2>>}
FirstRestartsItself == {<<1, 1>>}
=============================================================================
