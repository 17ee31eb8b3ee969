------------------------------- MODULE MTime -------------------------------
(***************************************************************************)
(* The 64-bit machine time of core/common/src/tlk_mtimer.c and the         *)
(* deadline arithmetic of system/task_planner/task_planner.c.  A time is   *)
(* an unsigned integer of 2 * SignBit values (SignBit stands for 2^63);    *)
(* additions wrap, "<" compares unsigned values, and "has t been reached"  *)
(* reads the sign of a wrapped difference, exactly as the C code does.     *)
(***************************************************************************)
EXTENDS Integers

CONSTANT SignBit   \* 2^63 in the code; small in the models

ASSUME SignBitAssumption == SignBit \in Nat \ {0}

Modulus == 2 * SignBit
UINT64_MAX == Modulus - 1
Time == 0 .. UINT64_MAX

\* uint64_t arithmetic: the result of + and - is reduced modulo 2^64.
Wrap(x) == x % Modulus

\* (int64_t) (now - t) >= 0
Reached(now, t) == Wrap(now - t) < SignBit

\* (a < b) ? a : b
Earlier(a, b) == IF a < b THEN a ELSE b


(***************************************************************************)
(* The value tlk_task_planner_next_event_plan() writes to mtimecmp: one    *)
(* past the earlier deadline, or one past now when that is not strictly in *)
(* the future.  With no deadline at all (UINT64_MAX) the increment wraps   *)
(* to 0, which counts as reached, so the compare becomes now + 1.          *)
(***************************************************************************)
next_event_plan(now, task_deadline, timer_deadline) ==
    LET cmp == Wrap(Earlier(task_deadline, timer_deadline) + 1)
    IN  IF Reached(now, cmp) THEN Wrap(now + 1) ELSE cmp
=============================================================================
