------------------------------ MODULE WorkFifo ------------------------------
(***************************************************************************)
(* What the deferred-work service of task_planner.h promises its callers:  *)
(* a submission is accepted unless it has no function or Capacity jobs are *)
(* already waiting, and the accepted jobs are run one at a time, each once,*)
(* in the order in which they were accepted.                               *)
(***************************************************************************)
EXTENDS Naturals, Sequences

CONSTANTS
    Capacity,   \* how many accepted jobs may wait
    Jobs,       \* the jobs (function and argument) callers submit
    NoJob       \* a NULL function; not a job

VARIABLES
    waiting,    \* the accepted jobs that have not started, oldest first
    running,    \* the job being run, or NoJob
    done,       \* the jobs that ran to completion, oldest first
    ok          \* what the last submission returned

fifoVars == <<waiting, running, done, ok>>

Init ==
    /\ waiting = <<>>
    /\ running = NoJob
    /\ done = <<>>
    /\ ok = FALSE

Submit(j) ==
    /\ ok' = (j # NoJob /\ Len(waiting) < Capacity)
    /\ waiting' = IF ok' THEN Append(waiting, j) ELSE waiting
    /\ UNCHANGED <<running, done>>

Start ==
    /\ running = NoJob
    /\ waiting # <<>>
    /\ running' = Head(waiting)
    /\ waiting' = Tail(waiting)
    /\ UNCHANGED <<done, ok>>

Finish ==
    /\ running # NoJob
    /\ done' = Append(done, running)
    /\ running' = NoJob
    /\ UNCHANGED <<waiting, ok>>

Next == (\E j \in Jobs \cup {NoJob} : Submit(j)) \/ Start \/ Finish

Spec == Init /\ [][Next]_fifoVars
=============================================================================
