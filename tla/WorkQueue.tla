------------------------------ MODULE WorkQueue ------------------------------
(***************************************************************************)
(* The deferred-work queue of system/task_planner/task_planner.c: a ring   *)
(* of SIZE items filled by tlk_task_work_submit(), which any context may   *)
(* call (a task, a running job, an interrupt handler), and drained by      *)
(* tlk_task_work_queue_task(), which the scheduler loop calls.             *)
(*                                                                         *)
(* The core is a single hart: a section between tlk_core_interrupt_disable *)
(* and tlk_core_interrupt_enable is one step, and an interrupt handler may *)
(* submit between any two steps of the main context.                       *)
(***************************************************************************)
EXTENDS MTime, Sequences

CONSTANTS
    SIZE,        \* CONFIG_TLK_TASK_PLANNER_WORK_QUEUE_SIZE
    Jobs,        \* the (fn, arg) pairs submitted
    NoJob,       \* an item whose fn is NULL
    Horizon,     \* bound on mtime: uptime stays far below 2^63 ticks
    MaxSubmits   \* bound on the number of accepted submissions

ASSUME SizeAssumption == SIZE \in Nat \ {0}
ASSUME NoJobAssumption == NoJob \notin Jobs
ASSUME HorizonAssumption == Horizon \in Nat /\ Horizon < SignBit
ASSUME MaxSubmitsAssumption == MaxSubmits \in Nat

VARIABLES
    work_q_head, work_q_tail, work_q_count, locked, sWorkItem,  \* sWorkQueue
    wake,       \* work_queue_task_obj.wake
    mtime,      \* the machine timer
    now,        \* the scheduler's snapshot of it, taken once per loop
    pc,         \* where the main context is
    item,       \* tlk_task_work_queue_task()'s local copy of a job
    ok,         \* the value the last tlk_task_work_submit() returned
    accepted,   \* history: the jobs accepted, in order
    ran         \* history: the jobs run, in order

queueVars == <<work_q_head, work_q_tail, work_q_count, locked, sWorkItem>>
histVars == <<accepted, ran>>
vars == <<queueVars, wake, mtime, now, pc, item, ok, histVars>>

Index == 0 .. SIZE - 1

is_empty == work_q_count = 0

\* Planted fault: the capacity test lets one job too many in.
Bug_is_full == work_q_count > SIZE
is_full == work_q_count >= SIZE

Init ==
    /\ work_q_head = 0 /\ work_q_tail = 0 /\ work_q_count = 0
    /\ locked = FALSE
    /\ sWorkItem = [i \in Index |-> NoJob]
    /\ wake = 0              \* TASK_SPAWN: ready to run
    /\ mtime = 0 /\ now = 0
    /\ pc = "loop"
    /\ item = NoJob
    /\ ok = FALSE
    /\ accepted = <<>> /\ ran = <<>>

Tick ==
    /\ mtime < Horizon
    /\ mtime' = mtime + 1
    /\ UNCHANGED <<queueVars, wake, now, pc, item, ok, histVars>>

-----------------------------------------------------------------------------
(* tlk_task_work_submit(fn, arg) *)

\* Planted fault: the job is written over the oldest one.
Bug_store(j) == sWorkItem' = [sWorkItem EXCEPT ![work_q_head] = j]
store(j) == sWorkItem' = [sWorkItem EXCEPT ![work_q_tail] = j]

advance_tail == work_q_tail' = (work_q_tail + 1) % SIZE

\* The job is stored, and the queue task is woken by TASK_YIELD.
submit_accept(j) ==
    /\ j # NoJob /\ ~locked /\ ~is_full
    /\ Len(accepted) < MaxSubmits
    /\ store(j)
    /\ advance_tail
    /\ work_q_count' = work_q_count + 1
    /\ locked' = FALSE
    /\ wake' = mtime
    /\ ok' = TRUE
    /\ accepted' = Append(accepted, j)
    /\ UNCHANGED <<work_q_head, mtime, now, pc, item, ran>>

\* No function, the lock taken, or no room: the caller is told.
submit_reject(j) ==
    /\ j = NoJob \/ locked \/ is_full
    /\ ok' = FALSE
    /\ UNCHANGED <<queueVars, wake, mtime, now, pc, item, histVars>>

tlk_task_work_submit(j) == submit_accept(j) \/ submit_reject(j)

-----------------------------------------------------------------------------
(* The slice of tlk_task_planner_run() that concerns the queue task, and   *)
(* tlk_task_work_queue_task().                                             *)

LoopTop ==
    /\ pc = "loop"
    /\ now' = mtime
    /\ pc' = "scan"
    /\ UNCHANGED <<queueVars, wake, mtime, item, ok, histVars>>

\* Planted fault: a task parked at UINT64_MAX is never due.
Bug_TaskReady == wake <= now

\* The scheduler's test of the queue task: (int64_t) (now - t->wake) >= 0.
TaskReady == Reached(now, wake)

Scan ==
    /\ pc = "scan"
    /\ pc' = IF TaskReady THEN "pop" ELSE "loop"
    /\ UNCHANGED <<queueVars, wake, mtime, now, item, ok, histVars>>

\* Planted fault: the head does not move when the last job is taken.
Bug_advance_head ==
    work_q_head' = IF work_q_count > 1 THEN (work_q_head + 1) % SIZE ELSE work_q_head
advance_head == work_q_head' = (work_q_head + 1) % SIZE

\* tlk_task_work_queue_pop() with interrupts disabled around it.
Pop ==
    /\ pc = "pop" /\ ~is_empty
    /\ item' = sWorkItem[work_q_head]
    /\ advance_head
    /\ work_q_count' = work_q_count - 1
    /\ pc' = "run"
    /\ UNCHANGED <<work_q_tail, locked, sWorkItem, wake, mtime, now, ok, histVars>>

PopNothing ==
    /\ pc = "pop" /\ is_empty
    /\ pc' = "park"
    /\ UNCHANGED <<queueVars, wake, mtime, now, item, ok, histVars>>

\* item.fn(item.arg); what the job submits while it runs are other steps.
RunJob ==
    /\ pc = "run"
    /\ ran' = Append(ran, item)
    /\ item' = NoJob
    /\ pc' = "pop"
    /\ UNCHANGED <<queueVars, wake, mtime, now, ok, accepted>>

\* t->wake = UINT64_MAX, with interrupts enabled again since the last pop.
Park ==
    /\ pc = "park"
    /\ wake' = UINT64_MAX
    /\ pc' = "loop"
    /\ UNCHANGED <<queueVars, mtime, now, item, ok, histVars>>

Main == LoopTop \/ Scan \/ Pop \/ PopNothing \/ RunJob \/ Park

Next ==
    \/ Tick
    \/ \E j \in Jobs \cup {NoJob} : tlk_task_work_submit(j)
    \/ Main

Spec == Init /\ [][Next]_vars

(***************************************************************************)
(* The main context never blocks here, so it always takes another step;    *)
(* interrupt handlers and the clock are under no obligation.               *)
(***************************************************************************)
FairSpec == Spec /\ WF_vars(Main)

-----------------------------------------------------------------------------
TypeOK ==
    /\ work_q_head \in Index /\ work_q_tail \in Index
    /\ work_q_count \in 0 .. SIZE
    /\ locked \in BOOLEAN
    /\ sWorkItem \in [Index -> Jobs \cup {NoJob}]
    /\ wake \in Time /\ mtime \in 0 .. Horizon /\ now \in 0 .. Horizon
    /\ pc \in {"loop", "scan", "pop", "run", "park"}
    /\ item \in Jobs \cup {NoJob}
    /\ ok \in BOOLEAN
    /\ accepted \in Seq(Jobs) /\ ran \in Seq(Jobs)

\* The k-th oldest job in the ring, k = 1 .. work_q_count.
queued(k) == sWorkItem[(work_q_head + k - 1) % SIZE]

\* How many accepted jobs have left the ring: those run and the one running.
taken == Len(ran) + (IF pc = "run" THEN 1 ELSE 0)

(***************************************************************************)
(* No accepted job is lost, duplicated or reordered, whatever the          *)
(* interleaving of submitters with the draining task: the jobs run, the    *)
(* job in the task's local copy and the jobs in the ring are, in this      *)
(* order, exactly the jobs tlk_task_work_submit() said it accepted.        *)
(***************************************************************************)
NothingLost ==
    /\ Len(accepted) = taken + work_q_count
    /\ \A k \in 1 .. Len(ran) : ran[k] = accepted[k]
    /\ pc = "run" => item = accepted[Len(ran) + 1]
    /\ \A k \in 1 .. work_q_count : queued(k) = accepted[taken + k]

(***************************************************************************)
(* The two indexes and the counter of sWorkQueue, which submit and pop     *)
(* update separately, agree; the submit lock is free whenever interrupts   *)
(* can be taken; the local copy is a real job exactly while one runs.      *)
(***************************************************************************)
RingAgrees ==
    /\ work_q_tail = (work_q_head + work_q_count) % SIZE
    /\ ~locked
    /\ (item # NoJob) <=> (pc = "run")

(***************************************************************************)
(* The queue implements the service WorkFifo describes.                    *)
(***************************************************************************)
Fifo == INSTANCE WorkFifo WITH
            Capacity <- SIZE,
            waiting <- [k \in 1 .. work_q_count |-> queued(k)],
            running <- item,
            done <- ran

FifoSpec == Fifo!Spec

(***************************************************************************)
(* Every job accepted is run, even one submitted by an interrupt between   *)
(* the pop that found the ring empty and the store that parks the task.    *)
(***************************************************************************)
AcceptedJobsRun ==
    \A n \in 1 .. MaxSubmits : (Len(accepted) >= n) ~> (Len(ran) >= n)
=============================================================================
