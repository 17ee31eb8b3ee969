----------------------------- MODULE TaskPlanner -----------------------------
(***************************************************************************)
(* The cooperative scheduler of system/task_planner/task_planner.c:        *)
(* tlk_task_planner_run(), the plan of the next timer interrupt and        *)
(* tlk_task_idle() (CONFIG_TLK_PM off), interleaved with the machine-timer *)
(* interrupt of SwTimers, with interrupt handlers that submit work, and    *)
(* with the software interrupt that tlk_task_work_submit() raises.         *)
(*                                                                         *)
(* The main context takes a step only while no handler is active.  The     *)
(* work queue is reduced to the number of jobs waiting (module WorkQueue   *)
(* has the ring), and a submission from a handler is one step.             *)
(***************************************************************************)
EXTENDS MTime, Sequences

CONSTANTS
    NTasks, WorkTask,   \* the tasks in linker order; the queue task's place
    Delays,             \* the arguments of TASK_DELAY
    Wakes,              \* <<i, j>>: task i may yield and resume task j
    SIZE,               \* CONFIG_TLK_TASK_PLANNER_WORK_QUEUE_SIZE
    NTimers, Periods, CbStarts, Nest, TaskDeadlines, Horizon, Settle

Tasks == 1 .. NTasks

ASSUME TasksAssumption == NTasks \in Nat /\ WorkTask \in Tasks
ASSUME WakesAssumption == Wakes \subseteq Tasks \X Tasks
ASSUME DelaysAssumption ==
    Delays \subseteq {d \in Nat : Horizon + Settle + d + 1 < SignBit}
\* What SwTimers assumes of its constants; the clock stays below the sign bit.
ASSUME ClockAssumption ==
    Horizon \in Nat /\ Settle \in Nat /\ Horizon + Settle + 1 < SignBit
ASSUME SwTimersAssumption ==
    /\ NTimers \in Nat
    /\ Periods \subseteq {p \in Nat \ {0} : Horizon + Settle + p + 1 < SignBit}
    /\ TaskDeadlines \subseteq Time
    /\ Nest \in BOOLEAN /\ (Nest \/ CbStarts = {})
    /\ CbStarts \subseteq (1 .. NTimers) \X (1 .. NTimers)

VARIABLES
    tasks,      \* wake and active of each tTask
    work_q_count,
    msip,       \* the software interrupt is pending
    pc, t,      \* where the main context is; the task its loop is at
    now,        \* the loop's snapshot of the clock
    plan_now, plan_next,  \* locals of the main context's plan
    timers, timer_next_deadline, task_next_deadline,
    mtime, mtimecmp, mie, mtie, irq, wanted

SW == INSTANCE SwTimers

taskVars == <<tasks, work_q_count, msip>>
mainVars == <<pc, t, now, plan_now, plan_next>>
swVars == <<timers, timer_next_deadline, mtimecmp, mie, mtie, irq, wanted, mtime>>
vars == <<taskVars, mainVars, swVars, task_next_deadline>>

\* TASK_SPAWN and TASK_REGISTER: the latter waits for a TASK_RESUME.
spawned == [wake |-> 0, active |-> TRUE]
registered == [wake |-> 0, active |-> FALSE]

\* tlk_task_planner_init() has loaded the tasks and enabled interrupts.
Init ==
    /\ SW!Init
    /\ tasks \in {f \in [Tasks -> {spawned, registered}] : f[WorkTask] = spawned}
    /\ work_q_count = 0
    /\ msip = FALSE
    /\ pc = "top" /\ t = 1 /\ now = 0
    /\ plan_now = 0 /\ plan_next = 0

\* After Horizon the clock moves on only while the processor sleeps.
Tick ==
    /\ mtime < Horizon \/ pc = "wfi"
    /\ SW!Tick
    /\ UNCHANGED <<taskVars, mainVars>>

-----------------------------------------------------------------------------
(* Interrupts.  An interrupt taken during wfi ends it. *)

end_wfi == pc' = IF pc = "wfi" THEN "top" ELSE pc

MtimerIrq ==
    /\ SW!Irq
    /\ end_wfi
    /\ UNCHANGED <<taskVars, t, now, plan_now, plan_next>>

\* The callback of a software timer starts or stops timers.
TimerCallback ==
    /\ SW!CbCall
    /\ UNCHANGED <<taskVars, mainVars>>

has_room == work_q_count < SIZE

\* tlk_task_work_submit(): a full queue refuses.
tlk_task_work_submit ==
    /\ mtime < Horizon
    /\ has_room
    /\ work_q_count' = work_q_count + 1
    /\ tasks' = [tasks EXCEPT ![WorkTask].wake = mtime]
    /\ msip' = TRUE

IsrSubmit ==
    /\ mie /\ irq = <<>>
    /\ tlk_task_work_submit
    /\ end_wfi
    /\ UNCHANGED <<t, now, plan_now, plan_next, swVars, task_next_deadline>>

\* tlk_plic_sw_handle() with no callback registered: claim and complete.
SwIrq ==
    /\ mie /\ irq = <<>> /\ msip
    /\ msip' = FALSE
    /\ end_wfi
    /\ UNCHANGED <<tasks, work_q_count, t, now, plan_now, plan_next, swVars,
                   task_next_deadline>>

-----------------------------------------------------------------------------
(* tlk_task_planner_run(): one pass over the tasks. *)

At(l) == pc = l /\ irq = <<>>

LoopTop ==
    /\ At("top")
    /\ now' = mtime
    /\ task_next_deadline' = UINT64_MAX
    /\ t' = 1
    /\ pc' = "scan"
    /\ UNCHANGED <<taskVars, plan_now, plan_next, swVars>>

\* Planted fault: a task whose instant was missed is not ready any more.
Bug_TaskReady(u) == now = tasks[u].wake
TaskReady(u) == Reached(now, tasks[u].wake)

ScanInactive ==
    /\ At("scan") /\ t <= NTasks /\ ~tasks[t].active
    /\ t' = t + 1
    /\ UNCHANGED <<taskVars, pc, now, plan_now, plan_next, swVars, task_next_deadline>>

\* An active task is called when it is ready; then its deadline is folded in.
ScanActive ==
    /\ At("scan") /\ t <= NTasks /\ tasks[t].active
    /\ pc' = IF TaskReady(t) THEN "call" ELSE "fold"
    /\ UNCHANGED <<taskVars, t, now, plan_now, plan_next, swVars, task_next_deadline>>

\* Planted fault: the last task's deadline replaces an earlier one.
Bug_fold_deadline == task_next_deadline' = tasks[t].wake

\* if (t->wake < task_next_deadline) task_next_deadline = t->wake;
fold_deadline == task_next_deadline' = Earlier(tasks[t].wake, task_next_deadline)

Fold ==
    /\ At("fold")
    /\ fold_deadline
    /\ t' = t + 1
    /\ pc' = "scan"
    /\ UNCHANGED <<taskVars, now, plan_now, plan_next, swVars>>

-----------------------------------------------------------------------------
(* Task functions: t->fn(t) does any of these, any number of times. *)

Running(u) == At("call") /\ t = u /\ u # WorkTask

TaskDelay == \* TASK_DELAY(t, d)
    /\ Running(t) /\ mtime < Horizon
    /\ \E d \in Delays : tasks' = [tasks EXCEPT ![t].wake = Wrap(mtime + d)]
    /\ UNCHANGED <<work_q_count, msip, mainVars, swVars, task_next_deadline>>

TaskPause == \* TASK_PAUSE(t)
    /\ Running(t)
    /\ tasks' = [tasks EXCEPT ![t].active = FALSE]
    /\ UNCHANGED <<work_q_count, msip, mainVars, swVars, task_next_deadline>>

TaskYield == \* TASK_YIELD(v)
    /\ Running(t) /\ mtime < Horizon
    /\ \E v \in Tasks :
          /\ <<t, v>> \in Wakes
          /\ tasks' = [tasks EXCEPT ![v].wake = mtime]
    /\ UNCHANGED <<work_q_count, msip, mainVars, swVars, task_next_deadline>>

TaskResume == \* TASK_RESUME(v): its wake time is the old one
    /\ Running(t)
    /\ \E v \in Tasks :
          /\ <<t, v>> \in Wakes
          /\ tasks' = [tasks EXCEPT ![v].active = TRUE]
    /\ UNCHANGED <<work_q_count, msip, mainVars, swVars, task_next_deadline>>

TaskSubmits ==
    /\ Running(t)
    /\ tlk_task_work_submit
    /\ UNCHANGED <<mainVars, swVars, task_next_deadline>>

TaskUsesTimers ==
    /\ Running(t)
    /\ SW!TaskStartStop
    /\ UNCHANGED <<taskVars, mainVars>>

TaskReturns ==
    /\ Running(t)
    /\ pc' = "fold"
    /\ UNCHANGED <<taskVars, t, now, plan_now, plan_next, swVars, task_next_deadline>>

(* tlk_task_work_queue_task(): drain, then park. *)

RunJob ==
    /\ At("call") /\ t = WorkTask /\ work_q_count > 0
    /\ work_q_count' = work_q_count - 1
    /\ UNCHANGED <<tasks, msip, mainVars, swVars, task_next_deadline>>

FoundEmpty ==
    /\ At("call") /\ t = WorkTask /\ work_q_count = 0
    /\ pc' = "park"
    /\ UNCHANGED <<taskVars, t, now, plan_now, plan_next, swVars, task_next_deadline>>

Park ==
    /\ At("park")
    /\ tasks' = [tasks EXCEPT ![t].wake = UINT64_MAX]
    /\ pc' = "fold"
    /\ UNCHANGED <<work_q_count, msip, t, now, plan_now, plan_next, swVars,
                   task_next_deadline>>

-----------------------------------------------------------------------------
(* tlk_task_planner_next_event_plan() in the main context, interrupts      *)
(* enabled: it reads the clock and the deadlines, then writes the compare. *)

next_deadline == Earlier(task_next_deadline, timer_next_deadline)

\* (The locals of a loop are reset when they are dead.)
PlanRead ==
    /\ At("scan") /\ t > NTasks
    /\ plan_now' = mtime
    /\ plan_next' = next_deadline
    /\ pc' = "plan"
    /\ t' = 1 /\ now' = 0
    /\ UNCHANGED <<taskVars, swVars, task_next_deadline>>

PlanWrite ==
    /\ At("plan")
    /\ mtimecmp' = next_event_plan(plan_now, plan_next, plan_next)
    /\ mtie' = TRUE
    /\ pc' = "idle"
    /\ plan_now' = 0 /\ plan_next' = 0
    /\ UNCHANGED <<taskVars, t, now, timers, timer_next_deadline,
                   task_next_deadline, mtime, mie, irq, wanted>>

\* tlk_task_idle(): sleep unless an interrupt or a job is already there.
is_tlk_work == work_q_count > 0
may_sleep == mtime < mtimecmp /\ ~is_tlk_work

IdleCheck ==
    /\ At("idle")
    /\ pc' = IF may_sleep THEN "sleep" ELSE "top"
    /\ UNCHANGED <<taskVars, t, now, plan_now, plan_next, swVars, task_next_deadline>>

\* The wfi instruction falls through when an interrupt is pending.
Wfi ==
    /\ At("sleep")
    /\ pc' = IF SW!IrqPending \/ msip THEN "top" ELSE "wfi"
    /\ UNCHANGED <<taskVars, t, now, plan_now, plan_next, swVars, task_next_deadline>>

Main ==
    \/ LoopTop \/ ScanInactive \/ ScanActive \/ Fold
    \/ TaskReturns \/ RunJob \/ FoundEmpty \/ Park
    \/ PlanRead \/ PlanWrite \/ IdleCheck \/ Wfi

TaskBody ==
    \/ TaskDelay \/ TaskPause \/ TaskYield \/ TaskResume
    \/ TaskSubmits \/ TaskUsesTimers

Next == Tick \/ MtimerIrq \/ TimerCallback \/ SwIrq \/ IsrSubmit \/ TaskBody \/ Main

Spec == Init /\ [][Next]_vars

(***************************************************************************)
(* The processor runs: the main context and a pending handler go on, and   *)
(* task functions return.  The clock does not stop.  Submissions are free. *)
(***************************************************************************)
FairSpec == Spec /\ WF_vars(Main) /\ WF_vars(MtimerIrq) /\ WF_vars(Tick)

-----------------------------------------------------------------------------
TypeOK ==
    /\ SW!TypeOK
    /\ tasks \in [Tasks -> [wake : Time, active : BOOLEAN]]
    /\ work_q_count \in 0 .. SIZE
    /\ msip \in BOOLEAN
    /\ pc \in {"top", "scan", "call", "park", "fold", "plan",
               "idle", "sleep", "wfi"}
    /\ t \in 1 .. NTasks + 1
    /\ now \in 0 .. Horizon + Settle /\ plan_now \in 0 .. Horizon + Settle
    /\ plan_next \in Time

\* mtimecmp will interrupt at most one tick after d, or after the present.
WakesBy(d) == mtimecmp <= d + 1 \/ mtimecmp <= mtime + 1

(***************************************************************************)
(* The processor never sleeps past a deadline: when it has executed wfi,   *)
(* the compare register covers every active software timer and every       *)
(* active task other than the queue task, although the plan was computed   *)
(* with interrupts enabled and a handler may have replanned in between.    *)
(***************************************************************************)
SleepCovered ==
    pc = "wfi" =>
        /\ \A tm \in SW!Timers : timers[tm].active => WakesBy(timers[tm].expire)
        /\ \A u \in Tasks \ {WorkTask} : tasks[u].active => WakesBy(tasks[u].wake)

(***************************************************************************)
(* A task that is due is called (or rescheduled or paused by a task),      *)
(* whatever the scheduler slept for: one that becomes due before the end   *)
(* of the clock's range is called before or at that end.                   *)
(***************************************************************************)
Due(u, w) == tasks[u].active /\ tasks[u].wake = w /\ w < mtime

DueTasksCalled ==
    \A u \in Tasks \ {WorkTask}, w \in 0 .. Horizon :
        (Due(u, w) /\ mtime < Horizon + Settle)
            ~> (~Due(u, w) \/ (pc = "call" /\ t = u))

(***************************************************************************)
(* The queue task is not run again before a job is submitted: "No more     *)
(* jobs: park forever" (task_planner.c).                                   *)
(***************************************************************************)
ParkedUntilSubmit ==
    [][(t = WorkTask /\ pc = "scan" /\ pc' = "call") =>
          (work_q_count > 0 \/ tasks[t].wake # UINT64_MAX)]_vars

(***************************************************************************)
(* A submission wakes the scheduler: the processor is never asleep with a  *)
(* job waiting, unless an interrupt is pending or due at the next tick     *)
(* ("Wake the work queue task immediately", task_planner.c).               *)
(***************************************************************************)
NoSleepOnWork ==
    pc = "wfi" => (work_q_count = 0 \/ msip \/ mtimecmp <= mtime + 1)
=============================================================================
