-------------------------- MODULE TaskPlannerProofs --------------------------
(***************************************************************************)
(* Proofs about TaskPlanner for every number of tasks and timers, every    *)
(* delay and period: the processor never sleeps past a deadline, provided  *)
(* no task yields to or resumes one that the loop has already passed.      *)
(* The software timers enter through the lemmas of SwTimersProofs.         *)
(***************************************************************************)
EXTENDS TaskPlanner, TLAPS

TM == INSTANCE SwTimersProofs

(***************************************************************************)
(* A task yields to or resumes only itself and tasks behind it in linker   *)
(* order: their deadlines are folded in later in the same pass.            *)
(***************************************************************************)
ForwardWakes == \A i, j \in Tasks : <<i, j>> \in Wakes => i <= j

-----------------------------------------------------------------------------
(* The inductive invariant.  SleepCovered speaks of wfi only; the deadline *)
(* it needs is collected task by task over the pass, read into plan_next,  *)
(* and written to mtimecmp, with handlers running at every point.          *)

Others == Tasks \ {WorkTask}

\* The deadline covers the tasks before n.
Folded(n) == \A u \in Others : u < n /\ tasks[u].active => task_next_deadline <= tasks[u].wake

\* The plan read from the deadlines is not later than any of them, although
\* handlers may have run since.
PlanFresh ==
    /\ plan_now <= mtime
    /\ plan_next <= task_next_deadline
    /\ \A tm \in 1 .. NTimers : timers[tm].active => plan_next <= timers[tm].expire

Planned == \A u \in Others : tasks[u].active => WakesBy(tasks[u].wake)

MainTypes ==
    /\ tasks \in [Tasks -> [wake : Time, active : BOOLEAN]]
    /\ t \in 1 .. NTasks + 1
    /\ plan_now \in 0 .. Horizon + Settle /\ plan_next \in Time
    /\ pc \in {"top", "scan", "call", "park", "fold", "plan", "idle", "sleep", "wfi"}

TimersInv == TM!CoverInv /\ TM!HonourInv /\ TM!NearInv

PlannerInv ==
    /\ MainTypes
    /\ TimersInv
    /\ pc \in {"call", "park", "fold"} => t \in Tasks
    /\ pc = "park" => t = WorkTask
    /\ pc \in {"scan", "call", "park", "fold"} => Folded(t)
    /\ pc \in {"plan", "idle", "sleep", "wfi"} => Folded(NTasks + 1)
    /\ pc = "plan" => PlanFresh
    /\ pc \in {"idle", "sleep", "wfi"} => Planned
    /\ pc = "wfi" => irq = <<>>

-----------------------------------------------------------------------------
(* The software timers inside the scheduler. *)

\* TaskPlanner states what SwTimers assumes.
LEMMA TimersAssumed ==
    /\ SignBit \in Nat \ {0} /\ NTimers \in Nat /\ Horizon \in Nat /\ Settle \in Nat
    /\ Periods \subseteq {p \in Nat \ {0} : Horizon + Settle + p + 1 < SignBit}
    /\ TaskDeadlines \subseteq TM!Time
    /\ Nest \in BOOLEAN /\ (Nest \/ CbStarts = {})
    /\ CbStarts \subseteq TM!Timers \X TM!Timers
BY SignBitAssumption, ClockAssumption, SwTimersAssumption
   DEF TM!Time, TM!UINT64_MAX, TM!Modulus, TM!Timers, Time, UINT64_MAX, Modulus

LEMMA SameTimes ==
    /\ TM!Time = Time /\ TM!Timers = 1 .. NTimers /\ SW!Timers = 1 .. NTimers
    /\ \A a, b : TM!Earlier(a, b) = Earlier(a, b)
    /\ \A n, a, b : TM!next_event_plan(n, a, b) = next_event_plan(n, a, b)
BY DEF TM!Time, TM!UINT64_MAX, TM!Modulus, TM!Timers, SW!Timers, Time, UINT64_MAX, Modulus,
       TM!Earlier, Earlier, TM!next_event_plan, next_event_plan, TM!Wrap, Wrap, TM!Reached, Reached

\* The steps the scheduler borrows are steps of the proved module.
LEMMA SameIrq == SW!Irq => TM!Irq
BY DEF SW!Irq, TM!Irq, SW!IrqEnter, TM!IrqEnter, SW!IrqSkipInactive, TM!IrqSkipInactive,
       SW!IrqNotYet, TM!IrqNotYet, SW!IrqFire, TM!IrqFire, SW!CbReturn, TM!CbReturn,
       SW!IrqExit, TM!IrqExit, SW!IrqPending, TM!IrqPending, SW!Scanning, TM!Scanning,
       SW!InCallback, TM!InCallback, SW!Depth, TM!Depth, SW!Top, TM!Top, SW!SetTop, TM!SetTop,
       SW!lower_deadline, TM!lower_deadline, SW!rearmed, TM!rearmed, SW!PERIODIC, TM!PERIODIC,
       SW!plan, TM!plan, SW!next_event_plan, TM!next_event_plan, SW!Earlier, TM!Earlier,
       SW!Wrap, TM!Wrap, SW!Reached, TM!Reached, SW!Modulus, TM!Modulus,
       SW!UINT64_MAX, TM!UINT64_MAX

LEMMA SameCalls ==
    /\ SW!CbCall => TM!CbCall
    /\ SW!TaskStartStop => TM!TaskStartStop
BY DEF SW!CbCall, TM!CbCall, SW!TaskStartStop, TM!TaskStartStop,
       SW!tlk_task_sw_timer_start, TM!tlk_task_sw_timer_start,
       SW!tlk_task_sw_timer_stop, TM!tlk_task_sw_timer_stop, SW!Timers, TM!Timers,
       SW!InCallback, TM!InCallback, SW!Depth, TM!Depth, SW!Top, TM!Top,
       SW!lower_deadline, TM!lower_deadline, SW!plan, TM!plan,
       SW!next_event_plan, TM!next_event_plan, SW!Earlier, TM!Earlier,
       SW!Wrap, TM!Wrap, SW!Reached, TM!Reached, SW!Modulus, TM!Modulus

LEMMA SameTick == SW!Tick => TM!Tick
BY DEF SW!Tick, TM!Tick, SW!IrqPending, TM!IrqPending, SW!timerVars, TM!timerVars

LEMMA SameInit == SW!Init => TM!Init
BY DEF SW!Init, TM!Init, SW!Timers, TM!Timers, SW!ONE_SHOT, TM!ONE_SHOT, SW!PERIODIC, TM!PERIODIC,
       SW!UINT64_MAX, TM!UINT64_MAX, SW!Modulus, TM!Modulus

LEMMA InitTimers == SW!Init => TimersInv
<1> SUFFICES ASSUME TM!Init PROVE TimersInv
  BY SameInit
<1>1. TM!CoverInv
  BY TimersAssumed, TM!InitCover
<1>2. TM!HonourInv
  BY TimersAssumed, TM!InitHonours
<1>3. TM!NearInv
  <2>1. Len(irq) = 0 /\ \A tm \in TM!Timers : ~timers[tm].active
    BY DEF TM!Init
  <2>2. Len(irq) # 1
    BY <2>1
  <2> QED BY <2>1, <2>2 DEF TM!NearInv
<1> QED BY <1>1, <1>2, <1>3 DEF TimersInv

LEMMA TimerStep ==
    ASSUME CbStarts = {}, TimersInv,
           SW!Tick \/ SW!Irq \/ SW!CbCall \/ SW!TaskStartStop
    PROVE  TimersInv'
<1>1. TM!Next
  BY SameTick, SameIrq, SameCalls DEF TM!Next
<1>2. TM!CoverInv /\ TM!HonourInv /\ TM!NearInv
  BY DEF TimersInv
<1>3. TM!CoverInv'
  BY <1>1, <1>2, TimersAssumed, TM!NextCovers
<1>4. TM!HonourInv'
  BY <1>1, <1>2, TimersAssumed, TM!NextHonours
<1>5. TM!NearInv'
  BY <1>1, <1>2, TimersAssumed, TM!NextNear
<1> QED BY <1>3, <1>4, <1>5 DEF TimersInv

\* A handler puts expiries off or stops timers, and touches no deadline of a task.
LEMMA IrqPutsOff ==
    ASSUME CbStarts = {}, TimersInv, SW!Irq \/ SW!CbCall
    PROVE  /\ \A tm \in 1 .. NTimers : timers'[tm].active =>
                 timers[tm].active /\ timers[tm].expire <= timers'[tm].expire
           /\ UNCHANGED <<task_next_deadline, mtime>>
<1>1. TM!Irq \/ TM!CbCall
  BY SameIrq, SameCalls
<1>2. TM!CoverInv /\ TM!HonourInv /\ TM!NearInv
  BY DEF TimersInv
<1>3. ASSUME NEW tm \in TM!Timers, timers'[tm].active
      PROVE  timers[tm].active /\ timers[tm].expire <= timers'[tm].expire
  BY <1>1, <1>2, <1>3, TimersAssumed, TM!ExpiryPutOff
<1>4. UNCHANGED <<task_next_deadline, mtime>>
  BY <1>1 DEF TM!Irq, TM!CbCall, TM!IrqEnter, TM!IrqSkipInactive, TM!IrqNotYet, TM!IrqFire,
     TM!CbReturn, TM!IrqExit
<1> QED BY <1>3, <1>4, SameTimes

\* The timers do not depend on the deadline the loop collects.
LEMMA TimersAside ==
    ASSUME TimersInv, task_next_deadline' \in Time, UNCHANGED swVars
    PROVE  TimersInv'
<1>1. UNCHANGED <<timers, timer_next_deadline, mtimecmp, mie, mtie, irq, wanted, mtime>>
  BY DEF swVars
<1>2. TM!TypeOK'
  BY <1>1, SameTimes DEF TimersInv, TM!CoverInv, TM!TypeOK
<1>3. TM!FramesOK' /\ TM!Scheduled' /\ TM!Covered'
  BY <1>1 DEF TimersInv, TM!CoverInv, TM!FramesOK, TM!Scheduled, TM!Covered
<1>4. TM!HonourInv'
  BY <1>1 DEF TimersInv, TM!HonourInv, TM!BeingServed
<1>5. TM!NearInv'
  BY <1>1 DEF TimersInv, TM!NearInv, TM!Near
<1> QED BY <1>1, <1>2, <1>3, <1>4, <1>5 DEF TimersInv, TM!CoverInv

-----------------------------------------------------------------------------
(* Deadlines. *)

LEMMA ClockTypes ==
    ASSUME TimersInv
    PROVE  /\ mtime \in 0 .. Horizon + Settle /\ mtime \in Nat
           /\ task_next_deadline \in Time /\ timer_next_deadline \in Time /\ mtimecmp \in Time
           /\ Time \subseteq Nat /\ UINT64_MAX \in Time /\ Horizon + Settle \in Nat
           /\ \A tm \in 1 .. NTimers : timers[tm].expire \in Time
<1>1. TM!TypeOK
  BY DEF TimersInv, TM!CoverInv
<1>2. mtime \in 0 .. Horizon + Settle /\ task_next_deadline \in Time
      /\ timer_next_deadline \in Time /\ mtimecmp \in Time
  BY <1>1, SameTimes DEF TM!TypeOK
<1>3. \A tm \in 1 .. NTimers : timers[tm].expire \in Time
  BY <1>1, SameTimes DEF TM!TypeOK, TM!TimerRec
<1>4. Time \subseteq Nat /\ UINT64_MAX \in Time /\ Horizon + Settle \in Nat
  BY SignBitAssumption, ClockAssumption DEF Time, UINT64_MAX, Modulus
<1> QED BY <1>2, <1>3, <1>4

\* What the plan writes: not later than one tick after each deadline at or
\* after the one it was given, or after the clock it was given.
LEMMA PlanBy ==
    ASSUME NEW n \in 0 .. Horizon + Settle, NEW td \in Time, NEW tn \in Time,
           NEW m \in Nat, n <= m
    PROVE  /\ next_event_plan(n, td, tn) \in Time
           /\ \A d \in Time : td <= d \/ tn <= d =>
                 next_event_plan(n, td, tn) <= d + 1 \/ next_event_plan(n, td, tn) <= m + 1
<1>1. n \in Nat /\ n < SignBit
  BY ClockAssumption, SignBitAssumption
<1>2. td \in TM!Time /\ tn \in TM!Time
  BY SameTimes
<1>3. next_event_plan(n, td, tn) \in Time
  BY <1>1, <1>2, TimersAssumed, SameTimes, TM!PlanTime
<1>4. /\ next_event_plan(n, td, tn) <= tn + 1 \/ next_event_plan(n, td, tn) <= n + 1
      /\ next_event_plan(n, td, tn) <= td + 1 \/ next_event_plan(n, td, tn) <= n + 1
  BY <1>1, <1>2, TimersAssumed, SameTimes, TM!PlanCovers
<1>5. PICK c \in Time : c = next_event_plan(n, td, tn)
  BY <1>3
<1>6. (c <= tn + 1 \/ c <= n + 1) /\ (c <= td + 1 \/ c <= n + 1)
  BY <1>4, <1>5
<1>7. Time \subseteq Nat
  BY SignBitAssumption DEF Time, UINT64_MAX, Modulus
<1>8. ASSUME NEW d \in Time, td <= d \/ tn <= d
      PROVE  c <= d + 1 \/ c <= m + 1
  <2>1. c \in Nat /\ d \in Nat /\ td \in Nat /\ tn \in Nat
    BY <1>7
  <2> QED BY ONLY <1>1, <1>6, <1>8, <2>1, n <= m, m \in Nat
<1> QED BY <1>5, <1>8

\* The earlier of two deadlines is a deadline and not later than either.
LEMMA EarlierBy ==
    ASSUME NEW a \in Time, NEW b \in Time
    PROVE  Earlier(a, b) \in Time /\ Earlier(a, b) <= a /\ Earlier(a, b) <= b
BY SignBitAssumption DEF Earlier, Time, UINT64_MAX, Modulus

\* With the clock going on and the compare register left alone, or planned
\* anew from deadlines that cover all tasks, every task stays covered.
LEMMA PlannedKept ==
    ASSUME MainTypes, TimersInv, Planned, Folded(NTasks + 1), mtime' \in Nat, mtime <= mtime',
           \A u \in Others : tasks'[u] = tasks[u],
           \/ mtimecmp' = mtimecmp
           \/ mtimecmp' = next_event_plan(mtime, task_next_deadline, timer_next_deadline)
    PROVE  Planned'
<1>1. /\ mtime \in 0 .. Horizon + Settle /\ mtime \in Nat
      /\ task_next_deadline \in Time /\ timer_next_deadline \in Time /\ mtimecmp \in Time
      /\ Time \subseteq Nat
  BY ClockTypes
<1> SUFFICES ASSUME NEW u \in Others, tasks[u].active
             PROVE  mtimecmp' <= tasks[u].wake + 1 \/ mtimecmp' <= mtime' + 1
  BY DEF Planned, WakesBy
<1>2. tasks[u].wake \in Time
  BY DEF MainTypes, Others
<1>3. CASE mtimecmp' = mtimecmp
  <2>1. mtimecmp <= tasks[u].wake + 1 \/ mtimecmp <= mtime + 1
    BY DEF Planned, WakesBy
  <2>2. mtimecmp \in Nat /\ tasks[u].wake \in Nat
    BY <1>1, <1>2
  <2>3. PICK c \in Nat, w \in Nat, n \in Nat, m \in Nat :
            c = mtimecmp /\ w = tasks[u].wake /\ n = mtime /\ m = mtime'
    BY <1>1, <2>2
  <2>4. n <= m /\ (c <= w + 1 \/ c <= n + 1)
    BY <2>1, <2>3
  <2>5. c <= w + 1 \/ c <= m + 1
    BY ONLY <2>4, c \in Nat, w \in Nat, n \in Nat, m \in Nat
  <2> QED BY <1>3, <2>3, <2>5
<1>4. CASE mtimecmp' = next_event_plan(mtime, task_next_deadline, timer_next_deadline)
  <2>1. u < NTasks + 1
    BY TasksAssumption DEF Others, Tasks
  <2>2. task_next_deadline <= tasks[u].wake
    BY <2>1 DEF Folded
  <2> QED BY <1>1, <1>2, <1>4, <2>2, PlanBy
<1> QED BY <1>3, <1>4

-----------------------------------------------------------------------------
(* The clock and the interrupts. *)

LEMMA TickKeeps == CbStarts = {} /\ PlannerInv /\ Tick => PlannerInv'
<1> SUFFICES ASSUME CbStarts = {}, PlannerInv, Tick PROVE PlannerInv'
  OBVIOUS
<1>1. /\ mtime' = mtime + 1
      /\ UNCHANGED <<taskVars, mainVars, timers, task_next_deadline, mtimecmp, irq>>
  BY DEF Tick, SW!Tick, SW!timerVars
<1>2. MainTypes /\ TimersInv /\ mtime \in Nat
  BY ClockTypes DEF PlannerInv
<1>3. mtime' \in Nat /\ mtime <= mtime'
  BY <1>1, <1>2
<1>4. TimersInv'
  BY <1>2, TimerStep DEF Tick
<1>5. MainTypes'
  BY <1>1, <1>2 DEF MainTypes, mainVars, taskVars
<1>6. \A n : Folded(n) => Folded(n)'
  BY <1>1 DEF Folded, taskVars
<1>7. pc = "plan" => PlanFresh'
  <2> SUFFICES ASSUME pc = "plan" PROVE plan_now' <= mtime'
    BY <1>1 DEF PlannerInv, PlanFresh, mainVars
  <2>1. plan_now <= mtime /\ plan_now \in 0 .. Horizon + Settle
    BY <1>2 DEF PlannerInv, PlanFresh, MainTypes
  <2>2. plan_now \in Nat
    BY <2>1, ClockAssumption
  <2> QED BY <1>1, <1>2, <2>1, <2>2 DEF mainVars
<1>8. pc \in {"idle", "sleep", "wfi"} => Planned'
  BY <1>1, <1>2, <1>3, PlannedKept DEF PlannerInv, taskVars
<1> QED BY <1>1, <1>4, <1>5, <1>6, <1>7, <1>8 DEF PlannerInv, mainVars

\* The handler of the software timers.  It ends a wfi; otherwise the main
\* context stays where it is, and its plan, if it was read, is still fresh.
LEMMA HandlerKeeps == CbStarts = {} /\ PlannerInv /\ (MtimerIrq \/ TimerCallback) => PlannerInv'
<1> SUFFICES ASSUME CbStarts = {}, PlannerInv, MtimerIrq \/ TimerCallback PROVE PlannerInv'
  OBVIOUS
<1>1. /\ UNCHANGED <<taskVars, t, now, plan_now, plan_next>>
      /\ SW!Irq \/ SW!CbCall
      /\ pc' = pc \/ (pc = "wfi" /\ pc' = "top")
      /\ pc' = "wfi" => irq' = irq
  BY DEF MtimerIrq, TimerCallback, end_wfi, mainVars, SW!CbCall
<1>2. MainTypes /\ TimersInv /\ mtime \in Nat
  BY ClockTypes DEF PlannerInv
<1>3. /\ UNCHANGED <<task_next_deadline, mtime>>
      /\ \A tm \in 1 .. NTimers : timers'[tm].active =>
            timers[tm].active /\ timers[tm].expire <= timers'[tm].expire
  BY <1>1, <1>2, IrqPutsOff
<1>4. TimersInv'
  BY <1>1, <1>2, TimerStep
<1>5. MainTypes'
  BY <1>1, <1>2 DEF MainTypes, taskVars
<1>6. \A n : Folded(n) => Folded(n)'
  BY <1>1, <1>3 DEF Folded, taskVars
<1>7. pc = "plan" => PlanFresh'
  <2> SUFFICES ASSUME pc = "plan", NEW tm \in 1 .. NTimers, timers'[tm].active
               PROVE  plan_next <= timers'[tm].expire
    BY <1>1, <1>3 DEF PlannerInv, PlanFresh
  <2>1. timers[tm].active /\ timers[tm].expire <= timers'[tm].expire
    BY <1>3
  <2>2. plan_next <= timers[tm].expire
    BY <2>1 DEF PlannerInv, PlanFresh
  <2>3. timers[tm].expire \in Nat /\ timers'[tm].expire \in Nat /\ plan_next \in Nat
    <3>1. timers[tm].expire \in Time /\ Time \subseteq Nat /\ plan_next \in Time
      BY <1>2, ClockTypes DEF MainTypes
    <3>2. timers'[tm].expire \in Time
      <4>1. TM!TypeOK'
        BY <1>4 DEF TimersInv, TM!CoverInv
      <4> QED BY <4>1, SameTimes DEF TM!TypeOK, TM!TimerRec
    <3> QED BY <3>1, <3>2
  <2> QED BY ONLY <2>1, <2>2, <2>3
<1>8. pc \in {"idle", "sleep", "wfi"} => Planned'
  <2>1. \/ mtimecmp' = mtimecmp
        \/ mtimecmp' = next_event_plan(mtime, task_next_deadline, timer_next_deadline)
    <3>1. CASE SW!Irq
      <4>1. TM!Irq
        BY <3>1, SameIrq
      <4>2. \/ mtimecmp' = mtimecmp
            \/ mtimecmp' = TM!next_event_plan(mtime, task_next_deadline, timer_next_deadline)
        BY <4>1 DEF TM!Irq, TM!IrqEnter, TM!IrqSkipInactive, TM!IrqNotYet, TM!IrqFire,
           TM!CbReturn, TM!IrqExit, TM!plan
      <4> QED BY <4>2, SameTimes
    <3>2. CASE SW!CbCall
      BY <3>2 DEF SW!CbCall, SW!tlk_task_sw_timer_stop
    <3> QED BY <1>1, <3>1, <3>2
  <2>2. mtime' \in Nat /\ mtime <= mtime'
    BY <1>2, <1>3
  <2>3. \A u \in Others : tasks'[u] = tasks[u]
    BY <1>1 DEF taskVars
  <2> QED BY <1>2, <2>1, <2>2, <2>3, PlannedKept DEF PlannerInv
<1> QED BY <1>1, <1>4, <1>5, <1>6, <1>7, <1>8 DEF PlannerInv

\* Handlers that submit work touch the queue task only.
LEMMA SubmitKeeps == PlannerInv /\ (IsrSubmit \/ SwIrq) => PlannerInv'
<1> SUFFICES ASSUME PlannerInv, IsrSubmit \/ SwIrq PROVE PlannerInv'
  OBVIOUS
<1>1. /\ UNCHANGED <<t, now, plan_now, plan_next, task_next_deadline>> /\ UNCHANGED swVars
      /\ pc' = pc \/ (pc = "wfi" /\ pc' = "top")
      /\ \/ tasks' = [tasks EXCEPT ![WorkTask].wake = mtime]
         \/ tasks' = tasks
  BY DEF IsrSubmit, SwIrq, end_wfi, tlk_task_work_submit
<1>2. MainTypes /\ TimersInv /\ mtime \in 0 .. Horizon + Settle /\ task_next_deadline \in Time
      /\ mtime \in Nat
  BY ClockTypes DEF PlannerInv
<1>3. mtime \in Time
  BY <1>2, ClockAssumption, SignBitAssumption DEF Time, UINT64_MAX, Modulus
<1>4. /\ tasks' \in [Tasks -> [wake : Time, active : BOOLEAN]]
      /\ \A u \in Others : tasks'[u] = tasks[u]
  BY <1>1, <1>2, <1>3 DEF MainTypes, Others
<1>5. TimersInv'
  BY <1>1, <1>2, TimersAside
<1>6. MainTypes'
  BY <1>1, <1>2, <1>4 DEF MainTypes
<1>7. \A n : Folded(n) => Folded(n)'
  BY <1>1, <1>4 DEF Folded
<1>8. pc = "plan" => PlanFresh'
  BY <1>1 DEF PlannerInv, PlanFresh, swVars
<1>9. pc \in {"idle", "sleep", "wfi"} => Planned'
  BY <1>1, <1>4 DEF PlannerInv, Planned, WakesBy, swVars
<1> QED BY <1>1, <1>5, <1>6, <1>7, <1>8, <1>9 DEF PlannerInv, swVars

-----------------------------------------------------------------------------
(* Task functions. *)

LEMMA BodyKeeps ==
    CbStarts = {} /\ ForwardWakes /\ PlannerInv /\ TaskBody => PlannerInv'
<1> SUFFICES ASSUME CbStarts = {}, ForwardWakes, PlannerInv, TaskBody PROVE PlannerInv'
  OBVIOUS
<1>1. pc = "call" /\ pc' = "call" /\ t \in Tasks
      /\ UNCHANGED <<t, plan_now, plan_next, task_next_deadline>>
  BY DEF TaskBody, TaskDelay, TaskPause, TaskYield, TaskResume, TaskSubmits, TaskUsesTimers,
     Running, At, mainVars, PlannerInv, SW!TaskStartStop
<1>2. MainTypes /\ TimersInv /\ mtime \in 0 .. Horizon + Settle /\ mtime \in Nat
      /\ task_next_deadline \in Time
  BY ClockTypes DEF PlannerInv
<1>3. mtime \in Time /\ \A d \in Delays : Wrap(mtime + d) \in Time
  <2>1. mtime \in Time
    BY <1>2, ClockAssumption, SignBitAssumption DEF Time, UINT64_MAX, Modulus
  <2>2. ASSUME NEW d \in Delays PROVE Wrap(mtime + d) \in Time
    <3>1. mtime + d \in Int
      BY <1>2, DelaysAssumption
    <3>2. TM!Wrap(mtime + d) \in TM!Time
      BY <3>1, TimersAssumed, TM!WrapTime
    <3> QED BY <3>2, SameTimes DEF TM!Wrap, Wrap, TM!Modulus, Modulus
  <2> QED BY <2>1, <2>2
<1>4. /\ tasks' \in [Tasks -> [wake : Time, active : BOOLEAN]]
      /\ \A u \in Others : u < t => tasks'[u] = tasks[u]
  <2>1. tasks \in [Tasks -> [wake : Time, active : BOOLEAN]] /\ t \in Nat
    BY <1>1, <1>2, TasksAssumption DEF MainTypes, Tasks
  <2>2. CASE TaskDelay
    <3>1. PICK w \in Time : tasks' = [tasks EXCEPT ![t].wake = w]
      BY <1>3, <2>2 DEF TaskDelay
    <3>2. \A u \in Others : u < t => u # t
      BY <2>1, TasksAssumption DEF Others, Tasks
    <3> QED BY <1>1, <2>1, <3>1, <3>2 DEF Others
  <2>3. CASE TaskPause
    <3>1. tasks' = [tasks EXCEPT ![t].active = FALSE]
      BY <2>3 DEF TaskPause
    <3>2. \A u \in Others : u < t => u # t
      BY <2>1, TasksAssumption DEF Others, Tasks
    <3> QED BY <1>1, <2>1, <3>1, <3>2 DEF Others
  <2>4. CASE TaskYield \/ TaskResume
    <3>1. PICK v \in Tasks : <<t, v>> \in Wakes
              /\ \/ tasks' = [tasks EXCEPT ![v].wake = mtime]
                 \/ tasks' = [tasks EXCEPT ![v].active = TRUE]
      BY <2>4 DEF TaskYield, TaskResume
    <3>2. t <= v /\ v \in Nat
      BY <1>1, <3>1, TasksAssumption DEF ForwardWakes, Tasks
    <3>3. \A u \in Others : u < t => u # v
      BY <2>1, <3>2, TasksAssumption DEF Others, Tasks
    <3> QED BY <1>3, <2>1, <3>1, <3>3 DEF Others
  <2>5. CASE TaskSubmits
    <3>1. tasks' = [tasks EXCEPT ![WorkTask].wake = mtime]
      BY <2>5 DEF TaskSubmits, tlk_task_work_submit
    <3> QED BY <1>3, <2>1, <3>1 DEF Others
  <2>6. CASE TaskUsesTimers
    BY <2>1, <2>6 DEF TaskUsesTimers, taskVars
  <2> QED BY <2>2, <2>3, <2>4, <2>5, <2>6 DEF TaskBody
<1>5. TimersInv'
  <2>1. CASE TaskUsesTimers
    BY <1>2, <2>1, TimerStep DEF TaskUsesTimers
  <2>2. CASE UNCHANGED swVars
    BY <1>1, <1>2, <2>2, TimersAside
  <2> QED BY <2>1, <2>2 DEF TaskBody, TaskDelay, TaskPause, TaskYield, TaskResume, TaskSubmits
<1>6. MainTypes'
  BY <1>1, <1>2, <1>4 DEF MainTypes
<1>7. Folded(t)'
  <2>1. Folded(t)
    BY <1>1 DEF PlannerInv
  <2> QED BY <1>1, <1>4, <2>1 DEF Folded
<1> QED BY <1>1, <1>5, <1>6, <1>7 DEF PlannerInv

-----------------------------------------------------------------------------
(* The loop. *)

LEMMA ScanKeeps ==
    PlannerInv /\ (LoopTop \/ ScanInactive \/ ScanActive \/ Fold) => PlannerInv'
<1> SUFFICES ASSUME PlannerInv, LoopTop \/ ScanInactive \/ ScanActive \/ Fold PROVE PlannerInv'
  OBVIOUS
<1>1. MainTypes /\ TimersInv /\ task_next_deadline \in Time /\ UINT64_MAX \in Time
      /\ Time \subseteq Nat /\ t \in Nat
  BY ClockTypes DEF PlannerInv, MainTypes
<1>2. UNCHANGED <<taskVars, plan_now, plan_next>> /\ UNCHANGED swVars
  BY DEF LoopTop, ScanInactive, ScanActive, Fold
<1>3. NTasks \in Nat /\ \A u \in Others : u \in Nat /\ u >= 1
  BY TasksAssumption DEF Others, Tasks
<1>4. CASE LoopTop
  <2>1. pc' = "scan" /\ t' = 1 /\ task_next_deadline' = UINT64_MAX
    BY <1>4 DEF LoopTop
  <2>2. TimersInv'
    BY <1>1, <1>2, <2>1, TimersAside
  <2>3. MainTypes'
    BY <1>1, <1>2, <1>3, <2>1 DEF MainTypes, taskVars
  <2>4. Folded(t)'
    BY <1>3, <2>1 DEF Folded
  <2> QED BY <2>1, <2>2, <2>3, <2>4 DEF PlannerInv
<1>5. CASE ScanInactive
  <2>1. pc = "scan" /\ pc' = "scan" /\ t <= NTasks /\ t' = t + 1 /\ ~tasks[t].active
        /\ task_next_deadline' = task_next_deadline
    BY <1>5 DEF ScanInactive, At
  <2>2. TimersInv'
    BY <1>1, <1>2, <2>1, TimersAside
  <2>3. MainTypes'
    BY <1>1, <1>2, <1>3, <2>1 DEF MainTypes, taskVars
  <2>4. Folded(t)'
    <3> SUFFICES ASSUME NEW u \in Others, u < t + 1, tasks[u].active
                 PROVE  task_next_deadline <= tasks[u].wake
      BY <1>2, <2>1 DEF Folded, taskVars
    <3>1. u # t
      BY <2>1
    <3>2. u < t
      BY <1>1, <1>3, <3>1
    <3> QED BY <2>1, <3>2 DEF PlannerInv, Folded
  <2> QED BY <2>1, <2>2, <2>3, <2>4 DEF PlannerInv
<1>6. CASE ScanActive
  <2>1. pc = "scan" /\ pc' \in {"call", "fold"} /\ t <= NTasks /\ t' = t
        /\ task_next_deadline' = task_next_deadline
    BY <1>6 DEF ScanActive, At
  <2>2. TimersInv'
    BY <1>1, <1>2, <2>1, TimersAside
  <2>3. MainTypes' /\ t' \in Tasks
    BY <1>1, <1>2, <1>3, <2>1 DEF MainTypes, taskVars, Tasks
  <2>4. Folded(t)'
    BY <1>2, <2>1 DEF PlannerInv, Folded, taskVars
  <2> QED BY <2>1, <2>2, <2>3, <2>4 DEF PlannerInv
<1>7. CASE Fold
  <2>1. pc = "fold" /\ pc' = "scan" /\ t \in Tasks /\ t' = t + 1
        /\ task_next_deadline' = Earlier(tasks[t].wake, task_next_deadline)
    BY <1>7 DEF Fold, At, fold_deadline, PlannerInv
  <2>2. tasks[t].wake \in Time
    BY <1>1, <2>1 DEF MainTypes
  <2>3. /\ task_next_deadline' \in Time /\ task_next_deadline' <= tasks[t].wake
        /\ task_next_deadline' <= task_next_deadline
    BY <1>1, <2>1, <2>2, EarlierBy
  <2>4. TimersInv'
    BY <1>1, <1>2, <2>3, TimersAside
  <2>5. MainTypes'
    BY <1>1, <1>2, <1>3, <2>1 DEF MainTypes, taskVars, Tasks
  <2>6. Folded(t)'
    <3> SUFFICES ASSUME NEW u \in Others, u < t + 1, tasks[u].active
                 PROVE  task_next_deadline' <= tasks[u].wake
      BY <1>2, <2>1 DEF Folded, taskVars
    <3>1. CASE u = t
      BY <2>3, <3>1
    <3>2. CASE u # t
      <4>1. u < t
        BY <1>1, <1>3, <3>2
      <4>2. task_next_deadline <= tasks[u].wake
        BY <2>1, <4>1 DEF PlannerInv, Folded
      <4>3. tasks[u].wake \in Time
        BY <1>1 DEF MainTypes, Others
      <4>4. PICK d \in Nat, e \in Nat, w \in Nat :
                d = task_next_deadline' /\ e = task_next_deadline /\ w = tasks[u].wake
        BY <1>1, <2>3, <4>3
      <4>5. d <= e /\ e <= w
        BY <2>3, <4>2, <4>4
      <4> QED BY <4>4, <4>5
    <3> QED BY <3>1, <3>2
  <2> QED BY <2>1, <2>4, <2>5, <2>6 DEF PlannerInv
<1> QED BY <1>4, <1>5, <1>6, <1>7

\* The queue task: only its own wake time changes.
LEMMA CallKeeps ==
    PlannerInv /\ (TaskReturns \/ RunJob \/ FoundEmpty \/ Park) => PlannerInv'
<1> SUFFICES ASSUME PlannerInv, TaskReturns \/ RunJob \/ FoundEmpty \/ Park PROVE PlannerInv'
  OBVIOUS
<1>1. MainTypes /\ TimersInv /\ task_next_deadline \in Time /\ UINT64_MAX \in Time
  BY ClockTypes DEF PlannerInv
<1>2. /\ UNCHANGED <<t, plan_now, plan_next, task_next_deadline>> /\ UNCHANGED swVars
      /\ pc \in {"call", "park"} /\ pc' \in {"call", "park", "fold"}
      /\ pc' = "park" => t = WorkTask
      /\ tasks' = tasks \/ (tasks' = [tasks EXCEPT ![t].wake = UINT64_MAX] /\ t = WorkTask)
  BY DEF TaskReturns, RunJob, FoundEmpty, Park, Running, At, mainVars, taskVars, PlannerInv
<1>3. /\ tasks' \in [Tasks -> [wake : Time, active : BOOLEAN]]
      /\ \A u \in Others : tasks'[u] = tasks[u]
  BY <1>1, <1>2 DEF MainTypes, Others
<1>4. TimersInv'
  BY <1>1, <1>2, TimersAside
<1>5. MainTypes'
  BY <1>1, <1>2, <1>3 DEF MainTypes
<1>6. Folded(t)' /\ t' \in Tasks
  BY <1>2, <1>3 DEF PlannerInv, Folded
<1> QED BY <1>2, <1>4, <1>5, <1>6 DEF PlannerInv

\* The plan is read: it is the earliest of all deadlines.
LEMMA PlanReadKeeps == PlannerInv /\ PlanRead => PlannerInv'
<1> SUFFICES ASSUME PlannerInv, PlanRead PROVE PlannerInv'
  OBVIOUS
<1>1. /\ MainTypes /\ TimersInv /\ task_next_deadline \in Time /\ timer_next_deadline \in Time
      /\ mtime \in 0 .. Horizon + Settle /\ mtime \in Nat /\ Time \subseteq Nat
      /\ \A tm \in 1 .. NTimers : timers[tm].expire \in Time
  BY ClockTypes DEF PlannerInv
<1>2. /\ pc = "scan" /\ irq = <<>> /\ t > NTasks /\ pc' = "plan" /\ t' = 1
      /\ plan_now' = mtime /\ plan_next' = Earlier(task_next_deadline, timer_next_deadline)
      /\ UNCHANGED <<taskVars, task_next_deadline>> /\ UNCHANGED swVars
  BY DEF PlanRead, At, next_deadline
<1>3. /\ plan_next' \in Time /\ plan_next' <= task_next_deadline
      /\ plan_next' <= timer_next_deadline
  BY <1>1, <1>2, EarlierBy
<1>4. TimersInv'
  BY <1>1, <1>2, TimersAside
<1>5. MainTypes'
  BY <1>1, <1>2, <1>3, TasksAssumption DEF MainTypes, taskVars
<1>6. t = NTasks + 1
  BY <1>1, <1>2, TasksAssumption DEF MainTypes
<1>7. Folded(NTasks + 1)'
  BY <1>2, <1>6 DEF PlannerInv, Folded, taskVars
<1>8. PlanFresh'
  <2>1. ASSUME NEW tm \in 1 .. NTimers, timers[tm].active
        PROVE  plan_next' <= timers[tm].expire
    <3>1. timer_next_deadline <= timers[tm].expire
      <4>1. TM!Scheduled /\ tm \in TM!Timers
        BY <1>1, SameTimes DEF TimersInv, TM!CoverInv
      <4>2. ~\E k \in 1 .. Len(irq) : irq[k].i <= tm
        BY <1>2
      <4> QED BY <2>1, <4>1, <4>2 DEF TM!Scheduled
    <3>2. PICK d \in Nat, e \in Nat, w \in Nat :
              d = plan_next' /\ e = timer_next_deadline /\ w = timers[tm].expire
      BY <1>1, <1>3
    <3>3. d <= e /\ e <= w
      BY <1>3, <3>1, <3>2
    <3> QED BY <3>2, <3>3
  <2>2. mtime <= mtime
    BY <1>1
  <2> QED BY <1>2, <1>3, <2>1, <2>2 DEF PlanFresh, swVars
<1> QED BY <1>2, <1>4, <1>5, <1>7, <1>8 DEF PlannerInv

\* The plan is written: whatever handlers planned since, it covers everything.
LEMMA PlanWriteKeeps == PlannerInv /\ PlanWrite => PlannerInv'
<1> SUFFICES ASSUME PlannerInv, PlanWrite PROVE PlannerInv'
  OBVIOUS
<1>1. /\ MainTypes /\ TimersInv /\ task_next_deadline \in Time
      /\ mtime \in 0 .. Horizon + Settle /\ mtime \in Nat /\ Time \subseteq Nat
      /\ \A tm \in 1 .. NTimers : timers[tm].expire \in Time
      /\ plan_now \in 0 .. Horizon + Settle /\ plan_next \in Time
  BY ClockTypes DEF PlannerInv, MainTypes
<1>2. /\ pc = "plan" /\ irq = <<>> /\ pc' = "idle"
      /\ mtimecmp' = next_event_plan(plan_now, plan_next, plan_next) /\ mtie' = TRUE
      /\ plan_now' = 0 /\ plan_next' = 0
      /\ UNCHANGED <<taskVars, t, now, timers, timer_next_deadline, task_next_deadline,
                     mtime, mie, irq, wanted>>
  BY DEF PlanWrite, At
<1>3. PlanFresh /\ Folded(NTasks + 1)
  BY <1>2 DEF PlannerInv
<1>4. /\ mtimecmp' \in Time
      /\ \A d \in Time : plan_next <= d => mtimecmp' <= d + 1 \/ mtimecmp' <= mtime + 1
  BY <1>1, <1>2, <1>3, PlanBy DEF PlanFresh
<1>5. TimersInv'
  <2>1. TM!CoverInv /\ TM!HonourInv /\ TM!NearInv
    BY <1>1 DEF TimersInv
  <2>2. TM!TypeOK'
    BY <1>2, <1>4, <2>1, SameTimes DEF TM!CoverInv, TM!TypeOK
  <2>3. TM!FramesOK' /\ TM!Scheduled'
    BY <1>2, <2>1 DEF TM!CoverInv, TM!FramesOK, TM!Scheduled
  <2>4. TM!Covered'
    <3> SUFFICES ASSUME NEW tm \in TM!Timers, timers[tm].active
                 PROVE  mie /\ (mtimecmp' <= timers[tm].expire + 1 \/ mtimecmp' <= mtime + 1)
      BY <1>2 DEF TM!Covered
    <3>1. tm \in 1 .. NTimers /\ timers[tm].expire \in Time
      BY <1>1, SameTimes
    <3>2. plan_next <= timers[tm].expire
      BY <1>3, <3>1 DEF PlanFresh
    <3>3. mie
      BY <1>2, <2>1 DEF TM!CoverInv
    <3> QED BY <1>4, <3>1, <3>2, <3>3
  <2>5. TM!HonourInv'
    <3>1. Len(irq) = 0
      BY <1>2
    <3>2. Len(irq) # 1
      BY <3>1
    <3> QED BY <1>2, <2>1, <3>2 DEF TM!HonourInv, TM!BeingServed
  <2>6. TM!NearInv'
    BY <1>2, <2>1 DEF TM!NearInv, TM!Near
  <2> QED BY <1>2, <2>1, <2>2, <2>3, <2>4, <2>5, <2>6 DEF TimersInv, TM!CoverInv
<1>6. MainTypes'
  <2>1. 0 \in Time /\ 0 \in 0 .. Horizon + Settle
    BY ClockAssumption, SignBitAssumption DEF Time, UINT64_MAX, Modulus
  <2> QED BY <1>1, <1>2, <2>1 DEF MainTypes, taskVars
<1>7. Folded(NTasks + 1)'
  BY <1>2, <1>3 DEF Folded, taskVars
<1>8. Planned'
  <2> SUFFICES ASSUME NEW u \in Others, tasks[u].active
               PROVE  mtimecmp' <= tasks[u].wake + 1 \/ mtimecmp' <= mtime + 1
    BY <1>2 DEF Planned, WakesBy, taskVars
  <2>1. tasks[u].wake \in Time
    BY <1>1 DEF MainTypes, Others
  <2>2. u < NTasks + 1
    BY TasksAssumption DEF Others, Tasks
  <2>3. task_next_deadline <= tasks[u].wake
    BY <1>3, <2>2 DEF Folded
  <2>4. plan_next <= task_next_deadline
    BY <1>3 DEF PlanFresh
  <2>5. PICK d \in Nat, e \in Nat, w \in Nat :
            d = plan_next /\ e = task_next_deadline /\ w = tasks[u].wake
    BY <1>1, <2>1
  <2>6. d <= w
    BY <2>3, <2>4, <2>5
  <2> QED BY <1>4, <2>1, <2>5, <2>6
<1> QED BY <1>2, <1>5, <1>6, <1>7, <1>8 DEF PlannerInv

LEMMA IdleKeeps == PlannerInv /\ (IdleCheck \/ Wfi) => PlannerInv'
<1> SUFFICES ASSUME PlannerInv, IdleCheck \/ Wfi PROVE PlannerInv'
  OBVIOUS
<1>1. /\ pc \in {"idle", "sleep"} /\ irq = <<>> /\ pc' \in {"sleep", "wfi", "top"}
      /\ UNCHANGED <<taskVars, t, now, plan_now, plan_next, task_next_deadline>>
      /\ UNCHANGED swVars
  BY DEF IdleCheck, Wfi, At
<1>2. MainTypes /\ TimersInv /\ task_next_deadline \in Time
  BY ClockTypes DEF PlannerInv
<1>3. TimersInv' /\ MainTypes'
  <2>1. TimersInv'
    BY <1>1, <1>2, TimersAside
  <2> QED BY <1>1, <1>2, <2>1 DEF MainTypes, taskVars
<1>4. Folded(NTasks + 1)' /\ Planned'
  BY <1>1 DEF PlannerInv, Folded, Planned, WakesBy, taskVars, swVars
<1> QED BY <1>1, <1>3, <1>4 DEF PlannerInv, swVars

-----------------------------------------------------------------------------
(***************************************************************************)
(* When tasks wake only tasks the loop has still to come to, the processor *)
(* never sleeps past the deadline of a task or of a software timer: the    *)
(* compare register covers them all whenever it has executed wfi, although *)
(* tlk_task_planner_run collects the deadlines and plans with interrupts   *)
(* enabled.  The run whose second task yields to the first shows that the  *)
(* hypothesis on the tasks is needed.                                      *)
(***************************************************************************)
THEOREM NeverSleepsPast ==
    ASSUME CbStarts = {}, ForwardWakes
    PROVE  Spec => []SleepCovered
<1>1. Init => PlannerInv
  <2> SUFFICES ASSUME Init PROVE PlannerInv
    OBVIOUS
  <2>1. TimersInv
    BY InitTimers DEF Init
  <2>2. 0 \in Time /\ 0 \in 0 .. Horizon + Settle /\ 1 \in 1 .. NTasks + 1
    BY ClockAssumption, SignBitAssumption, TasksAssumption DEF Time, UINT64_MAX, Modulus
  <2>3. MainTypes
    <3>1. tasks \in [Tasks -> {spawned, registered}]
      BY DEF Init
    <3>2. {spawned, registered} \subseteq [wake : Time, active : BOOLEAN]
      BY <2>2 DEF spawned, registered
    <3>3. tasks \in [Tasks -> [wake : Time, active : BOOLEAN]]
      BY <3>1, <3>2
    <3> QED BY <2>2, <3>3 DEF Init, MainTypes
  <2> QED BY <2>1, <2>3 DEF Init, PlannerInv
<1>2. PlannerInv /\ [Next]_vars => PlannerInv'
  <2> SUFFICES ASSUME PlannerInv, [Next]_vars PROVE PlannerInv'
    OBVIOUS
  <2>1. CASE UNCHANGED vars
    <3>1. UNCHANGED <<tasks, pc, t, plan_now, plan_next, task_next_deadline, mtime, mtimecmp,
                      timers, irq>> /\ UNCHANGED swVars
      BY <2>1 DEF vars, taskVars, mainVars, swVars
    <3>2. TimersInv'
      BY <3>1, ClockTypes, TimersAside DEF PlannerInv
    <3>3. MainTypes'
      BY <3>1 DEF PlannerInv, MainTypes
    <3> QED BY <3>1, <3>2, <3>3 DEF PlannerInv, Folded, Planned, PlanFresh, WakesBy
  <2>2. CASE Next
    BY <2>2, TickKeeps, HandlerKeeps, SubmitKeeps, BodyKeeps, ScanKeeps, CallKeeps,
       PlanReadKeeps, PlanWriteKeeps, IdleKeeps DEF Next, Main
  <2> QED BY <2>1, <2>2
<1>3. PlannerInv => SleepCovered
  <2> SUFFICES ASSUME PlannerInv, pc = "wfi" PROVE SleepCovered
    BY DEF SleepCovered
  <2>1. TM!Covered /\ irq = <<>> /\ Planned
    BY DEF PlannerInv, TimersInv, TM!CoverInv
  <2>2. \A tm \in SW!Timers : timers[tm].active => WakesBy(timers[tm].expire)
    BY <2>1, SameTimes DEF TM!Covered, WakesBy
  <2> QED BY <2>1, <2>2 DEF SleepCovered, Planned, Others
<1> QED BY <1>1, <1>2, <1>3, PTL DEF Spec
=============================================================================
