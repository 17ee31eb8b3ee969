------------------------------ MODULE SwTimers ------------------------------
(***************************************************************************)
(* The software timers of system/task_planner/task_planner.c, driven by    *)
(* the machine-timer interrupt (core/common/src/tlk_mtimer.c).             *)
(*                                                                         *)
(* The interrupt handler is a sequence of steps, one per timer it visits   *)
(* and two per callback, so that the clock, and where the code lets it a   *)
(* second machine-timer interrupt, can come between them.  irq is the      *)
(* stack of handler activations; a task runs only when it is empty.        *)
(***************************************************************************)
EXTENDS MTime, Sequences

CONSTANTS
    NTimers,      \* the timers, in the order of the linker section
    Periods,      \* the periods tasks configure
    CbStarts,     \* <<i, j>>: the callback of timer i may start timer j
    Nest,         \* CONFIG_TLK_MTIMER_IRQ_USE_NEST
    TaskDeadlines, \* values of task_next_deadline the scheduler leaves
    Horizon,      \* bound: tasks use the timers while mtime < Horizon
    Settle        \* bound: ticks the clock goes on after that

Timers == 1 .. NTimers
ONE_SHOT == "SW_TIMER_MODE_ONE_SHOT"
PERIODIC == "SW_TIMER_MODE_PERIODIC"

ASSUME TimersAssumption == NTimers \in Nat
ASSUME HorizonAssumption == Horizon \in Nat /\ Settle \in Nat
ASSUME PeriodsAssumption ==
    \* every deadline lies within half the range of the clock from now
    Periods \subseteq {p \in Nat \ {0} : Horizon + Settle + p + 1 < SignBit}
ASSUME DeadlinesAssumption == TaskDeadlines \subseteq Time
ASSUME NestAssumption ==
    \* without nesting, a second trap inside the handler would overwrite
    \* mepc: callbacks that unmask interrupts need the nested configuration
    Nest \in BOOLEAN /\ (Nest \/ CbStarts = {})
ASSUME CbStartsAssumption == CbStarts \subseteq Timers \X Timers

VARIABLES
    timers,               \* expire, period, active and mode of each tSwTimer
    timer_next_deadline,
    task_next_deadline,   \* written by the scheduler loop only
    mtime, mtimecmp,      \* the machine timer and its compare register
    mie,                  \* mstatus.MIE: interrupts globally enabled
    mtie,                 \* mie.MTIE: machine-timer interrupt enabled
    irq,                  \* the active mtimer handlers, innermost last
    wanted                \* history: the timers started and not yet served

timerVars == <<timers, timer_next_deadline, mtimecmp, mie, mtie, irq, wanted>>
vars == <<timerVars, task_next_deadline, mtime>>

TimerRec == [expire : Time, period : Nat, active : BOOLEAN, mode : {ONE_SHOT, PERIODIC}]

Init ==
    /\ timers \in [Timers -> [expire : {0}, period : Periods, active : {FALSE},
                              mode : {ONE_SHOT, PERIODIC}]]
    /\ timer_next_deadline = UINT64_MAX
    /\ task_next_deadline \in TaskDeadlines
    /\ mtime = 0 /\ mtimecmp = UINT64_MAX
    /\ mie = TRUE /\ mtie = FALSE
    /\ irq = <<>>
    /\ wanted = {}

IrqPending == mie /\ mtie /\ mtime >= mtimecmp

(***************************************************************************)
(* The clock runs freely up to Horizon; after it only while the processor  *)
(* has no interrupt to take or finish, long enough for what is overdue to  *)
(* be served.                                                              *)
(***************************************************************************)
Tick ==
    /\ \/ mtime < Horizon
       \/ mtime < Horizon + Settle /\ irq = <<>> /\ ~IrqPending
    /\ mtime' = mtime + 1
    /\ UNCHANGED <<timerVars, task_next_deadline>>

\* tlk_task_planner_next_event_plan() for the deadline tn left in
\* timer_next_deadline, run with interrupts masked.
plan(tn) ==
    mtimecmp' = next_event_plan(mtime, task_next_deadline, tn)

-----------------------------------------------------------------------------
(* The timer API. *)

\* Planted fault: the last deadline seen replaces an earlier one.
Bug_lower_deadline(e) == e

\* The deadline after a start: it only ever moves closer.
lower_deadline(e) == Earlier(e, timer_next_deadline)

\* tlk_task_sw_timer_start(): one step, interrupts being disabled; it leaves
\* them enabled, and MTIE set, whatever they were.
tlk_task_sw_timer_start(tm) ==
    LET e == Wrap(mtime + timers[tm].period) IN
    /\ timers' = [timers EXCEPT ![tm].expire = e, ![tm].active = TRUE]
    /\ timer_next_deadline' = lower_deadline(e)
    /\ plan(timer_next_deadline')
    /\ mtie' = TRUE /\ mie' = TRUE
    /\ wanted' = wanted \cup {tm}

tlk_task_sw_timer_stop(tm) ==
    /\ timers' = [timers EXCEPT ![tm].active = FALSE]
    /\ wanted' = wanted \ {tm}
    /\ UNCHANGED <<timer_next_deadline, mtimecmp, mie, mtie>>

tlk_task_sw_timer_set_period(tm, p) ==
    /\ timers' = [timers EXCEPT ![tm].period = p]
    /\ UNCHANGED <<timer_next_deadline, mtimecmp, mie, mtie, wanted>>

tlk_task_sw_timer_set_mode(tm, m) ==
    /\ timers' = [timers EXCEPT ![tm].mode = m]
    /\ UNCHANGED <<timer_next_deadline, mtimecmp, mie, mtie, wanted>>

\* A task calls the API.
TaskStartStop ==
    /\ irq = <<>>
    /\ mtime < Horizon
    /\ \E tm \in Timers :
          \/ tlk_task_sw_timer_start(tm)
          \/ timers[tm].active /\ tlk_task_sw_timer_stop(tm)
    /\ UNCHANGED <<task_next_deadline, mtime, irq>>

TaskConfigures ==
    /\ irq = <<>>
    /\ mtime < Horizon
    /\ \E tm \in Timers :
          \/ \E p \in Periods : tlk_task_sw_timer_set_period(tm, p)
          \/ \E m \in {ONE_SHOT, PERIODIC} : tlk_task_sw_timer_set_mode(tm, m)
    /\ UNCHANGED <<task_next_deadline, mtime, irq>>

-----------------------------------------------------------------------------
(* tlk_mtimer_irq_handle() around tlk_task_planner_mtimer_irq(). *)

Depth == Len(irq)
Top == irq[Depth]
SetTop(f) == [irq EXCEPT ![Depth] = f]
\* The handler is between timers; it is inside the callback of timer Top.i.
Scanning == Depth > 0 /\ ~Top.cb
InCallback == Depth > 0 /\ Top.cb

\* The trap: hardware masks interrupts; the nested handler saves mie, masks
\* the timer interrupt and unmasks the rest.
IrqEnter ==
    /\ IrqPending
    /\ irq' = Append(irq, [now |-> mtime, i |-> 1, cb |-> FALSE, mtie |-> mtie])
    /\ mie' = Nest
    /\ mtie' = (mtie /\ ~Nest)
    /\ timer_next_deadline' = UINT64_MAX
    /\ UNCHANGED <<timers, mtimecmp, wanted, task_next_deadline, mtime>>

IrqSkipInactive ==
    /\ Scanning /\ Top.i <= NTimers /\ ~timers[Top.i].active
    /\ irq' = SetTop([Top EXCEPT !.i = @ + 1])
    /\ UNCHANGED <<timers, timer_next_deadline, mtimecmp, mie, mtie, wanted,
                   task_next_deadline, mtime>>

IrqNotYet ==
    /\ Scanning /\ Top.i <= NTimers /\ timers[Top.i].active
    /\ ~Reached(Top.now, timers[Top.i].expire)
    /\ timer_next_deadline' = lower_deadline(timers[Top.i].expire)
    /\ irq' = SetTop([Top EXCEPT !.i = @ + 1])
    /\ UNCHANGED <<timers, mtimecmp, mie, mtie, wanted, task_next_deadline, mtime>>

\* tm->cb(tm->arg) is called: for a one-shot timer this is what its start
\* asked for.
IrqFire ==
    /\ Scanning /\ Top.i <= NTimers /\ timers[Top.i].active
    /\ Reached(Top.now, timers[Top.i].expire)
    /\ irq' = SetTop([Top EXCEPT !.cb = TRUE])
    /\ wanted' = IF timers[Top.i].mode = PERIODIC THEN wanted ELSE wanted \ {Top.i}
    /\ UNCHANGED <<timers, timer_next_deadline, mtimecmp, mie, mtie,
                   task_next_deadline, mtime>>

\* What a callback does to the timers.
CbCall ==
    /\ InCallback
    /\ mtime < Horizon
    /\ \E tm \in Timers :
          \/ <<Top.i, tm>> \in CbStarts /\ tlk_task_sw_timer_start(tm)
          \/ timers[tm].active /\ tlk_task_sw_timer_stop(tm)
    /\ UNCHANGED <<task_next_deadline, mtime, irq>>

\* Planted faults: a one-shot timer stays active; a periodic timer is not
\* moved to its next expiry.
Bug_rearmed_active(r) ==
    IF r.mode = PERIODIC THEN [r EXCEPT !.expire = Wrap(@ + r.period)] ELSE r
Bug_rearmed_stuck(r) ==
    IF r.mode = PERIODIC THEN r ELSE [r EXCEPT !.active = FALSE]

\* A timer after its callback returned.
rearmed(r) ==
    IF r.mode = PERIODIC
    THEN [r EXCEPT !.expire = Wrap(@ + r.period)]
    ELSE [r EXCEPT !.active = FALSE]

CbReturn ==
    /\ InCallback
    /\ timers' = [timers EXCEPT ![Top.i] = rearmed(@)]
    /\ timer_next_deadline' = IF timers'[Top.i].active
                              THEN lower_deadline(timers'[Top.i].expire)
                              ELSE timer_next_deadline
    /\ irq' = SetTop([Top EXCEPT !.i = @ + 1, !.cb = FALSE])
    /\ UNCHANGED <<mtimecmp, mie, mtie, wanted, task_next_deadline, mtime>>

\* The plan and the return from the trap: mret unmasks interrupts again; the
\* nested handler puts mie back as it was on entry.
IrqExit ==
    /\ Scanning /\ Top.i > NTimers
    /\ plan(timer_next_deadline)
    /\ mtie' = (IF Nest THEN Top.mtie ELSE TRUE)
    /\ mie' = TRUE
    /\ irq' = SubSeq(irq, 1, Depth - 1)
    /\ UNCHANGED <<timers, timer_next_deadline, wanted, task_next_deadline, mtime>>

Irq == IrqEnter \/ IrqSkipInactive \/ IrqNotYet \/ IrqFire \/ CbReturn \/ IrqExit

Next == Tick \/ TaskStartStop \/ TaskConfigures \/ CbCall \/ Irq

Spec == Init /\ [][Next]_vars

(***************************************************************************)
(* A pending interrupt is taken and a handler is run to its end: nothing   *)
(* in it waits.  The clock does not stop.  Tasks and callbacks owe nothing.*)
(***************************************************************************)
FairSpec == Spec /\ WF_vars(Irq) /\ WF_vars(Tick)

-----------------------------------------------------------------------------
Frame == [now : 0 .. Horizon + Settle, i : 1 .. NTimers + 1, cb : BOOLEAN, mtie : BOOLEAN]

TypeOK ==
    /\ timers \in [Timers -> TimerRec]
    /\ timer_next_deadline \in Time /\ task_next_deadline \in Time
    /\ mtime \in 0 .. Horizon + Settle /\ mtimecmp \in Time
    /\ mie \in BOOLEAN /\ mtie \in BOOLEAN
    /\ irq \in Seq(Frame)
    /\ wanted \subseteq Timers

(***************************************************************************)
(* Whenever no handler is in progress, the compare register is programmed  *)
(* no later than one tick past the expiry of every active timer, or past   *)
(* the present when that is overdue, and the timer interrupt is enabled:   *)
(* no sequence of starts, stops, periods and callbacks leaves an active    *)
(* timer that nothing will serve.                                          *)
(***************************************************************************)
Covered ==
    irq = <<>> => \A tm \in Timers :
        timers[tm].active => /\ mtie /\ mie
                             /\ \/ mtimecmp <= timers[tm].expire + 1
                                \/ mtimecmp <= mtime + 1

(***************************************************************************)
(* A timer is active exactly when its last start has neither been served   *)
(* (one-shot) nor stopped: a start is never undone, and a stop is never    *)
(* overruled, by the interrupt handler that was running meanwhile.         *)
(***************************************************************************)
StartHonoured ==
    irq = <<>> => \A tm \in Timers : timers[tm].active <=> tm \in wanted

(***************************************************************************)
(* Every expiry that has passed is served: the callback is called and the  *)
(* timer rearmed or retired, unless the timer is stopped or restarted.     *)
(***************************************************************************)
Overdue(tm, e) == timers[tm].active /\ timers[tm].expire = e /\ mtime > e

OverdueServed ==
    \A tm \in Timers, e \in 0 .. Horizon : Overdue(tm, e) ~> ~Overdue(tm, e)

(***************************************************************************)
(* The handler is never entered again before it is done ("disable the      *)
(* timer interrupt to prevent re-entry", tlk_mtimer.c).                    *)
(***************************************************************************)
NoReentry == Len(irq) <= 1
=============================================================================
