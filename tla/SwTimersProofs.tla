--------------------------- MODULE SwTimersProofs ---------------------------
(***************************************************************************)
(* Proofs about SwTimers for every number of timers, set of periods, set   *)
(* of callbacks that start timers, depth of nesting and clock range: no    *)
(* active timer is left without an interrupt that will serve it.           *)
(***************************************************************************)
EXTENDS SwTimers, TLAPS

-----------------------------------------------------------------------------
(* Arithmetic of the wrapped clock. *)

\* Reducing modulo 2^64 gives a time, and leaves a time as it is.
LEMMA WrapTime ==
    ASSUME NEW x \in Int
    PROVE  /\ Wrap(x) \in Time
           /\ x \in Time => Wrap(x) = x
<1>1. Modulus \in Nat \ {0} /\ Time = 0 .. Modulus - 1
  BY SignBitAssumption DEF Modulus, Time, UINT64_MAX
<1>2. x % Modulus \in 0 .. Modulus - 1
  BY <1>1, SMT
<1>3. x \in 0 .. Modulus - 1 => x % Modulus = x
  BY <1>1, SMT
<1> QED BY <1>1, <1>2, <1>3 DEF Wrap

\* Whatever the deadlines, the planned compare value is a time.
LEMMA PlanTime ==
    ASSUME NEW n \in Nat, NEW td \in Time, NEW tn \in Time
    PROVE  next_event_plan(n, td, tn) \in Time
<1>1. Earlier(td, tn) + 1 \in Int /\ n + 1 \in Int
  BY DEF Earlier, Time
<1> QED BY <1>1, WrapTime DEF next_event_plan

\* The planned compare value is at most one tick past the timer deadline or
\* one past the present; "no deadline" becomes the latter.
LEMMA PlanCovers ==
    ASSUME NEW n \in Nat, n < SignBit, NEW td \in Time, NEW tn \in Time
    PROVE  /\ \/ next_event_plan(n, td, tn) <= tn + 1
              \/ next_event_plan(n, td, tn) <= n + 1
           /\ \/ next_event_plan(n, td, tn) <= td + 1
              \/ next_event_plan(n, td, tn) <= n + 1
<1> DEFINE e == Earlier(td, tn)
           cmp == Wrap(e + 1)
<1>1. e \in Time /\ e <= tn /\ e <= td
  BY SignBitAssumption DEF Earlier, Time, UINT64_MAX, Modulus
<1>2. n + 1 \in Time /\ n \in Time /\ 0 \in Time
  BY SignBitAssumption DEF Time, UINT64_MAX, Modulus
<1>3. Wrap(n + 1) = n + 1
  BY <1>2, WrapTime DEF Time
<1>4. cmp \in Time
  BY <1>1, WrapTime DEF Time
<1>5. CASE e = UINT64_MAX
  <2>1. cmp = 0
    BY <1>5, SignBitAssumption, SMT DEF Wrap, UINT64_MAX, Modulus
  <2>2. n - cmp = n
    BY <2>1
  <2>3. Wrap(n - cmp) = n
    BY <1>2, <2>2, WrapTime DEF Time
  <2>4. next_event_plan(n, td, tn) = n + 1
    BY <2>3, <1>3 DEF next_event_plan, Reached
  <2> QED BY <2>4, <1>2
<1>6. CASE e # UINT64_MAX
  <2>1. e + 1 \in Time
    BY <1>6, <1>1, SignBitAssumption DEF Time, UINT64_MAX, Modulus
  <2>2. cmp = e + 1
    BY <2>1, WrapTime DEF Time
  <2>3. next_event_plan(n, td, tn) \in {e + 1, n + 1}
    BY <2>2, <1>3 DEF next_event_plan
  <2> QED BY <2>1, <2>3, <1>1, <1>2, SignBitAssumption DEF Time, UINT64_MAX, Modulus
<1> QED BY <1>5, <1>6

\* The earlier of two deadlines is a deadline and not later than either.
LEMMA EarlierIsMin ==
    ASSUME NEW a \in Time, NEW b \in Time
    PROVE  Earlier(a, b) \in Time /\ Earlier(a, b) <= a /\ Earlier(a, b) <= b
BY SignBitAssumption DEF Earlier, Time, UINT64_MAX, Modulus

-----------------------------------------------------------------------------
(* The inductive invariant.  Covered speaks only of the moments without a  *)
(* handler.  While handlers are in progress timer_next_deadline need not   *)
(* cover a timer yet: then a handler, not necessarily the innermost one,   *)
(* has still to visit it.                                                  *)

\* Every active timer is folded into the deadline or will be visited.
Scheduled ==
    \A tm \in Timers : timers[tm].active =>
        \/ timer_next_deadline <= timers[tm].expire
        \/ \E k \in 1 .. Len(irq) : irq[k].i <= tm

\* A handler was entered with MTIE set, and puts it back.
FramesOK ==
    \A k \in 1 .. Len(irq) : irq[k].mtie /\ (irq[k].cb => irq[k].i <= NTimers)

CoverInv ==
    /\ TypeOK
    /\ \A tm \in Timers : timers[tm].period \in Periods
    /\ FramesOK
    /\ irq = <<>> => mie
    /\ Scheduled
    /\ Covered

\* The types of the constants the arithmetic needs.
LEMMA TimerTypes ==
    /\ NTimers \in Nat /\ Horizon \in Nat /\ Settle \in Nat /\ SignBit \in Nat \ {0}
    /\ Time \subseteq Nat /\ 0 \in Time /\ UINT64_MAX \in Time
    /\ Periods \subseteq Nat
    /\ \A x \in Time : x <= UINT64_MAX
BY TimersAssumption, HorizonAssumption, PeriodsAssumption, SignBitAssumption
   DEF Time, UINT64_MAX, Modulus

\* A clock value below the bound is far from the sign bit, if there is a timer.
LEMMA ClockSmall ==
    ASSUME NEW n \in 0 .. Horizon + Settle, NEW p \in Periods
    PROVE  n \in Nat /\ n < SignBit
BY PeriodsAssumption, HorizonAssumption, SignBitAssumption

\* Before the first start nothing is active.
LEMMA InitCover == Init => CoverInv
<1> SUFFICES ASSUME Init PROVE CoverInv
  OBVIOUS
<1>1. TypeOK
  <2>1. timers \in [Timers -> TimerRec]
    BY TimerTypes DEF Init, TimerRec
  <2>2. irq \in Seq(Frame)
    BY DEF Init
  <2>3. mtime \in 0 .. Horizon + Settle /\ timer_next_deadline \in Time
    BY TimerTypes DEF Init
  <2>4. task_next_deadline \in Time /\ mtimecmp \in Time
    BY TimerTypes, DeadlinesAssumption DEF Init
  <2> QED BY <2>1, <2>2, <2>3, <2>4, Zenon DEF Init, TypeOK
<1>2. \A tm \in Timers : timers[tm].period \in Periods /\ ~timers[tm].active
  BY DEF Init
<1>3. FramesOK
  BY DEF Init, FramesOK
<1> QED BY <1>1, <1>2, <1>3 DEF CoverInv, Scheduled, Covered, Init

\* The planned compare value covers every timer the deadline covers.
LEMMA PlanCoversTimers ==
    ASSUME CoverInv, NEW tn \in Time
    PROVE  LET cmp == next_event_plan(mtime, task_next_deadline, tn)
           IN  /\ cmp \in Time
               /\ \A tm \in Timers : \A e \in Time :
                     tn <= e => cmp <= e + 1 \/ cmp <= mtime + 1
<1> DEFINE cmp == next_event_plan(mtime, task_next_deadline, tn)
<1>1. mtime \in 0 .. Horizon + Settle /\ mtime \in Nat /\ task_next_deadline \in Time
  BY TimerTypes DEF CoverInv, TypeOK
<1>2. cmp \in Time
  BY <1>1, PlanTime
<1>3. ASSUME NEW tm \in Timers, NEW e \in Time, tn <= e
      PROVE  cmp <= e + 1 \/ cmp <= mtime + 1
  <2>1. mtime < SignBit
    BY <1>1, ClockSmall DEF CoverInv
  <2>2. cmp <= tn + 1 \/ cmp <= mtime + 1
    BY <1>1, <2>1, PlanCovers
  <2> HIDE DEF cmp
  <2> QED BY <1>1, <1>2, <1>3, <2>2, TimerTypes
<1> QED BY <1>2, <1>3

-----------------------------------------------------------------------------
(* Tasks, callbacks and the clock. *)

\* A start moves the deadline closer, to the started timer or nearer, and the
\* plan that follows covers everything the deadline covers.
LEMMA StartCovers ==
    ASSUME CoverInv, NEW tm \in Timers, tlk_task_sw_timer_start(tm),
           UNCHANGED <<task_next_deadline, mtime, irq>>
    PROVE  CoverInv'
<1> DEFINE e == Wrap(mtime + timers[tm].period)
           tn == timer_next_deadline'
<1>1. mtime \in Nat /\ timers[tm].period \in Nat /\ timer_next_deadline \in Time
      /\ timers \in [Timers -> TimerRec]
  <2>1. mtime \in 0 .. Horizon + Settle /\ timers[tm].period \in Periods
    BY DEF CoverInv, TypeOK
  <2>2. mtime \in Nat
    BY <2>1, HorizonAssumption
  <2>3. timers[tm].period \in Nat
    BY <2>1, PeriodsAssumption
  <2> QED BY <2>2, <2>3 DEF CoverInv, TypeOK
<1>2. e \in Time
  BY <1>1, WrapTime
<1>3. tn = Earlier(e, timer_next_deadline)
  BY DEF tlk_task_sw_timer_start, lower_deadline
<1>4. tn \in Time /\ tn <= e /\ tn <= timer_next_deadline
  BY <1>1, <1>2, <1>3, EarlierIsMin
<1>5. /\ timers' = [timers EXCEPT ![tm].expire = e, ![tm].active = TRUE]
      /\ mtimecmp' = next_event_plan(mtime, task_next_deadline, tn)
      /\ mtie' = TRUE /\ mie' = TRUE /\ wanted' = wanted \cup {tm}
      /\ task_next_deadline' = task_next_deadline /\ mtime' = mtime /\ irq' = irq
  BY DEF tlk_task_sw_timer_start, plan
<1> HIDE DEF e, tn
<1>6. timers' \in [Timers -> TimerRec]
  BY <1>1, <1>2, <1>5 DEF TimerRec
<1>7. \A u \in Timers : /\ timers'[u].period = timers[u].period
                        /\ u # tm => timers'[u] = timers[u]
                        /\ u = tm => timers'[u].expire = e
  BY <1>1, <1>5 DEF TimerRec
<1>8. mtimecmp' \in Time /\ \A x \in Time : tn <= x => mtimecmp' <= x + 1 \/ mtimecmp' <= mtime + 1
  BY <1>4, <1>5, PlanCoversTimers
<1>9. TypeOK'
  BY <1>4, <1>5, <1>6, <1>8 DEF CoverInv, TypeOK, tn
<1>10. FramesOK' /\ \A u \in Timers : timers'[u].period \in Periods
  BY <1>5, <1>7 DEF CoverInv, FramesOK
<1>11. Scheduled'
  <2> SUFFICES ASSUME NEW u \in Timers, timers'[u].active
               PROVE  tn <= timers'[u].expire \/ \E k \in 1 .. Len(irq) : irq[k].i <= u
    BY <1>5 DEF Scheduled, tn
  <2>1. CASE u = tm
    BY <1>4, <1>7, <2>1
  <2>2. CASE u # tm
    <3>1. timers'[u] = timers[u] /\ timers[u].expire \in Time
      BY <1>1, <1>7, <2>2 DEF TimerRec
    <3>2. timer_next_deadline <= timers[u].expire \/ \E k \in 1 .. Len(irq) : irq[k].i <= u
      BY <3>1 DEF CoverInv, Scheduled
    <3>3. tn \in Nat /\ timer_next_deadline \in Nat /\ timers[u].expire \in Nat
      BY <1>1, <1>4, <3>1, TimerTypes
    <3>4. timer_next_deadline <= timers[u].expire => tn <= timers[u].expire
      BY ONLY <3>3, <1>4
    <3> QED BY <3>1, <3>2, <3>4
  <2> QED BY <2>1, <2>2
<1>12. Covered'
  <2> SUFFICES ASSUME irq = <<>>, NEW u \in Timers, timers'[u].active
               PROVE  mtimecmp' <= timers'[u].expire + 1 \/ mtimecmp' <= mtime + 1
    BY <1>5 DEF Covered
  <2>1. tn <= timers'[u].expire
    <3>1. ~\E k \in 1 .. Len(irq') : irq'[k].i <= u
      BY <1>5
    <3> QED BY <1>11, <3>1, Zenon DEF Scheduled, tn
  <2>2. timers'[u].expire \in Time
    BY <1>6 DEF TimerRec
  <2> QED BY <1>8, <2>1, <2>2
<1> QED BY <1>5, <1>9, <1>10, <1>11, <1>12 DEF CoverInv

\* Stopping a timer, or changing its period or mode, leaves the rest covered.
LEMMA QuietCovers ==
    ASSUME CoverInv, timers' \in [Timers -> TimerRec],
           \A u \in Timers : /\ timers'[u].period \in Periods
                             /\ timers'[u].active => timers[u].active
                             /\ timers'[u].expire = timers[u].expire,
           wanted' \subseteq Timers,
           UNCHANGED <<timer_next_deadline, task_next_deadline, mtime, mtimecmp,
                       mie, mtie, irq>>
    PROVE  CoverInv'
<1>1. TypeOK'
  BY DEF CoverInv, TypeOK
<1>2. FramesOK' /\ Scheduled'
  BY DEF CoverInv, FramesOK, Scheduled
<1>3. Covered'
  BY DEF CoverInv, Covered
<1> QED BY <1>1, <1>2, <1>3 DEF CoverInv

LEMMA StopCovers ==
    ASSUME CoverInv, NEW tm \in Timers, tlk_task_sw_timer_stop(tm),
           UNCHANGED <<task_next_deadline, mtime, irq>>
    PROVE  CoverInv'
<1>1. timers \in [Timers -> TimerRec] /\ timers' = [timers EXCEPT ![tm].active = FALSE]
      /\ wanted' \subseteq Timers
  BY DEF CoverInv, TypeOK, tlk_task_sw_timer_stop
<1>2. timers' \in [Timers -> TimerRec]
  BY <1>1 DEF TimerRec
<1>3. \A u \in Timers : /\ timers'[u].period = timers[u].period
                        /\ timers'[u].active => timers[u].active
                        /\ timers'[u].expire = timers[u].expire
  BY <1>1 DEF TimerRec
<1> QED BY <1>1, <1>2, <1>3, QuietCovers DEF tlk_task_sw_timer_stop, CoverInv

LEMMA ConfigureCovers == CoverInv /\ TaskConfigures => CoverInv'
<1> SUFFICES ASSUME CoverInv, TaskConfigures PROVE CoverInv'
  OBVIOUS
<1>1. timers \in [Timers -> TimerRec] /\ wanted \subseteq Timers
  BY DEF CoverInv, TypeOK
<1>2. PICK tm \in Timers :
          \/ \E p \in Periods : tlk_task_sw_timer_set_period(tm, p)
          \/ \E m \in {ONE_SHOT, PERIODIC} : tlk_task_sw_timer_set_mode(tm, m)
  BY DEF TaskConfigures
<1>3. /\ timers' \in [Timers -> TimerRec]
      /\ \A u \in Timers : /\ timers'[u].period \in Periods
                            /\ timers'[u].active = timers[u].active
                            /\ timers'[u].expire = timers[u].expire
  <2>1. ASSUME NEW p \in Periods, timers' = [timers EXCEPT ![tm].period = p]
        PROVE  <1>3
    BY <1>1, <2>1, TimerTypes DEF TimerRec, CoverInv
  <2>2. ASSUME NEW m \in {ONE_SHOT, PERIODIC}, timers' = [timers EXCEPT ![tm].mode = m]
        PROVE  <1>3
    BY <1>1, <2>2 DEF TimerRec, CoverInv
  <2> QED BY <1>2, <2>1, <2>2 DEF tlk_task_sw_timer_set_period, tlk_task_sw_timer_set_mode
<1>4. UNCHANGED <<timer_next_deadline, task_next_deadline, mtime, mtimecmp, mie, mtie, irq, wanted>>
  BY <1>2 DEF TaskConfigures, tlk_task_sw_timer_set_period, tlk_task_sw_timer_set_mode
<1> QED BY <1>1, <1>3, <1>4, QuietCovers

\* The clock only moves the present closer to the compare value.
LEMMA TickCovers == CoverInv /\ Tick => CoverInv'
<1> SUFFICES ASSUME CoverInv, Tick PROVE CoverInv'
  OBVIOUS
<1>1. mtime' = mtime + 1 /\ UNCHANGED <<timerVars, task_next_deadline>>
      /\ mtime' \in 0 .. Horizon + Settle /\ mtime \in Nat
  BY TimerTypes DEF Tick, CoverInv, TypeOK
<1>2. TypeOK'
  BY <1>1 DEF CoverInv, TypeOK, timerVars
<1>3. FramesOK' /\ Scheduled'
  BY <1>1 DEF CoverInv, FramesOK, Scheduled, timerVars
<1>4. Covered'
  <2> SUFFICES ASSUME irq = <<>>, NEW u \in Timers, timers[u].active
               PROVE  mtie /\ mie /\ (mtimecmp <= timers[u].expire + 1 \/ mtimecmp <= mtime + 1 + 1)
    BY <1>1 DEF Covered, timerVars
  <2>1. mtie /\ mie /\ (mtimecmp <= timers[u].expire + 1 \/ mtimecmp <= mtime + 1)
    BY DEF CoverInv, Covered
  <2>2. mtimecmp \in Nat
    BY TimerTypes DEF CoverInv, TypeOK
  <2> QED BY ONLY <1>1, <2>1, <2>2
<1> QED BY <1>1, <1>2, <1>3, <1>4 DEF CoverInv, timerVars

-----------------------------------------------------------------------------
(* The handler. *)

\* The innermost activation is a frame; replacing it leaves the others.
LEMMA TopFrame ==
    ASSUME CoverInv, Depth > 0
    PROVE  /\ Depth \in Nat /\ Depth \in 1 .. Len(irq) /\ irq # <<>>
           /\ Top \in Frame /\ Top.mtie /\ Top.i \in 1 .. NTimers + 1 /\ Top.i \in Nat
           /\ Top.cb \in BOOLEAN /\ Top.cb => Top.i <= NTimers
           /\ \A f \in Frame : /\ SetTop(f) \in Seq(Frame)
                                /\ Len(SetTop(f)) = Len(irq) /\ SetTop(f) # <<>>
                                /\ \A k \in 1 .. Len(irq) :
                                      SetTop(f)[k] = IF k = Depth THEN f ELSE irq[k]
<1>1. irq \in Seq(Frame) /\ FramesOK
  BY DEF CoverInv, TypeOK
<1>2. Depth \in Nat /\ Depth \in 1 .. Len(irq) /\ irq # <<>>
  BY <1>1 DEF Depth
<1>3. Top \in Frame
  BY <1>1, <1>2 DEF Top, Depth
<1>4. Top.mtie /\ (Top.cb => Top.i <= NTimers)
  BY <1>1, <1>2 DEF FramesOK, Top
<1>5. Top.i \in 1 .. NTimers + 1 /\ Top.cb \in BOOLEAN
  BY <1>3 DEF Frame
<1>6. Top.i \in Nat
  BY <1>5, TimersAssumption
<1>7. ASSUME NEW f \in Frame
      PROVE  /\ SetTop(f) \in Seq(Frame)
             /\ Len(SetTop(f)) = Len(irq) /\ SetTop(f) # <<>>
             /\ \A k \in 1 .. Len(irq) :
                   SetTop(f)[k] = IF k = Depth THEN f ELSE irq[k]
  BY <1>1, <1>2 DEF SetTop, Depth
<1> QED BY <1>2, <1>3, <1>4, <1>5, <1>6, <1>7

\* The handler goes on to the next timer: what it leaves behind is inactive or
\* within the deadline, everything else is where it was.
LEMMA AdvanceCovers ==
    ASSUME CoverInv, Depth > 0, Top.i <= NTimers,
           irq' = SetTop([Top EXCEPT !.i = @ + 1, !.cb = FALSE]),
           timers' \in [Timers -> TimerRec], timer_next_deadline' \in Time,
           timer_next_deadline' <= timer_next_deadline,
           \A u \in Timers : timers'[u].period = timers[u].period
                             /\ (u # Top.i => timers'[u] = timers[u]),
           timers'[Top.i].active => timer_next_deadline' <= timers'[Top.i].expire,
           UNCHANGED <<task_next_deadline, mtime, mtimecmp, mie, mtie, wanted>>
    PROVE  CoverInv'
<1> DEFINE f == [Top EXCEPT !.i = @ + 1, !.cb = FALSE]
<1>1. f \in Frame /\ f.i = Top.i + 1 /\ ~f.cb /\ f.mtie
  <2>1. Top \in Frame /\ Top.mtie /\ Top.i \in 1 .. NTimers + 1
    BY TopFrame
  <2>2. Top.i + 1 \in 1 .. NTimers + 1
    BY <2>1, TimersAssumption
  <2> QED BY <2>1, <2>2 DEF Frame
<1> HIDE DEF f
<1>2. /\ irq' \in Seq(Frame) /\ Len(irq') = Len(irq) /\ irq' # <<>>
      /\ \A k \in 1 .. Len(irq) : irq'[k] = IF k = Depth THEN f ELSE irq[k]
      /\ Depth \in 1 .. Len(irq)
  BY <1>1, TopFrame DEF f
<1>3. TypeOK'
  BY <1>2 DEF CoverInv, TypeOK
<1>4. FramesOK'
  BY <1>1, <1>2 DEF CoverInv, FramesOK
<1>5. Scheduled'
  <2> SUFFICES ASSUME NEW u \in Timers, timers'[u].active
               PROVE  \/ timer_next_deadline' <= timers'[u].expire
                      \/ \E k \in 1 .. Len(irq) : irq'[k].i <= u
    BY <1>2 DEF Scheduled
  <2>1. CASE u = Top.i
    BY <2>1
  <2>2. CASE u # Top.i
    <3>1. timers'[u] = timers[u] /\ timers[u].expire \in Time /\ timer_next_deadline \in Time
      BY <2>2 DEF CoverInv, TypeOK, TimerRec
    <3>2. CASE timer_next_deadline <= timers[u].expire
      <4>1. timer_next_deadline \in Nat /\ timer_next_deadline' \in Nat /\ timers[u].expire \in Nat
        BY <3>1, TimerTypes
      <4>2. timer_next_deadline' <= timers[u].expire
        BY ONLY <4>1, <3>2, timer_next_deadline' <= timer_next_deadline
      <4> QED BY <3>1, <4>2
    <3>3. CASE \E k \in 1 .. Len(irq) : irq[k].i <= u
      <4>1. PICK k \in 1 .. Len(irq) : irq[k].i <= u
        BY <3>3
      <4>2. CASE k = Depth
        <5>1. Top.i <= u /\ Top.i \in Nat /\ u \in Nat
          BY <4>1, <4>2, TopFrame DEF Top, Timers
        <5>2. Top.i + 1 <= u
          BY ONLY <5>1, <2>2
        <5> QED BY <1>1, <1>2, <4>2, <5>2
      <4>3. CASE k # Depth
        BY <1>2, <4>1, <4>3
      <4> QED BY <4>2, <4>3
    <3> QED BY <3>1, <3>2, <3>3 DEF CoverInv, Scheduled
  <2> QED BY <2>1, <2>2
<1>6. \A u \in Timers : timers'[u].period \in Periods
  BY DEF CoverInv
<1> QED BY <1>2, <1>3, <1>4, <1>5, <1>6 DEF CoverInv, Covered

\* The trap forgets the deadline: the new handler is going to visit them all.
LEMMA EnterCovers == CoverInv /\ IrqEnter => CoverInv'
<1> SUFFICES ASSUME CoverInv, IrqEnter PROVE CoverInv'
  OBVIOUS
<1> DEFINE f == [now |-> mtime, i |-> 1, cb |-> FALSE, mtie |-> mtie]
<1>1. mtie = TRUE /\ mtime \in 0 .. Horizon + Settle /\ irq \in Seq(Frame)
  BY DEF CoverInv, TypeOK, IrqEnter, IrqPending
<1>2. f \in Frame /\ f.mtie /\ ~f.cb /\ f.i = 1
  BY <1>1, TimersAssumption DEF Frame
<1>3. irq' = Append(irq, f)
  BY DEF IrqEnter
<1> HIDE DEF f
<1>4. /\ irq' \in Seq(Frame) /\ Len(irq') = Len(irq) + 1 /\ Len(irq) \in Nat
      /\ irq' # <<>> /\ irq'[Len(irq) + 1] = f
      /\ \A k \in 1 .. Len(irq) : irq'[k] = irq[k]
  BY <1>1, <1>2, <1>3
<1>5. TypeOK'
  <2>1. mie' \in BOOLEAN /\ mtie' \in BOOLEAN
    BY NestAssumption, Zenon DEF IrqEnter
  <2> QED BY <1>4, <2>1, TimerTypes DEF CoverInv, TypeOK, IrqEnter
<1>6. FramesOK'
  BY <1>2, <1>4 DEF CoverInv, FramesOK
<1>7. Scheduled'
  <2>1. Len(irq) + 1 \in 1 .. Len(irq') /\ \A u \in Timers : irq'[Len(irq) + 1].i <= u
    BY <1>2, <1>4 DEF Timers
  <2> QED BY <2>1 DEF Scheduled
<1> QED BY <1>4, <1>5, <1>6, <1>7 DEF CoverInv, Covered, IrqEnter

\* An inactive timer is passed over.
LEMMA SkipCovers == CoverInv /\ IrqSkipInactive => CoverInv'
<1> SUFFICES ASSUME CoverInv, IrqSkipInactive PROVE CoverInv'
  OBVIOUS
<1>1. Depth > 0 /\ ~Top.cb /\ Top.i <= NTimers /\ ~timers[Top.i].active
  BY DEF IrqSkipInactive, Scanning
<1>2. Top \in Frame
  BY <1>1, TopFrame
<1>3. [Top EXCEPT !.i = @ + 1] = [Top EXCEPT !.i = @ + 1, !.cb = FALSE]
  BY <1>1, <1>2 DEF Frame
<1>4. timers \in [Timers -> TimerRec] /\ timer_next_deadline \in Time
  BY DEF CoverInv, TypeOK
<1>5. timer_next_deadline <= timer_next_deadline
  BY <1>4, TimerTypes
<1> QED BY <1>1, <1>3, <1>4, <1>5, AdvanceCovers DEF IrqSkipInactive

\* An active timer that has not expired lowers the deadline to its expiry.
LEMMA NotYetCovers == CoverInv /\ IrqNotYet => CoverInv'
<1> SUFFICES ASSUME CoverInv, IrqNotYet PROVE CoverInv'
  OBVIOUS
<1>1. Depth > 0 /\ ~Top.cb /\ Top.i <= NTimers
  BY DEF IrqNotYet, Scanning
<1>2. Top \in Frame /\ Top.i \in Timers
  BY <1>1, TopFrame DEF Timers
<1>3. [Top EXCEPT !.i = @ + 1] = [Top EXCEPT !.i = @ + 1, !.cb = FALSE]
  BY <1>1, <1>2 DEF Frame
<1>4. timers \in [Timers -> TimerRec] /\ timer_next_deadline \in Time
      /\ timers[Top.i].expire \in Time
  BY <1>2 DEF CoverInv, TypeOK, TimerRec
<1>5. timer_next_deadline' = Earlier(timers[Top.i].expire, timer_next_deadline)
  BY DEF IrqNotYet, lower_deadline
<1>6. /\ timer_next_deadline' \in Time /\ timer_next_deadline' <= timer_next_deadline
      /\ timer_next_deadline' <= timers[Top.i].expire
  BY <1>4, <1>5, EarlierIsMin
<1> QED BY <1>1, <1>3, <1>4, <1>6, AdvanceCovers DEF IrqNotYet

\* The callback is called: the timer is not behind the handler yet.
LEMMA FireCovers == CoverInv /\ IrqFire => CoverInv'
<1> SUFFICES ASSUME CoverInv, IrqFire PROVE CoverInv'
  OBVIOUS
<1> DEFINE f == [Top EXCEPT !.cb = TRUE]
<1>1. Depth > 0 /\ Top.i <= NTimers /\ irq' = SetTop(f)
  BY DEF IrqFire, Scanning
<1>2. f \in Frame /\ f.i = Top.i /\ f.mtie
  BY <1>1, TopFrame DEF Frame
<1> HIDE DEF f
<1>3. /\ irq' \in Seq(Frame) /\ Len(irq') = Len(irq) /\ irq' # <<>>
      /\ \A k \in 1 .. Len(irq) : irq'[k] = IF k = Depth THEN f ELSE irq[k]
  BY <1>1, <1>2, TopFrame
<1>4. TypeOK'
  <2>1. wanted' \subseteq Timers
    BY DEF CoverInv, TypeOK, IrqFire
  <2> QED BY <1>3, <2>1 DEF CoverInv, TypeOK, IrqFire
<1>5. FramesOK'
  BY <1>1, <1>2, <1>3 DEF CoverInv, FramesOK
<1>6. \A k \in 1 .. Len(irq) : irq'[k].i = irq[k].i
  BY <1>2, <1>3 DEF Top
<1>7. Scheduled'
  BY <1>3, <1>6 DEF CoverInv, Scheduled, IrqFire
<1> QED BY <1>3, <1>4, <1>5, <1>7 DEF CoverInv, Covered, IrqFire

\* The callback has returned: a timer still active is rearmed and folded in.
LEMMA ReturnCovers == CoverInv /\ CbReturn => CoverInv'
<1> SUFFICES ASSUME CoverInv, CbReturn PROVE CoverInv'
  OBVIOUS
<1>1. Depth > 0 /\ Top.cb
  BY DEF CbReturn, InCallback
<1>2. Top.i <= NTimers /\ Top.i \in Timers
  BY <1>1, TopFrame DEF Timers
<1>3. timers \in [Timers -> TimerRec] /\ timer_next_deadline \in Time
      /\ timers' = [timers EXCEPT ![Top.i] = rearmed(@)]
  BY DEF CoverInv, TypeOK, CbReturn
<1> DEFINE r == timers[Top.i]
<1>4. r \in TimerRec /\ r.expire \in Time /\ r.period \in Nat
  BY <1>2, <1>3 DEF TimerRec
<1>5. Wrap(r.expire + r.period) \in Time
  BY <1>4, WrapTime, TimerTypes
<1>6. rearmed(r) \in TimerRec /\ rearmed(r).period = r.period
  BY <1>4, <1>5 DEF rearmed, TimerRec
<1>7. /\ timers' \in [Timers -> TimerRec]
      /\ \A u \in Timers : timers'[u].period = timers[u].period
                            /\ (u # Top.i => timers'[u] = timers[u])
  BY <1>2, <1>3, <1>6
<1>8. timers'[Top.i].expire \in Time
  BY <1>2, <1>7 DEF TimerRec
<1>9. /\ timer_next_deadline' \in Time /\ timer_next_deadline' <= timer_next_deadline
      /\ timers'[Top.i].active => timer_next_deadline' <= timers'[Top.i].expire
  <2>1. timer_next_deadline <= timer_next_deadline
    BY <1>3, TimerTypes
  <2> QED BY <1>3, <1>8, <2>1, EarlierIsMin DEF CbReturn, lower_deadline
<1> QED BY <1>1, <1>2, <1>7, <1>9, AdvanceCovers DEF CbReturn

\* The handler has visited every timer and plans before it returns.
LEMMA ExitCovers == CoverInv /\ IrqExit => CoverInv'
<1> SUFFICES ASSUME CoverInv, IrqExit PROVE CoverInv'
  OBVIOUS
<1>1. Depth > 0 /\ Top.i > NTimers /\ irq' = SubSeq(irq, 1, Depth - 1)
  BY DEF IrqExit, Scanning
<1>2. irq \in Seq(Frame) /\ Depth = Len(irq) /\ Depth \in Nat /\ Top.mtie
      /\ timer_next_deadline \in Time
  BY <1>1, TopFrame DEF CoverInv, TypeOK, Depth
<1>3. /\ irq' \in Seq(Frame) /\ Len(irq') = Depth - 1
      /\ \A k \in 1 .. Depth - 1 : irq'[k] = irq[k]
  BY <1>1, <1>2
<1>4. mie' = TRUE /\ mtie' = TRUE
  BY <1>2 DEF IrqExit, CoverInv, FramesOK
<1>5. mtimecmp' \in Time /\ \A tm \in Timers : \A e \in Time :
          timer_next_deadline <= e => mtimecmp' <= e + 1 \/ mtimecmp' <= mtime + 1
  BY <1>2, PlanCoversTimers DEF IrqExit, plan
<1>6. TypeOK'
  BY <1>3, <1>4, <1>5 DEF CoverInv, TypeOK, IrqExit
<1>7. FramesOK'
  BY <1>2, <1>3 DEF CoverInv, FramesOK
<1>8. Scheduled'
  <2> SUFFICES ASSUME NEW u \in Timers, timers[u].active
               PROVE  timer_next_deadline <= timers[u].expire
                      \/ \E k \in 1 .. Len(irq') : irq'[k].i <= u
    BY DEF Scheduled, IrqExit
  <2>1. ~(Top.i <= u)
    BY <1>1, TopFrame, TimersAssumption DEF Timers
  <2> QED BY <1>2, <1>3, <2>1 DEF CoverInv, Scheduled, Top
<1>9. Covered'
  <2> SUFFICES ASSUME irq' = <<>>, NEW u \in Timers, timers[u].active
               PROVE  mtimecmp' <= timers[u].expire + 1 \/ mtimecmp' <= mtime + 1
    BY <1>4 DEF Covered, IrqExit
  <2>1. ~\E k \in 1 .. Len(irq') : irq'[k].i <= u
    OBVIOUS
  <2>2. timer_next_deadline <= timers[u].expire /\ timers[u].expire \in Time
    BY <1>8, <2>1 DEF Scheduled, IrqExit, CoverInv, TypeOK, TimerRec
  <2> QED BY <1>5, <2>2
<1> QED BY <1>4, <1>6, <1>7, <1>8, <1>9 DEF CoverInv, IrqExit

\* Starts and stops, by a task or by a callback.
LEMMA CallCovers ==
    ASSUME CoverInv, TaskStartStop \/ CbCall
    PROVE  CoverInv'
<1>1. UNCHANGED <<task_next_deadline, mtime, irq>>
  BY DEF TaskStartStop, CbCall
<1>2. PICK tm \in Timers : tlk_task_sw_timer_start(tm) \/ tlk_task_sw_timer_stop(tm)
  BY DEF TaskStartStop, CbCall
<1> QED BY <1>1, <1>2, StartCovers, StopCovers

LEMMA NextCovers == CoverInv /\ [Next]_vars => CoverInv'
<1> SUFFICES ASSUME CoverInv, [Next]_vars PROVE CoverInv'
  OBVIOUS
<1>1. CASE UNCHANGED vars
  <2>1. TypeOK' /\ FramesOK' /\ Scheduled' /\ Covered'
    BY <1>1 DEF CoverInv, vars, timerVars, TypeOK, FramesOK, Scheduled, Covered
  <2> QED BY <1>1, <2>1 DEF CoverInv, vars, timerVars
<1>2. CASE Next
  BY <1>2, TickCovers, CallCovers, ConfigureCovers, EnterCovers, SkipCovers, NotYetCovers,
     FireCovers, ReturnCovers, ExitCovers DEF Next, Irq
<1> QED BY <1>1, <1>2

(***************************************************************************)
(* Whatever tasks and callbacks start, stop and reconfigure, and however   *)
(* deep handlers nest, an active timer always has an interrupt enabled     *)
(* that will come no later than one tick after its expiry or the present   *)
(* (tlk_task_sw_timer_start, tlk_task_planner_mtimer_irq,                  *)
(* tlk_task_planner_next_event_plan).                                      *)
(***************************************************************************)
THEOREM TimersCovered == Spec => []Covered
<1>1. Init => CoverInv
  BY InitCover
<1>2. CoverInv /\ [Next]_vars => CoverInv'
  BY NextCovers
<1>3. CoverInv => Covered
  BY DEF CoverInv
<1> QED BY <1>1, <1>2, <1>3, PTL DEF Spec

-----------------------------------------------------------------------------
(* Programs whose callbacks start no timer.  Then nothing unmasks the      *)
(* timer interrupt inside its handler, so there is one activation, and a   *)
(* one-shot timer is out of step with what was asked only while its own    *)
(* callback runs.                                                          *)

\* The one-shot timer whose callback is running has been served.
BeingServed(tm) ==
    /\ Len(irq) = 1 /\ irq[1].cb /\ irq[1].i = tm
    /\ timers[tm].mode # PERIODIC

HonourInv ==
    /\ Len(irq) <= 1
    /\ Len(irq) = 1 => ~(mie /\ mtie)
    /\ \A tm \in Timers : IF BeingServed(tm) THEN tm \notin wanted
                           ELSE timers[tm].active <=> tm \in wanted

LEMMA InitHonours == Init => HonourInv
<1> SUFFICES ASSUME Init PROVE HonourInv
  OBVIOUS
<1>1. Len(irq) = 0 /\ wanted = {} /\ \A tm \in Timers : ~timers[tm].active
  BY DEF Init
<1> QED BY <1>1 DEF HonourInv, BeingServed

\* The activation in progress is the only one.
LEMMA OneFrame ==
    ASSUME CoverInv, HonourInv, Depth > 0
    PROVE  Depth = 1 /\ Len(irq) = 1 /\ Top = irq[1] /\ Top \in Frame
           /\ (Top.cb => Top.i \in Timers)
<1>1. Len(irq) \in Nat /\ Len(irq) <= 1 /\ Depth = Len(irq)
  BY DEF CoverInv, TypeOK, HonourInv, Depth
<1>2. Depth = 1 /\ Len(irq) = 1
  BY ONLY <1>1, Depth > 0
<1>3. Top \in Frame /\ Top.i \in 1 .. NTimers + 1 /\ (Top.cb => Top.i <= NTimers)
  BY TopFrame
<1>4. Top.cb => Top.i \in Timers
  BY <1>3, TimersAssumption DEF Timers
<1> QED BY <1>2, <1>3, <1>4 DEF Top

\* One step, callback by callback.
LEMMA NextHonours ==
    ASSUME CbStarts = {}, CoverInv, HonourInv, [Next]_vars
    PROVE  HonourInv'
<1>1. timers \in [Timers -> TimerRec] /\ irq \in Seq(Frame) /\ Len(irq) \in Nat /\ FramesOK
  BY DEF CoverInv, TypeOK
<1>2. Depth > 0 => Depth = 1 /\ Len(irq) = 1 /\ Top = irq[1] /\ Top \in Frame
                   /\ (Top.cb => Top.i \in Timers)
  BY OneFrame
<1>3. ASSUME NEW tm \in Timers,
             (tlk_task_sw_timer_start(tm) /\ irq = <<>>) \/ tlk_task_sw_timer_stop(tm),
             irq' = irq
      PROVE  HonourInv'
  <2>1. CASE tlk_task_sw_timer_start(tm) /\ irq = <<>>
    <3>1. \A u \in Timers : /\ u # tm => timers'[u] = timers[u]
                            /\ u = tm => timers'[u].active
      BY <1>1, <2>1 DEF tlk_task_sw_timer_start, TimerRec
    <3>2. Len(irq) = 0 /\ wanted' = wanted \cup {tm}
      BY <2>1 DEF tlk_task_sw_timer_start
    <3> QED BY <1>3, <3>1, <3>2 DEF HonourInv, BeingServed
  <2>2. CASE tlk_task_sw_timer_stop(tm)
    <3>1. \A u \in Timers : /\ u # tm => timers'[u] = timers[u]
                            /\ u = tm => ~timers'[u].active /\ timers'[u].mode = timers[u].mode
      BY <1>1, <2>2 DEF tlk_task_sw_timer_stop, TimerRec
    <3>2. wanted' = wanted \ {tm} /\ mie' = mie /\ mtie' = mtie
      BY <2>2 DEF tlk_task_sw_timer_stop
    <3> QED BY <1>3, <3>1, <3>2 DEF HonourInv, BeingServed
  <2> QED BY <1>3, <2>1, <2>2
<1>4. CASE TaskStartStop \/ CbCall
  <2>1. PICK tm \in Timers : (tlk_task_sw_timer_start(tm) /\ irq = <<>>) \/ tlk_task_sw_timer_stop(tm)
    BY <1>4 DEF TaskStartStop, CbCall
  <2> QED BY <1>3, <1>4, <2>1 DEF TaskStartStop, CbCall
<1>5. CASE TaskConfigures
  <2>1. Len(irq) = 0 /\ UNCHANGED <<irq, wanted>>
    BY <1>5 DEF TaskConfigures, tlk_task_sw_timer_set_period, tlk_task_sw_timer_set_mode
  <2>2. \A u \in Timers : timers'[u].active = timers[u].active
    BY <1>1, <1>5 DEF TaskConfigures, tlk_task_sw_timer_set_period,
       tlk_task_sw_timer_set_mode, TimerRec
  <2> QED BY <2>1, <2>2 DEF HonourInv, BeingServed
<1>6. CASE Tick \/ UNCHANGED vars
  BY <1>6 DEF Tick, vars, timerVars, HonourInv, BeingServed
<1>7. CASE IrqEnter
  <2>1. irq = <<>> /\ mie /\ mtie
    <3>1. mie /\ mtie
      BY <1>7 DEF IrqEnter, IrqPending
    <3>2. Len(irq) # 1
      BY <3>1 DEF HonourInv
    <3>3. Len(irq) = 0
      BY <1>1, <1>2, <3>2 DEF Depth
    <3> QED BY <1>1, <3>1, <3>3
  <2>2. Len(irq') = 1 /\ ~irq'[1].cb /\ UNCHANGED <<timers, wanted>>
    BY <1>7, <2>1 DEF IrqEnter
  <2>3. ~(mie' /\ mtie')
    BY <1>7, NestAssumption DEF IrqEnter
  <2> QED BY <2>1, <2>2, <2>3 DEF HonourInv, BeingServed
<1>8. CASE IrqSkipInactive \/ IrqNotYet
  <2>1. Depth > 0 /\ ~Top.cb /\ irq' = SetTop([Top EXCEPT !.i = @ + 1])
        /\ UNCHANGED <<timers, wanted, mie, mtie>>
    BY <1>8 DEF IrqSkipInactive, IrqNotYet, Scanning
  <2>2. Len(irq') = 1 /\ ~irq'[1].cb /\ Len(irq) = 1 /\ ~irq[1].cb
    BY <1>1, <1>2, <2>1 DEF SetTop, Frame
  <2> QED BY <2>1, <2>2 DEF HonourInv, BeingServed
<1>9. CASE IrqFire
  <2>1. Depth > 0 /\ ~Top.cb /\ irq' = SetTop([Top EXCEPT !.cb = TRUE])
        /\ wanted' = (IF timers[Top.i].mode = PERIODIC THEN wanted ELSE wanted \ {Top.i})
        /\ UNCHANGED <<timers, mie, mtie>>
    BY <1>9 DEF IrqFire, Scanning
  <2>2. Len(irq') = 1 /\ irq'[1].cb /\ irq'[1].i = Top.i /\ Len(irq) = 1 /\ ~irq[1].cb
    BY <1>1, <1>2, <2>1 DEF SetTop, Frame
  <2> QED BY <2>1, <2>2 DEF HonourInv, BeingServed
<1>10. CASE CbReturn
  <2>1. Depth > 0 /\ Top.cb /\ irq' = SetTop([Top EXCEPT !.i = @ + 1, !.cb = FALSE])
        /\ timers' = [timers EXCEPT ![Top.i] = rearmed(@)]
        /\ UNCHANGED <<wanted, mie, mtie>>
    BY <1>10 DEF CbReturn, InCallback
  <2>2. Len(irq') = 1 /\ ~irq'[1].cb /\ Len(irq) = 1 /\ irq[1].cb /\ irq[1].i = Top.i
        /\ Top.i \in Timers
    BY <1>1, <1>2, <2>1 DEF SetTop, Frame
  <2>3. \A u \in Timers : u # Top.i => timers'[u] = timers[u]
    BY <1>1, <2>1
  <2>4. timers'[Top.i].active = (timers[Top.i].active /\ timers[Top.i].mode = PERIODIC)
    <3>1. timers[Top.i] \in TimerRec /\ timers'[Top.i] = rearmed(timers[Top.i])
      BY <1>1, <2>1, <2>2
    <3> QED BY <3>1 DEF rearmed, TimerRec
  <2>5. ASSUME NEW u \in Timers
        PROVE  ~BeingServed(u)' /\ (timers'[u].active <=> u \in wanted')
    <3>1. ~BeingServed(u)'
      BY <2>2 DEF BeingServed
    <3>2. CASE u = Top.i
      BY <2>1, <2>2, <2>4, <3>2 DEF HonourInv, BeingServed
    <3>3. CASE u # Top.i
      BY <2>1, <2>2, <2>3, <3>3 DEF HonourInv, BeingServed
    <3> QED BY <3>1, <3>2, <3>3
  <2> QED BY <2>1, <2>2, <2>5 DEF HonourInv
<1>11. CASE IrqExit
  <2>1. Depth > 0 /\ ~Top.cb /\ irq' = SubSeq(irq, 1, Depth - 1) /\ UNCHANGED <<timers, wanted>>
    BY <1>11 DEF IrqExit, Scanning
  <2>2. Len(irq') = 0 /\ ~irq[1].cb
    BY <1>1, <1>2, <2>1
  <2>3. ASSUME NEW u \in Timers
        PROVE  ~BeingServed(u)' /\ (timers'[u].active <=> u \in wanted')
    <3>1. ~BeingServed(u) /\ ~BeingServed(u)'
      BY <2>2 DEF BeingServed
    <3>2. timers[u].active <=> u \in wanted
      BY <3>1 DEF HonourInv
    <3> QED BY <2>1, <3>1, <3>2
  <2>4. Len(irq') <= 1 /\ Len(irq') # 1
    BY <2>2
  <2> QED BY <2>3, <2>4 DEF HonourInv
<1> QED BY <1>4, <1>5, <1>6, <1>7, <1>8, <1>9, <1>10, <1>11 DEF Next, Irq

(***************************************************************************)
(* With callbacks that start no timer, a start is never undone and a stop  *)
(* never overruled by the handler (task_planner.c, the loop of             *)
(* tlk_task_planner_mtimer_irq).  The run that lets a callback restart its *)
(* own timer shows that the hypothesis is needed.                          *)
(***************************************************************************)
THEOREM StartsHonoured == ASSUME CbStarts = {} PROVE Spec => []StartHonoured
<1>1. Init => CoverInv /\ HonourInv
  BY InitCover, InitHonours
<1>2. CoverInv /\ HonourInv /\ [Next]_vars => (CoverInv /\ HonourInv)'
  BY NextCovers, NextHonours
<1>3. HonourInv => StartHonoured
  BY DEF HonourInv, StartHonoured, BeingServed
<1> QED BY <1>1, <1>2, <1>3, PTL DEF Spec

(***************************************************************************)
(* With callbacks that start no timer the handler is never entered again   *)
(* before it is done, whichever of the two ways of masking is configured   *)
(* (tlk_mtimer_irq_handle, "disable the timer interrupt to prevent         *)
(* re-entry"): what breaks that promise is the MTIE set by a start.        *)
(***************************************************************************)
THEOREM OneActivation == ASSUME CbStarts = {} PROVE Spec => []NoReentry
<1>1. Init => CoverInv /\ HonourInv
  BY InitCover, InitHonours
<1>2. CoverInv /\ HonourInv /\ [Next]_vars => (CoverInv /\ HonourInv)'
  BY NextCovers, NextHonours
<1>3. HonourInv => NoReentry
  BY DEF HonourInv, NoReentry
<1> QED BY <1>1, <1>2, <1>3, PTL DEF Spec

-----------------------------------------------------------------------------
(* The test of an expiry reads the sign of a wrapped difference, which is  *)
(* right only while the expiry lies within half the range of the clock.    *)

\* An expiry is at most one period ahead.
Near(e) == \E p \in Periods : e <= mtime + p

NearInv ==
    /\ \A tm \in Timers : timers[tm].active => Near(timers[tm].expire)
    /\ Len(irq) = 1 => irq[1].now <= mtime
    /\ Len(irq) = 1 /\ irq[1].cb => (timers[irq[1].i].active => timers[irq[1].i].expire <= mtime)

\* Below the sign bit the test is the order of the two times.
LEMMA ReachedExact ==
    ASSUME NEW n \in Nat, NEW e \in Nat, n < SignBit, e < SignBit
    PROVE  Reached(n, e) <=> e <= n
<1>1. PICK M \in Nat : M = Modulus /\ M = 2 * SignBit
  BY SignBitAssumption DEF Modulus
<1>2. CASE e <= n
  <2>1. n - e \in Int /\ n - e \in Time
    BY <1>2, SignBitAssumption DEF Time, UINT64_MAX, Modulus
  <2>2. Wrap(n - e) = n - e
    BY <2>1, WrapTime
  <2>3. n - e < SignBit
    BY <1>2, SignBitAssumption
  <2> QED BY <1>2, <2>2, <2>3 DEF Reached
<1>3. CASE ~(e <= n)
  <2>1. PICK x \in Int : x = n - e /\ x < 0 /\ x > -SignBit
    BY <1>3, SignBitAssumption
  <2>2. x % M = x + M
    BY ONLY <1>1, <2>1, SignBitAssumption, x \in Int, M \in Nat, SMT
  <2>3. ~(x + M < SignBit)
    BY <1>1, <2>1, SignBitAssumption
  <2>4. Wrap(n - e) = x + M
    BY <1>1, <2>1, <2>2 DEF Wrap
  <2> QED BY <1>3, <2>3, <2>4 DEF Reached
<1> QED BY <1>2, <1>3

\* An expiry that is near is below the sign bit, and so is the next one.
LEMMA NearSmall ==
    ASSUME NEW n \in 0 .. Horizon + Settle, NEW e \in Nat, NEW p \in Periods, e <= n + p
    PROVE  e < SignBit /\ n < SignBit /\ n + p \in Time
BY PeriodsAssumption, HorizonAssumption, SignBitAssumption DEF Time, UINT64_MAX, Modulus

\* Handlers and callbacks that start nothing only stop timers or put their
\* expiry off.
LEMMA ExpiryPutOff ==
    ASSUME CbStarts = {}, CoverInv, HonourInv, NearInv, Irq \/ CbCall, NEW tm \in Timers,
           timers'[tm].active
    PROVE  timers[tm].active /\ timers[tm].expire <= timers'[tm].expire
<1>1. timers \in [Timers -> TimerRec] /\ irq \in Seq(Frame) /\ mtime \in 0 .. Horizon + Settle
      /\ mtime \in Nat
  BY TimerTypes DEF CoverInv, TypeOK
<1>2. timers[tm].expire \in Nat /\ timers[tm].expire <= timers[tm].expire
  <2>1. timers[tm].expire \in Time
    BY <1>1 DEF TimerRec
  <2>2. timers[tm].expire \in Nat
    BY <2>1, TimerTypes
  <2> QED BY <2>2
<1>3. CASE timers' = timers
  BY <1>2, <1>3
<1>4. CASE CbCall
  <2>1. PICK u \in Timers : tlk_task_sw_timer_stop(u)
    BY <1>4 DEF CbCall
  <2>2. timers' = [timers EXCEPT ![u].active = FALSE]
    BY <2>1 DEF tlk_task_sw_timer_stop
  <2>3. tm # u
    BY <1>1, <2>2 DEF TimerRec
  <2>4. timers'[tm] = timers[tm]
    BY <1>1, <2>2, <2>3
  <2> QED BY <1>2, <2>4
<1>5. CASE CbReturn
  <2>1. Depth > 0 /\ Top.cb /\ timers' = [timers EXCEPT ![Top.i] = rearmed(@)]
    BY <1>5 DEF CbReturn, InCallback
  <2>2. Len(irq) = 1 /\ Top = irq[1] /\ Top.i \in Timers
    BY <2>1, OneFrame
  <2>3. CASE tm # Top.i
    <3>1. timers'[tm] = timers[tm]
      BY <1>1, <2>1, <2>3
    <3> QED BY <1>2, <3>1
  <2>4. CASE tm = Top.i
    <3> DEFINE r == timers[tm]
    <3>1. r \in TimerRec /\ timers'[tm] = rearmed(r) /\ r.period \in Periods
      BY <1>1, <2>1, <2>4 DEF CoverInv
    <3>2. r.mode = PERIODIC
      BY <3>1 DEF rearmed, TimerRec
    <3>3. r.active /\ timers'[tm].expire = Wrap(r.expire + r.period)
      BY <3>1, <3>2 DEF rearmed, TimerRec
    <3>4. r.expire <= mtime
      BY <2>1, <2>2, <2>4, <3>3 DEF NearInv
    <3>5. PICK e \in Nat, p \in Nat : e = r.expire /\ p = r.period
      BY <1>2, <3>1, TimerTypes
    <3>6. p \in Periods /\ e + p <= mtime + p
      BY <1>1, <3>1, <3>4, <3>5
    <3>7. mtime + p \in Time
      BY <1>1, <3>6, NearSmall
    <3>8. e + p \in Time
      BY <1>1, <3>6, <3>7, TimerTypes, SignBitAssumption DEF Time, UINT64_MAX, Modulus
    <3>9. Wrap(e + p) = e + p
      BY <3>8, WrapTime
    <3> QED BY <3>3, <3>5, <3>9
  <2> QED BY <2>3, <2>4
<1> QED BY <1>3, <1>4, <1>5 DEF Irq, IrqEnter, IrqSkipInactive, IrqNotYet, IrqFire, IrqExit

LEMMA NextNear ==
    ASSUME CbStarts = {}, CoverInv, HonourInv, NearInv, [Next]_vars
    PROVE  NearInv'
<1>1. timers \in [Timers -> TimerRec] /\ irq \in Seq(Frame) /\ mtime \in 0 .. Horizon + Settle
      /\ mtime \in Nat /\ Len(irq) \in Nat
  BY TimerTypes DEF CoverInv, TypeOK
<1>2. \A u \in Timers : timers[u].expire \in Nat /\ timers[u].period \in Periods
  BY <1>1, TimerTypes DEF TimerRec, CoverInv
<1>3. CASE UNCHANGED vars
  BY <1>3 DEF vars, timerVars, NearInv, Near
<1>4. CASE Tick
  <2>1. mtime' = mtime + 1 /\ UNCHANGED <<timers, irq>>
    BY <1>4 DEF Tick, timerVars
  <2>2. \A e \in Nat : e <= mtime => e <= mtime'
    BY <1>1, <2>1
  <2>3. ASSUME NEW tm \in Timers, timers[tm].active
        PROVE  \E p \in Periods : timers[tm].expire <= mtime' + p
    <3>1. PICK p \in Periods : timers[tm].expire <= mtime + p
      BY <2>3 DEF NearInv, Near
    <3>2. p \in Nat /\ timers[tm].expire \in Nat
      BY <1>2, TimerTypes
    <3>3. timers[tm].expire <= mtime' + p
      BY ONLY <1>1, <2>1, <3>1, <3>2
    <3> QED BY <3>3
  <2>5. ASSUME Len(irq) = 1
        PROVE  /\ irq[1].now <= mtime'
               /\ irq[1].cb => (timers[irq[1].i].active => timers[irq[1].i].expire <= mtime')
    <3>1. irq[1] \in Frame /\ irq[1].now \in Nat
      <4>1. irq[1] \in Frame
        BY <2>5, OneFrame DEF Depth
      <4> QED BY <4>1, HorizonAssumption DEF Frame
    <3>2. irq[1].cb => irq[1].i \in Timers
      BY <2>5, <3>1 DEF CoverInv, FramesOK, Frame, Timers
    <3> QED BY <1>2, <2>2, <2>5, <3>1, <3>2 DEF NearInv
  <2> QED BY <2>1, <2>3, <2>5 DEF NearInv, Near
<1>5. CASE TaskStartStop \/ TaskConfigures
  <2>1. Len(irq') = 0 /\ mtime' = mtime
    BY <1>5 DEF TaskStartStop, TaskConfigures
  <2>2. ASSUME NEW tm \in Timers, timers'[tm].active PROVE Near(timers'[tm].expire)
    <3>1. CASE timers'[tm].expire = timers[tm].expire /\ timers[tm].active
      BY <3>1 DEF NearInv
    <3>2. CASE tlk_task_sw_timer_start(tm)
      <4>1. timers'[tm].expire = Wrap(mtime + timers[tm].period)
        BY <1>1, <3>2 DEF tlk_task_sw_timer_start, TimerRec
      <4>2. PICK p \in Periods : p = timers[tm].period
        BY <1>2
      <4>3. p \in Nat /\ mtime + p \in Nat /\ mtime + p <= mtime + p
        BY <1>1, TimerTypes
      <4>4. mtime + p \in Time
        BY <1>1, <4>3, NearSmall
      <4>5. Wrap(mtime + p) = mtime + p
        BY <4>3, <4>4, WrapTime
      <4> QED BY <4>1, <4>2, <4>3, <4>5 DEF Near
    <3>3. CASE \E u \in Timers : tlk_task_sw_timer_start(u) /\ u # tm
      <4>1. timers'[tm] = timers[tm]
        BY <1>1, <3>3 DEF tlk_task_sw_timer_start
      <4> QED BY <2>2, <4>1 DEF NearInv
    <3>4. CASE \E u \in Timers : tlk_task_sw_timer_stop(u)
      BY <1>1, <2>2, <3>1, <3>4 DEF tlk_task_sw_timer_stop, TimerRec
    <3>5. CASE TaskConfigures
      BY <1>1, <2>2, <3>1, <3>5 DEF TaskConfigures, tlk_task_sw_timer_set_period,
         tlk_task_sw_timer_set_mode, TimerRec
    <3> QED BY <1>5, <3>2, <3>3, <3>4, <3>5 DEF TaskStartStop
  <2> QED BY <2>1, <2>2 DEF NearInv, Near
<1>6. CASE IrqEnter
  <2>1. Len(irq) = 0
    <3>1. mie /\ mtie
      BY <1>6 DEF IrqEnter, IrqPending
    <3>2. PICK n \in Nat : n = Len(irq) /\ n # 1 /\ n <= 1
      BY <1>1, <3>1 DEF HonourInv
    <3> QED BY <3>2
  <2>2. Len(irq') = 1 /\ irq'[1].now = mtime /\ ~irq'[1].cb /\ UNCHANGED <<timers, mtime>>
    BY <1>1, <1>6, <2>1 DEF IrqEnter
  <2>3. mtime <= mtime
    BY <1>1
  <2> QED BY <2>2, <2>3 DEF NearInv, Near
<1>7. CASE IrqSkipInactive \/ IrqNotYet
  <2>1. Depth > 0 /\ ~Top.cb /\ irq' = SetTop([Top EXCEPT !.i = @ + 1]) /\ UNCHANGED <<timers, mtime>>
    BY <1>7 DEF IrqSkipInactive, IrqNotYet, Scanning
  <2>2. Len(irq) = 1 /\ Depth = 1 /\ Top = irq[1] /\ Top \in Frame
    BY <2>1, OneFrame
  <2>3. Len(irq') = 1 /\ ~irq'[1].cb /\ irq'[1].now = irq[1].now
    BY <1>1, <2>1, <2>2 DEF SetTop, Frame
  <2> QED BY <2>1, <2>2, <2>3 DEF NearInv, Near
<1>8. CASE IrqFire
  <2>1. Depth > 0 /\ ~Top.cb /\ irq' = SetTop([Top EXCEPT !.cb = TRUE]) /\ Top.i <= NTimers
        /\ timers[Top.i].active /\ Reached(Top.now, timers[Top.i].expire)
        /\ UNCHANGED <<timers, mtime>>
    BY <1>8 DEF IrqFire, Scanning
  <2>2. Len(irq) = 1 /\ Depth = 1 /\ Top = irq[1] /\ Top \in Frame
    BY <2>1, OneFrame
  <2>3. Len(irq') = 1 /\ irq'[1].now = irq[1].now /\ irq'[1].i = Top.i
    BY <1>1, <2>1, <2>2 DEF SetTop, Frame
  <2>4. Top.i \in Timers /\ Top.now \in Nat
    BY <2>1, <2>2, TimersAssumption, HorizonAssumption DEF Frame, Timers
  <2>5. PICK e \in Nat, p \in Periods : e = timers[Top.i].expire /\ e <= mtime + p
    BY <1>2, <2>1, <2>4 DEF NearInv, Near
  <2>6. e < SignBit /\ mtime < SignBit
    BY <1>1, <2>5, NearSmall
  <2>7. Top.now <= mtime
    BY <2>2 DEF NearInv
  <2>8. Top.now < SignBit
    BY <1>1, <2>4, <2>6, <2>7, SignBitAssumption
  <2>9. e <= Top.now
    BY <2>1, <2>4, <2>5, <2>6, <2>8, ReachedExact
  <2>10. e <= mtime
    BY <1>1, <2>4, <2>7, <2>9
  <2> QED BY <2>1, <2>2, <2>3, <2>5, <2>7, <2>10 DEF NearInv, Near
<1>9. CASE CbCall
  <2>1. PICK u \in Timers : tlk_task_sw_timer_stop(u)
    BY <1>9 DEF CbCall
  <2>2. UNCHANGED <<mtime, irq>>
    BY <1>9 DEF CbCall
  <2>3. \A tm \in Timers : timers'[tm].active => timers'[tm] = timers[tm]
    BY <1>1, <2>1 DEF tlk_task_sw_timer_stop, TimerRec
  <2>4. Len(irq) = 1 /\ irq[1].cb => irq[1].i \in Timers
    BY <1>1, OneFrame DEF Depth
  <2> QED BY <2>2, <2>3, <2>4 DEF NearInv, Near
<1>10. CASE CbReturn
  <2>1. Depth > 0 /\ Top.cb /\ irq' = SetTop([Top EXCEPT !.i = @ + 1, !.cb = FALSE])
        /\ timers' = [timers EXCEPT ![Top.i] = rearmed(@)] /\ mtime' = mtime
    BY <1>10 DEF CbReturn, InCallback
  <2>2. Len(irq) = 1 /\ Depth = 1 /\ Top = irq[1] /\ Top \in Frame /\ Top.i \in Timers
    BY <2>1, OneFrame
  <2>3. Len(irq') = 1 /\ ~irq'[1].cb /\ irq'[1].now = irq[1].now
    BY <1>1, <2>1, <2>2 DEF SetTop, Frame
  <2>4. ASSUME NEW tm \in Timers, timers'[tm].active PROVE Near(timers'[tm].expire)
    <3>1. CASE tm # Top.i
      <4>1. timers'[tm] = timers[tm]
        BY <1>1, <2>1, <3>1
      <4> QED BY <2>4, <4>1 DEF NearInv
    <3>2. CASE tm = Top.i
      <4> DEFINE r == timers[tm]
      <4>1. r \in TimerRec /\ timers'[tm] = rearmed(r)
        BY <1>1, <2>1, <3>2
      <4>2. r.mode = PERIODIC
        BY <2>4, <4>1 DEF rearmed, TimerRec
      <4>3. r.active /\ timers'[tm].expire = Wrap(r.expire + r.period)
        BY <2>4, <4>1, <4>2 DEF rearmed, TimerRec
      <4>4. PICK e \in Nat, p \in Periods : e = r.expire /\ p = r.period /\ e <= mtime
        BY <1>2, <2>1, <2>2, <3>2, <4>3 DEF NearInv
      <4>5. p \in Nat /\ e + p \in Nat /\ e + p <= mtime + p
        BY <1>1, <4>4, TimerTypes
      <4>6. mtime + p \in Time
        BY <1>1, <4>4, <4>5, NearSmall
      <4>7. e + p \in Time
        BY <1>1, <4>5, <4>6, SignBitAssumption DEF Time, UINT64_MAX, Modulus
      <4>8. Wrap(e + p) = e + p
        BY <4>5, <4>7, WrapTime
      <4> QED BY <4>3, <4>4, <4>5, <4>8 DEF Near
    <3> QED BY <3>1, <3>2
  <2> QED BY <2>1, <2>2, <2>3, <2>4 DEF NearInv, Near
<1>11. CASE IrqExit
  <2>1. Depth > 0 /\ irq' = SubSeq(irq, 1, Depth - 1) /\ UNCHANGED <<timers, mtime>>
    BY <1>11 DEF IrqExit, Scanning
  <2>2. Len(irq') = 0 /\ Len(irq') # 1
    BY <1>1, <2>1, OneFrame
  <2>3. \A tm \in Timers : timers'[tm].active => \E p \in Periods : timers'[tm].expire <= mtime' + p
    BY <2>1 DEF NearInv, Near
  <2> QED BY <2>2, <2>3 DEF NearInv, Near
<1> QED BY <1>3, <1>4, <1>5, <1>6, <1>7, <1>8, <1>9, <1>10, <1>11 DEF Next, Irq

\* "Has it expired?" answered for the present.
TestExact ==
    \A tm \in Timers : timers[tm].active =>
        (Reached(mtime, timers[tm].expire) <=> timers[tm].expire <= mtime)

(***************************************************************************)
(* With callbacks that start no timer, the handler's test                  *)
(* (int64_t) (now - tm->expire) >= 0 says of every active timer whether    *)
(* its expiry has passed, never the contrary because a difference wrapped, *)
(* however often timers are rearmed.                                       *)
(***************************************************************************)
THEOREM ExpiryTestExact == ASSUME CbStarts = {} PROVE Spec => []TestExact
<1> DEFINE Inv == CoverInv /\ HonourInv /\ NearInv
<1>1. Init => Inv
  <2> SUFFICES ASSUME Init PROVE NearInv
    BY InitCover, InitHonours
  <2>1. Len(irq) = 0 /\ \A tm \in Timers : ~timers[tm].active
    BY DEF Init
  <2>2. Len(irq) # 1
    BY <2>1
  <2> QED BY <2>1, <2>2 DEF NearInv
<1>2. Inv /\ [Next]_vars => Inv'
  BY NextCovers, NextHonours, NextNear
<1>3. Inv => TestExact
  <2> SUFFICES ASSUME Inv, NEW tm \in Timers, timers[tm].active
               PROVE  Reached(mtime, timers[tm].expire) <=> timers[tm].expire <= mtime
    BY DEF TestExact
  <2>1. mtime \in 0 .. Horizon + Settle /\ mtime \in Nat /\ timers[tm].expire \in Time
    BY TimerTypes DEF CoverInv, TypeOK, TimerRec
  <2>2. timers[tm].expire \in Nat
    BY <2>1, TimerTypes
  <2>3. PICK p \in Periods : timers[tm].expire <= mtime + p
    BY DEF NearInv, Near
  <2>4. timers[tm].expire < SignBit /\ mtime < SignBit
    BY <2>1, <2>2, <2>3, NearSmall
  <2> QED BY <2>1, <2>2, <2>4, ReachedExact
<1> QED BY <1>1, <1>2, <1>3, PTL DEF Spec
=============================================================================
