------------------------------ MODULE SleepApi ------------------------------
(***************************************************************************)
(* tlk_api_sleep() of core/api on the machine timer driver: the 64-bit     *)
(* mtime and mtimecmp registers accessed one 32-bit half at a time while   *)
(* the clock runs, the timer handler and wfi.  Without CONFIG_TLK_PM; no   *)
(* other interrupt comes.                                                  *)
(***************************************************************************)
EXTENDS Integers

CONSTANTS
    Half,        \* bound: the values of a 32-bit half (2^32)
    MaxTime,     \* bound: the clock
    MaxTicks,    \* bound: the longest sleep, in ticks
    Nests        \* CONFIG_TLK_MTIMER_IRQ_USE_NEST: a set of BOOLEANs

VARIABLES
    nest,        \* the build
    mtime, cmp,  \* the timer's registers: the clock, and the halves of mtimecmp
    mtie, mie,   \* mie.MTIE, mstatus.MIE
    spc,         \* where tlk_api_sleep() stands
    hpc,         \* where the timer handler stands
    tmp,         \* the halves that each of the two contexts has read
    current_time, ticks,
    began        \* ghost: when the sleep was called

svars == <<nest, mtime, cmp, mtie, mie, spc, hpc, tmp, current_time, ticks, began>>

high(t) == t \div Half
low(t) == t % Half
value(r) == r.h * Half + r.l

UINT32_MAX == Half - 1
mtip == mtime >= value(cmp)

Init ==
    /\ nest \in Nests
    /\ mtime = 0
    /\ cmp = [h |-> high(MaxTime), l |-> UINT32_MAX]
    /\ mtie = FALSE /\ mie = FALSE
    /\ spc = "idle" /\ hpc = "off"
    /\ tmp = [c \in {"main", "isr"} |-> [h |-> 0, l |-> 0]]
    /\ current_time = 0 /\ ticks = 0 /\ began = 0

\* The bound does not stop the clock that a sleeping processor waits for.
Tick ==
    /\ \/ mtime < MaxTime
       \/ spc = "asleep" /\ hpc = "off" /\ mtie /\ ~mtip
    /\ mtime' = mtime + 1
    /\ UNCHANGED <<nest, cmp, mtie, mie, spc, hpc, tmp, current_time, ticks, began>>

-----------------------------------------------------------------------------
(* tlk_mtimer_get_mtime() and tlk_mtimer_set_mtime_compare(), one access   *)
(* per step; the part after "." is the place inside the driver's function. *)

\* Planted fault: the high half is not read again.
Bug_torn(h) == FALSE
torn(h) == h # high(mtime)

get_mtime(c, pc, pc_) ==
    \/ pc = "h" /\ tmp' = [tmp EXCEPT ![c].h = high(mtime)] /\ pc_ = "l"
    \/ pc = "l" /\ tmp' = [tmp EXCEPT ![c].l = low(mtime)] /\ pc_ = "again"
    \/ pc = "again" /\ UNCHANGED tmp /\ pc_ = IF torn(tmp[c].h) THEN "h" ELSE "got"

\* The low half is out of the way while the high half is stored.
first_low == UINT32_MAX

set_compare(t, pc, pc_) ==
    \/ pc = "c1" /\ cmp' = [cmp EXCEPT !.l = first_low] /\ pc_ = "c2"
    \/ pc = "c2" /\ cmp' = [cmp EXCEPT !.h = high(t)] /\ pc_ = "c3"
    \/ pc = "c3" /\ cmp' = [cmp EXCEPT !.l = low(t)] /\ pc_ = "set"

-----------------------------------------------------------------------------
(* tlk_api_sleep() *)

main == hpc = "off"

\* A duration below one millisecond returns at once.
Sleep ==
    /\ main /\ spc = "idle"
    /\ \E d \in 1 .. MaxTicks :
          /\ mtime + d < MaxTime
          /\ ticks' = d
    /\ began' = mtime
    /\ spc' = "h"
    /\ UNCHANGED <<nest, mtime, cmp, mtie, mie, hpc, tmp, current_time>>

SleepReadTime ==
    /\ main
    /\ get_mtime("main", spc, spc')
    /\ UNCHANGED <<nest, mtime, cmp, mtie, mie, hpc, current_time, ticks, began>>

SleepNow ==
    /\ main /\ spc = "got"
    /\ current_time' = value(tmp["main"])
    /\ spc' = "c1"
    /\ UNCHANGED <<nest, mtime, cmp, mtie, mie, hpc, tmp, ticks, began>>

SleepSetCompare ==
    /\ main
    /\ set_compare(current_time + ticks, spc, spc')
    /\ UNCHANGED <<nest, mtime, mtie, mie, hpc, tmp, current_time, ticks, began>>

SleepEnable ==
    /\ main /\ spc = "set"
    /\ mtie' = TRUE /\ mie' = TRUE
    /\ spc' = "loop.h"
    /\ UNCHANGED <<nest, mtime, cmp, hpc, tmp, current_time, ticks, began>>

\* The clock is read again for every pass of the loop.
loop_pc(pc) == CASE pc = "loop.h" -> "h" [] pc = "loop.l" -> "l" [] pc = "loop.again" -> "again"
                 [] OTHER -> "none"

SleepLoop ==
    /\ main
    /\ \E p \in {"h", "l", "again", "got"} :
          /\ get_mtime("main", loop_pc(spc), p)
          /\ spc' = CASE p = "h" -> "loop.h" [] p = "l" -> "loop.l" [] p = "again" -> "loop.again"
                      [] p = "got" -> "loop.got"
    /\ UNCHANGED <<nest, mtime, cmp, mtie, mie, hpc, current_time, ticks, began>>

SleepTest ==
    /\ main /\ spc = "loop.got"
    /\ spc' = IF value(tmp["main"]) < current_time + ticks THEN "wfi" ELSE "return"
    /\ tmp' = [tmp EXCEPT !["main"] = [h |-> 0, l |-> 0]]
    /\ UNCHANGED <<nest, mtime, cmp, mtie, mie, hpc, current_time, ticks, began>>

\* The processor waits until an enabled interrupt is pending.
SleepWait ==
    /\ main
    /\ \/ spc = "wfi" /\ spc' = "asleep"
       \/ spc = "asleep" /\ mtie /\ mtip /\ spc' = "loop.h"
    /\ UNCHANGED <<nest, mtime, cmp, mtie, mie, hpc, tmp, current_time, ticks, began>>

SleepReturn ==
    /\ main /\ spc = "return"
    /\ spc' = "idle"
    /\ current_time' = 0 /\ ticks' = 0 /\ began' = 0
    /\ UNCHANGED <<nest, mtime, cmp, mtie, mie, hpc, tmp>>

-----------------------------------------------------------------------------
(* tlk_mtimer_irq_handle() with tlk_api_time_handle_mtimer_callback()      *)

\* A handler taken during wfi returns behind it.
Irq ==
    /\ main /\ mtip /\ mtie /\ mie
    /\ mie' = FALSE
    /\ mtie' = FALSE          \* narrowed when it nests, and by the callback
    /\ hpc' = "h"
    /\ spc' = IF spc = "asleep" THEN "loop.h" ELSE spc
    /\ UNCHANGED <<nest, mtime, cmp, tmp, current_time, ticks, began>>

IrqReadTime ==
    /\ get_mtime("isr", hpc, hpc')
    /\ UNCHANGED <<nest, mtime, cmp, mtie, mie, spc, current_time, ticks, began>>

IrqGot ==
    /\ hpc = "got" /\ hpc' = "c1"
    /\ UNCHANGED <<nest, mtime, cmp, mtie, mie, spc, tmp, current_time, ticks, began>>

IrqSetCompare ==
    /\ set_compare(value(tmp["isr"]) + 1, hpc, hpc')
    /\ UNCHANGED <<nest, mtime, mtie, mie, spc, tmp, current_time, ticks, began>>

\* The nested handler restores mie, MTIE included.
\* Planted fault: mie stays as the handler narrowed it.
Bug_restored_mtie == FALSE
restored_mtie == nest

IrqReturn ==
    /\ hpc = "set" /\ hpc' = "off"
    /\ mie' = TRUE
    /\ mtie' = restored_mtie
    /\ tmp' = [tmp EXCEPT !["isr"] = [h |-> 0, l |-> 0]]
    /\ UNCHANGED <<nest, mtime, cmp, spc, current_time, ticks, began>>

Main == Sleep \/ SleepReadTime \/ SleepNow \/ SleepSetCompare \/ SleepEnable \/ SleepLoop
        \/ SleepTest \/ SleepWait \/ SleepReturn
Handler == Irq \/ IrqReadTime \/ IrqGot \/ IrqSetCompare \/ IrqReturn
Over == main /\ spc \in {"idle", "asleep"} /\ mtime >= MaxTime /\ UNCHANGED svars

Next == Tick \/ Main \/ Handler \/ Over

\* The clock runs and so does the processor.
Fairness == WF_svars(Tick) /\ WF_svars(Main) /\ WF_svars(Handler)
Spec == Init /\ [][Next]_svars /\ Fairness

-----------------------------------------------------------------------------
(***************************************************************************)
(* tlk_api_sleep never returns before its duration has passed, although    *)
(* the clock may carry between the reads of its two halves                 *)
(* (tlk_mtimer_get_mtime) and the handler moves the compare register.      *)
(***************************************************************************)
NotEarly == spc = "return" => mtime >= began + ticks

(***************************************************************************)
(* The sleep ends: "sleep duration in milliseconds" (tlk_sleep.h), even    *)
(* when the timer fires between the test of the loop and wfi.              *)
(***************************************************************************)
SleepReturns == (spc # "idle") ~> (spc = "idle")
=============================================================================
