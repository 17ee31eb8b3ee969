------------------------------- MODULE Traps -------------------------------
(***************************************************************************)
(* Traps on the one hart: what the hardware does when it takes an          *)
(* interrupt or an ecall, and what the handlers of tlk_trap.c, tlk_plic.c, *)
(* tlk_plic_sw.c and tlk_mtimer.c do with the machine's context (mepc, mie *)
(* and mstatus) around the callback they call.                             *)
(*                                                                         *)
(* A trap pushes a frame; the frame on top executes, frame 0 is the main   *)
(* program.  mepc is the frame to resume and whether it stands at its next *)
(* instruction or still at the ecall.  A stretch of handler code that runs *)
(* with interrupts masked is one step.  What callbacks and the main        *)
(* program do is left to the module that extends this one.                 *)
(***************************************************************************)
EXTENDS Integers, Sequences, FiniteSets

CONSTANTS
    Ext,     \* the external interrupt sources
    Prio,    \* their priorities
    Builds   \* the Kconfig choices considered

Class == {"MSI", "MTI", "MEI"}   \* also the bits of mie

(***************************************************************************)
(* nest: the handlers compiled with their _USE_NEST option; allow[c]: the  *)
(* classes the MIE mask of c lets in; vector, preempt: how the PLIC is     *)
(* run; unmask: callbacks call a function that ends with                   *)
(* tlk_core_interrupt_enable(), as tlk_task_work_submit() does; mmode: the *)
(* ecall callback calls tlk_core_enable_mmode().                           *)
(***************************************************************************)
Build == [nest : SUBSET (Class \cup {"ECALL"}), allow : [Class -> SUBSET Class],
          vector : BOOLEAN, preempt : BOOLEAN, unmask : BOOLEAN, mmode : BOOLEAN]

ASSUME PrioAssumption == Prio \in [Ext -> Nat \ {0}]
ASSUME BuildsAssumption ==
    /\ Builds \subseteq Build
    \* TLK_MTIMER_MIE_MASK has no MTIE
    /\ \A b \in Builds : "MTI" \notin b.allow["MTI"]
    \* a trap inside a handler that does not nest would overwrite mepc
    /\ \A b \in Builds : b.unmask => Class \subseteq b.nest

VARIABLES
    build,
    mode, mstatus, mie, mepc,   \* the hart
    pending, claimed, irq_en,   \* the PLIC and PLIC_SW: requests, in service, enabled
    mtip,                       \* mtime has reached mtimecmp
    stack,                      \* the traps in progress
    counter                     \* tlk_plic_nesting_counter

hart == <<mode, mstatus, mie, mepc>>
plic == <<pending, claimed, irq_en>>

depth == Len(stack)
top == stack[depth]
at(pc) == depth > 0 /\ top.pc = pc
set_top(f) == stack' = [stack EXCEPT ![depth] = f]
goto(pc) == set_top([top EXCEPT !.pc = pc])

SW == "sw"     \* the one source of PLIC_SW

-----------------------------------------------------------------------------
(* The hardware. *)

presented(s) ==
    /\ s \in (pending \cap irq_en) \ claimed
    /\ build.preempt => \A t \in claimed \cap Ext : Prio[s] > Prio[t]

requested(c) ==
    CASE c = "MTI" -> mtip
      [] c = "MSI" -> SW \in (pending \cap irq_en) \ claimed
      [] c = "MEI" -> \E s \in Ext : presented(s)

\* Interrupts of machine mode are always enabled in user mode.
accepted(c) == c \in mie /\ (mode = "U" \/ mstatus.MIE) /\ requested(c)

claim(s) == pending' = pending \ {s} /\ claimed' = claimed \cup {s}

\* mepc, MPIE and MPP keep what was interrupted; the trap runs masked.
enter_trap(c, s, where) ==
    /\ mepc' = [frame |-> depth, at |-> where]
    /\ mstatus' = [MIE |-> FALSE, MPIE |-> mstatus.MIE, MPP |-> mode]
    /\ mode' = "M"
    /\ stack' = Append(stack, [cause |-> c, src |-> s, pc |-> "entry", i |-> 1, tmp |-> 0,
                               mpp |-> "U", saved |-> <<>>,
                               was |-> [mode |-> mode, MIE |-> mstatus.MIE, mie |-> mie]])
    /\ UNCHANGED mie

Interrupt(c) ==
    /\ accepted(c)
    /\ IF c = "MEI" /\ build.vector
       THEN \E s \in Ext : presented(s) /\ claim(s) /\ enter_trap(c, s, "next")
       ELSE enter_trap(c, SW, "next") /\ UNCHANGED <<pending, claimed>>
    /\ UNCHANGED <<build, irq_en, mtip, counter>>

\* The last instruction of a trap: MPP becomes the least privileged mode.
Mret ==
    /\ at("mret")
    /\ mepc = [frame |-> depth - 1, at |-> "next"]
    /\ mode' = mstatus.MPP
    /\ mstatus' = [MIE |-> mstatus.MPIE, MPIE |-> TRUE, MPP |-> "U"]
    /\ stack' = SubSeq(stack, 1, depth - 1)
    /\ UNCHANGED <<build, mie, mepc, plic, mtip, counter>>

-----------------------------------------------------------------------------
(* Handlers before the callback: claim, and with nesting the context is    *)
(* saved, mie narrowed and interrupts enabled again.                       *)

nested == top.cause \in build.nest

\* Planted fault: mepc is not among what is saved.
Bug_save_nested_context == [mepc |-> [frame |-> 0, at |-> "next"], mie |-> mie, mstatus |-> mstatus]
save_nested_context == [mepc |-> mepc, mie |-> mie, mstatus |-> mstatus]

narrow(c) == mie' = mie \cap build.allow[c]

best(s) == presented(s) /\ \A t \in Ext : presented(t) => Prio[t] <= Prio[s]

\* External interrupts of a build without vectors go through the table, whose
\* entries count the nesting; in a vector build the entry counts, masked.
first_pc == IF top.cause = "MEI" /\ ~build.vector THEN "inc" ELSE "body"

open(c) ==
    IF nested
    THEN narrow(c) /\ mstatus' = [mstatus EXCEPT !.MIE = TRUE]
    ELSE UNCHANGED <<mie, mstatus>>

save == IF nested THEN save_nested_context ELSE <<>>

MtimerEntry ==
    /\ at("entry") /\ top.cause = "MTI"
    /\ open("MTI")
    /\ set_top([top EXCEPT !.pc = "body", !.saved = save])
    /\ UNCHANGED <<build, mode, mepc, plic, mtip, counter>>

SwEntry ==
    /\ at("entry") /\ top.cause = "MSI"
    /\ claim(SW)
    /\ open("MSI")
    /\ set_top([top EXCEPT !.pc = "body", !.saved = save])
    /\ UNCHANGED <<build, mode, mepc, irq_en, mtip, counter>>

vector_enter == counter' = counter + 1

PlicEntry ==
    /\ at("entry") /\ top.cause = "MEI"
    /\ \E s \in Ext :
          /\ IF build.vector
             THEN s = top.src /\ vector_enter /\ UNCHANGED <<pending, claimed>>
             ELSE best(s) /\ claim(s) /\ UNCHANGED counter
          /\ set_top([top EXCEPT !.pc = first_pc, !.saved = save, !.src = s])
    /\ open("MEI")
    /\ UNCHANGED <<build, mode, mepc, irq_en, mtip>>

EcallEntry ==
    /\ at("entry") /\ top.cause = "ECALL"
    /\ mstatus' = [mstatus EXCEPT !.MIE = @ \/ nested]
    /\ set_top([top EXCEPT !.pc = "body", !.saved = save])
    /\ UNCHANGED <<build, mode, mie, mepc, plic, mtip, counter>>

\* tlk_plic_nesting_counter++ and -- are a load and a store.
CountLoad ==
    /\ \/ at("inc") /\ set_top([top EXCEPT !.pc = "inc2", !.tmp = counter + 1])
       \/ at("dec") /\ set_top([top EXCEPT !.pc = "dec2", !.tmp = counter - 1])
    /\ UNCHANGED <<build, hart, plic, mtip, counter>>

CountStore ==
    /\ \/ at("inc2") /\ goto("body")
       \/ at("dec2") /\ goto("complete")
    /\ counter' = top.tmp
    /\ UNCHANGED <<build, hart, plic, mtip>>

-----------------------------------------------------------------------------
(* Handlers after the callback. *)

\* Where a callback returns to.
after_body ==
    CASE top.cause = "MTI" -> "close"
      [] top.cause = "MSI" -> "complete"
      [] top.cause = "MEI" -> IF build.vector THEN "close" ELSE "dec"
      [] top.cause = "ECALL" -> "mpp"

\* Planted fault: the controller is not told that the service is over.
Bug_complete(s) == claimed' = claimed
complete(s) == claimed' = claimed \ {s}

\* Interrupts are still enabled here when the handler nests.
Complete ==
    /\ at("complete")
    /\ complete(top.src)
    /\ goto("close")
    /\ UNCHANGED <<build, hart, pending, irq_en, mtip, counter>>

restore_nested_context ==
    mie' = top.saved.mie /\ mstatus' = top.saved.mstatus /\ mepc' = top.saved.mepc

\* Planted fault: the vector handler forgets to count down.
Bug_vector_leave == counter' = counter
vector_leave == counter' = counter - 1

Close ==
    /\ at("close") /\ top.cause # "ECALL"
    /\ IF nested THEN restore_nested_context ELSE UNCHANGED <<mie, mstatus, mepc>>
    /\ IF top.cause = "MEI" /\ build.vector
       THEN complete(top.src) /\ vector_leave
       ELSE UNCHANGED <<claimed, counter>>
    /\ goto("mret")
    /\ UNCHANGED <<build, mode, pending, irq_en, mtip>>

\* The ecall handler reads MPP before it masks interrupts.
EcallReadMpp ==
    /\ at("mpp")
    /\ set_top([top EXCEPT !.pc = "close", !.mpp = mstatus.MPP])
    /\ UNCHANGED <<build, hart, plic, mtip, counter>>

skip_ecall(epc) == [epc EXCEPT !.at = "next"]

EcallClose ==
    /\ at("close") /\ top.cause = "ECALL"
    /\ IF nested
       THEN /\ mie' = top.saved.mie
            /\ mstatus' = [top.saved.mstatus EXCEPT !.MPP = IF top.mpp = "M" THEN "M" ELSE @]
            /\ mepc' = skip_ecall(top.saved.mepc)
       ELSE mepc' = skip_ecall(mepc) /\ UNCHANGED <<mie, mstatus>>
    /\ goto("mret")
    /\ UNCHANGED <<build, mode, plic, mtip, counter>>

Handler ==
    MtimerEntry \/ SwEntry \/ PlicEntry \/ EcallEntry \/ CountLoad \/ CountStore
    \/ Complete \/ Close \/ EcallReadMpp \/ EcallClose \/ Mret

-----------------------------------------------------------------------------
(* What callbacks and the main program call. *)

set_pending(s) == pending' = pending \cup {s}

\* tlk_core_interrupt_enable(): global and external interrupts.
interrupt_enable ==
    /\ mstatus' = [mstatus EXCEPT !.MIE = TRUE]
    /\ mie' = mie \cup {"MEI"}

\* tlk_core_enable_umode(), up to the first instruction in user mode.
enable_umode ==
    /\ mode = "M"
    /\ mode' = "U"
    /\ mstatus' = [mstatus EXCEPT !.MPIE = TRUE, !.MPP = "U"]
    /\ mepc' = [frame |-> depth, at |-> "next"]
    /\ UNCHANGED mie

enable_mmode == mstatus' = [mstatus EXCEPT !.MPP = "M"]

callback_return ==
    /\ goto(after_body)
    /\ UNCHANGED <<hart, plic, mtip, counter>>

-----------------------------------------------------------------------------
Frame == [cause : Class \cup {"ECALL"}, src : Ext \cup {SW},
          was : [mode : {"U", "M"}, MIE : BOOLEAN, mie : SUBSET Class],
          pc : {"entry", "inc", "inc2", "body", "dec", "dec2", "complete", "mpp", "close", "mret"},
          i : Nat \ {0}, tmp : Nat, mpp : {"U", "M"},
          saved : {<<>>} \cup [mepc : [frame : Nat, at : {"next", "ecall"}], mie : SUBSET Class,
                               mstatus : [MIE : BOOLEAN, MPIE : BOOLEAN, MPP : {"U", "M"}]]]

(***************************************************************************)
(* When a trap is about to return, mepc is the instruction after the one   *)
(* it interrupted, MPIE and MPP are the interrupt enable and the mode it   *)
(* interrupted (an ecall callback may have asked for machine mode), and    *)
(* mie is what it was: whatever came in between, the interrupted code does *)
(* not notice (tlk_core_save_nested_context, tlk_core_restore_...).        *)
(***************************************************************************)
ContextRestored ==
    at("mret") =>
        /\ mepc = [frame |-> depth - 1, at |-> "next"]
        /\ mstatus.MPIE = top.was.MIE
        /\ mstatus.MPP \in {top.was.mode} \cup (IF top.cause = "ECALL" THEN {"M"} ELSE {})
        /\ ~build.unmask \/ nested => mie = top.was.mie

(***************************************************************************)
(* A handler is entered on top of another one only where the mask of the   *)
(* lower one lets it in (or its callback enabled it), no source is in      *)
(* service twice at a time, and in a vector build, where interrupts are    *)
(* masked before the completion, no source has two frames: the stack is    *)
(* bounded by the number of sources.                                       *)
(***************************************************************************)
NestingBounded ==
    \A j, k \in 1 .. depth : j < k =>
        /\ stack[j].cause \in build.nest \/ build.unmask
        /\ stack[j].cause # "ECALL" /\ stack[k].cause # "ECALL" =>
              \/ stack[k].cause \in build.allow[stack[j].cause]
              \/ build.unmask /\ stack[k].cause = "MEI"
        /\ stack[k].src = stack[j].src /\ stack[k].cause = "MEI" /\ stack[j].cause = "MEI" =>
              ~build.vector /\ stack[j].pc \in {"close"}

(***************************************************************************)
(* The nesting counter is the number of external handlers in progress,     *)
(* although a handler can come between the load and the store of its       *)
(* increment and decrement (tlk_plic_is_in_isr relies on it).              *)
(***************************************************************************)
CounterExact ==
    counter = Cardinality({k \in 1 .. depth :
                 stack[k].cause = "MEI" /\
                 IF build.vector THEN stack[k].pc \in {"body", "close"}
                 ELSE stack[k].pc \in {"body", "dec", "dec2"}})
=============================================================================
