------------------------------ MODULE TrapApps ------------------------------
(***************************************************************************)
(* Programs that run on the hart of Traps, one per behaviour:              *)
(*   sw, mtimer, plic  samples/irq_demo, started from one of its three     *)
(*          interrupts: every handler pends the others while it runs;      *)
(*   umode  samples/umode_demo: a task in user mode, an ecall, and the     *)
(*          return in user or in machine mode, under device interrupts;    *)
(*   wfi    a sleep between tlk_plic_preprocess_irqs_for_wfi() and         *)
(*          tlk_plic_postprocess_irqs_for_wfi().                           *)
(* What the samples print is left out.                                     *)
(***************************************************************************)
EXTENDS Traps

CONSTANTS
    LOW, HIGH,       \* TLK_SAMPLE_PLIC_SRC_LOW, TLK_SAMPLE_PLIC_SRC_HIGH
    Apps,            \* the programs considered
    MaxRequests,     \* bound: requests by devices
    MaxClaims        \* (UNISDK_PLIC_IRQ_COUNT - 1) * 2

ASSUME SourcesAssumption == LOW \in Ext /\ HIGH \in Ext /\ LOW # HIGH
ASSUME NamesAssumption == Ext \cap {SW, "MTI", "first", "clear", "enable", "mmode"} = {}
ASSUME AppsAssumption == Apps \subseteq {"sw", "mtimer", "plic", "umode", "wfi"}

VARIABLES
    app, pc,         \* the program and where it stands
    processed,       \* irq_demo: the handlers that have cascaded
    requests,        \* requests by devices so far
    mmode_asked,     \* umode_demo: tlk_core_enable_mmode() was called
    wfi              \* the tlk_g_ variables of tlk_plic.c, what was enabled
                     \* before the sleep, and the claims of the clearing loop

vars == <<build, hart, plic, mtip, stack, counter, app, pc, processed, requests, mmode_asked, wfi>>
trap_vars == <<build, hart, plic, mtip, stack, counter>>
app_vars == <<app, pc, processed, requests, mmode_asked, wfi>>

TypeOK ==
    /\ build \in Builds
    /\ mode \in {"U", "M"} /\ mie \subseteq Class
    /\ mstatus \in [MIE : BOOLEAN, MPIE : BOOLEAN, MPP : {"U", "M"}]
    /\ mepc \in [frame : 0 .. depth, at : {"next", "ecall"}]
    /\ pending \subseteq Ext \cup {SW} /\ claimed \subseteq Ext \cup {SW}
    /\ irq_en \subseteq Ext \cup {SW}
    /\ mtip \in BOOLEAN /\ counter \in Nat
    /\ \A k \in 1 .. depth : stack[k] \in Frame
    /\ app \in Apps /\ processed \subseteq Ext /\ mmode_asked \in BOOLEAN
    /\ requests \in 0 .. MaxRequests
    /\ wfi.claims \in 0 .. MaxClaims + 1

Irq_demo == app \in {"sw", "mtimer", "plic"}

Init ==
    /\ build \in Builds
    /\ app \in Apps
    /\ app # "umode" => "ECALL" \notin build.nest /\ ~build.mmode
    /\ app # "plic" => ~build.preempt
    /\ build.unmask => app \in {"sw", "mtimer"}
    /\ mode = "M" /\ mie = {} /\ irq_en = {}
    /\ mstatus = [MIE |-> FALSE, MPIE |-> FALSE, MPP |-> "M"]
    /\ mepc = [frame |-> 0, at |-> "next"]
    /\ pending = {} /\ claimed = {}
    /\ mtip = FALSE /\ stack = <<>> /\ counter = 0
    /\ pc = "main" /\ processed = {} /\ requests = 0 /\ mmode_asked = FALSE
    /\ wfi = [irq_src |-> {}, mie |-> {}, mstatus |-> FALSE, disable_int |-> FALSE,
              before |-> <<>>, claims |-> 0]

main_at(p) == depth = 0 /\ pc = p

-----------------------------------------------------------------------------
(* irq_demo *)

\* Pend a source: an external one, PLIC_SW, or the timer by its compare register.
pend(s) ==
    IF s = "MTI" THEN mtip' = TRUE /\ UNCHANGED <<pending, claimed, irq_en>>
    ELSE set_pending(s) /\ UNCHANGED <<claimed, irq_en, mtip>>

\* main() up to "Demo starting".
IrqDemoSetup ==
    /\ Irq_demo /\ main_at("main")
    /\ irq_en' = Ext \cup {SW}
    /\ mie' = Class
    /\ mstatus' = [mstatus EXCEPT !.MIE = TRUE]
    /\ pc' = "start"
    /\ UNCHANGED <<build, mode, mepc, pending, claimed, mtip, stack, counter, app, processed,
                   requests, mmode_asked, wfi>>

IrqDemoStart ==
    /\ Irq_demo /\ main_at("start")
    /\ pend(CASE app = "sw" -> SW [] app = "mtimer" -> "MTI" [] app = "plic" -> LOW)
    /\ pc' = "done"
    /\ UNCHANGED <<build, hart, stack, counter, app, processed, requests, mmode_asked, wfi>>

\* What the callback of the handler on top does, in order.
cascade ==
    CASE top.cause = "MSI" -> IF app = "sw" THEN <<"MTI", LOW, HIGH>> ELSE <<>>
      [] top.cause = "MTI" -> (IF app = "mtimer" THEN <<SW, LOW, HIGH>> ELSE <<>>) \o <<"clear">>
      [] top.cause = "MEI" /\ app = "plic" /\ top.src \in {LOW, HIGH} ->
            <<"first", SW, "MTI", IF top.src = LOW THEN HIGH ELSE LOW>>
      [] OTHER -> <<>>

-----------------------------------------------------------------------------
(* umode_demo *)

UmodeSetup ==
    /\ app = "umode" /\ main_at("main")
    /\ interrupt_enable
    /\ irq_en' = {LOW}                 \* the UART driver's interrupt
    /\ pc' = "umode"
    /\ UNCHANGED <<build, mode, mepc, pending, claimed, mtip, stack, counter, app, processed,
                   requests, mmode_asked, wfi>>

UmodeEnter ==
    /\ app = "umode" /\ main_at("umode")
    /\ enable_umode
    /\ pc' = "user"
    /\ UNCHANGED <<build, plic, mtip, stack, counter, app, processed, requests, mmode_asked, wfi>>

\* user_task() has returned; task_handler() executes the ecall.
TaskHandler ==
    /\ app = "umode" /\ main_at("user")
    /\ enter_trap("ECALL", SW, "ecall")
    /\ pc' = "after"
    /\ UNCHANGED <<build, plic, mtip, counter, app, processed, requests, mmode_asked, wfi>>

\* Reading mstatus in user mode is an illegal instruction: tlk_exception_handle()
\* spins for ever.
UmodeCheck ==
    /\ app = "umode" /\ main_at("after")
    /\ pc' = IF mode = "M" THEN "done" ELSE "halt"
    /\ UNCHANGED <<trap_vars, app, processed, requests, mmode_asked, wfi>>

\* What ecall_handler() does after it served the request.
ecall_handler == IF build.mmode THEN <<"mmode">> ELSE <<>>

-----------------------------------------------------------------------------
(* Callbacks: one operation per step. *)

\* With build.unmask an interrupt callback also submits work, which ends by
\* enabling interrupts.
script == IF top.cause = "ECALL" THEN ecall_handler
          ELSE cascade \o (IF build.unmask THEN <<"enable">> ELSE <<>>)

CallbackStep ==
    LET op == script[top.i]
    IN  /\ at("body") /\ top.i <= Len(script)
        /\ set_top([top EXCEPT !.i = IF op = "first" /\ top.src \in processed THEN 5 ELSE @ + 1])
        /\ processed' = IF op = "first" THEN processed \cup {top.src} ELSE processed
        /\ mmode_asked' = (mmode_asked \/ op = "mmode")
        /\ CASE op = "mmode"  -> enable_mmode /\ UNCHANGED <<mode, mie, mepc, plic, mtip>>
             [] op = "enable" -> interrupt_enable /\ UNCHANGED <<mode, mepc, plic, mtip>>
             [] op = "clear"  -> mtip' = FALSE /\ UNCHANGED <<hart, plic>>
             [] op = "first"  -> UNCHANGED <<hart, plic, mtip>>
             [] OTHER         -> pend(op) /\ UNCHANGED hart
        /\ UNCHANGED <<build, counter, app, pc, requests, wfi>>

CallbackEnd ==
    /\ at("body") /\ top.i > Len(script)
    /\ callback_return
    /\ UNCHANGED <<build, app_vars>>

-----------------------------------------------------------------------------
(* wfi *)

enabled_now == [irq_en |-> irq_en, mie |-> mie, MIE |-> mstatus.MIE]

WfiSetup ==
    /\ app = "wfi" /\ main_at("main")
    /\ irq_en' = Ext \cup {SW}
    /\ mie' = Class
    /\ \E on \in BOOLEAN : mstatus' = [mstatus EXCEPT !.MIE = on]
    /\ pc' = "pre"
    /\ UNCHANGED <<build, mode, mepc, pending, claimed, mtip, stack, counter, app, processed,
                   requests, mmode_asked, wfi>>

\* Planted fault: the enabled sources are saved after they are cleared.
Bug_save_and_disable_all == irq_en' = {} /\ wfi' = [wfi EXCEPT !.irq_src = irq_en']
save_and_disable_all == irq_en' = {} /\ wfi' = [wfi EXCEPT !.irq_src = irq_en]

\* With the flag, global interrupts are disabled first.
PreprocessFlag ==
    /\ app = "wfi" /\ main_at("pre")
    /\ \E flag \in BOOLEAN :
          /\ wfi' = [wfi EXCEPT !.disable_int = flag, !.before = enabled_now,
                                !.mstatus = IF flag THEN mstatus.MIE ELSE @]
          /\ mstatus' = [mstatus EXCEPT !.MIE = @ /\ ~flag]
    /\ pc' = "save"
    /\ UNCHANGED <<build, mode, mie, mepc, plic, mtip, stack, counter, app, processed, requests,
                   mmode_asked>>

PreprocessSave ==
    /\ app = "wfi" /\ main_at("save")
    /\ save_and_disable_all
    /\ pc' = "mie"
    /\ UNCHANGED <<build, hart, pending, claimed, mtip, stack, counter, app, processed, requests,
                   mmode_asked>>

\* tlk_core_mie_disable(), tlk_core_mie_enable(mie) and the program's enabling
\* of its wake-up source in the PLIC.
PreprocessMie ==
    /\ app = "wfi" /\ main_at("mie")
    /\ wfi' = [wfi EXCEPT !.mie = mie]
    /\ mie' = {"MEI"}
    /\ irq_en' = irq_en \cup {LOW}
    /\ pc' = "wfi"
    /\ UNCHANGED <<build, mode, mstatus, mepc, pending, claimed, mtip, stack, counter, app,
                   processed, requests, mmode_asked>>

after_wfi == IF wfi.disable_int THEN "clear" ELSE "restore"

\* A source enabled in mie ends the sleep whatever mstatus.MIE is; an interrupt
\* that is taken ends it too (Interrupts).
WfiWake ==
    /\ app = "wfi" /\ main_at("wfi")
    /\ \E c \in mie : requested(c)
    /\ pc' = after_wfi
    /\ UNCHANGED <<trap_vars, app, processed, requests, mmode_asked, wfi>>

clear_one(s) == pending' = pending \ {s} /\ UNCHANGED claimed

\* tlk_plic_clr_all_request(): claim and complete until nothing is left, at
\* most MaxClaims + 1 times.
ClearRequests ==
    /\ app = "wfi" /\ main_at("clear")
    /\ IF \E s \in Ext : best(s)
       THEN /\ \E s \in Ext : best(s) /\ clear_one(s)
            /\ wfi' = [wfi EXCEPT !.claims = @ + 1]
            /\ pc' = IF wfi.claims + 1 <= MaxClaims THEN pc ELSE "restore"
       ELSE pc' = "restore" /\ UNCHANGED <<pending, claimed, wfi>>
    /\ UNCHANGED <<build, hart, irq_en, mtip, stack, counter, app, processed, requests, mmode_asked>>

\* tlk_plic_interrupt_restore_all() and tlk_core_mie_restore().
PostprocessRestore ==
    /\ app = "wfi" /\ main_at("restore")
    /\ irq_en' = wfi.irq_src
    /\ mie' = wfi.mie
    /\ pc' = "post"
    /\ UNCHANGED <<build, mode, mstatus, mepc, pending, claimed, mtip, stack, counter, app,
                   processed, requests, mmode_asked, wfi>>

Postprocess ==
    /\ app = "wfi" /\ main_at("post")
    /\ mstatus' = [mstatus EXCEPT !.MIE = IF wfi.disable_int THEN @ \/ wfi.mstatus ELSE @]
    /\ pc' = "done"
    /\ UNCHANGED <<build, mode, mie, mepc, plic, mtip, stack, counter, app, processed, requests,
                   mmode_asked, wfi>>

-----------------------------------------------------------------------------
\* A device asks for service.
DeviceRequest ==
    /\ app \in {"umode", "wfi"} /\ requests < MaxRequests
    /\ \E s \in Ext : set_pending(s)
    /\ requests' = requests + 1
    /\ UNCHANGED <<build, hart, claimed, irq_en, mtip, stack, counter, app, pc, processed,
                   mmode_asked, wfi>>

\* The end of main(), the loop of tlk_exception_handle(), or a sleep nothing ends.
Idle ==
    /\ depth = 0 /\ pc \in {"done", "halt", "wfi"}
    /\ UNCHANGED vars

Main ==
    IrqDemoSetup \/ IrqDemoStart
    \/ UmodeSetup \/ UmodeEnter \/ TaskHandler \/ UmodeCheck
    \/ WfiSetup \/ PreprocessFlag \/ PreprocessSave \/ PreprocessMie \/ WfiWake \/ ClearRequests
    \/ PostprocessRestore \/ Postprocess

Hart ==
    \/ Handler /\ UNCHANGED app_vars
    \/ CallbackStep \/ CallbackEnd
    \/ Main

\* An interrupt is taken between any two steps.
Interrupts ==
    /\ \E c \in Class : Interrupt(c)
    /\ pc' = IF main_at("wfi") THEN after_wfi ELSE pc
    /\ UNCHANGED <<app, processed, requests, mmode_asked, wfi>>

Next == Hart \/ Interrupts \/ DeviceRequest \/ Idle

(***************************************************************************)
(* The hart keeps executing and takes the interrupts it accepts.           *)
(***************************************************************************)
Spec == Init /\ [][Next]_vars /\ WF_vars(Hart) /\ WF_vars(Interrupts)

-----------------------------------------------------------------------------
(***************************************************************************)
(* Every request that reaches the controllers while its source is enabled  *)
(* is taken up in the end, and every handler returns: the cascades of      *)
(* irq_demo end, no handler leaves interrupts masked, a source claimed but *)
(* never completed would block its class (tlk_plic_interrupt_complete).    *)
(* A program stopped in tlk_exception_handle is excepted, and one that     *)
(* went to sleep with interrupts disabled serves none.                     *)
(***************************************************************************)
AllServed ==
    (app # "wfi") ~> (depth = 0 /\ ~mtip /\ (pending \cap irq_en) \cup claimed = {})

(***************************************************************************)
(* After the sleep the enabled sources, mie and the global enable are what *)
(* they were before tlk_plic_preprocess_irqs_for_wfi, whatever handler ran *)
(* in between, and nothing was left claimed.                               *)
(***************************************************************************)
WfiRestored ==
    app = "wfi" /\ pc = "done" /\ depth = 0 => enabled_now = wfi.before /\ claimed = {}

(***************************************************************************)
(* "Sets MPP = M-mode (0b11) in mstatus so that the next mret transitions  *)
(* to M-mode": a program whose ecall callback called tlk_core_enable_mmode *)
(* continues in machine mode.                                              *)
(***************************************************************************)
ModeHonoured == pc = "after" /\ depth = 0 => (mode = "M" <=> mmode_asked)
=============================================================================
