------------------------------ MODULE SocFlash ------------------------------
(***************************************************************************)
(* The SoC flash driver (soc_flash.c) on its NOR device, the device the    *)
(* storage module of this project takes for granted.  The processor        *)
(* executes from the same flash (XIP), so the driver runs from RAM with    *)
(* interrupts masked and XIP stopped from before the first command to      *)
(* after the last status poll.                                             *)
(*                                                                         *)
(* The device is external: it takes a program or erase command only when   *)
(* it is idle and its write-enable latch is set, is busy for at most       *)
(* MaxBusy status reads, programs by clearing bits, and wraps at the end   *)
(* of a program block.  A cell is one bit.                                 *)
(***************************************************************************)
EXTENDS Integers, Sequences

CONSTANTS
    FLASH_SIZE,        \* SOC_FLASH_SIZE
    PAGE_SIZE,         \* SOC_FLASH_PAGE_SIZE
    MAX_WRITE_BLOCK,   \* SOC_FLASH_MAX_WRITE_BLOCK
    BUSY_CNT_MAX,      \* SOC_FLASH_BUSY_CNT_MAX
    MaxLen,            \* bound: the longest access
    MaxCalls           \* bound: calls

MaxBusy == BUSY_CNT_MAX - 1
Addr == 0 .. FLASH_SIZE - 1

VARIABLES
    flash,     \* the device: cells, write-enable latch, operation in progress
    hw,        \* interrupts enabled, XIP enabled, cipher control, branch prediction
    call,      \* the call in progress: arguments, what is left, saved hardware state
    fpc,       \* where the driver stands
    expected,  \* ghost: what the cells must be when the call returns
    calls

fvars == <<flash, hw, call, fpc, expected, calls>>

Idle == [op |-> "none"]
NoCall == [op |-> "none"]

Init ==
    /\ flash = [mem |-> [a \in Addr |-> 1], wel |-> FALSE, busy |-> Idle, polls |-> 0]
    /\ hw = [irq |-> TRUE, xip |-> TRUE, cipher |-> 1, brpe |-> TRUE]
    /\ call = NoCall
    /\ fpc = "idle"
    /\ expected = flash.mem
    /\ calls = 0

-----------------------------------------------------------------------------
(* The device. *)

programmed(mem, a, data) ==
    [x \in Addr |->
        LET base == a - (a % MAX_WRITE_BLOCK)
            i    == ((x - a) % MAX_WRITE_BLOCK) + 1
        IN  IF x \in base .. base + MAX_WRITE_BLOCK - 1 /\ i <= Len(data)
            THEN mem[x] * data[i] ELSE mem[x]]

erased(mem, a) ==
    [x \in Addr |-> IF x \div PAGE_SIZE = a \div PAGE_SIZE THEN 1 ELSE mem[x]]

\* The device ends its operation between any two steps of the driver.
DeviceDone ==
    /\ flash.busy # Idle
    /\ flash' = [flash EXCEPT
          !.busy = Idle, !.wel = FALSE,
          !.mem = IF flash.busy.op = "program"
                  THEN programmed(@, flash.busy.addr, flash.busy.data)
                  ELSE erased(@, flash.busy.addr)]
    /\ UNCHANGED <<hw, call, fpc, expected, calls>>

-----------------------------------------------------------------------------
(* The driver. *)

Call ==
    /\ fpc = "idle" /\ calls < MaxCalls
    /\ \E op \in {"read", "erase", "program"}, a \in Addr, len \in 0 .. MaxLen, v \in {0, 1} :
          /\ a + len <= FLASH_SIZE
          /\ op = "erase" => a % PAGE_SIZE = 0 /\ len = 0
          /\ op # "program" => v = 0
          /\ call' = [op |-> op, addr |-> a, buf |-> [i \in 1 .. len |-> (i + v) % 2], got |-> <<>>,
                      brpe |-> FALSE, r |-> FALSE, cipher |-> 0]
          /\ expected' =
                CASE op = "read" -> flash.mem
                  [] op = "erase" -> erased(flash.mem, a)
                  [] op = "program" ->
                        [x \in Addr |-> IF x \in a .. a + len - 1
                                        THEN flash.mem[x] * call'.buf[x - a + 1] ELSE flash.mem[x]]
          /\ fpc' = IF op = "program" /\ len = 0 THEN "return" ELSE "begin"
    /\ calls' = calls + 1
    /\ UNCHANGED <<flash, hw>>

\* tlk_storage_flash_clear_and_get_brpe(), tlk_core_interrupt_disable(),
\* tlk_mspi_stop_xip() and the cipher control saved and switched off.
Begin ==
    /\ fpc = "begin"
    /\ call' = [call EXCEPT !.brpe = hw.brpe, !.r = hw.irq, !.cipher = hw.cipher]
    /\ hw' = [irq |-> FALSE, xip |-> FALSE, cipher |-> 0, brpe |-> FALSE]
    /\ fpc' = IF call.op = "read" THEN "read" ELSE "enable"
    /\ UNCHANGED <<flash, expected, calls>>

\* Planted fault: the block is cut at a multiple of its length, not of the address.
Bug_wr_len(addr, len) == IF len < MAX_WRITE_BLOCK THEN len ELSE MAX_WRITE_BLOCK
wr_len(addr, len) ==
    LET room == MAX_WRITE_BLOCK - (addr % MAX_WRITE_BLOCK)
    IN  IF len < room THEN len ELSE room

block == SubSeq(call.buf, 1, wr_len(call.addr, Len(call.buf)))

\* A busy device answers nothing but its status.
SendWriteEnable ==
    /\ fpc = "enable"
    /\ flash' = [flash EXCEPT !.wel = @ \/ flash.busy = Idle]
    /\ fpc' = "command"
    /\ UNCHANGED <<hw, call, expected, calls>>

SendCommand ==
    /\ fpc = "command"
    /\ flash' = IF flash.wel /\ flash.busy = Idle
                THEN [flash EXCEPT !.polls = 0,
                         !.busy = [op |-> call.op, addr |-> call.addr, data |-> block]]
                ELSE flash
    /\ fpc' = "wait"
    /\ UNCHANGED <<hw, call, expected, calls>>

\* Planted fault: the poll gives up at the first busy answer.
Bug_poll_again(i) == FALSE
poll_again(i) == i < BUSY_CNT_MAX

\* tlk_storage_flash_wait_done(): at most BUSY_CNT_MAX status reads; the caller
\* is not told when the device was still busy at the last one.
WaitDone ==
    /\ fpc = "wait"
    /\ IF flash.busy = Idle
       THEN fpc' = "end" /\ UNCHANGED flash
       ELSE /\ flash.polls < MaxBusy
            /\ flash' = [flash EXCEPT !.polls = @ + 1]
            /\ fpc' = IF poll_again(flash.polls + 1) THEN "wait" ELSE "end"
    /\ UNCHANGED <<hw, call, expected, calls>>

\* What a busy device answers to a read is no data.
Read ==
    /\ fpc = "read"
    /\ call' = [call EXCEPT !.got =
                   IF flash.busy = Idle
                   THEN [i \in 1 .. Len(call.buf) |-> flash.mem[call.addr + i - 1]] ELSE <<"busy">>]
    /\ fpc' = "end"
    /\ UNCHANGED <<flash, hw, expected, calls>>

\* The cipher control, XIP, interrupts and branch prediction as they were.
restored == [irq |-> call.r, xip |-> TRUE, cipher |-> call.cipher, brpe |-> call.brpe]

End ==
    /\ fpc = "end"
    /\ hw' = restored
    /\ IF call.op = "program"
       THEN LET n == Len(block)
            IN  /\ call' = [call EXCEPT !.addr = @ + n, !.buf = SubSeq(@, n + 1, Len(@))]
                /\ fpc' = IF Len(call.buf) = n THEN "return" ELSE "begin"
       ELSE fpc' = "return" /\ UNCHANGED call
    /\ UNCHANGED <<flash, expected, calls>>

Return ==
    /\ fpc = "return"
    /\ fpc' = "idle"
    /\ call' = NoCall
    /\ UNCHANGED <<flash, hw, expected, calls>>

Rest == fpc = "idle" /\ calls = MaxCalls /\ UNCHANGED fvars

Next == DeviceDone \/ Call \/ Begin \/ SendWriteEnable \/ SendCommand \/ WaitDone \/ Read
        \/ End \/ Return \/ Rest

-----------------------------------------------------------------------------
(***************************************************************************)
(* Whenever interrupts are enabled the flash can deliver instructions: XIP *)
(* is on and the device is not busy, so a handler placed in flash can run  *)
(* (tlk_storage_flash_mspi_write_ram and its status poll).                 *)
(***************************************************************************)
CodeCanRun == hw.irq => hw.xip /\ flash.busy = Idle

(***************************************************************************)
(* When a call returns the cells are what the storage layer counts on:     *)
(* programming ANDed every byte in place although the device wraps at      *)
(* block ends, an erase cleaned one page and no other, a read returned     *)
(* what the cells hold, and the hardware is as it was before the call.     *)
(***************************************************************************)
DeviceContract ==
    fpc = "return" =>
        /\ flash.mem = expected
        /\ call.op = "read" => call.got = [i \in 1 .. Len(call.buf) |-> expected[call.addr + i - 1]]
        /\ hw = [irq |-> TRUE, xip |-> TRUE, cipher |-> 1, brpe |-> TRUE]
=============================================================================
