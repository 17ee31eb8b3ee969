----------------------------- MODULE MCPlatform -----------------------------
(***************************************************************************)
(* The parts around the system services that share nothing: the SoC flash  *)
(* driver, the sleep API on the machine timer, the power hooks with what   *)
(* hangs on them, the common helpers, the register helpers, and the        *)
(* bootloader port (the boot decision with the flash areas, the serial     *)
(* transports of the recovery, the codecs of its frames).  A behaviour is  *)
(* a behaviour of one of them; the others stay in their initial state.     *)
(***************************************************************************)
EXTENDS Integers, FiniteSets

CONSTANTS
    FLASH_SIZE, PAGE_SIZE, MAX_WRITE_BLOCK, BUSY_CNT_MAX, MaxLen, MaxCalls,  \* SocFlash; Power
    Half, MaxTime, MaxTicks, Nests,                                          \* SleepApi
    MaxSleeps, UART_FLOW, I2C_MODE, SPI_ROLE,                                \* Power
    Devices, UINTPTR, HEAP_START, HEAP_END, MaxSrc, MaxDst, Bytes,           \* Common
    WIDTH,                                                                   \* BitFields
    BOOTLOADER_SIZE, SLOT_SIZE, SCRATCH_SIZE, UINT32, MaxRequests, MaxUploads,\* Boot
    BUF_SIZE, STR_SIZE, MaxRx, MaxTx,                                        \* BootSerial
    ByteSet, CharSet, MaxData, MaxQuads                                      \* BootCodec

ASSUME FlashAssumption ==
    /\ FLASH_SIZE \in Nat /\ BUSY_CNT_MAX \in Nat /\ MaxLen \in Nat
    /\ PAGE_SIZE \in Nat \ {0} /\ MAX_WRITE_BLOCK \in Nat \ {0}
ASSUME SleepAssumption ==
    Half \in Nat \ {0} /\ MaxTime \in Nat /\ MaxTicks \in Nat
\* A word holds every address of the flash.
ASSUME BootAssumption ==
    /\ BOOTLOADER_SIZE \in Nat /\ SLOT_SIZE \in Nat /\ SCRATCH_SIZE \in Nat /\ UINT32 \in Nat
    /\ BOOTLOADER_SIZE + 2 * SLOT_SIZE + SCRATCH_SIZE < UINT32
ASSUME SerialAssumption == BUF_SIZE \in Nat /\ STR_SIZE \in Nat
\* The heap ends half of the addresses before their end: no increment wraps.
ASSUME HelpersAssumption ==
    /\ IsFiniteSet(Devices) /\ "storage_device" \notin Devices /\ "null" \notin Devices
    /\ HEAP_START \in Nat /\ HEAP_END \in Nat /\ HEAP_START <= HEAP_END
    /\ UINTPTR \in Nat /\ HEAP_END + UINTPTR \div 2 <= UINTPTR
    /\ MaxSrc \in Nat /\ MaxDst \in Nat \ {0} /\ Bytes \subseteq 0 .. 255

VARIABLES
    part,
    flash, hw, call, fpc, expected, calls,
    nest, mtime, cmp, mtie, mie, spc, hpc, tmp, current_time, ticks, began,
    phase, mode, todo, pmp, retention, given, rf, regs, inited, leds, irq_cb, sleeps, pcalls,
    next, prev, cursor, seen, stayed, heap_end, blocks, text,
    layout, reg, written,
    bpc, mailbox, key, by, areas, crypto, owed, reqs, uploads,
    transport, cpc, armed, rx_buf, rx_count, rx_pos, fifo, tx_done, tx_buf, src, wcnt, wire,
    got, out, ends, told,
    input

F == INSTANCE SocFlash
S == INSTANCE SleepApi
P == INSTANCE Power
G == INSTANCE Common
R == INSTANCE BitFields
B == INSTANCE Boot WITH flash <- areas
L == INSTANCE BootSerial
C == INSTANCE BootCodec

flash_vars == <<flash, hw, call, fpc, expected, calls>>
sleep_vars == <<nest, mtime, cmp, mtie, mie, spc, hpc, tmp, current_time, ticks, began>>
power_vars == <<phase, mode, todo, pmp, retention, given, rf, regs, inited, leds, irq_cb, sleeps, pcalls>>
common_vars == <<next, prev, cursor, seen, stayed, heap_end, blocks, text>>
field_vars == <<layout, reg, written>>
boot_vars == <<bpc, mailbox, key, by, areas, crypto, owed, reqs, uploads>>
serial_vars == <<transport, cpc, armed, rx_buf, rx_count, rx_pos, fifo, tx_done, tx_buf, src, wcnt,
                 wire, got, out, ends, told>>
vars == <<part, flash_vars, sleep_vars, power_vars, common_vars, field_vars, boot_vars, serial_vars, input>>

Parts == {"flash", "sleep", "power", "common", "fields", "boot", "serial", "codec"}

Init ==
    /\ part \in Parts
    /\ F!Init /\ S!Init /\ P!Init /\ G!Init /\ R!Init /\ B!Init /\ L!Init /\ C!Init
    /\ part # "fields" => (reg = 0 /\ <<0, 0>> \in layout)  \* one of them is enough

\* Only the part that was chosen takes steps.
others_rest ==
    /\ UNCHANGED part
    /\ part # "flash" => UNCHANGED flash_vars
    /\ part # "sleep" => UNCHANGED sleep_vars
    /\ part # "power" => UNCHANGED power_vars
    /\ part # "common" => UNCHANGED common_vars
    /\ part # "fields" => UNCHANGED field_vars
    /\ part # "boot" => UNCHANGED boot_vars
    /\ part # "serial" => UNCHANGED serial_vars
    /\ part # "codec" => UNCHANGED input

FlashStep == part = "flash" /\ F!Next /\ others_rest
SleepStep == part = "sleep" /\ S!Next /\ others_rest
PowerStep == part = "power" /\ P!Next /\ others_rest
CommonStep == part = "common" /\ G!Next /\ others_rest
FieldStep == part = "fields" /\ R!Next /\ others_rest
BootStep == part = "boot" /\ B!Next /\ others_rest
SerialStep == part = "serial" /\ L!Next /\ others_rest
CodecStep == part = "codec" /\ C!Next /\ others_rest

\* The serial console rests when the bounded bytes are through.
SerialRest == part = "serial" /\ ~ENABLED L!Next /\ UNCHANGED vars

Next ==
    \/ FlashStep \/ SleepStep \/ PowerStep \/ CommonStep
    \/ FieldStep \/ BootStep \/ SerialStep \/ CodecStep \/ SerialRest

\* The fairness of SleepApi; the other parts have none.
Spec == /\ Init /\ [][Next]_vars
        /\ WF_vars(part = "sleep" /\ S!Tick /\ others_rest)
        /\ WF_vars(part = "sleep" /\ S!Main /\ others_rest)
        /\ WF_vars(part = "sleep" /\ S!Handler /\ others_rest)

-----------------------------------------------------------------------------
(* The flash driver masks interrupts for as long as the flash delivers no  *)
(* instructions: SocFlash!CodeCanRun.                                      *)
CodeCanRun == F!CodeCanRun

(* Every call of the flash driver leaves what the storage layer counts on: *)
(* SocFlash!DeviceContract.                                                *)
DeviceContract == F!DeviceContract

(* tlk_api_sleep never returns early: SleepApi!NotEarly.                   *)
NotEarly == S!NotEarly

(* tlk_api_sleep returns: SleepApi!SleepReturns.                           *)
SleepReturns == S!SleepReturns

(* The PMP protects what was asked, over any sleep: Power!Protected.       *)
Protected == P!Protected

(* The start-up hooks run in an order that suits them (Power!BootOrder),   *)
(* and after any sleep the program meets what it left (Power!Restored).    *)
Restored == P!Restored /\ P!BootOrder

(* A walk over the devices sees each that stays (Common!WalkSeesAll), heap *)
(* and texts stay inside (Common!BlocksApart, Common!TextFits).            *)
HelpersHold == G!WalkSeesAll /\ G!BlocksApart /\ G!TextFits

(* A recovery request is served once, wherever resets fall: Boot!OneShot.  *)
OneShot == B!OneShot

(* No upload reaches the bootloader: Boot!BootloaderIntact.                *)
BootloaderIntact == B!BootloaderIntact

(* The console gets the bytes received (BootSerial!LinesWhole) and the     *)
(* host the bytes written (BootSerial!WritesWhole).                        *)
SerialWhole == L!LinesWhole /\ L!WritesWhole

(* What is encoded is read back.  Frames survive the way there and back    *)
(* and what is decoded fits (BootCodec!FrameRoundTrip,                     *)
(* BootCodec!DecodeFits); a field of a register reads as what was put into *)
(* it, whatever is put into the others (BitFields!FieldsApart).            *)
ReadBack ==
    /\ C!FrameRoundTrip /\ C!DecodeFits
    /\ part = "fields" => R!FieldsApart
=============================================================================
