------------------------------- MODULE MCDemos -------------------------------
(***************************************************************************)
(* The programs that use the drivers: radio, audio, USB, UART, DMA, I2C    *)
(* and SPI, BLE, the samples that report a test, and the immediate logger. *)
(* A behaviour is a behaviour of one of them; the others stay in one       *)
(* initial state.                                                          *)
(***************************************************************************)
EXTENDS Integers

CONSTANTS
    UINT8, MaxPings,                                          \* RfDemo; Samples
    BUFFER_COUNT, COUNTER, MaxOver, MaxPresses, MaxBlocks,    \* AudioDemo
    DESC_LEN, MAX_SPINS, FIFO, MaxBytes, MaxPrints,           \* UsbCdc
    RX_SIZE, MaxReceptions,                                   \* UartDemo
    CHN_COUNT, TRANSFER_SIZE,                                 \* DmaDemo
    BUFFER_SIZE, Times,                                       \* BusDemo
    MAX_COUNT, Handles, MaxDue,                               \* BleHost
    CELLS, WINDOW, PAUSE, MaxBoots,                           \* Samples
    LOG_LEVEL, Levels, ROW, LOG_SIZE, MaxLines,               \* LogLine
    SAMPLE_RATE, N_CHANNELS, HostData                         \* AudioControls

VARIABLES
    part,
    build, tpc, rpc, radio, payload, tune, late, pings, sent_packets, success_packets,
    prog, state, rx_index, tx_index, dma, buffer, storage, heard, record, presses, made,
    upc, usb, msg, total_written, spins, accepted, wire, desc, sent, prints,
    uprog, script, tx_done, rx_count, rx_done, tx, rx, data, receptions, answered,
    dbuild, channels, demo_chn, plan, xfer, dst, dma_complete, dma_abort,
    bus, bpc, rx_buffer, s_rx, s_tx, led, read_ok, chip, shown,
    table, count, advertising, links, due,
    sample, mpc, mem, copy, done, torn, key, tests_ok, failed, left, ticks, led1, reason, boots,
    lpc, left_lines, log_buffer, tlk_tx_done, uart, lines,
    device, mute_state, volume_cur, request, answer, setting

R == INSTANCE RfDemo
A == INSTANCE AudioDemo
U == INSTANCE UsbCdc
T == INSTANCE UartDemo
D == INSTANCE DmaDemo
B == INSTANCE BusDemo
H == INSTANCE BleHost
S == INSTANCE Samples
L == INSTANCE LogLine
C == INSTANCE AudioControls

ASSUME RfAssumption == UINT8 \in Nat /\ MaxPings \in Nat /\ MaxPings < UINT8
ASSUME AudioAssumption == BUFFER_COUNT \in Nat \ {0} /\ COUNTER \in Nat \ {0} /\ COUNTER % 2 = 0
ASSUME UsbAssumption == DESC_LEN \in Nat \ {0} /\ FIFO \in Nat /\ MaxBytes \in Nat
ASSUME UartAssumption == RX_SIZE \in Nat
ASSUME DmaAssumption == TRANSFER_SIZE \in Nat \ {0}
ASSUME BleAssumption == MAX_COUNT \in Nat /\ H!INVALID \notin Handles

ASSUME BusAssumption == BUFFER_SIZE \in Nat
\* A time of the clock in BusDemo: sec, min, hour, day, date, month, year; the
\* registers hold two digits of each, and the chip has one century.
ASSUME TimesAssumption ==
    /\ Times \subseteq [1 .. 7 -> Nat]
    /\ \A t \in Times :
        /\ \A i \in 1 .. 6 : t[i] < 60
        /\ t[3] < 24
        /\ t[7] \in 2000 .. 2099
\* The window of wdt_demo is longer than its delays: 5 and 2 seconds.
ASSUME SamplesAssumption == CELLS \in Nat /\ WINDOW \in Nat /\ PAUSE \in Nat /\ PAUSE < WINDOW
ASSUME ControlAssumption == HostData \subseteq [1 .. 2 -> 0 .. 255]

ClockTimes == {<<0, 30, 10, 0, 12, 5, 2026>>, <<59, 59, 23, 7, 31, 12, 2099>>, <<9, 10, 0, 1, 1, 1, 2000>>}

\* What a host sets: volumes at and beside the limits, and the extremes of the field.
ControlData == {<<0, 0>>, <<0, 255>>, <<0, 166>>, <<1, 0>>, <<255, 127>>, <<0, 128>>}

rf_vars == <<build, tpc, rpc, radio, payload, tune, late, pings, sent_packets, success_packets>>
audio_vars == <<prog, state, rx_index, tx_index, dma, buffer, storage, heard, record, presses, made>>
usb_vars == <<upc, usb, msg, total_written, spins, accepted, wire, desc, sent, prints>>
uart_vars == <<uprog, script, tx_done, rx_count, rx_done, tx, rx, data, receptions, answered>>
dma_vars == <<dbuild, channels, demo_chn, plan, xfer, dst, dma_complete, dma_abort>>
bus_vars == <<bus, bpc, rx_buffer, s_rx, s_tx, led, read_ok, chip, shown>>
ble_vars == <<table, count, advertising, links, due>>
sample_vars == <<sample, mpc, mem, copy, done, torn, key, tests_ok, failed, left, ticks, led1, reason, boots>>
log_vars == <<lpc, left_lines, log_buffer, tlk_tx_done, uart, lines>>
control_vars == <<device, mute_state, volume_cur, request, answer, setting>>
vars == <<part, rf_vars, audio_vars, usb_vars, uart_vars, dma_vars, bus_vars, ble_vars, sample_vars, log_vars, control_vars>>

Parts == {"rf", "audio", "usb", "uart", "dma", "bus", "ble", "sample", "log", "control"}

Init ==
    /\ part \in Parts
    /\ R!Init /\ A!Init /\ U!Init /\ T!Init /\ D!Init /\ B!Init /\ H!Init /\ S!Init /\ L!Init /\ C!Init
    /\ part # "rf" => build = [exchange |-> "single", hops |-> FALSE]
    /\ part # "audio" => prog = "demo"
    /\ part # "uart" => uprog = "c"
    /\ part # "dma" => channels = {} /\ dbuild = [interrupt |-> TRUE, prevent |-> FALSE]
    /\ part # "bus" => bus = "spi"
    /\ (part # "bus" \/ bus # "rtc") => chip.time[1] = 0
    /\ part # "sample" => sample = "nv"
    /\ part # "control" => device = "mic"

\* Only the part that was chosen takes steps.
others_rest ==
    /\ UNCHANGED part
    /\ part # "rf" => UNCHANGED rf_vars
    /\ part # "audio" => UNCHANGED audio_vars
    /\ part # "usb" => UNCHANGED usb_vars
    /\ part # "uart" => UNCHANGED uart_vars
    /\ part # "dma" => UNCHANGED dma_vars
    /\ part # "bus" => UNCHANGED bus_vars
    /\ part # "ble" => UNCHANGED ble_vars
    /\ part # "sample" => UNCHANGED sample_vars
    /\ part # "log" => UNCHANGED log_vars
    /\ part # "control" => UNCHANGED control_vars

RfStep == part = "rf" /\ R!Next /\ others_rest
AudioStep == part = "audio" /\ A!Next /\ others_rest
UsbStep == part = "usb" /\ U!Next /\ others_rest
UartStep == part = "uart" /\ T!Next /\ others_rest
DmaStep == part = "dma" /\ D!Next /\ others_rest
BusStep == part = "bus" /\ B!Next /\ others_rest
BleStep == part = "ble" /\ H!Next /\ others_rest
SampleStep == part = "sample" /\ S!Next /\ others_rest
LogStep == part = "log" /\ L!Next /\ others_rest
ControlStep == part = "control" /\ C!Next /\ others_rest
Next ==
    \/ RfStep \/ AudioStep \/ UsbStep \/ UartStep \/ DmaStep
    \/ BusStep \/ BleStep \/ SampleStep \/ LogStep \/ ControlStep

\* The fairness of the modules.
Spec ==
    /\ Init /\ [][Next]_vars
    /\ WF_vars(part = "rf" /\ R!Transmitter /\ others_rest)
    /\ WF_vars(part = "rf" /\ R!Receiver /\ others_rest)
    /\ WF_vars(part = "rf" /\ R!TimePasses /\ others_rest)
    /\ \A n \in {"transmitter", "receiver"} :
          /\ WF_vars(part = "rf" /\ R!RadioSends(n) /\ others_rest)
          /\ WF_vars(part = "rf" /\ R!RadioTimeout(n) /\ others_rest)
    /\ WF_vars(part = "audio" /\ A!Main /\ others_rest)
    /\ WF_vars(part = "audio" /\ A!TxDone /\ others_rest)
    /\ WF_vars(part = "audio" /\ A!RxDone /\ others_rest)
    /\ WF_vars(part = "usb" /\ U!Logger /\ others_rest)
    /\ WF_vars(part = "log" /\ L!Logger /\ others_rest)
    /\ WF_vars(part = "log" /\ L!UartByte /\ others_rest)

-----------------------------------------------------------------------------
(* A counted success is the answer to its ping: RfDemo!SuccessIsEcho.      *)
SuccessIsEcho == R!SuccessIsEcho

(* The transmitter always comes round: RfDemo!TransmitterGoesOn.           *)
TransmitterGoesOn == R!TransmitterGoesOn

(* Audio leaves as it came in: AudioDemo!StreamInOrder.                    *)
StreamInOrder == A!StreamInOrder

(* Recording and playback end: AudioDemo!EndsByItself.                     *)
EndsByItself == A!EndsByItself

(* The host gets what was accepted: UsbCdc!HostGetsAccepted.               *)
HostGetsAccepted == U!HostGetsAccepted

(* A blocking print returns, over USB (UsbCdc!PrintReturns) and over the   *)
(* UART (LogLine!CallReturns).                                             *)
PrintReturns == U!PrintReturns /\ L!CallReturns

(* Each reception is answered once, whole: UartDemo!AnswersReceptions.     *)
AnswersReceptions == T!AnswersReceptions

(* A dump shows the transfer it is about: DmaDemo!DumpsComplete.           *)
DumpsComplete == D!DumpsComplete

(* What the programs report is so: BusDemo!ReportsTrue,                    *)
(* Samples!SamplesShow and AudioControls!AnswersMatch.                     *)
ReportsTrue == B!ReportsTrue /\ S!SamplesShow /\ C!AnswersMatch

(* The table of connections is that of the links: BleHost!TableExact.      *)
TableExact == H!TableExact
=============================================================================
