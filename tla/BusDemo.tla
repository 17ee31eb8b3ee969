------------------------------ MODULE BusDemo ------------------------------
(***************************************************************************)
(* The programs at both ends of a serial bus: i2c_demo/ping_pong, spi_demo *)
(* and the clock of i2c_demo/ds1307.  A transfer may break off after any   *)
(* number of bytes; the bus drivers (external) then report it.  A buffer   *)
(* is the set of its positions that hold the right byte: all programs send *)
(* constants, so every byte is right or is the zero it was cleared to.     *)
(***************************************************************************)
EXTENDS Integers, Sequences

CONSTANTS
    BUFFER_SIZE,     \* bound: bytes of a transfer
    Times            \* bound: the times that the clock shows

VARIABLES
    bus,             \* "i2c", "spi" or "rtc"
    bpc,             \* where the master's loop stands
    rx_buffer,       \* of the master
    s_rx, s_tx,      \* rx_buffer and tx_buffer of the slave
    led,             \* spi: LED1 toggled in this round
    read_ok,         \* ghost: the read of this round went through
    chip,            \* rtc: the digits of the registers, the halt bit
    shown            \* rtc: the time that was printed, and the one to print

bvars == <<bus, bpc, rx_buffer, s_rx, s_tx, led, read_ok, chip, shown>>

All == 1 .. BUFFER_SIZE
sent_part == {1 .. k : k \in 0 .. BUFFER_SIZE}      \* bytes before the transfer broke off
carried(part, old, new) == (old \ part) \cup (new \cap part)
silent == [got |-> <<>>, real |-> <<>>]

-----------------------------------------------------------------------------
(* i2c_demo/ping_pong: main() of the master, handler() of the slave *)

\* Planted fault: what the last round read stays.
Bug_cleared(buf) == buf
cleared(buf) == {}

I2cWrite ==
    /\ bus = "i2c" /\ bpc = "top"
    /\ rx_buffer' = cleared(rx_buffer)
    /\ \E part \in sent_part : s_rx' = carried(part, s_rx, All)
    /\ bpc' = "read"
    /\ UNCHANGED <<bus, s_tx, led, read_ok, chip, shown>>

\* A slave that is addressed copies what it received before it sends.
handler == s_tx' = s_rx

I2cRead ==
    /\ bus = "i2c" /\ bpc = "read"
    /\ \E part \in sent_part :
          /\ \/ handler
             \/ part = {} /\ UNCHANGED s_tx      \* the slave did not answer
          /\ rx_buffer' = carried(part, rx_buffer, s_tx')
          /\ read_ok' = (part = All)
    /\ bpc' = "judge"
    /\ UNCHANGED <<bus, s_rx, led, chip, shown>>

\* "Transmission successful."
successful == {1, BUFFER_SIZE} \subseteq rx_buffer

Judge ==
    /\ bus = "i2c" /\ bpc = "judge"
    /\ bpc' = "top"
    /\ UNCHANGED <<bus, rx_buffer, s_rx, s_tx, led, read_ok, chip, shown>>

-----------------------------------------------------------------------------
(* spi_demo: the buffer is not cleared, and its first byte is looked at *)

\* COMMAND_WRITE: the slave's handler reads into its buffer.
SpiWrite ==
    /\ bus = "spi" /\ bpc = "top"
    /\ \E part \in sent_part : s_rx' = carried(part, s_rx, All)
    /\ led' = FALSE
    /\ bpc' = "read"
    /\ UNCHANGED <<bus, rx_buffer, s_tx, read_ok, chip, shown>>

\* COMMAND_READ: the slave sends its constants.
SpiRead ==
    /\ bus = "spi" /\ bpc = "read"
    /\ \E part \in sent_part :
          /\ rx_buffer' = carried(part, rx_buffer, All)
          /\ read_ok' = (read_ok \/ 1 \in part)
    /\ led' = (1 \in rx_buffer')
    /\ bpc' = "top"
    /\ UNCHANGED <<bus, s_rx, s_tx, chip, shown>>

-----------------------------------------------------------------------------
(* i2c_demo/ds1307: the registers are binary-coded decimals *)

bcd_to_bin(v) == (v \div 16) * 10 + (v % 16)
bin_to_bcd(v) == (v \div 10) * 16 + (v % 10)

\* The chip: a register shows two digits, the seconds also the halt bit.
digits(v) == [tens |-> v \div 10, ones |-> v % 10]
register(d, flag) == d.tens * 16 + d.ones + (IF flag THEN 128 ELSE 0)
raw(i) == register(chip.digits[i], i = 1 /\ chip.halt)

\* ds1307_set_time() from the key's handler: sec, min, hour, day, date, month, year.
set_time(t) == [i \in 1 .. 7 |-> bin_to_bcd(IF i = 7 THEN t[i] % 100 ELSE t[i])]
read_back(i, v) ==
    IF i = 1 THEN [tens |-> (v % 128) \div 16, ones |-> v % 16] ELSE [tens |-> v \div 16, ones |-> v % 16]
SetTime ==
    /\ bus = "rtc"
    /\ \E t \in Times, n \in {0, 3, 7} :      \* bound: registers written before the transfer broke off
          LET buf == set_time(t)
          IN  chip' = [digits |-> [i \in 1 .. 7 |-> IF i <= n THEN read_back(i, buf[i]) ELSE chip.digits[i]],
                       halt |-> IF n > 0 THEN buf[1] >= 128 ELSE chip.halt,
                       time |-> [i \in 1 .. 7 |-> IF i <= n THEN t[i] ELSE chip.time[i]]]
    /\ UNCHANGED <<bus, bpc, rx_buffer, s_rx, s_tx, led, read_ok, shown>>

\* ds1307_read_time(); day is not printed.
read_time ==
    [i \in 1 .. 7 |-> CASE i = 1 -> bcd_to_bin(raw(1) % 128)
                        [] i = 3 -> bcd_to_bin(raw(3) % 64)
                        [] i = 7 -> 2000 + bcd_to_bin(raw(7))
                        [] OTHER -> bcd_to_bin(raw(i))]
ShowTime ==
    /\ bus = "rtc"
    /\ shown' = [got |-> read_time, real |-> chip.time]
    /\ UNCHANGED <<bus, bpc, rx_buffer, s_rx, s_tx, led, read_ok, chip>>

\* The clock runs.
ClockRuns ==
    /\ bus = "rtc" /\ ~chip.halt
    /\ \E t \in Times :
          chip' = [digits |-> [i \in 1 .. 7 |-> digits(t[i] % 100)], halt |-> FALSE, time |-> t]
    /\ UNCHANGED <<bus, bpc, rx_buffer, s_rx, s_tx, led, read_ok, shown>>

-----------------------------------------------------------------------------
\* Both ends have the text in tx_buffer; a new chip stands still.
Init ==
    /\ bus \in {"i2c", "spi", "rtc"}
    /\ bpc = "top" /\ rx_buffer = {} /\ s_rx = {} /\ s_tx = All /\ led = FALSE /\ read_ok = FALSE
    /\ \E t \in Times :
          chip = [digits |-> [i \in 1 .. 7 |-> digits(t[i] % 100)], halt |-> TRUE, time |-> t]
    /\ shown = silent

Next == I2cWrite \/ I2cRead \/ Judge \/ SpiWrite \/ SpiRead \/ SetTime \/ ShowTime \/ ClockRuns
Spec == Init /\ [][Next]_bvars

-----------------------------------------------------------------------------
(***************************************************************************)
(* What the bus programs report is so.  "Transmission successful" looks at *)
(* two bytes, yet it means that this round's read went through and that    *)
(* every byte came back as it was written, although writes and reads break *)
(* off anywhere; LED1 of spi_demo means that a byte was read; the time     *)
(* that is printed is the time the chip stood at.                          *)
(***************************************************************************)
ReportsTrue ==
    /\ (bus = "i2c" /\ bpc = "judge" /\ successful) => (read_ok /\ rx_buffer = All)
    /\ (bus = "spi" /\ led) => read_ok
    /\ shown.got = shown.real
=============================================================================
