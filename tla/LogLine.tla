------------------------------ MODULE LogLine ------------------------------
(***************************************************************************)
(* The immediate logger of tlk_log.c (PRIO_IMMEDIATE): a line is put into  *)
(* the one buffer, given to the UART, and tlk_tx_done is waited for, which *)
(* the UART's handler sets.  The flag is set from the start, so that a     *)
(* line waits for the transfer before its own, and the buffer is written   *)
(* while that transfer still reads it.                                     *)
(*                                                                         *)
(* The UART is external: it refuses a transfer while another is running.   *)
(***************************************************************************)
EXTENDS Integers, Sequences

CONSTANTS
    LOG_LEVEL,        \* CONFIG_TLK_DEBUG_LOG_LEVEL
    Levels,
    ROW,              \* bound: 16, the bytes of a line of a dump
    LOG_SIZE,         \* bound: CONFIG_TLK_DEBUG_LOG_BUFFER_SIZE
    MaxLines          \* bound: lines

VARIABLES
    lpc,              \* where the logger stands
    left_lines,       \* lines the call has still to print
    log_buffer,       \* tlk_log_buffer: the line in it, and its size
    tlk_tx_done,
    uart,             \* the bytes a running transfer has left, 0: idle
    lines             \* ghost: lines printed

lvars == <<lpc, left_lines, log_buffer, tlk_tx_done, uart, lines>>

\* TLK_LOG_ERROR() ... TLK_LOG_DEBUG(): the level of the build
enabled(level) == LOG_LEVEL >= level

\* tlk_log_hexdump(): a line for every ROW bytes that are begun
rows(len) == (len + ROW - 1) \div ROW

Call ==
    /\ lpc = "idle"
    /\ \E level \in Levels, n \in {1} \cup {rows(len) : len \in 0 .. 2 * ROW} :
          /\ lines + n <= MaxLines
          /\ left_lines' = IF enabled(level) THEN n ELSE 0
    /\ lpc' = IF left_lines' = 0 THEN "idle" ELSE "line"
    /\ UNCHANGED <<log_buffer, tlk_tx_done, uart, lines>>

\* tlk_debug_log_blocking(), its steps 1 and 2: a prefix that does not fit
\* ends the line.  The end of the line is put into the last places when the
\* text did not fit, and size stays what it was.
eol(size) == IF size < LOG_SIZE - 2 THEN size + 2 ELSE size

Format ==
    /\ lpc = "line"
    /\ \/ /\ lpc' = "next" /\ UNCHANGED <<log_buffer, lines>>
       \/ \E size \in {1, LOG_SIZE - 3, LOG_SIZE} :
             /\ log_buffer' = [line |-> lines + 1, size |-> eol(size)]
             /\ lines' = lines + 1 /\ lpc' = "send"
    /\ UNCHANGED <<left_lines, tlk_tx_done, uart>>

Send ==
    /\ lpc = "send"
    /\ uart' = IF uart = 0 THEN log_buffer.size ELSE uart
    /\ lpc' = "wait"
    /\ UNCHANGED <<left_lines, log_buffer, tlk_tx_done, lines>>

Wait ==
    /\ lpc = "wait" /\ tlk_tx_done
    /\ tlk_tx_done' = FALSE /\ lpc' = "next"
    /\ UNCHANGED <<left_lines, log_buffer, uart, lines>>

NextLine ==
    /\ lpc = "next"
    /\ left_lines' = left_lines - 1
    /\ lpc' = IF left_lines' = 0 THEN "idle" ELSE "line"
    /\ UNCHANGED <<log_buffer, tlk_tx_done, uart, lines>>

\* The UART sends a byte; after the last one tlk_debug_log_tx_handle() runs.
UartByte ==
    /\ uart > 0 /\ uart' = uart - 1
    /\ tlk_tx_done' = (tlk_tx_done \/ uart = 1)
    /\ UNCHANGED <<lpc, left_lines, log_buffer, lines>>

Init ==
    /\ lpc = "idle" /\ left_lines = 0
    /\ log_buffer = [line |-> 0, size |-> 0]
    /\ tlk_tx_done = TRUE /\ uart = 0 /\ lines = 0

Logger == Format \/ Send \/ Wait \/ NextLine
Next == Call \/ Logger \/ UartByte

\* The UART sends and the caller is scheduled.
Fairness == WF_lvars(Logger) /\ WF_lvars(UartByte)
Spec == Init /\ [][Next]_lvars /\ Fairness

-----------------------------------------------------------------------------
(***************************************************************************)
(* A call of the immediate logger returns (tlk_debug_log_blocking, "while  *)
(* (!tlk_tx_done)"): although the flag that a line waits for may belong to *)
(* the line before, and its own transfer may have been refused, there is a *)
(* transfer running that will set it.                                      *)
(***************************************************************************)
CallReturns == (lpc # "idle") ~> (lpc = "idle")
=============================================================================
