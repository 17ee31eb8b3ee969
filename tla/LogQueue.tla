------------------------------ MODULE LogQueue ------------------------------
(***************************************************************************)
(* The queued logger of system/debug/log/tlk_log.c on a UART driven by     *)
(* interrupts or DMA, for both priorities: records are pushed by tasks and *)
(* interrupt handlers, and popped by tlk_debug_log_pump(), which a task    *)
(* (PRIO_LOW) or the log timer (PRIO_HIGH) calls, and with PRIO_HIGH also  *)
(* by the transmit-complete handler.                                       *)
(*                                                                         *)
(* The pump is a sequence of steps; pushes and the transmit-complete       *)
(* handler come between any two of them.  Push and pop mask all interrupts *)
(* and are single steps.  The UART is known through its header only        *)
(* (core/include/tlk_uart.h): it accepts a buffer or returns an error, and *)
(* calls the handler when the buffer has been sent.                        *)
(***************************************************************************)
EXTENDS Integers, Sequences

CONSTANTS
    SIZE,      \* CONFIG_TLK_DEBUG_LOG_QUEUE_SIZE
    Prios,     \* which of PRIO_LOW, PRIO_HIGH are considered
    Literals,  \* whether records are literals (from an ISR) or formatted text
    MaxPush    \* bound on the number of records pushed

ASSUME SizeAssumption == SIZE \in Nat \ {0}
ASSUME PriosAssumption == Prios \subseteq {"low", "high"}
ASSUME LiteralsAssumption == Literals \subseteq BOOLEAN
ASSUME MaxPushAssumption == MaxPush \in Nat

\* A record: its number, and is_literal.
Records == [id : 1 .. MaxPush, lit : Literals]
None == [id |-> 0, lit |-> FALSE]

VARIABLES
    prio,
    s_q, s_wr, s_rd,
    tx_done,   \* tlk_tx_done: FALSE while the interface is locked
    pump,      \* where tlk_debug_log_pump() is
    bufs,      \* the buffers lines are sent from (see Send)
    uart,      \* the transfer in progress: its buffer and what it shows
    pushed,    \* history: the records accepted, in order
    popped     \* history: the records taken out, in order

queueVars == <<s_q, s_wr, s_rd, pushed, popped>>
vars == <<prio, queueVars, tx_done, pump, bufs, uart>>

Index == 0 .. SIZE - 1
Idle == [buf |-> "none", shows |-> None]

Init ==
    /\ prio \in Prios
    /\ s_q = [i \in Index |-> None] /\ s_wr = 0 /\ s_rd = 0
    /\ tx_done = TRUE
    /\ pump = "out"
    /\ bufs = [b \in {"e", "literal", "handler"} |-> None]
    /\ uart = Idle
    /\ pushed = <<>> /\ popped = <<>>

-----------------------------------------------------------------------------
(* tlk_debug_log_event_push() and _pop(). *)

next_index(i) == (i + 1) % SIZE

\* Planted fault: a full queue is taken for one with room.
Bug_is_full == FALSE
\* full when next wr equals rd
is_full == next_index(s_wr) = s_rd

Push(lit) ==
    /\ Len(pushed) < MaxPush
    /\ ~is_full
    /\ LET r == [id |-> Len(pushed) + 1, lit |-> lit] IN
          /\ s_q' = [s_q EXCEPT ![s_wr] = r]
          /\ pushed' = Append(pushed, r)
    /\ s_wr' = next_index(s_wr)
    /\ UNCHANGED <<prio, s_rd, popped, tx_done, pump, bufs, uart>>

\* A record that finds the queue full is dropped.
PushDrop ==
    /\ is_full
    /\ UNCHANGED vars

is_empty == s_rd = s_wr
front == s_q[s_rd]

pop ==
    /\ s_rd' = next_index(s_rd)
    /\ popped' = Append(popped, front)
    /\ UNCHANGED <<s_q, s_wr, pushed>>

-----------------------------------------------------------------------------
(* tlk_debug_log_pump().  A formatted record is sent from the local e, a   *)
(* literal one from the static buffer it was printed into.                 *)

PumpEnter ==
    /\ pump = "out"
    /\ tx_done          \* the interface is looked at once, before the loop
    /\ pump' = "pop"
    /\ UNCHANGED <<prio, queueVars, tx_done, bufs, uart>>

PumpPop ==
    /\ pump = "pop" /\ ~is_empty
    /\ pop
    /\ bufs' = [bufs EXCEPT !["e"] = front,
                            !["literal"] = IF front.lit THEN front ELSE @]
    /\ pump' = "lock"
    /\ UNCHANGED <<prio, tx_done, uart>>

PumpEmpty ==
    /\ pump = "pop" /\ is_empty
    /\ pump' = "out"
    /\ UNCHANGED <<prio, queueVars, tx_done, bufs, uart>>

PumpLock ==
    /\ pump = "lock"
    /\ tx_done' = FALSE
    /\ pump' = "send"
    /\ UNCHANGED <<prio, queueVars, bufs, uart>>

\* tlk_uart_send_bytes() takes the buffer.
PumpSendOk ==
    /\ pump = "send" /\ uart = Idle
    /\ uart' = [buf |-> IF bufs["e"].lit THEN "literal" ELSE "e", shows |-> bufs["e"]]
    /\ pump' = "pop"
    /\ UNCHANGED <<prio, queueVars, tx_done, bufs>>

\* It fails, as it does while a transfer is in progress.
PumpSendError ==
    /\ pump = "send"
    /\ pump' = "failed"
    /\ UNCHANGED <<prio, queueVars, tx_done, bufs, uart>>

\* Planted fault: a failed send leaves the interface locked.
Bug_unlock_after_error == tx_done' = tx_done
unlock_after_error == tx_done' = TRUE

PumpUnlock ==
    /\ pump = "failed"
    /\ unlock_after_error
    /\ pump' = "pop"
    /\ UNCHANGED <<prio, queueVars, bufs, uart>>

Pump == PumpPop \/ PumpEmpty \/ PumpLock \/ PumpSendOk \/ PumpSendError \/ PumpUnlock

-----------------------------------------------------------------------------
(* tlk_debug_log_tx_handle(), when the UART has sent a buffer. *)

\* Planted fault: the handler does not unlock the interface.
Bug_handler_unlocks == tx_done' = tx_done
handler_unlocks == tx_done' = TRUE

TxDone ==
    /\ uart # Idle
    /\ prio = "low" \/ is_empty
    /\ handler_unlocks
    /\ uart' = Idle
    /\ UNCHANGED <<prio, queueVars, pump, bufs>>

\* PRIO_HIGH: the next record is sent at once, from msg_buf, which is blank
\* in a literal record.  The outcome of the send is ignored.
TxNext ==
    /\ uart # Idle
    /\ prio = "high" /\ ~is_empty
    /\ handler_unlocks
    /\ pop
    /\ bufs' = [bufs EXCEPT !["handler"] = front]
    /\ uart' \in {Idle, [buf |-> "handler",
                         shows |-> IF front.lit THEN None ELSE front]}
    /\ UNCHANGED <<prio, pump>>

Uart == TxDone \/ TxNext

Next ==
    \/ \E lit \in Literals : Push(lit)
    \/ PushDrop
    \/ PumpEnter
    \/ Pump
    \/ Uart

Spec == Init /\ [][Next]_vars

(***************************************************************************)
(* The pump is called periodically, by its task or its timer, and runs to  *)
(* its end; a transfer ends.  Nobody owes a push.                          *)
(***************************************************************************)
FairSpec == Spec /\ WF_vars(PumpEnter) /\ WF_vars(Pump) /\ WF_vars(Uart)

-----------------------------------------------------------------------------
TypeOK ==
    /\ prio \in {"low", "high"}
    /\ s_q \in [Index -> Records \cup {None}]
    /\ s_wr \in Index /\ s_rd \in Index
    /\ tx_done \in BOOLEAN
    /\ pump \in {"out", "pop", "lock", "send", "failed"}
    /\ bufs \in [{"e", "literal", "handler"} -> Records \cup {None}]
    /\ uart \in [buf : {"none", "e", "literal", "handler"}, shows : Records \cup {None}]
    /\ pushed \in Seq(Records) /\ popped \in Seq(Records)

count == (s_wr - s_rd) % SIZE

(***************************************************************************)
(* The queue neither loses, duplicates nor reorders an accepted record,    *)
(* with producers in tasks and handlers and with two consumers: what was   *)
(* popped and what is queued is what was accepted, in order.               *)
(***************************************************************************)
RecordsKept ==
    /\ Len(pushed) = Len(popped) + count
    /\ \A k \in 1 .. Len(popped) : popped[k] = pushed[k]
    /\ \A k \in 1 .. count : s_q[(s_rd + k - 1) % SIZE] = pushed[Len(popped) + k]

(***************************************************************************)
(* The interface is never left locked with nobody to unlock it: a transfer *)
(* is in progress, or the pump is about to start one or to give up.        *)
(***************************************************************************)
LockHasOwner == ~tx_done => (uart # Idle \/ pump \in {"send", "failed"})

(***************************************************************************)
(* Every record accepted is taken out of the queue, however pumping,       *)
(* transfers and failed sends interleave.                                  *)
(***************************************************************************)
Drained == \A k \in 1 .. MaxPush : (Len(pushed) >= k) ~> (Len(popped) >= k)

(***************************************************************************)
(* A buffer given to the UART is not written before it has been sent       *)
(* ("stores the buffer information. The provided handler is called when    *)
(* transmission is complete", tlk_uart.h).                                 *)
(***************************************************************************)
BufferStable ==
    [][(uart # Idle /\ uart' = uart) => bufs'[uart.buf] = bufs[uart.buf]]_vars

(***************************************************************************)
(* A transfer shows the text of a record: for a literal record that is the *)
(* string msg points to ("If is_literal=true, msg points to a stable       *)
(* string", tlk_log.c).                                                    *)
(***************************************************************************)
TextShown == uart # Idle => uart.shows # None
=============================================================================
