------------------------------ MODULE UartDemo ------------------------------
(***************************************************************************)
(* The programs that answer what a UART receives: uart_demo in C and in    *)
(* C++ (each reception is echoed) and ble_controller_demo, "hci" (each     *)
(* reception is a command for the controller, whose events are sent back). *)
(* The handlers of the UART driver set flags that main() polls and clears. *)
(* A script lists what a round of main()'s loop does.                      *)
(*                                                                         *)
(* The driver is external: a reception ends at a pause of the peer or when *)
(* the buffer is full; one that is asked for while another runs, and any   *)
(* that fails, is reported and changes nothing.  The peer of hci keeps to  *)
(* the flow control of HCI: no command before the last one is dealt with,  *)
(* none as long as the range of rx_count, a uint8_t.                       *)
(***************************************************************************)
EXTENDS Integers, Sequences

CONSTANTS
    RX_SIZE,        \* bound: CONFIG_TLK_UART_DEMO_BUFFER_SIZE, HCI_BUFFER_SIZE
    MaxReceptions   \* bound: receptions

VARIABLES
    uprog,          \* "c", "cpp" or "hci"
    script,         \* what is left of the round
    tx_done, rx_count, rx_done,
    tx,             \* what the UART sends: "none", "text" or "data"
    rx,             \* whether the UART receives, and the bytes so far
    data,           \* the buffer: for each byte the reception it came with, or 0
    receptions,     \* ghost: the lengths of the receptions that ended
    answered        \* ghost: the bytes that were echoed or handled, by answer

uvars == <<uprog, script, tx_done, rx_count, rx_done, tx, rx, data, receptions, answered>>

clean == [i \in 1 .. RX_SIZE |-> 0]

-----------------------------------------------------------------------------
(* The rounds *)

c_round == <<"clear", "print", "listen">>
c_answer(denied) ==
    IF denied THEN <<"print", "await", "print", "print", "echo", "reset", "print", "print">>
    ELSE <<"await", "print", "print", "echo", "reset", "print", "print">>
c_failed(denied) == IF denied THEN <<"print", "print", "print">> ELSE <<"print", "print">>

cpp_round == <<"clear", "print", "listen">>
cpp_answer == <<"print", "await", "print", "echo", "print", "reset">>
cpp_failed == <<"print">>

hci_round == <<"listen">>

round == CASE uprog = "c" -> c_round [] uprog = "cpp" -> cpp_round [] OTHER -> hci_round

\* What follows tlk_uart_receive_bytes(); denied: the suspend that PREVENT
\* builds try was refused.
after_listen(ok, denied) ==
    CASE uprog = "c" -> IF ok THEN c_answer(denied) ELSE c_failed(denied)
      [] uprog = "cpp" -> IF ok THEN cpp_answer ELSE cpp_failed
      [] OTHER -> IF ok THEN <<"test">> ELSE <<>>

-----------------------------------------------------------------------------
(* main() *)

at_op(op) == script # <<>> /\ Head(script) = op

NextRound ==
    /\ script = <<>> /\ script' = round
    /\ UNCHANGED <<uprog, tx_done, rx_count, rx_done, tx, rx, data, receptions, answered>>

Clear ==
    /\ at_op("clear") /\ script' = Tail(script)
    /\ data' = clean
    /\ UNCHANGED <<uprog, tx_done, rx_count, rx_done, tx, rx, receptions, answered>>

\* uart_print() and the echo: send, then poll tx_done and clear it.
Send ==
    /\ at_op("print") \/ at_op("echo")
    /\ tx = "none"
    /\ tx' = IF at_op("print") THEN "text" ELSE "data"
    /\ script' = [script EXCEPT ![1] = "sent"]
    /\ UNCHANGED <<uprog, tx_done, rx_count, rx_done, rx, data, receptions, answered>>

Sent ==
    /\ at_op("sent") /\ tx_done
    /\ tx_done' = FALSE /\ script' = Tail(script)
    /\ UNCHANGED <<uprog, rx_count, rx_done, tx, rx, data, receptions, answered>>

Listen ==
    /\ at_op("listen")
    /\ \E ok, denied \in BOOLEAN :
          /\ ok => ~rx.on
          /\ denied => uprog = "c"
          /\ rx' = IF ok THEN [on |-> TRUE, n |-> 0] ELSE rx
          /\ script' = after_listen(ok, denied)
    /\ UNCHANGED <<uprog, tx_done, rx_count, rx_done, tx, data, receptions, answered>>

Await ==
    /\ at_op("await")
    /\ IF uprog = "cpp" THEN rx_done ELSE rx_count # 0
    /\ script' = Tail(script)
    /\ UNCHANGED <<uprog, tx_done, rx_count, rx_done, tx, rx, data, receptions, answered>>

\* Planted fault: the count of the last reception stays.
Bug_cleared == rx_count
cleared == 0

Reset ==
    /\ at_op("reset") /\ script' = Tail(script)
    /\ rx_count' = cleared /\ rx_done' = FALSE
    /\ UNCHANGED <<uprog, tx_done, tx, rx, data, receptions, answered>>

\* hci: the command is handled in the buffer that listens again, and may send
\* an event.
Handle ==
    /\ at_op("test")
    /\ \/ rx_count = 0 /\ script' = <<>> /\ UNCHANGED answered
       \/ /\ rx_count > 0
          /\ answered' = Append(answered, SubSeq(data, 1, rx_count))
          /\ script' \in {<<"reset">>, <<"print", "reset">>}
    /\ UNCHANGED <<uprog, tx_done, rx_count, rx_done, tx, rx, data, receptions>>

Main == NextRound \/ Clear \/ Send \/ Sent \/ Listen \/ Await \/ Reset \/ Handle

-----------------------------------------------------------------------------
(* The UART, its handlers and its peer *)

tx_handler ==
    /\ tx # "none"
    /\ tx' = "none" /\ tx_done' = TRUE
    /\ answered' = IF tx = "data" THEN Append(answered, SubSeq(data, 1, rx_count)) ELSE answered
    /\ UNCHANGED <<uprog, script, rx_count, rx_done, rx, data, receptions>>

\* HCI flow control
may_send == uprog = "hci" =>
    /\ Len(answered) = Len(receptions) /\ script \in {<<>>, hci_round, <<"test">>}
    /\ rx_count = 0 /\ rx.n + 1 < RX_SIZE

PeerByte ==
    /\ rx.on /\ rx.n < RX_SIZE /\ Len(receptions) < MaxReceptions /\ may_send
    /\ rx' = [rx EXCEPT !.n = @ + 1]
    /\ data' = [data EXCEPT ![rx.n + 1] = Len(receptions) + 1]
    /\ UNCHANGED <<uprog, script, tx_done, rx_count, rx_done, tx, receptions, answered>>

rx_handler ==
    /\ rx.on /\ rx.n > 0
    /\ rx' = [on |-> FALSE, n |-> 0]
    /\ rx_count' = IF uprog = "hci" THEN rx.n % RX_SIZE ELSE rx.n
    /\ rx_done' = (uprog = "cpp")
    /\ receptions' = Append(receptions, rx.n)
    /\ UNCHANGED <<uprog, script, tx_done, tx, data, answered>>

-----------------------------------------------------------------------------
Init ==
    /\ uprog \in {"c", "cpp", "hci"}
    /\ script = <<>> /\ tx_done = FALSE /\ rx_count = 0 /\ rx_done = FALSE
    /\ tx = "none" /\ rx = [on |-> FALSE, n |-> 0] /\ data = clean
    /\ receptions = <<>> /\ answered = <<>>

UartRest == Len(receptions) = MaxReceptions /\ UNCHANGED uvars
Next == Main \/ tx_handler \/ PeerByte \/ rx_handler \/ UartRest
Spec == Init /\ [][Next]_uvars

-----------------------------------------------------------------------------
(***************************************************************************)
(* The answers are the receptions, each once, in order, with all of its    *)
(* bytes and no other (main() of uart_demo and of ble_controller_demo):    *)
(* no flag or count of an earlier reception is taken for the current one,  *)
(* and no byte of a later one gets into an answer.                         *)
(***************************************************************************)
AnswersReceptions ==
    /\ Len(answered) <= Len(receptions)
    /\ \A k \in DOMAIN answered : answered[k] = [i \in 1 .. receptions[k] |-> k]
=============================================================================
