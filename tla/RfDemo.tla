------------------------------- MODULE RfDemo -------------------------------
(***************************************************************************)
(* The ping-pong of samples/rf_demo: a transmitter and a receiver, each    *)
(* with its radio, over a medium that loses and damages packets.  One      *)
(* build per exchange: "manual" (the program switches the radio, with a    *)
(* timeout of its own; optionally hopping between two channels or modes),  *)
(* "single" (stx/srx) and "auto" (btx/brx, ptx/prx and stx2rx/srx2tx: the  *)
(* radio turns round by itself, RT_DELAY_US after a packet).               *)
(*                                                                         *)
(* The radio driver is external: starting an operation clears its flags.   *)
(* A packet is its first payload byte; a damaged one may keep it.          *)
(***************************************************************************)
EXTENDS Integers

CONSTANTS
    UINT8,      \* bound: the number of values of a uint8_t
    MaxPings    \* bound: pings, fewer than UINT8

VARIABLES
    build,      \* the exchange, and whether it hops
    tpc, rpc,   \* where the transmitter's and the receiver's loops stand
    radio,      \* tlk_rf_instance of each node, and what its radio does
    payload,    \* the first payload byte in tx_buffer of each node
    tune,       \* the channel (or mode) that each node uses
    late,       \* PING_TIMEOUT_MS have passed since the ping
    pings,      \* ghost: pings sent; a node's packets carry the number they answer
    sent_packets, success_packets

rvars == <<build, tpc, rpc, radio, payload, tune, late, pings, sent_packets, success_packets>>

T == "transmitter"
R == "receiver"
Nodes == {T, R}
other(n) == IF n = T THEN R ELSE T

manual == build.exchange = "manual"
auto == build.exchange = "auto"

packet(p, n) == [p |-> p, n |-> n]
BAD == UINT8

-----------------------------------------------------------------------------
(* The radios and the medium *)

quiet == [state |-> "idle", tx_end |-> FALSE, rx_end |-> FALSE, rx_ok |-> FALSE,
          rx_timeout_error |-> FALSE, rx_packet |-> packet(BAD, 0)]

start_tx(r) == [r EXCEPT !.state = IF auto THEN "tx2rx" ELSE "tx", !.tx_end = FALSE,
                         !.rx_end = @ /\ ~auto, !.rx_timeout_error = @ /\ ~auto]
start_rx(r) == [r EXCEPT !.state = IF auto THEN "rx2tx" ELSE "rx", !.tx_end = @ /\ ~auto,
                         !.rx_end = FALSE, !.rx_ok = FALSE, !.rx_timeout_error = FALSE]
set_idle_state(r) == [r EXCEPT !.state = "idle"]

hears(n) == radio[n].state \in {"rx", "rx2tx", "rx_last"} /\ tune[n] = tune[other(n)]

\* A radio that has received a packet goes on listening in the manual mode,
\* turns to its answer in the receiver's auto modes, and stops otherwise.
received(r, pkt, ok) ==
    [r EXCEPT !.rx_packet = pkt, !.rx_end = TRUE, !.rx_ok = ok,
              !.state = CASE manual -> "rx" [] @ = "rx2tx" /\ ok -> "turn" [] OTHER -> "idle"]

\* The packet in the buffer leaves; the other node may hear it.
RadioSends(n) ==
    /\ radio[n].state \in {"tx", "tx2rx", "turn"}
    /\ LET after == [radio[n] EXCEPT !.tx_end = TRUE,
                         !.state = IF @ = "tx2rx" THEN "rx_last" ELSE "idle"]
           m == other(n)
       IN  \/ radio' = [radio EXCEPT ![n] = after]
           \/ /\ hears(m)
              /\ \E ok \in BOOLEAN, p \in {payload[n].p, BAD} :
                    /\ ok => p = payload[n].p
                    /\ radio' = [radio EXCEPT ![n] = after,
                                     ![m] = received(@, packet(p, payload[n].n), ok)]
    /\ UNCHANGED <<build, tpc, rpc, payload, tune, late, pings, sent_packets, success_packets>>

\* The receive timeout of the radio; the transmitter's is PING_TIMEOUT_MS in
\* the single mode.
RadioTimeout(n) ==
    /\ ~manual /\ radio[n].state \in {"rx", "rx2tx", "rx_last"}
    /\ radio' = [radio EXCEPT ![n].state = "idle", ![n].rx_end = TRUE, ![n].rx_ok = FALSE,
                              ![n].rx_timeout_error = TRUE]
    /\ late' = (late \/ (n = T /\ ~auto))
    /\ UNCHANGED <<build, tpc, rpc, payload, tune, pings, sent_packets, success_packets>>

TimePasses ==
    /\ ~late /\ late' = TRUE
    /\ UNCHANGED <<build, tpc, rpc, radio, payload, tune, pings, sent_packets, success_packets>>

-----------------------------------------------------------------------------
(* transmitter_loop() *)

\* Planted fault: every ping carries the same byte.
Bug_next_byte(b) == b
next_byte(b) == (b + 1) % UINT8

\* switch_channel() at the top of both loops; switch_mode() at the end of both
\* hops in the same way.
hop(n) == IF build.hops THEN [tune EXCEPT ![n] = 1 - @] ELSE tune

SendPing ==
    /\ tpc = "top" /\ pings < MaxPings
    /\ tune' = hop(T)
    /\ pings' = pings + 1
    /\ payload' = [payload EXCEPT ![T] = packet(next_byte(@.p), pings')]
    /\ radio' = [radio EXCEPT ![T] = start_tx(@)]
    /\ late' = FALSE
    /\ tpc' = "tx_wait"
    /\ UNCHANGED <<build, rpc, sent_packets, success_packets>>

PingSent ==
    /\ tpc = "tx_wait" /\ radio[T].tx_end
    /\ radio' = IF auto THEN radio ELSE [radio EXCEPT ![T] = start_rx(set_idle_state(@))]
    /\ tpc' = "rx_wait"
    /\ UNCHANGED <<build, rpc, payload, tune, late, pings, sent_packets, success_packets>>

\* Planted fault: the manual loop waits for the radio alone.
Bug_gives_up == FALSE
gives_up == manual /\ late

WaitPong ==
    /\ tpc = "rx_wait" /\ (radio[T].rx_end \/ gives_up)
    /\ radio' = IF manual THEN [radio EXCEPT ![T] = set_idle_state(@)] ELSE radio
    /\ tpc' = "judge"
    /\ UNCHANGED <<build, rpc, payload, tune, late, pings, sent_packets, success_packets>>

\* on_pong_received(): neither rx_ok nor the CRC is looked at.
counts == /\ ~late /\ ~radio[T].rx_timeout_error
          /\ payload[T].p = radio[T].rx_packet.p

on_pong_received ==
    /\ tpc = "judge"
    /\ sent_packets' = sent_packets + 1
    /\ success_packets' = success_packets + (IF counts THEN 1 ELSE 0)
    /\ tpc' = "top"
    /\ UNCHANGED <<build, rpc, radio, payload, tune, late, pings>>

-----------------------------------------------------------------------------
(* receiver_loop() *)

Listen ==
    /\ rpc = "top"
    /\ tune' = hop(R)
    /\ radio' = [radio EXCEPT ![R] = start_rx(@)]
    /\ rpc' = "rx_wait"
    /\ UNCHANGED <<build, tpc, payload, late, pings, sent_packets, success_packets>>

taken(r) == manual \/ r.rx_ok

PingArrived ==
    /\ rpc = "rx_wait" /\ radio[R].rx_end
    /\ \/ /\ taken(radio[R])
          /\ rpc' = "copy"
          /\ radio' = IF manual THEN [radio EXCEPT ![R] = set_idle_state(@)] ELSE radio
       \/ /\ ~taken(radio[R])
          /\ radio' = [radio EXCEPT ![R] = start_rx(@)]
          /\ UNCHANGED rpc
    /\ UNCHANGED <<build, tpc, payload, tune, late, pings, sent_packets, success_packets>>

\* In the auto modes the radio may already have sent what the buffer held.
Copy ==
    /\ rpc = "copy"
    /\ payload' = [payload EXCEPT ![R] = radio[R].rx_packet]
    /\ radio' = IF auto THEN radio ELSE [radio EXCEPT ![R] = start_tx(@)]
    /\ rpc' = "tx_wait"
    /\ UNCHANGED <<build, tpc, tune, late, pings, sent_packets, success_packets>>

PongSent ==
    /\ rpc = "tx_wait" /\ radio[R].tx_end
    /\ radio' = IF manual THEN [radio EXCEPT ![R] = set_idle_state(@)] ELSE radio
    /\ rpc' = "top"
    /\ UNCHANGED <<build, tpc, payload, tune, late, pings, sent_packets, success_packets>>

-----------------------------------------------------------------------------
\* Both nodes run the same image: the byte before the first ping is the same.
Init ==
    /\ build \in [exchange : {"manual", "single", "auto"}, hops : BOOLEAN]
    /\ build.hops => manual
    /\ tpc = "top" /\ rpc = "top"
    /\ radio = [n \in Nodes |-> quiet]
    /\ payload = [n \in Nodes |-> packet(UINT8 - 1, 0)]
    /\ tune = [n \in Nodes |-> 0]
    /\ late = FALSE /\ pings = 0 /\ sent_packets = 0 /\ success_packets = 0

Transmitter == SendPing \/ PingSent \/ WaitPong \/ on_pong_received
Receiver == Listen \/ PingArrived \/ Copy \/ PongSent
Radios == \E n \in Nodes : RadioSends(n) \/ RadioTimeout(n)
RfRest == tpc = "top" /\ pings = MaxPings /\ UNCHANGED rvars

Next == Transmitter \/ Receiver \/ Radios \/ TimePasses \/ RfRest

\* Both programs run, a radio ends what it was told to do, and time passes.
Fairness ==
    /\ WF_rvars(Transmitter) /\ WF_rvars(Receiver) /\ WF_rvars(TimePasses)
    /\ \A n \in Nodes : WF_rvars(RadioSends(n)) /\ WF_rvars(RadioTimeout(n))
Spec == Init /\ [][Next]_rvars /\ Fairness

-----------------------------------------------------------------------------
(***************************************************************************)
(* A success that on_pong_received counts is the answer to the ping it is  *)
(* counted for: never a late pong of an earlier ping, never what the       *)
(* receive FIFO or the receiver's buffer still held when the radio turned  *)
(* round before the copy.                                                  *)
(***************************************************************************)
SuccessIsEcho ==
    /\ (tpc = "judge" /\ counts) => radio[T].rx_packet.n = pings
    /\ success_packets <= sent_packets

(***************************************************************************)
(* "To avoid deadlocking, it has a timeout to resend the ping in case of   *)
(* the absence of the pong response" (rf_demo/README.md): whatever is lost *)
(* and whatever the receiver does, the transmitter comes round again.      *)
(***************************************************************************)
TransmitterGoesOn == (tpc # "top") ~> (tpc = "top")
=============================================================================
