------------------------------- MODULE UsbCdc -------------------------------
(***************************************************************************)
(* What the project's USB programs do on TinyUSB (external): the string    *)
(* descriptor callback in its two versions, the bounded print of the USB   *)
(* logger (tlk_log_usb.c) and the echo task of cdc_demo.  TinyUSB's FIFOs  *)
(* are sequences; the host drains the transmit FIFO while tud_task() runs. *)
(***************************************************************************)
EXTENDS Integers, Sequences

CONSTANTS
    DESC_LEN,        \* the number of words of _desc_str
    MAX_SPINS,       \* TLK_LOG_USB_MAX_SPINS
    FIFO,            \* bound: the room of each of TinyUSB's FIFOs
    MaxBytes,        \* bound: the length of a message
    MaxPrints        \* bound: messages

VARIABLES
    upc,             \* where the program stands
    usb,             \* mounted, connected, and the FIFOs
    msg,             \* the message being printed: its bytes, by number
    total_written, spins,
    accepted,        \* ghost: bytes that prints reported as accepted
    wire,            \* ghost: bytes that the host received
    desc,            \* the answer to the last string request, and its words
    sent, prints

uvars == <<upc, usb, msg, total_written, spins, accepted, wire, desc, sent, prints>>

NULL == [len |-> 0, last |-> 0]

-----------------------------------------------------------------------------
(* tud_descriptor_string_cb() *)

\* The audio programs cut a string to the words that are left.
\* Planted fault: the word of the header is forgotten.
Bug_clamped(n) == IF n > DESC_LEN THEN DESC_LEN ELSE n
clamped(n) == IF n > DESC_LEN - 1 THEN DESC_LEN - 1 ELSE n

\* The CDC programs, the logger and the bootloader refuse a longer one;
\* a string of exactly DESC_LEN characters passes their test.
refused(n) == n > DESC_LEN

answer(n) == [len |-> 2 * n + 2, last |-> n]

\* String 0 is the language; a build's strings have any length but the one
\* that the refusing version mistakes.
GetString ==
    /\ upc = "idle"
    /\ \E audio \in BOOLEAN, n \in 1 .. DESC_LEN + 1 :
          /\ audio \/ n # DESC_LEN
          /\ desc' = IF audio THEN answer(clamped(n)) ELSE IF refused(n) THEN NULL ELSE answer(n)
    /\ UNCHANGED <<upc, usb, msg, total_written, spins, accepted, wire, sent, prints>>

-----------------------------------------------------------------------------
(* tlk_debug_log_usb_print_buffer() *)

avail == FIFO - Len(usb.tx)

PrintBuffer ==
    /\ upc = "idle" /\ prints < MaxPrints
    /\ prints' = prints + 1
    /\ \E len \in 0 .. MaxBytes :
          /\ msg' = [i \in 1 .. len |-> sent + i]
          /\ sent' = sent + len
          /\ upc' = IF len = 0 \/ ~usb.mounted THEN "idle" ELSE "loop"
    /\ total_written' = 0 /\ spins' = 0
    /\ UNCHANGED <<usb, accepted, wire, desc>>

Loop ==
    /\ upc = "loop"
    /\ upc' = IF total_written < Len(msg) THEN (IF avail = 0 THEN "full" ELSE "write") ELSE "done"
    /\ UNCHANGED <<usb, msg, total_written, spins, accepted, wire, desc, sent, prints>>

rest == SubSeq(msg, total_written + 1, Len(msg))

\* Planted fault: the spins are not counted.
Bug_counted(n) == n
counted(n) == n + 1

\* A chunk of what is left, no longer than the room; TinyUSB takes it all or,
\* when the connection is gone, nothing.
WriteChunk ==
    /\ upc = "write"
    /\ \/ /\ usb.mounted
          /\ LET n == IF Len(rest) < avail THEN Len(rest) ELSE avail
             IN  /\ usb' = [usb EXCEPT !.tx = @ \o SubSeq(rest, 1, n)]
                 /\ total_written' = total_written + n
          /\ spins' = 0
          /\ upc' = "loop"
       \/ /\ ~usb.mounted
          /\ spins' = counted(spins)
          /\ upc' = IF spins' >= MAX_SPINS THEN "done" ELSE "loop"
          /\ UNCHANGED <<usb, total_written>>
    /\ UNCHANGED <<msg, accepted, wire, desc, sent, prints>>

\* No room: flush, count the spin, give up or let the device task run and
\* look again whether anybody listens.
Full ==
    /\ upc = "full"
    /\ spins' = counted(spins)
    /\ upc' = IF spins' >= MAX_SPINS \/ ~usb.mounted \/ ~usb.connected THEN "done" ELSE "loop"
    /\ UNCHANGED <<usb, msg, total_written, accepted, wire, desc, sent, prints>>

PrintReturn ==
    /\ upc = "done"
    /\ accepted' = accepted \o SubSeq(msg, 1, total_written)
    /\ msg' = <<>> /\ total_written' = 0 /\ spins' = 0
    /\ upc' = "idle"
    /\ UNCHANGED <<usb, wire, desc, sent, prints>>

-----------------------------------------------------------------------------
(* cdc_task() of cdc_demo: what tud_cdc_write() has no room for is gone. *)

EchoTask ==
    /\ upc = "idle" /\ usb.connected /\ usb.rx # <<>>
    /\ LET n == IF Len(usb.rx) < avail THEN Len(usb.rx) ELSE avail
       IN  /\ usb' = [usb EXCEPT !.rx = <<>>, !.tx = @ \o SubSeq(usb.rx, 1, n)]
           /\ accepted' = accepted \o SubSeq(usb.rx, 1, n)
    /\ UNCHANGED <<upc, msg, total_written, spins, wire, desc, sent, prints>>

-----------------------------------------------------------------------------
(* The host *)

HostReads ==
    /\ usb.mounted /\ usb.tx # <<>>
    /\ wire' = Append(wire, Head(usb.tx))
    /\ usb' = [usb EXCEPT !.tx = Tail(@)]
    /\ UNCHANGED <<upc, msg, total_written, spins, accepted, desc, sent, prints>>

HostWrites ==
    /\ usb.mounted /\ Len(usb.rx) < FIFO /\ prints < MaxPrints
    /\ usb' = [usb EXCEPT !.rx = Append(@, sent + 1)]
    /\ sent' = sent + 1 /\ prints' = prints + 1
    /\ upc \in {"idle", "full"}
    /\ UNCHANGED <<upc, msg, total_written, spins, accepted, wire, desc>>

\* The cable and the terminal come and go; what is queued stays queued.
HostMoves ==
    /\ \E m, c \in BOOLEAN : (c => m) /\ usb' = [usb EXCEPT !.mounted = m, !.connected = c]
    /\ UNCHANGED <<upc, msg, total_written, spins, accepted, wire, desc, sent, prints>>

Init ==
    /\ upc = "idle"
    /\ usb = [mounted |-> FALSE, connected |-> FALSE, tx |-> <<>>, rx |-> <<>>]
    /\ msg = <<>> /\ total_written = 0 /\ spins = 0
    /\ accepted = <<>> /\ wire = <<>>
    /\ desc = NULL /\ sent = 0 /\ prints = 0

Logger == Loop \/ WriteChunk \/ Full \/ PrintReturn
Next == GetString \/ PrintBuffer \/ Logger \/ EchoTask \/ HostReads \/ HostWrites \/ HostMoves

\* Only the program itself is relied on, not the host.
Fairness == WF_uvars(Logger)
Spec == Init /\ [][Next]_uvars /\ Fairness

-----------------------------------------------------------------------------
(***************************************************************************)
(* What the host gets is what prints and echoes reported as accepted, byte *)
(* for byte and in order, whatever is dropped in between; a print reports  *)
(* a beginning of its message (tlk_debug_log_usb_print_buffer), and a      *)
(* string descriptor never uses a word that _desc_str does not have.       *)
(***************************************************************************)
HostGetsAccepted ==
    /\ wire \o usb.tx = accepted \o SubSeq(msg, 1, total_written)
    /\ Len(usb.tx) <= FIFO
    /\ desc.last < DESC_LEN /\ desc.len <= 2 * DESC_LEN

(***************************************************************************)
(* "Bounded wait. Avoid an infinite loop if the host stops polling, the    *)
(* cable is unplugged, or CDC becomes disconnected" (tlk_log_usb.c): every *)
(* print returns, although a chunk that is written starts the count again. *)
(***************************************************************************)
PrintReturns == (upc # "idle") ~> (upc = "idle")
=============================================================================
