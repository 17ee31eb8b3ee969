----------------------------- MODULE BootSerial -----------------------------
(***************************************************************************)
(* The two transports of MCUboot's serial recovery: uart_boot_serial.c on  *)
(* the UART driver (one armed receive at a time, a handler when it ends, a *)
(* handler when a send ends) and usb_boot_serial.c on TinyUSB's FIFOs.     *)
(* MCUboot's console, which calls read and write in turn, and both drivers *)
(* are external.  A byte is a letter or the newline.                       *)
(***************************************************************************)
EXTENDS Integers, SequencesExt

CONSTANTS
    BUF_SIZE,    \* BOOT_SERIAL_RX_BUF_SIZE and BOOT_SERIAL_TX_BUF_SIZE
    STR_SIZE,    \* bound: the room that the console gives to a read
    MaxRx, MaxTx \* bounds: bytes from the host, bytes to the host

VARIABLES
    transport,   \* the build: "uart" or "usb"
    cpc,         \* where the console's processor stands
    armed,       \* a receive is under way
    rx_buf, rx_count, rx_pos,
    fifo,        \* TinyUSB's receive FIFO
    tx_done,
    tx_buf,      \* tlk_usb_tx_buf, tlk_usb_tx_len bytes of it
    src, wcnt,   \* the bytes of the current write, and how many were taken
    wire,        \* what has left the chip
    got, out,    \* ghost: bytes received, bytes handed to the console
    ends,        \* ghost: how many of out there were at each newline reported
    told         \* ghost: bytes that finished writes were to send

cvars == <<transport, cpc, armed, rx_buf, rx_count, rx_pos, fifo, tx_done, tx_buf, src, wcnt, wire,
           got, out, ends, told>>

NL == "nl"
Chars == {"a", NL}

-----------------------------------------------------------------------------
(* The host and the drivers *)

\* A byte that comes when no receive is armed is lost.
UartByte ==
    /\ transport = "uart" /\ armed /\ Len(rx_buf) < BUF_SIZE /\ Len(got) + Len(rx_buf) < MaxRx
    /\ \E b \in Chars : rx_buf' = Append(rx_buf, b)
    /\ UNCHANGED <<transport, cpc, armed, rx_count, rx_pos, fifo, tx_done, tx_buf, src, wcnt, wire,
                   got, out, ends, told>>

\* tlk_uart_rx_handler(), called when the buffer is full or the line is idle.
RxHandler ==
    /\ transport = "uart" /\ armed /\ rx_buf # <<>>
    /\ armed' = FALSE
    /\ rx_count' = Len(rx_buf)
    /\ got' = got \o rx_buf
    /\ UNCHANGED <<transport, cpc, rx_buf, rx_pos, fifo, tx_done, tx_buf, src, wcnt, wire, out, ends,
                   told>>

UsbByte ==
    /\ transport = "usb" /\ Len(got) < MaxRx
    /\ \E b \in Chars : fifo' = Append(fifo, b) /\ got' = Append(got, b)
    /\ UNCHANGED <<transport, cpc, armed, rx_buf, rx_count, rx_pos, tx_done, tx_buf, src, wcnt, wire,
                   out, ends, told>>

\* The UART sends a byte; behind the last one it calls tlk_uart_tx_handler().
UartSend ==
    /\ transport = "uart" /\ wcnt < Len(src) /\ cpc \in {"tx_wait", "idle", "copy", "reset", "arm"}
    /\ wire' = Append(wire, src[wcnt + 1])
    /\ wcnt' = wcnt + 1
    /\ tx_done' = (tx_done \/ wcnt' = Len(src))
    /\ UNCHANGED <<transport, cpc, armed, rx_buf, rx_count, rx_pos, fifo, tx_buf, src, got, out, ends,
                   told>>

-----------------------------------------------------------------------------
(* read *)

\* tlk_boot_uart_read() finds nothing until the handler has stored a count;
\* tlk_boot_usb_read() refills its buffer when it is used up.
Read ==
    /\ cpc = "idle"
    /\ \/ /\ transport = "uart" /\ rx_count # 0
          /\ UNCHANGED <<rx_buf, rx_count, rx_pos, fifo>>
       \/ /\ transport = "usb" /\ rx_pos < rx_count
          /\ UNCHANGED <<rx_buf, rx_count, rx_pos, fifo>>
       \/ /\ transport = "usb" /\ rx_pos >= rx_count /\ fifo # <<>>
          /\ rx_count' = IF Len(fifo) < BUF_SIZE THEN Len(fifo) ELSE BUF_SIZE
          /\ rx_buf' = SubSeq(fifo, 1, rx_count')
          /\ fifo' = SubSeq(fifo, rx_count' + 1, Len(fifo))
          /\ rx_pos' = 0
    /\ cpc' = "copy"
    /\ UNCHANGED <<transport, armed, tx_done, tx_buf, src, wcnt, wire, got, out, ends, told>>

\* How many bytes a read takes: up to a newline, the room or the end.
taken(rest) == CHOOSE n \in 0 .. Len(rest) :
    /\ n <= STR_SIZE /\ \A i \in 1 .. n - 1 : rest[i] # NL
    /\ n = STR_SIZE \/ n = Len(rest) \/ (n > 0 /\ rest[n] = NL)

Copy ==
    /\ cpc = "copy"
    /\ LET rest == SubSeq(rx_buf, rx_pos + 1, rx_count)
           n == taken(rest)
       IN  /\ out' = out \o SubSeq(rest, 1, n)
           /\ ends' = IF n > 0 /\ rest[n] = NL THEN Append(ends, Len(out')) ELSE ends
           /\ rx_pos' = rx_pos + n
    /\ cpc' = IF transport = "uart" /\ rx_pos' >= rx_count THEN "reset" ELSE "idle"
    /\ UNCHANGED <<transport, armed, rx_buf, rx_count, fifo, tx_done, tx_buf, src, wcnt, wire, got, told>>

\* tlk_uart_rx_arm(): the counters first, then the receive.
\* Planted fault: the receive comes first.
Bug_arm_order == <<"arm", "reset">>
arm_order == <<"reset", "arm">>

Arm ==
    /\ cpc \in {"reset", "arm"}
    /\ LET step == arm_order[IF cpc = "reset" THEN 1 ELSE 2]
       IN  IF step = "reset"
           THEN rx_count' = 0 /\ rx_pos' = 0 /\ UNCHANGED <<armed, rx_buf>>
           ELSE armed' = TRUE /\ rx_buf' = <<>> /\ UNCHANGED <<rx_count, rx_pos>>
    /\ cpc' = IF cpc = "reset" THEN "arm" ELSE "idle"
    /\ UNCHANGED <<transport, fifo, tx_done, tx_buf, src, wcnt, wire, got, out, ends, told>>

-----------------------------------------------------------------------------
(* write *)

\* A write of a few bytes: tlk_boot_uart_write() clears its flag and sends.
Write ==
    /\ cpc = "idle" /\ wcnt = Len(src)
    /\ \E n \in 1 .. 2 : \E s \in [1 .. n -> Chars] :
          Len(told) + n <= MaxTx /\ src' = s
    /\ wcnt' = 0
    /\ tx_done' = FALSE
    /\ cpc' = IF transport = "uart" THEN "tx_wait" ELSE "tx_put"
    /\ UNCHANGED <<transport, armed, rx_buf, rx_count, rx_pos, fifo, tx_buf, wire, got, out, ends, told>>

\* It waits for the handler, whatever the send returned.
sent == tx_done

WriteReturn ==
    /\ \/ cpc = "tx_wait" /\ sent
       \/ cpc = "tx_put" /\ wcnt = Len(src)
    /\ cpc' = "idle"
    /\ told' = told \o src
    /\ UNCHANGED <<transport, armed, rx_buf, rx_count, rx_pos, fifo, tx_done, tx_buf, src, wcnt, wire,
                   got, out, ends>>

\* tlk_boot_usb_write(): a byte at a time, flushed when the buffer is full
\* and behind a newline.
full == Len(tx_buf) >= BUF_SIZE

UsbPut ==
    /\ cpc = "tx_put" /\ wcnt < Len(src)
    /\ IF full
       THEN cpc' = "tx_flush" /\ UNCHANGED <<tx_buf, wcnt>>
       ELSE /\ tx_buf' = Append(tx_buf, src[wcnt + 1])
            /\ wcnt' = wcnt + 1
            /\ cpc' = IF src[wcnt + 1] = NL THEN "tx_flush" ELSE "tx_put"
    /\ UNCHANGED <<transport, armed, rx_buf, rx_count, rx_pos, fifo, tx_done, src, wire, got, out, ends,
                   told>>

\* tlk_usb_tx_flush_now(): tud_cdc_write() takes what it has room for.
UsbFlush ==
    /\ cpc = "tx_flush"
    /\ IF tx_buf = <<>>
       THEN cpc' = "tx_put" /\ UNCHANGED <<tx_buf, wire>>
       ELSE \E n \in 0 .. Len(tx_buf) :
               /\ wire' = wire \o SubSeq(tx_buf, 1, n)
               /\ tx_buf' = SubSeq(tx_buf, n + 1, Len(tx_buf))
               /\ UNCHANGED cpc
    /\ UNCHANGED <<transport, armed, rx_buf, rx_count, rx_pos, fifo, tx_done, src, wcnt, got, out, ends,
                   told>>

-----------------------------------------------------------------------------
\* tlk_mcuboot_serial_uart_init() and tlk_mcuboot_serial_usb_init()
Start ==
    /\ cpc = "off"
    /\ transport' \in {"uart", "usb"}
    /\ cpc' = IF transport' = "uart" THEN "reset" ELSE "idle"
    /\ UNCHANGED <<armed, rx_buf, rx_count, rx_pos, fifo, tx_done, tx_buf, src, wcnt, wire, got, out, ends,
                   told>>

Init ==
    /\ transport = "none" /\ cpc = "off" /\ armed = FALSE
    /\ rx_buf = <<>> /\ rx_count = 0 /\ rx_pos = 0 /\ fifo = <<>>
    /\ tx_done = FALSE /\ tx_buf = <<>> /\ src = <<>> /\ wcnt = 0 /\ wire = <<>>
    /\ got = <<>> /\ out = <<>> /\ ends = <<>> /\ told = <<>>

Next ==
    UartByte \/ RxHandler \/ UsbByte \/ UartSend \/ Read \/ Copy \/ Arm \/ Write \/ WriteReturn
    \/ UsbPut \/ UsbFlush \/ Start

-----------------------------------------------------------------------------
(***************************************************************************)
(* The console gets every byte received, once and in order, and a line end *)
(* for exactly the newlines among them, however the handler of a receive   *)
(* falls between the steps of the read that armed it.                      *)
(***************************************************************************)
LinesWhole ==
    /\ IsPrefix(out, got)
    /\ (cpc = "idle" /\ ~armed /\ rx_count = 0 /\ fifo = <<>>) => out = got
    /\ {i \in DOMAIN out : out[i] = NL} = ToSet(ends)

(***************************************************************************)
(* What leaves the chip is what was written, in order, through a buffer    *)
(* that never overruns; a UART write is on the wire when it returns, a USB *)
(* one when it ends a line.                                                *)
(***************************************************************************)
WritesWhole ==
    /\ IsPrefix(wire, told \o src)
    /\ Len(tx_buf) <= BUF_SIZE
    /\ (cpc = "idle" /\ told # <<>> /\ (transport = "uart" \/ Last(told) = NL)) => wire = told
=============================================================================
