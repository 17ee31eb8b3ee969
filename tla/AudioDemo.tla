------------------------------ MODULE AudioDemo ------------------------------
(***************************************************************************)
(* The double-buffered audio programs: audio_demo (records to flash and    *)
(* plays it back, driven by two keys) and the USB microphone and speaker.  *)
(* The DMA goes round two buffers and interrupts at the end of each; the   *)
(* handler chooses the buffer it copies by the parity of a counter of its  *)
(* own.  Handlers run at once, and a copy ends before the DMA's buffer     *)
(* does.                                                                   *)
(*                                                                         *)
(* Whether the audio driver (external) restarts at the head of the ring or *)
(* where it stopped is not in this repository.  audio_demo resets its      *)
(* counters and needs the first, the USB programs keep theirs and need the *)
(* second; each program is checked with the driver it needs.               *)
(***************************************************************************)
EXTENDS Integers, Sequences

CONSTANTS
    BUFFER_COUNT,   \* the capacity of the record, in buffers
    COUNTER,        \* bound: the number of values of the buffer counters, even
    MaxOver,        \* bound: blocks that arrive before main() sees a full record
    MaxPresses,     \* bound: key presses, or stream switches of the host
    MaxBlocks       \* bound: blocks of a USB stream

VARIABLES
    prog,           \* "demo", "mic", "spk"
    state,          \* data.state; the USB programs' is_streaming
    rx_index, tx_index,
    dma,            \* what the audio DMA does, and with which buffer
    buffer,         \* the block in each half of audio_buffer
    storage,        \* the record in flash
    heard,          \* ghost: blocks that left, since the last start or ever
    record,         \* ghost: number of the current record
    presses, made

avars == <<prog, state, rx_index, tx_index, dma, buffer, storage, heard, record, presses, made>>

SILENCE == [of |-> 0, n |-> 0]
block(r, i) == [of |-> r, n |-> i]
Slots == 0 .. BUFFER_COUNT - 1
\* The ring's two nodes point at each other; this one is handed to the driver.
ll_head == 0
off == [dir |-> "off", buf |-> ll_head]
next_buf == 1 - dma.buf

-----------------------------------------------------------------------------
(* audio_demo: the handlers *)

\* Planted fault: the index has moved before the buffer is chosen.
Bug_saved_half(i) == (i + 1) % 2
saved_half(i) == i % 2

\* save_buffer(): beyond the capacity tlk_storage_write() finds no device.
RxDone ==
    /\ prog = "demo" /\ dma.dir = "in" /\ rx_index < BUFFER_COUNT + MaxOver
    /\ LET filled == [buffer EXCEPT ![dma.buf] = block(record, rx_index)]
       IN  /\ buffer' = filled
           /\ storage' = IF rx_index \in Slots
                         THEN [storage EXCEPT ![rx_index] = filled[saved_half(rx_index)]]
                         ELSE storage
    /\ dma' = [dma EXCEPT !.buf = next_buf]
    /\ rx_index' = rx_index + 1
    /\ state' = IF rx_index' = BUFFER_COUNT THEN "stop_rec" ELSE state
    /\ UNCHANGED <<prog, tx_index, heard, record, presses, made>>

\* End of the record reached.
at_end == tx_index = rx_index

\* fill_buffer(): buffer, tx_index and the state after it.
filled_buffer ==
    IF ~at_end /\ tx_index \in Slots
    THEN [buffer EXCEPT ![tx_index % 2] = storage[tx_index]] ELSE buffer
filled_index == IF at_end THEN tx_index ELSE tx_index + 1

\* on_tx_buffer_sent(): the buffer it fills is the one that has just begun.
TxDone ==
    /\ prog = "demo" /\ dma.dir = "out"
    /\ tx_index <= BUFFER_COUNT + MaxOver
    /\ heard' = IF at_end /\ state = "stop_play" THEN heard ELSE Append(heard, buffer[dma.buf])
    /\ dma' = [dma EXCEPT !.buf = next_buf]
    /\ buffer' = filled_buffer
    /\ tx_index' = filled_index
    /\ state' = IF at_end THEN "stop_play" ELSE state
    /\ UNCHANGED <<prog, rx_index, storage, record, presses, made>>

\* on_record() and on_play()
KeyPress ==
    /\ prog = "demo" /\ presses < MaxPresses
    /\ \/ state = "idle" /\ state' \in {"start_rec", "start_play"}
       \/ state = "recording" /\ state' = "stop_rec"
       \/ state = "playing" /\ state' = "stop_play"
    /\ presses' = presses + 1
    /\ UNCHANGED <<prog, rx_index, tx_index, dma, buffer, storage, heard, record, made>>

-----------------------------------------------------------------------------
(* audio_demo: main() *)

\* Planted fault: a new record goes on where the last one ended.
Bug_first_index == rx_index
first_index == 0

StartRecording ==
    /\ prog = "demo" /\ state = "start_rec"
    /\ rx_index' = first_index
    /\ storage' = [i \in Slots |-> SILENCE]
    /\ dma' = [dir |-> "in", buf |-> ll_head]
    /\ state' = "recording"
    /\ record' = record + 1
    /\ UNCHANGED <<prog, tx_index, buffer, heard, presses, made>>

\* The stop that fill_buffer() asks for when there is no record is overwritten.
StartPlaying ==
    /\ prog = "demo" /\ state = "start_play"
    /\ tx_index' = IF rx_index = 0 THEN 0 ELSE 1
    /\ buffer' = IF rx_index = 0 THEN buffer ELSE [buffer EXCEPT ![0] = storage[0]]
    /\ dma' = [dir |-> "out", buf |-> ll_head]
    /\ state' = "playing"
    /\ heard' = <<>>
    /\ UNCHANGED <<prog, rx_index, storage, record, presses, made>>

Stop ==
    /\ prog = "demo" /\ state \in {"stop_rec", "stop_play"}
    /\ dma' = off
    /\ state' = "idle"
    /\ UNCHANGED <<prog, rx_index, tx_index, buffer, storage, heard, record, presses, made>>

-----------------------------------------------------------------------------
(* The USB programs.  Blocks are numbered in the order they are made: by   *)
(* the microphone, or by the host for the speaker.                         *)

\* tud_audio_set_itf_cb()
SetItf ==
    /\ prog # "demo" /\ presses < MaxPresses
    /\ \E alt \in 0 .. 1 :
          /\ state' = IF alt # 0 THEN "playing" ELSE "idle"
          /\ dma' = [dma EXCEPT !.dir = IF alt = 0 THEN "off" ELSE IF prog = "mic" THEN "in" ELSE "out"]
    /\ presses' = presses + 1
    /\ UNCHANGED <<prog, rx_index, tx_index, buffer, storage, heard, record, made>>

next_index(i) == (i + 1) % COUNTER

\* on_audio_rx_done() with send_buffer() of the microphone
MicDone ==
    /\ prog = "mic" /\ dma.dir = "in" /\ made < MaxBlocks
    /\ made' = made + 1
    /\ buffer' = [buffer EXCEPT ![dma.buf] = block(1, made')]
    /\ dma' = [dma EXCEPT !.buf = next_buf]
    /\ heard' = Append(heard, buffer'[rx_index % 2])
    /\ rx_index' = next_index(rx_index)
    /\ UNCHANGED <<prog, state, tx_index, storage, record, presses>>

\* on_audio_tx_done() with fill_buffer() of the speaker; a block written into
\* the buffer that the DMA has begun is torn.
SpkDone ==
    /\ prog = "spk" /\ dma.dir = "out" /\ made < MaxBlocks
    /\ made' = made + 1
    /\ heard' = Append(heard, buffer[dma.buf])
    /\ dma' = [dma EXCEPT !.buf = next_buf]
    /\ buffer' = [buffer EXCEPT ![tx_index % 2] =
                     IF tx_index % 2 = next_buf THEN block(2, made') ELSE block(1, made')]
    /\ tx_index' = next_index(tx_index)
    /\ UNCHANGED <<prog, state, rx_index, storage, record, presses>>

-----------------------------------------------------------------------------
AudioRest == (state = "idle" \/ made = MaxBlocks) /\ UNCHANGED avars

Init ==
    /\ prog \in {"demo", "mic", "spk"}
    /\ state = "idle" /\ rx_index = 0 /\ tx_index = 0
    /\ dma = off
    /\ buffer = [b \in 0 .. 1 |-> SILENCE]
    /\ storage = [i \in Slots |-> SILENCE]
    /\ heard = <<>> /\ record = 0 /\ presses = 0 /\ made = 0

Main == StartRecording \/ StartPlaying \/ Stop
Next == RxDone \/ TxDone \/ KeyPress \/ Main \/ SetItf \/ MicDone \/ SpkDone \/ AudioRest

\* main() polls the state; the DMA goes on.
Fairness == WF_avars(Main) /\ WF_avars(TxDone) /\ WF_avars(RxDone)
Spec == Init /\ [][Next]_avars /\ Fairness

-----------------------------------------------------------------------------
(***************************************************************************)
(* What leaves is what came in: a playback is the current record from its  *)
(* first block on, block by block, whenever it was stopped; the microphone *)
(* sends each block once, whole and in order, and so does the speaker      *)
(* after the silence of its two empty buffers, over any number of starts   *)
(* and stops of the stream (save_buffer, fill_buffer, send_buffer).        *)
(***************************************************************************)
StreamInOrder ==
    /\ prog = "demo" =>
          /\ \A i \in Slots : i < rx_index => storage[i] = block(record, i)
          /\ state \in {"playing", "stop_play"} =>
                \A i \in DOMAIN heard : i <= rx_index /\ i <= BUFFER_COUNT => heard[i] = block(record, i - 1)
    /\ prog = "mic" => \A i \in DOMAIN heard : heard[i] = block(1, i)
    /\ prog = "spk" => \A i \in DOMAIN heard : heard[i] = IF i <= 2 THEN SILENCE ELSE block(1, i - 2)

(***************************************************************************)
(* A recording ends when the storage is full and a playback when the       *)
(* record is, with nobody at the keys, although main() stores the state    *)
(* that the handlers store too.                                            *)
(***************************************************************************)
EndsByItself == (prog = "demo" /\ state # "idle") ~> (state = "idle")
=============================================================================
