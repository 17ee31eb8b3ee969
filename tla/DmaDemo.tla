------------------------------ MODULE DmaDemo ------------------------------
(***************************************************************************)
(* The DMA channel table (tlk_dma.c) and samples/dma_demo: a transfer that *)
(* is aborted, then one that is waited for, round after round, with the    *)
(* flags that the channel's handler sets.  PREVENT builds start a longer   *)
(* transfer first, to have a suspend refused, and do not wait for it.      *)
(*                                                                         *)
(* The DMA is external.  An abort that finds the channel idle raises       *)
(* nothing; a transfer that is configured on a running channel replaces    *)
(* the running one.  The demo counts on its abort to be faster than its    *)
(* transfer: the last byte is not copied in the instructions between       *)
(* start and abort.                                                        *)
(***************************************************************************)
EXTENDS Integers, Sequences

CONSTANTS
    CHN_COUNT,       \* UNISDK_DMA_CHN_COUNT
    TRANSFER_SIZE    \* bound: bytes of a transfer; ARRAY_LEN is one more

VARIABLES
    dbuild,          \* the build options INTERRUPT and PREVENT
    channels,        \* tlk_dma_channels: the channels that are taken
    demo_chn,
    plan,            \* what is left of the round
    xfer,            \* bytes the running transfer has left, 0: none
    dst,             \* how much of the pattern in src the array dst holds
    dma_complete, dma_abort

dvars == <<dbuild, channels, demo_chn, plan, xfer, dst, dma_complete, dma_abort>>

Channels == 0 .. CHN_COUNT - 1
TLK_DMA_NONE == CHN_COUNT

-----------------------------------------------------------------------------
\* The peripherals' channels; a static assertion leaves one free.
reservations == SUBSET Channels \ {Channels}

free == Channels \ channels

tlk_dma_chn_request ==
    IF free = {} THEN TLK_DMA_NONE ELSE CHOOSE c \in free : \A d \in free : c <= d

\* main() before its loop
Setup ==
    /\ demo_chn = TLK_DMA_NONE
    /\ demo_chn' = tlk_dma_chn_request
    /\ channels' = channels \cup {demo_chn'}
    /\ UNCHANGED <<dbuild, plan, xfer, dst, dma_complete, dma_abort>>

-----------------------------------------------------------------------------
(* main(): the loop *)

waited(op) == IF dbuild.interrupt THEN <<op>> ELSE <<>>

loop ==
    (IF dbuild.prevent THEN <<"start_long">> ELSE <<>>)
        \o <<"fill", "start", "abort">> \o waited("wait_abort") \o <<"dump_aborted">>
        \o <<"fill", "start">> \o waited("wait_complete") \o <<"dump_copied">>

at_call(op) == plan # <<>> /\ Head(plan) = op
rest_of(s) == IF Len(s) = 1 THEN loop ELSE Tail(s)

Fill ==
    /\ demo_chn # TLK_DMA_NONE /\ at_call("fill")
    /\ dst' = 0 /\ plan' = rest_of(plan)
    /\ UNCHANGED <<dbuild, channels, demo_chn, xfer, dma_complete, dma_abort>>

Start ==
    /\ demo_chn # TLK_DMA_NONE
    /\ \/ at_call("start") /\ xfer' = TRANSFER_SIZE
       \/ at_call("start_long") /\ xfer' = TRANSFER_SIZE + 1
    /\ plan' = rest_of(plan)
    /\ UNCHANGED <<dbuild, channels, demo_chn, dst, dma_complete, dma_abort>>

\* The channel raises an abort interrupt: chn_handler(TLK_DMA_IRQ_ABT).
Abort ==
    /\ at_call("abort")
    /\ xfer' = 0
    /\ dma_abort' = (dma_abort \/ (xfer > 0 /\ dbuild.interrupt))
    /\ plan' = rest_of(plan)
    /\ UNCHANGED <<dbuild, channels, demo_chn, dst, dma_complete>>

WaitAbort ==
    /\ at_call("wait_abort") /\ dma_abort
    /\ dma_abort' = FALSE /\ plan' = rest_of(plan)
    /\ UNCHANGED <<dbuild, channels, demo_chn, xfer, dst, dma_complete>>

\* Planted fault: the flag is not cleared.
Bug_after_wait == dma_complete
after_wait == FALSE

WaitComplete ==
    /\ at_call("wait_complete") /\ dma_complete
    /\ dma_complete' = after_wait /\ plan' = rest_of(plan)
    /\ UNCHANGED <<dbuild, channels, demo_chn, xfer, dst, dma_abort>>

Dump ==
    /\ at_call("dump_aborted") \/ at_call("dump_copied")
    /\ plan' = rest_of(plan)
    /\ UNCHANGED <<dbuild, channels, demo_chn, xfer, dst, dma_complete, dma_abort>>

-----------------------------------------------------------------------------
\* chn_handler(TLK_DMA_IRQ_TC) at the end of a transfer.
DmaByte ==
    /\ xfer > 0
    /\ ~(xfer = 1 /\ at_call("abort"))
    /\ xfer' = xfer - 1
    /\ dst' = IF dst < TRANSFER_SIZE THEN dst + 1 ELSE dst
    /\ dma_complete' = (dma_complete \/ (xfer = 1 /\ dbuild.interrupt))
    /\ UNCHANGED <<dbuild, channels, demo_chn, plan, dma_abort>>

Init ==
    /\ dbuild \in [interrupt : BOOLEAN, prevent : BOOLEAN]
    /\ channels \in reservations
    /\ demo_chn = TLK_DMA_NONE
    /\ plan = loop
    /\ xfer = 0 /\ dst = 0 /\ dma_complete = FALSE /\ dma_abort = FALSE

Main == Setup \/ Fill \/ Start \/ Abort \/ WaitAbort \/ WaitComplete \/ Dump
Next == Main \/ DmaByte
Spec == Init /\ [][Next]_dvars

-----------------------------------------------------------------------------
(***************************************************************************)
(* With the interrupt and without PREVENT, what main() dumps as the result *)
(* of the transfer is the whole transfer, and nothing is dumped while the  *)
(* DMA still writes it: every completion that main() waits for is that of  *)
(* the transfer it just started.  (In PREVENT builds the completion of the *)
(* longer transfer is taken for it.)                                       *)
(***************************************************************************)
DumpsComplete ==
    dbuild.interrupt /\ ~dbuild.prevent =>
       /\ at_call("dump_copied") => dst = TRANSFER_SIZE
       /\ at_call("dump_copied") \/ at_call("dump_aborted") => xfer = 0
=============================================================================
