------------------------------- MODULE Common -------------------------------
(***************************************************************************)
(* Helpers the rest of the SDK is built from, at the level of their        *)
(* memory: the ring of tlk_dlist.h under the list of storage devices, with *)
(* a program that walks the list while devices come and go, the heap that  *)
(* _sbrk() grows, and tlk_str_utils_convert_buf_to_hex().                  *)
(***************************************************************************)
EXTENDS Integers, Sequences, FiniteSets

CONSTANTS
    Devices,
    UINTPTR,                \* bound: 2^32, the addresses
    HEAP_START, HEAP_END,   \* _end, CHIP_HEAP_BANK_END_ADDR
    MaxSrc, MaxDst,         \* bounds: sizes of the buffers of a conversion
    Bytes                   \* bound: the bytes that are converted

VARIABLES
    next, prev,             \* the links of every node
    cursor,                 \* the device a walk stands on
    seen,                   \* ghost: the devices the walk came to
    stayed,                 \* ghost: the devices in the list all the while
    heap_end, blocks,       \* blocks: ghost, the memory handed out
    text                    \* the last conversion: its input, dst_len and output

cvars == <<next, prev, cursor, seen, stayed, heap_end, blocks, text>>

LIST == "storage_device"
NULL == "null"
Nodes == Devices \cup {LIST}

-----------------------------------------------------------------------------
(* tlk_dlist.h *)

tlk_dlist_insert(node, p, n) ==
    /\ next' = [next EXCEPT ![node] = n, ![p] = node]
    /\ prev' = [prev EXCEPT ![node] = p, ![n] = node]

tlk_dlist_append(node) == tlk_dlist_insert(node, prev[LIST], LIST)

\* Planted fault: the way back is not relinked.
Bug_unlinked_prev(node) == [prev EXCEPT ![node] = NULL]
unlinked_prev(node) == [prev EXCEPT ![next[node]] = prev[node], ![node] = NULL]

tlk_dlist_remove(node) ==
    /\ next' = [next EXCEPT ![prev[node]] = next[node], ![node] = NULL]
    /\ prev' = unlinked_prev(node)

-----------------------------------------------------------------------------
(* storage_device.c *)

get_next_device(from) == IF next[from] = LIST THEN NULL ELSE next[from]

\* The device that a walk comes to in its k-th step.
walk[k \in 0 .. Cardinality(Devices)] ==
    IF k = 0 THEN get_next_device(LIST)
    ELSE IF walk[k - 1] = NULL THEN NULL ELSE get_next_device(walk[k - 1])

is_exist_device(d) == \E k \in DOMAIN walk : walk[k] = d

AddDevice(d) ==
    /\ IF is_exist_device(d) THEN UNCHANGED <<next, prev>> ELSE tlk_dlist_append(d)
    /\ UNCHANGED <<cursor, seen, stayed, heap_end, blocks, text>>

\* The device under a walk stays where it is: its links would be gone.
RemoveDevice(d) ==
    /\ cursor # d
    /\ IF is_exist_device(d) THEN tlk_dlist_remove(d) ELSE UNCHANGED <<next, prev>>
    /\ stayed' = stayed \ {d}
    /\ UNCHANGED <<cursor, seen, heap_end, blocks, text>>

WalkStart ==
    /\ cursor = NULL /\ get_next_device(LIST) # NULL
    /\ cursor' = get_next_device(LIST)
    /\ seen' = <<cursor'>>
    /\ stayed' = {d \in Devices : is_exist_device(d)}
    /\ UNCHANGED <<next, prev, heap_end, blocks, text>>

\* Bound: a walk that goes round is not followed for ever.
WalkStep ==
    /\ cursor # NULL /\ Len(seen) <= 2 * Cardinality(Devices)
    /\ cursor' = get_next_device(cursor)
    /\ seen' = IF cursor' = NULL THEN seen ELSE Append(seen, cursor')
    /\ UNCHANGED <<next, prev, stayed, heap_end, blocks, text>>

-----------------------------------------------------------------------------
(* mem.c.  The caller gives back no more than it has. *)

out_of_range(incr) == (heap_end + incr) % UINTPTR > HEAP_END

\* Blocks that end before an address; memory is given back from the end.
below(x) == Cardinality({i \in DOMAIN blocks : blocks[i].to <= x})

Sbrk(incr) ==
    /\ heap_end + incr >= HEAP_START
    /\ ~out_of_range(incr)
    /\ heap_end' = heap_end + incr
    /\ blocks' = IF incr > 0 THEN Append(blocks, [from |-> heap_end, to |-> heap_end + incr])
                 ELSE SubSeq(blocks, 1, below(heap_end + incr))
    /\ UNCHANGED <<next, prev, cursor, seen, stayed, text>>

-----------------------------------------------------------------------------
(* tlk_str_utils.c *)

convert_nibble(v) == IF v < 10 THEN 48 + v ELSE 97 + v - 10
convert_byte_to_char(b, high) == convert_nibble(IF high THEN b \div 16 ELSE b % 16)

\* Bytes that are converted: the test is made before each of them.
fitting(n, dst_len) == Cardinality({i \in 0 .. n - 1 : 2 * i + 3 < dst_len})

convert_buf_to_hex(src, dst_len) ==
    [i \in 1 .. 2 * fitting(Len(src), dst_len) |-> convert_byte_to_char(src[(i + 1) \div 2], i % 2 = 1)]

Convert ==
    /\ \E n \in 0 .. MaxSrc : \E src \in [1 .. n -> Bytes], dst_len \in 1 .. MaxDst :
          text' = [src |-> src, dst_len |-> dst_len, out |-> convert_buf_to_hex(src, dst_len)]
    /\ UNCHANGED <<next, prev, cursor, seen, stayed, heap_end, blocks>>

-----------------------------------------------------------------------------
Init ==
    /\ next = [d \in Nodes |-> IF d = LIST THEN LIST ELSE NULL] /\ prev = next
    /\ cursor = NULL /\ seen = <<>> /\ stayed = {}
    /\ heap_end = HEAP_START /\ blocks = <<>>
    /\ text = [src |-> <<>>, dst_len |-> MaxDst, out |-> <<>>]

\* The list, the heap and the conversions do not touch each other: each is
\* used while the others rest.
list_rests == next[LIST] = LIST /\ cursor = NULL /\ seen = <<>>
heap_rests == heap_end = HEAP_START
text_rests == text.src = <<>> /\ text.dst_len = MaxDst
Next ==
    \/ heap_rests /\ text_rests
          /\ ((\E d \in Devices : AddDevice(d) \/ RemoveDevice(d)) \/ WalkStart \/ WalkStep)
    \/ list_rests /\ text_rests
          /\ (\E incr \in -(UINTPTR \div 2) .. UINTPTR \div 2 - 1 : Sbrk(incr))
    \/ list_rests /\ heap_rests /\ Convert
Spec == Init /\ [][Next]_cvars

-----------------------------------------------------------------------------
(***************************************************************************)
(* A walk over the devices (tlk_storage_get_next_device) that has come to  *)
(* its end was at each device that stayed in the list, once, whatever was  *)
(* added and removed meanwhile; and the ring is whole in both directions.  *)
(***************************************************************************)
WalkSeesAll ==
    /\ (cursor = NULL /\ seen # <<>>) =>
          \A d \in stayed : Cardinality({i \in DOMAIN seen : seen[i] = d}) = 1
    /\ \A n \in Nodes : next[n] # NULL => prev[next[n]] = n

(***************************************************************************)
(* Memory that _sbrk handed out lies in the heap and no two blocks share   *)
(* an address, and a converted text is the beginning of its source and     *)
(* ends, with its zero, inside dst.                                        *)
(***************************************************************************)
BlocksApart ==
    /\ \A i, j \in DOMAIN blocks : i < j => blocks[i].to <= blocks[j].from
    /\ \A i \in DOMAIN blocks : blocks[i].from >= HEAP_START /\ blocks[i].to <= HEAP_END

TextFits ==
    /\ Len(text.out) < text.dst_len
    /\ \A k \in 1 .. Len(text.out) \div 2 :
          LET digit(c) == IF c < 97 THEN c - 48 ELSE c - 87
          IN  text.src[k] = 16 * digit(text.out[2 * k - 1]) + digit(text.out[2 * k])
=============================================================================
