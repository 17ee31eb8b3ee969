------------------------------ MODULE Storage ------------------------------
(***************************************************************************)
(* Non-volatile storage: the calls of system/storage/storage.c and the     *)
(* device registry of storage_device.c, over devices known only through    *)
(* their read, write and erase functions.                                  *)
(*                                                                         *)
(* A byte is the set of its 1 bits, so that programming flash, which only  *)
(* clears bits, is intersection, and the test bt_new & ~bt_old is a subset *)
(* test.  Every call of a device function is a step of its own: it may     *)
(* return an error, and power may be lost during it or between two of      *)
(* them.  An erase or a write cut short leaves anything in its area.       *)
(***************************************************************************)
EXTENDS Integers, Sequences, FiniteSetsExt

CONSTANTS
    Bits,           \* the bits of a byte
    STALE,          \* what dev->buffer holds from earlier calls; not a byte
    Devices,        \* the devices a program may register
    Base, Size,     \* where each device is: dev->base, dev->size
    Page,           \* dev->page: erase unit, or 0 when there is none
    Ops,            \* the device functions that are not NULL
    DefaultBuffer,  \* STORAGE_DEVICE_DEFAULT_BUFFER_SIZE
    Registered,     \* what start-up may leave registered, in list order
    Lens            \* the lengths callers ask for

Byte == SUBSET Bits
CLEAN == Bits       \* clean_byte is 0xff
Area(d) == Base[d] .. Base[d] + Size[d] - 1
Addr == UNION {Area(d) : d \in Devices}

ASSUME DevicesAssumption ==
    /\ \A d \in Devices : Base[d] \in Nat /\ Size[d] \in Nat \ {0} /\ Page[d] \in Nat
    /\ \A d, e \in Devices : d # e => Area(d) \cap Area(e) = {}
    /\ \A d \in Devices : Ops[d] \subseteq {"read", "write", "erase"}
ASSUME AlignAssumption ==
    \* page offsets are taken from the address itself, not from the base
    \A d \in Devices : Page[d] > 0 => Base[d] % Page[d] = 0 /\ Size[d] % Page[d] = 0
ASSUME StaleAssumption == \A b \in Byte : b # STALE
ASSUME SizesAssumption == DefaultBuffer \in Nat \ {0} /\ Lens \subseteq Nat

VARIABLES
    storage_device,  \* the registered devices, in list order
    mem,             \* what the devices hold
    call,            \* the call in progress, or the last one
    dev,             \* the device it found
    buffer,          \* dev->buffer
    done,            \* how many bytes of the call are behind it
    pc, result,
    before           \* history: mem when the call was made

vars == <<storage_device, mem, call, dev, buffer, done, pc, result, before>>

\* The calls: buf is <<>> for a NULL pointer.
Call(o, a, n, b) == [op |-> o, addr |-> a, len |-> n, buf |-> b]
Calls ==
    {Call(o, a, n, <<>>) : o \in {"read", "erase", "write"}, a \in Addr, n \in Lens}
    \cup UNION {{Call("write", a, n, b) : a \in Addr, b \in [1 .. n -> Byte]} : n \in Lens}

NoBuffer == <<>>
NoDevice == "NULL"

NoCall == Call("read", 0, 0, <<>>)

Init ==
    /\ storage_device = <<>>
    /\ mem \in [Addr -> Byte]
    /\ call = NoCall /\ done = 0
    /\ dev = NoDevice /\ buffer = NoBuffer
    /\ pc = "boot" /\ result = "none"
    /\ before = mem

-----------------------------------------------------------------------------
(* The registry.  Devices are added (and could be removed) by start-up     *)
(* hooks, before the first call.                                           *)

is_exist_device(d) == \E i \in 1 .. Len(storage_device) : storage_device[i] = d

add_device(d) ==
    /\ pc = "boot"
    /\ ~is_exist_device(d)
    /\ storage_device' = Append(storage_device, d)
    /\ UNCHANGED <<mem, call, dev, buffer, done, pc, result, before>>

remove_device(d) ==
    /\ pc = "boot"
    /\ \E i \in 1 .. Len(storage_device) :
          /\ storage_device[i] = d
          /\ storage_device' = SubSeq(storage_device, 1, i - 1)
                               \o SubSeq(storage_device, i + 1, Len(storage_device))
    /\ UNCHANGED <<mem, call, dev, buffer, done, pc, result, before>>

Started ==
    /\ pc = "boot"
    /\ storage_device \in Registered
    /\ pc' = "idle"
    /\ UNCHANGED <<storage_device, mem, call, dev, buffer, done, result, before>>

\* The first registered device that holds the whole range, or NULL.
find_device(a, n) ==
    LET fits == {i \in 1 .. Len(storage_device) :
                    LET d == storage_device[i]
                    IN  a >= Base[d] /\ a + n <= Base[d] + Size[d]}
    IN  IF fits = {} THEN NoDevice ELSE storage_device[Min(fits)]

-----------------------------------------------------------------------------
(* tlk_storage_read(), tlk_storage_erase(), tlk_storage_write(). *)

\* The device functions a call cannot do without.
needed(op, d) ==
    IF op = "read" THEN {"read"}
    ELSE IF Page[d] = 0 THEN {"write"} ELSE {"read", "erase", "write"}

\* Why a call is refused, if it is.
refusal(c) ==
    LET d == find_device(c.addr, c.len) IN
    IF c.len = 0 \/ (c.op = "write" /\ c.buf = <<>>) THEN "-EINVAL"
    ELSE IF d = NoDevice THEN "-ENODEV"
    ELSE IF ~(needed(c.op, d) \subseteq Ops[d]) THEN "-ENOSYS"
    ELSE "none"

first_step(c, d) ==
    IF c.op = "read" THEN "read" ELSE IF Page[d] = 0 THEN "write" ELSE "page"

Begin(c) ==
    /\ pc = "idle"
    /\ call' = c /\ done' = 0 /\ before' = mem
    /\ result' = refusal(c)
    /\ dev' = find_device(c.addr, c.len)
    /\ pc' = IF result' = "none" THEN first_step(c, dev') ELSE "returned"
    /\ UNCHANGED <<storage_device, mem, buffer>>

\* dev->read() into the caller's buffer.
Read ==
    /\ pc = "read"
    /\ pc' = "returned" /\ result' = "0"
    /\ UNCHANGED <<storage_device, mem, call, dev, buffer, done, before>>

-----------------------------------------------------------------------------
(* tlk_storage_modify_pages(), one page at a time, and the write loops of  *)
(* devices without pages.                                                  *)

at == call.addr + done
page_offset == at % Page[dev]
page_start == at - page_offset
PageArea == page_start .. page_start + Page[dev] - 1

\* How many bytes the next piece of the call has.
piece_len ==
    LET len == call.len - done IN
    IF Page[dev] > 0 THEN Min({len, Page[dev] - page_offset})
    ELSE IF call.op = "erase" THEN Min({len, DefaultBuffer}) ELSE len

Piece == at .. at + piece_len - 1

\* bt_new: the byte the call wants at address a.
bt_new(a) == IF call.op = "write" THEN call.buf[a - call.addr + 1] ELSE CLEAN

same_data == \A a \in Piece : mem[a] = bt_new(a)

\* Planted fault: any change can be programmed without an erase.
Bug_no_erase == TRUE
no_erase == \A a \in Piece : bt_new(a) \subseteq mem[a]

\* Planted fault: the last piece is not counted off.
Bug_advance ==
    /\ done' = done
    /\ pc' = (IF Page[dev] > 0 THEN "page" ELSE "write") /\ result' = "none"

\* The piece is finished: go on with the next one, or return 0.
advance ==
    /\ done' = done + piece_len
    /\ IF done' < call.len
       THEN pc' = (IF Page[dev] > 0 THEN "page" ELSE "write") /\ result' = "none"
       ELSE pc' = "returned" /\ result' = "0"

\* The piece holds the data already (or, for an erase, needs no erase).
PageSkip ==
    /\ pc = "page" /\ (same_data \/ (no_erase /\ call.op = "erase"))
    /\ advance
    /\ UNCHANGED <<storage_device, mem, call, dev, buffer, before>>

PageProgram ==
    /\ pc = "page" /\ ~same_data /\ no_erase /\ call.op = "write"
    /\ pc' = "write"
    /\ UNCHANGED <<storage_device, mem, call, dev, buffer, done, result, before>>

\* The page must be erased: the old piece is in the buffer, nothing else is.
PageRewrite ==
    /\ pc = "page" /\ ~same_data /\ ~no_erase
    /\ buffer' = [i \in 0 .. Page[dev] - 1 |->
                     IF page_start + i \in Piece THEN mem[page_start + i] ELSE STALE]
    /\ pc' = "head"
    /\ UNCHANGED <<storage_device, mem, call, dev, done, result, before>>

\* Planted fault: the bytes before the piece are not read back.
Bug_head_saved(i) == buffer[i]
head_saved(i) == mem[page_start + i]

\* The head of the page is read, the new piece is copied over the old one.
HeadRead ==
    /\ pc = "head"
    /\ buffer' = [i \in 0 .. Page[dev] - 1 |->
                     IF i < page_offset THEN head_saved(i)
                     ELSE IF page_start + i \in Piece THEN bt_new(page_start + i)
                     ELSE buffer[i]]
    /\ pc' = "tail"
    /\ UNCHANGED <<storage_device, mem, call, dev, done, result, before>>

TailRead ==
    /\ pc = "tail"
    /\ buffer' = [i \in 0 .. Page[dev] - 1 |->
                     IF i >= page_offset + piece_len THEN mem[page_start + i]
                     ELSE buffer[i]]
    /\ pc' = "erase"
    /\ UNCHANGED <<storage_device, mem, call, dev, done, result, before>>

\* The bytes of the buffer an erase alone does not give.
dirty == {i \in 0 .. Page[dev] - 1 : buffer[i] # CLEAN}

\* dev->erase() of the page; an empty page is not written back.
Erase ==
    /\ pc = "erase"
    /\ mem' = [a \in Addr |-> IF a \in PageArea THEN CLEAN ELSE mem[a]]
    /\ IF dirty = {} THEN advance
       ELSE pc' = "restore" /\ UNCHANGED <<done, result>>
    /\ UNCHANGED <<storage_device, call, dev, buffer, before>>

\* The bytes dev->write() is given: the buffer without its clean head and
\* tail, or the piece.
written ==
    IF pc = "restore"
    THEN [a \in page_start + Min(dirty) .. page_start + Max(dirty) |-> buffer[a - page_start]]
    ELSE [a \in Piece |-> bt_new(a)]

\* dev->write(): a paged device is flash and only clears bits.
Write ==
    /\ pc \in {"write", "restore"}
    /\ mem' = [a \in Addr |->
                  IF a \notin DOMAIN written THEN mem[a]
                  ELSE IF Page[dev] > 0 THEN mem[a] \cap written[a] ELSE written[a]]
    /\ advance
    /\ UNCHANGED <<storage_device, call, dev, buffer, before>>

Step == Read \/ PageSkip \/ PageProgram \/ PageRewrite \/ HeadRead \/ TailRead
        \/ Erase \/ Write

-----------------------------------------------------------------------------
(* Failures. *)

\* What a device call cut short may have touched.
span ==
    IF pc = "erase" THEN PageArea
    ELSE IF pc \in {"write", "restore"} THEN DOMAIN written ELSE {}

Torn == \E junk \in [span -> Byte] :
    mem' = [a \in Addr |-> IF a \in span THEN junk[a] ELSE mem[a]]

Busy == pc \notin {"boot", "idle", "returned", "off"}

\* A device function returns an error, which the call returns.
DeviceError ==
    /\ Busy
    /\ Torn
    /\ pc' = "returned" /\ result' = "-EIO"
    /\ UNCHANGED <<storage_device, call, dev, buffer, done, before>>

PowerLoss ==
    /\ Busy
    /\ Torn
    /\ pc' = "off" /\ result' = "lost"
    /\ UNCHANGED <<storage_device, call, dev, buffer, done, before>>

Forget ==
    /\ call' = NoCall /\ done' = 0 /\ result' = "none"
    /\ dev' = NoDevice /\ buffer' = NoBuffer
    /\ before' = mem /\ mem' = mem

\* The caller goes on (what is left of the call is dead).
Resume ==
    /\ pc = "returned" /\ pc' = "idle"
    /\ Forget
    /\ UNCHANGED storage_device

\* A reset: RAM starts over, the devices keep what they hold.
Restart ==
    /\ pc = "off" /\ pc' = "boot"
    /\ Forget
    /\ storage_device' = <<>>

Next ==
    \/ \E d \in Devices : add_device(d) \/ remove_device(d)
    \/ Started
    \/ \E c \in Calls : Begin(c)
    \/ Step
    \/ DeviceError
    \/ PowerLoss
    \/ Resume
    \/ Restart

Spec == Init /\ [][Next]_vars

\* Device functions return: none of them waits for anything but the device.
FairSpec == Spec /\ WF_vars(Step)

-----------------------------------------------------------------------------
TypeOK ==
    /\ storage_device \in Seq(Devices)
    /\ \A i, j \in 1 .. Len(storage_device) :
          storage_device[i] = storage_device[j] => i = j
    /\ mem \in [Addr -> Byte] /\ before \in [Addr -> Byte]
    /\ dev \in Devices \cup {NoDevice}
    /\ done \in 0 .. call.len
    /\ pc \in {"boot", "idle", "returned", "read", "page", "head", "tail",
               "erase", "write", "restore", "off"}
    /\ result \in {"none", "0", "-EINVAL", "-ENODEV", "-ENOSYS", "-EIO", "lost"}

Asked(c) == c.addr .. c.addr + c.len - 1

\* What the devices should hold after the call in progress.
Wanted == [a \in Addr |->
    IF call.op # "read" /\ a \in Asked(call) THEN bt_new(a) ELSE before[a]]

(***************************************************************************)
(* A call that returns 0 did what it was asked and nothing else: the range *)
(* holds the new bytes and every other byte of every device, those that    *)
(* share a page with the range included, is as it was.                     *)
(***************************************************************************)
Completed == result = "0" => mem = Wanted

\* The area the call is working on: a page, or the piece being written.
WorkArea == IF Page[dev] > 0 THEN PageArea ELSE Piece

(***************************************************************************)
(* Damage is confined.  At every instant, also after a device error or a   *)
(* power loss at any point: the pages behind the call hold what they       *)
(* should, those ahead of it are untouched, and only the page it is at may *)
(* be in between; that one is untouched too until its erase or its write,  *)
(* and while it is erased the buffer holds all of it.                      *)
(***************************************************************************)
Confined ==
    (Busy \/ result \in {"-EIO", "lost"}) =>
        /\ \A a \in Addr \ WorkArea :
              mem[a] = (IF a < at THEN Wanted[a] ELSE before[a])
        /\ pc \in {"page", "head", "tail", "erase"} =>
              \A a \in PageArea : mem[a] = before[a]
        /\ pc = "restore" =>
              \A a \in PageArea : buffer[a - page_start] =
                                     (IF a \in Piece THEN bt_new(a) ELSE before[a])

(***************************************************************************)
(* Every call returns (or power is lost): no sequence of pieces goes on    *)
(* for ever.                                                               *)
(***************************************************************************)
CallsReturn == Busy ~> ~Busy
=============================================================================
