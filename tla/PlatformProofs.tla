--------------------------- MODULE PlatformProofs ---------------------------
(***************************************************************************)
(* Proofs about the parts that MCPlatform puts together: the SoC flash     *)
(* driver, the sleep API, the bootloader port and its serial console, the  *)
(* start-up and power hooks, the PMP unit and the common helpers.          *)
(***************************************************************************)
EXTENDS MCPlatform, Sequences, FiniteSetTheorems, SequenceTheorems, WellFoundedInduction, TLAPS

-----------------------------------------------------------------------------
(* The parts.  A step of the composition is a step of one of them and      *)
(* leaves the variables of the others alone.                               *)

LEMMA FlashMoves == [Next]_vars => F!Next \/ UNCHANGED flash_vars
BY DEF Next, vars, FlashStep, SleepStep, PowerStep, CommonStep, FieldStep, BootStep, SerialStep,
       CodecStep, SerialRest, others_rest

LEMMA SleepMoves == [Next]_vars => S!Next \/ UNCHANGED sleep_vars
BY DEF Next, vars, FlashStep, SleepStep, PowerStep, CommonStep, FieldStep, BootStep, SerialStep,
       CodecStep, SerialRest, others_rest

LEMMA BootMoves == [Next]_vars => B!Next \/ UNCHANGED boot_vars
BY DEF Next, vars, FlashStep, SleepStep, PowerStep, CommonStep, FieldStep, BootStep, SerialStep,
       CodecStep, SerialRest, others_rest

LEMMA SerialMoves == [Next]_vars => L!Next \/ UNCHANGED serial_vars
BY DEF Next, vars, FlashStep, SleepStep, PowerStep, CommonStep, FieldStep, BootStep, SerialStep,
       CodecStep, SerialRest, others_rest

LEMMA PowerMoves == [Next]_vars => P!Next \/ UNCHANGED power_vars
BY DEF Next, vars, FlashStep, SleepStep, PowerStep, CommonStep, FieldStep, BootStep, SerialStep,
       CodecStep, SerialRest, others_rest

LEMMA CommonMoves == [Next]_vars => G!Next \/ UNCHANGED common_vars
BY DEF Next, vars, FlashStep, SleepStep, PowerStep, CommonStep, FieldStep, BootStep, SerialStep,
       CodecStep, SerialRest, others_rest

-----------------------------------------------------------------------------
(* Program blocks. *)

\* The cells that a program command of n bytes at a reaches, as the device has
\* it: within a block its wrapped position of a cell is the distance.
InBlock(x, a, n) ==
    LET base == a - (a % MAX_WRITE_BLOCK)
    IN  x \in base .. base + MAX_WRITE_BLOCK - 1 /\ ((x - a) % MAX_WRITE_BLOCK) + 1 <= n

LEMMA BlockCells ==
    ASSUME NEW a \in Nat, NEW n \in Nat, n <= MAX_WRITE_BLOCK - (a % MAX_WRITE_BLOCK), NEW x \in Nat
    PROVE  /\ InBlock(x, a, n) <=> x \in a .. a + n - 1
           /\ x \in a .. a + n - 1 => ((x - a) % MAX_WRITE_BLOCK) + 1 = x - a + 1
<1>1. PICK M \in Nat \ {0} : M = MAX_WRITE_BLOCK
  BY FlashAssumption
<1>2. PICK r \in 0 .. M - 1 : r = a % MAX_WRITE_BLOCK
  BY <1>1
<1>3. n <= M - r
  BY <1>1, <1>2
<1>4. PICK y \in Int : y = x - a
  OBVIOUS
<1>5. y \in 0 .. M - 1 => y % M = y
  BY SMT
<1>6. y \in -M .. -1 => y % M = y + M
  BY SMT
<1>7. PICK z \in Int : z = y % M
  OBVIOUS
<1>8. /\ (x \in a - r .. a - r + M - 1 /\ z + 1 <= n) <=> x \in a .. a + n - 1
      /\ x \in a .. a + n - 1 => z + 1 = x - a + 1
  BY ONLY <1>3, <1>4, <1>5, <1>6, <1>7, r \in 0 .. M - 1, M \in Nat \ {0}, a \in Nat, n \in Nat,
     x \in Nat, y \in Int, z \in Int
<1>9. InBlock(x, a, n) <=> (x \in a - r .. a - r + M - 1 /\ z + 1 <= n)
  BY <1>1, <1>2, <1>4, <1>7, Zenon DEF InBlock
<1>10. ((x - a) % MAX_WRITE_BLOCK) + 1 = z + 1
  BY <1>1, <1>4, <1>7, Zenon
<1> QED BY <1>8, <1>9, <1>10, Zenon

\* The driver's piece of a transfer is not empty and does not reach over the
\* end of its block.
LEMMA PieceLength ==
    ASSUME NEW a \in Nat, NEW len \in Nat \ {0}
    PROVE  /\ F!wr_len(a, len) \in 1 .. len
           /\ F!wr_len(a, len) <= MAX_WRITE_BLOCK - (a % MAX_WRITE_BLOCK)
<1>1. a % MAX_WRITE_BLOCK \in 0 .. MAX_WRITE_BLOCK - 1
  BY FlashAssumption
<1>2. PICK r \in 0 .. MAX_WRITE_BLOCK - 1 : r = a % MAX_WRITE_BLOCK
  BY <1>1
<1>3. F!wr_len(a, len) = IF len < MAX_WRITE_BLOCK - r THEN len ELSE MAX_WRITE_BLOCK - r
  BY <1>2 DEF F!wr_len
<1>4. /\ F!wr_len(a, len) \in 1 .. len /\ F!wr_len(a, len) <= MAX_WRITE_BLOCK - r
  BY <1>3, FlashAssumption
<1> QED BY <1>2, <1>4

-----------------------------------------------------------------------------
(* The flash driver. *)

\* What the cells are when data have been programmed from address a on.
After(mem, a, data) ==
    [x \in F!Addr |-> IF x \in a .. a + Len(data) - 1 THEN mem[x] * data[x - a + 1] ELSE mem[x]]

\* The device does that with one block.
LEMMA BlockProgrammed ==
    ASSUME NEW mem, NEW a \in Nat, NEW data \in Seq({0, 1}),
           Len(data) <= MAX_WRITE_BLOCK - (a % MAX_WRITE_BLOCK)
    PROVE  F!programmed(mem, a, data) = After(mem, a, data)
<1>1. PICK n \in Nat : n = Len(data) /\ n <= MAX_WRITE_BLOCK - (a % MAX_WRITE_BLOCK)
  OBVIOUS
<1>2. ASSUME NEW x \in F!Addr
      PROVE  F!programmed(mem, a, data)[x] = After(mem, a, data)[x]
  <2>1. x \in Nat /\ MAX_WRITE_BLOCK \in Nat \ {0}
    BY FlashAssumption DEF F!Addr
  <2>2. PICK i : i = ((x - a) % MAX_WRITE_BLOCK) + 1
    OBVIOUS
  <2>3. InBlock(x, a, n) <=> x \in a .. a + n - 1
    BY <1>1, <2>1, BlockCells
  <2>4. x \in a .. a + n - 1 => i = x - a + 1
    BY <1>1, <2>1, <2>2, BlockCells
  <2>8. F!programmed(mem, a, data)[x] = IF InBlock(x, a, n) THEN mem[x] * data[i] ELSE mem[x]
    BY <1>1, <2>2 DEF F!programmed, InBlock
  <2>5. After(mem, a, data)[x] = IF x \in a .. a + n - 1 THEN mem[x] * data[x - a + 1] ELSE mem[x]
    BY <1>1 DEF After
  <2>6. CASE x \in a .. a + n - 1
    BY ONLY <2>3, <2>4, <2>5, <2>6, <2>8, Zenon
  <2>7. CASE x \notin a .. a + n - 1
    BY ONLY <2>3, <2>4, <2>5, <2>7, <2>8, Zenon
  <2> QED BY <2>6, <2>7
<1> QED BY <1>2, Zenon DEF F!programmed, After

\* Programming a beginning and then the rest is programming the whole.
LEMMA AfterSplits ==
    ASSUME NEW mem \in [F!Addr -> Nat], NEW a \in Nat, NEW data \in Seq({0, 1}),
           NEW n \in 1 .. Len(data)
    PROVE  After(After(mem, a, SubSeq(data, 1, n)), a + n, SubSeq(data, n + 1, Len(data)))
             = After(mem, a, data)
<1>1. PICK l \in Nat : l = Len(data) /\ n \in 1 .. l
  OBVIOUS
<1> DEFINE one == SubSeq(data, 1, n)
           two == SubSeq(data, n + 1, l)
           mid == After(mem, a, one)
<1>2. Len(one) = n /\ \A k \in 1 .. n : one[k] = data[k]
  BY <1>1
<1>3. Len(two) = l - n /\ \A k \in 1 .. l - n : two[k] = data[n + k]
  BY <1>1
<1>4. ASSUME NEW x \in F!Addr PROVE After(mid, a + n, two)[x] = After(mem, a, data)[x]
  <2>1. x \in Nat
    BY FlashAssumption DEF F!Addr
  <2>2. mid[x] = IF x \in a .. a + n - 1 THEN mem[x] * one[x - a + 1] ELSE mem[x]
    BY <1>2 DEF After
  <2>3. After(mid, a + n, two)[x] =
          IF x \in a + n .. a + n + (l - n) - 1 THEN mid[x] * two[x - (a + n) + 1] ELSE mid[x]
    BY <1>3 DEF After
  <2>4. After(mem, a, data)[x] = IF x \in a .. a + l - 1 THEN mem[x] * data[x - a + 1] ELSE mem[x]
    BY <1>1 DEF After
  <2> HIDE DEF mid, one, two
  <2>5. CASE x \in a .. a + n - 1
    <3>1. x - a + 1 \in 1 .. n /\ x \notin a + n .. a + n + (l - n) - 1 /\ x \in a .. a + l - 1
      BY <1>1, <2>1, <2>5
    <3> QED BY <1>2, <2>2, <2>3, <2>4, <2>5, <3>1
  <2>6. CASE x \in a + n .. a + l - 1
    <3>1. /\ x - (a + n) + 1 \in 1 .. l - n /\ n + (x - (a + n) + 1) = x - a + 1
          /\ x \in a + n .. a + n + (l - n) - 1 /\ x \notin a .. a + n - 1 /\ x \in a .. a + l - 1
      BY <1>1, <2>1, <2>6
    <3> QED BY <1>3, <2>2, <2>3, <2>4, <3>1
  <2>7. CASE x \notin a .. a + l - 1
    <3>1. x \notin a + n .. a + n + (l - n) - 1 /\ x \notin a .. a + n - 1
      BY <1>1, <2>1, <2>7
    <3> QED BY <2>2, <2>3, <2>4, <2>7, <3>1
  <2>8. x \in a .. a + n - 1 \/ x \in a + n .. a + l - 1 \/ x \notin a .. a + l - 1
    BY <1>1, <2>1
  <2> QED BY <2>5, <2>6, <2>7, <2>8
<1>5. After(mid, a + n, two) = After(mem, a, data)
  BY <1>4, Zenon DEF After
<1> QED BY <1>1, <1>5, Zenon

Normal == [irq |-> TRUE, xip |-> TRUE, cipher |-> 1, brpe |-> TRUE]
Masked == fpc \in {"enable", "command", "wait", "read", "end"}

CallType == [op : {"read", "erase", "program"}, addr : Nat, buf : Seq({0, 1}), got : Seq(Nat),
             brpe : BOOLEAN, r : BOOLEAN, cipher : {0, 1}]

FlashTypes ==
    /\ flash = [mem |-> flash.mem, wel |-> flash.wel, busy |-> flash.busy, polls |-> flash.polls]
    /\ flash.mem \in [F!Addr -> Nat] /\ flash.wel \in BOOLEAN /\ flash.polls \in Nat
    /\ fpc \in {"idle", "begin", "enable", "command", "wait", "read", "end", "return"}
    /\ fpc # "idle" => call \in CallType /\ call.addr + Len(call.buf) <= FLASH_SIZE

\* The device is busy only while the driver polls it, and the registers are
\* the program's unless the driver has masked interrupts and kept them.
Hardware ==
    /\ fpc # "wait" => flash.busy = F!Idle
    /\ flash.busy # F!Idle => flash.busy = [op |-> call.op, addr |-> call.addr, data |-> F!block]
    /\ fpc = "command" => flash.wel
    /\ IF Masked THEN ~hw.irq /\ call.r /\ call.cipher = 1 /\ call.brpe ELSE hw = Normal

\* What is left to do, by operation.
Undone == fpc \in {"begin", "enable", "command"} \/ (fpc = "wait" /\ flash.busy # F!Idle)
Done == fpc = "end" \/ (fpc = "wait" /\ flash.busy = F!Idle)

LeftToRead ==
    /\ fpc \in {"begin", "read", "end", "return"} /\ expected = flash.mem
    /\ fpc \in {"end", "return"} =>
          call.got = [i \in 1 .. Len(call.buf) |-> expected[call.addr + i - 1]]

LeftToErase ==
    /\ fpc # "read"
    /\ Undone => expected = F!erased(flash.mem, call.addr)
    /\ ~Undone => expected = flash.mem

n_block == F!wr_len(call.addr, Len(call.buf))

LeftToProgram ==
    /\ fpc # "read"
    /\ fpc # "return" => Len(call.buf) > 0
    /\ Undone => expected = After(flash.mem, call.addr, call.buf)
    /\ Done => expected = After(flash.mem, call.addr + n_block,
                                SubSeq(call.buf, n_block + 1, Len(call.buf)))
    /\ fpc = "return" => expected = flash.mem

Work ==
    fpc # "idle" => CASE call.op = "read" -> LeftToRead
                      [] call.op = "erase" -> LeftToErase
                      [] OTHER -> LeftToProgram

FlashInv == FlashTypes /\ Hardware /\ Work

LEMMA FlashInit == F!Init => FlashInv
<1> SUFFICES ASSUME F!Init PROVE FlashInv
  OBVIOUS
<1>1. flash = [mem |-> [a \in F!Addr |-> 1], wel |-> FALSE, busy |-> F!Idle, polls |-> 0]
      /\ fpc = "idle" /\ hw = Normal
  BY DEF F!Init, Normal
<1>2. /\ flash.mem \in [F!Addr -> Nat] /\ flash.wel \in BOOLEAN /\ flash.polls \in Nat
      /\ flash.busy = F!Idle
      /\ flash = [mem |-> flash.mem, wel |-> flash.wel, busy |-> flash.busy, polls |-> flash.polls]
  BY <1>1
<1> QED BY <1>1, <1>2 DEF FlashInv, FlashTypes, Hardware, Work, Masked

\* The length of the piece at hand.
LEMMA BlockNow ==
    ASSUME FlashInv, fpc # "idle", Len(call.buf) > 0
    PROVE  /\ n_block \in 1 .. Len(call.buf) /\ F!block = SubSeq(call.buf, 1, n_block)
           /\ F!block \in Seq({0, 1}) /\ Len(F!block) = n_block
           /\ n_block <= MAX_WRITE_BLOCK - (call.addr % MAX_WRITE_BLOCK)
<1>1. call.addr \in Nat /\ call.buf \in Seq({0, 1}) /\ Len(call.buf) \in Nat \ {0}
  BY DEF FlashInv, FlashTypes, CallType
<1>2. n_block \in 1 .. Len(call.buf) /\ n_block <= MAX_WRITE_BLOCK - (call.addr % MAX_WRITE_BLOCK)
  BY <1>1, PieceLength DEF n_block
<1>3. F!block = SubSeq(call.buf, 1, n_block)
  BY DEF F!block, n_block
<1> HIDE DEF n_block
<1>4. SubSeq(call.buf, 1, n_block) \in Seq({0, 1}) /\ Len(SubSeq(call.buf, 1, n_block)) = n_block
  BY <1>1, <1>2
<1> QED BY <1>2, <1>3, <1>4

LEMMA CallKeeps == ASSUME FlashInv, F!Call PROVE FlashInv'
<1>1. PICK op \in {"read", "erase", "program"}, a \in F!Addr, len \in 0 .. MaxLen, v \in {0, 1} :
        /\ a + len <= FLASH_SIZE
        /\ op = "erase" => a % PAGE_SIZE = 0 /\ len = 0
        /\ op # "program" => v = 0
        /\ call' = [op |-> op, addr |-> a, buf |-> [i \in 1 .. len |-> (i + v) % 2], got |-> <<>>,
                    brpe |-> FALSE, r |-> FALSE, cipher |-> 0]
        /\ expected' =
              CASE op = "read" -> flash.mem
                [] op = "erase" -> F!erased(flash.mem, a)
                [] op = "program" ->
                      [x \in F!Addr |-> IF x \in a .. a + len - 1
                                      THEN flash.mem[x] * call'.buf[x - a + 1] ELSE flash.mem[x]]
        /\ fpc' = IF op = "program" /\ len = 0 THEN "return" ELSE "begin"
  BY DEF F!Call
<1>2. fpc = "idle" /\ UNCHANGED <<flash, hw>>
  BY DEF F!Call
<1>3. len \in Nat /\ a \in Nat
  BY FlashAssumption DEF F!Addr
<1> DEFINE buf == [i \in 1 .. len |-> (i + v) % 2]
<1>4. buf \in Seq({0, 1}) /\ Len(buf) = len
  <2>1. \A i \in 1 .. len : (i + v) % 2 \in {0, 1}
    BY <1>3
  <2> QED BY <1>3, <2>1
<1> HIDE DEF buf
<1>5. call' = [op |-> op, addr |-> a, buf |-> buf, got |-> <<>>, brpe |-> FALSE, r |-> FALSE, cipher |-> 0]
  BY <1>1 DEF buf
<1>6. call' \in CallType /\ call'.op = op /\ call'.addr = a /\ call'.buf = buf
  BY <1>3, <1>4, <1>5 DEF CallType
<1>7. fpc' \in {"begin", "return"} /\ (fpc' = "return" <=> op = "program" /\ len = 0)
  BY <1>1
<1>8. FlashTypes' /\ Hardware'
  BY <1>1, <1>2, <1>4, <1>6, <1>7 DEF FlashInv, FlashTypes, Hardware, Masked
<1>9. Work'
  <2>1. CASE op = "read"
    BY <1>1, <1>2, <1>6, <1>7, <2>1 DEF Work, LeftToRead
  <2>2. CASE op = "erase"
    BY <1>1, <1>2, <1>6, <1>7, <2>2 DEF Work, LeftToErase, Undone
  <2>3. CASE op = "program"
    <3>1. expected' = After(flash.mem, a, buf)
      <4>1. expected' = [x \in F!Addr |-> IF x \in a .. a + len - 1
                                         THEN flash.mem[x] * call'.buf[x - a + 1] ELSE flash.mem[x]]
        BY <1>1, <2>3
      <4> QED BY ONLY <1>4, <1>6, <4>1 DEF After
    <3>2. len = 0 => expected' = flash.mem
      <4>1. ASSUME len = 0, NEW x \in F!Addr PROVE After(flash.mem, a, buf)[x] = flash.mem[x]
        BY <1>3, <1>4, <4>1 DEF After
      <4>2. flash.mem \in [F!Addr -> Nat]
        BY DEF FlashInv, FlashTypes
      <4> QED BY <3>1, <4>1, <4>2, Zenon DEF After
    <3> QED BY <1>2, <1>3, <1>4, <1>6, <1>7, <2>3, <3>1, <3>2 DEF Work, LeftToProgram, Undone, Done
  <2> QED BY <2>1, <2>2, <2>3
<1> QED BY <1>8, <1>9 DEF FlashInv

\* The device ends its operation: what is left is less by one block, or nothing.
LEMMA DoneKeeps == ASSUME FlashInv, F!DeviceDone PROVE FlashInv'
<1>1. flash.busy # F!Idle /\ UNCHANGED <<hw, call, fpc, expected>>
  BY DEF F!DeviceDone
<1>2. /\ fpc = "wait" /\ call \in CallType
      /\ flash.busy = [op |-> call.op, addr |-> call.addr, data |-> F!block]
      /\ flash.mem \in [F!Addr -> Nat]
  BY <1>1 DEF FlashInv, FlashTypes, Hardware
<1>3. /\ flash.busy.op = call.op /\ flash.busy.addr = call.addr /\ flash.busy.data = F!block
  BY <1>2
<1> DEFINE m == IF call.op = "program" THEN F!programmed(flash.mem, call.addr, F!block)
                ELSE F!erased(flash.mem, call.addr)
<1>4. flash' = [flash EXCEPT !.busy = F!Idle, !.wel = FALSE, !.mem = m]
  BY <1>3, Zenon DEF F!DeviceDone
<1>5. call.op # "read" /\ Undone
  BY <1>1, <1>2 DEF FlashInv, Work, LeftToRead, Undone
<1>6. m \in [F!Addr -> Nat] /\ Work'
  <2>1. CASE call.op = "erase"
    <3>1. m = F!erased(flash.mem, call.addr)
      BY <2>1
    <3>2. m \in [F!Addr -> Nat]
      BY <1>2, <3>1 DEF F!erased
    <3>3. expected = m
      BY <1>2, <1>5, <2>1, <3>1 DEF FlashInv, Work, LeftToErase
    <3> HIDE DEF m
    <3>4. flash'.mem = m /\ flash'.busy = F!Idle
      BY <1>4 DEF FlashInv, FlashTypes
    <3> QED BY <1>1, <1>2, <2>1, <3>2, <3>3, <3>4 DEF Work, LeftToErase, Undone
  <2>2. CASE call.op = "program"
    <3>1. /\ Len(call.buf) > 0 /\ expected = After(flash.mem, call.addr, call.buf)
          /\ call.addr \in Nat /\ call.buf \in Seq({0, 1})
      BY <1>2, <1>5, <2>2 DEF FlashInv, Work, LeftToProgram, CallType
    <3>2. /\ n_block \in 1 .. Len(call.buf) /\ F!block = SubSeq(call.buf, 1, n_block)
          /\ F!block \in Seq({0, 1}) /\ Len(F!block) = n_block
          /\ n_block <= MAX_WRITE_BLOCK - (call.addr % MAX_WRITE_BLOCK)
      BY <1>2, <3>1, BlockNow
    <3>3. m = After(flash.mem, call.addr, SubSeq(call.buf, 1, n_block))
      BY <2>2, <3>1, <3>2, BlockProgrammed
    <3>4. expected = After(m, call.addr + n_block, SubSeq(call.buf, n_block + 1, Len(call.buf)))
      <4>1. After(After(flash.mem, call.addr, SubSeq(call.buf, 1, n_block)), call.addr + n_block,
                  SubSeq(call.buf, n_block + 1, Len(call.buf)))
              = After(flash.mem, call.addr, call.buf)
        BY <1>2, <3>1, <3>2, AfterSplits
      <4> HIDE DEF m
      <4> QED BY <3>1, <3>3, <4>1, Zenon
    <3>5. m \in [F!Addr -> Nat]
      <4>1. ASSUME NEW x \in F!Addr, x \in call.addr .. call.addr + Len(F!block) - 1
            PROVE  flash.mem[x] * F!block[x - call.addr + 1] \in Nat
        <5>1. x \in Nat
          BY FlashAssumption DEF F!Addr
        <5>2. x - call.addr + 1 \in 1 .. Len(F!block)
          BY <3>1, <3>2, <4>1, <5>1
        <5>3. F!block[x - call.addr + 1] \in {0, 1} /\ flash.mem[x] \in Nat
          BY <1>2, <3>2, <5>2
        <5>4. PICK u \in Nat, w \in {0, 1} : u = flash.mem[x] /\ w = F!block[x - call.addr + 1]
          BY <5>3
        <5>5. u * w \in Nat
          OBVIOUS
        <5> QED BY <5>4, <5>5
      <4> QED BY <1>2, <3>2, <3>3, <4>1 DEF After
    <3> HIDE DEF m
    <3>6. flash'.mem = m /\ flash'.busy = F!Idle
      BY <1>4 DEF FlashInv, FlashTypes
    <3>7. n_block' = n_block
      BY <1>1 DEF n_block
    <3> QED BY <1>1, <1>2, <2>2, <3>1, <3>4, <3>5, <3>6, <3>7 DEF Work, LeftToProgram, Undone, Done
  <2> QED BY <1>2, <1>5, <2>1, <2>2 DEF CallType
<1> HIDE DEF m
<1>7. FlashTypes'
  BY <1>1, <1>4, <1>6 DEF FlashInv, FlashTypes
<1>8. Hardware'
  BY <1>1, <1>2, <1>4 DEF FlashInv, FlashTypes, Hardware, Masked
<1> QED BY <1>6, <1>7, <1>8 DEF FlashInv

\* The steps of the driver that only move it on, or set the latch.
LEMMA DriverKeeps ==
    ASSUME FlashInv, F!Begin \/ F!SendWriteEnable \/ F!Return \/ F!Rest PROVE FlashInv'
<1>1. CASE F!Begin
  <2>1. /\ fpc = "begin" /\ UNCHANGED <<flash, expected>>
        /\ call' = [call EXCEPT !.brpe = hw.brpe, !.r = hw.irq, !.cipher = hw.cipher]
        /\ hw' = [irq |-> FALSE, xip |-> FALSE, cipher |-> 0, brpe |-> FALSE]
        /\ fpc' = IF call.op = "read" THEN "read" ELSE "enable"
    BY <1>1 DEF F!Begin
  <2>2. hw = Normal /\ call \in CallType /\ flash.busy = F!Idle
    BY <2>1 DEF FlashInv, FlashTypes, Hardware, Masked
  <2>3. /\ call' \in CallType /\ call'.op = call.op /\ call'.addr = call.addr /\ call'.buf = call.buf
        /\ call'.r /\ call'.cipher = 1 /\ call'.brpe
    BY <2>1, <2>2 DEF Normal, CallType
  <2>4. FlashTypes' /\ Hardware'
    BY <2>1, <2>2, <2>3 DEF FlashInv, FlashTypes, Hardware, Masked
  <2>5. Work'
    BY <2>1, <2>2, <2>3 DEF FlashInv, Work, LeftToRead, LeftToErase, LeftToProgram, Undone, Done, CallType
  <2> QED BY <2>4, <2>5 DEF FlashInv
<1>2. CASE F!SendWriteEnable
  <2>1. /\ fpc = "enable" /\ fpc' = "command" /\ UNCHANGED <<hw, call, expected>>
        /\ flash' = [flash EXCEPT !.wel = flash.wel \/ flash.busy = F!Idle]
    BY <1>2 DEF F!SendWriteEnable
  <2>2. flash.busy = F!Idle /\ call \in CallType
    BY <2>1 DEF FlashInv, FlashTypes, Hardware
  <2>3. /\ flash'.wel = TRUE /\ flash'.mem = flash.mem /\ flash'.busy = flash.busy
        /\ flash'.polls = flash.polls
        /\ flash' = [mem |-> flash'.mem, wel |-> flash'.wel, busy |-> flash'.busy, polls |-> flash'.polls]
    BY <2>1, <2>2 DEF FlashInv, FlashTypes
  <2>4. FlashTypes' /\ Hardware'
    BY <2>1, <2>2, <2>3 DEF FlashInv, FlashTypes, Hardware, Masked
  <2>5. Work'
    BY <2>1, <2>2, <2>3 DEF FlashInv, Work, LeftToRead, LeftToErase, LeftToProgram, Undone, Done, CallType
  <2> QED BY <2>4, <2>5 DEF FlashInv
<1>3. CASE F!Return
  BY <1>3 DEF F!Return, FlashInv, FlashTypes, Hardware, Masked, Work
<1>4. CASE F!Rest
  <2>1. UNCHANGED <<flash, hw, call, fpc, expected>> /\ fpc = "idle"
    BY <1>4 DEF F!Rest, F!fvars
  <2> QED BY <2>1 DEF FlashInv, FlashTypes, Hardware, Masked, Work
<1> QED BY <1>1, <1>2, <1>3, <1>4

LEMMA CommandKeeps == ASSUME FlashInv, F!SendCommand PROVE FlashInv'
<1>1. fpc = "command" /\ fpc' = "wait" /\ UNCHANGED <<hw, call, expected>>
  BY DEF F!SendCommand
<1>2. flash.busy = F!Idle /\ flash.wel /\ call \in CallType
  BY <1>1 DEF FlashInv, FlashTypes, Hardware
<1> DEFINE b == [op |-> call.op, addr |-> call.addr, data |-> F!block]
<1>3. flash' = [flash EXCEPT !.polls = 0, !.busy = b]
  BY <1>2 DEF F!SendCommand
<1>4. b # F!Idle /\ b' = b
  <2>1. b.op # F!Idle.op
    BY <1>2 DEF CallType, F!Idle
  <2> QED BY <1>1, <2>1 DEF F!block
<1> HIDE DEF b
<1>5. /\ flash'.wel = flash.wel /\ flash'.mem = flash.mem /\ flash'.busy = b /\ flash'.polls = 0
      /\ flash' = [mem |-> flash'.mem, wel |-> flash'.wel, busy |-> flash'.busy, polls |-> flash'.polls]
  BY <1>3 DEF FlashInv, FlashTypes
<1>6. FlashTypes'
  BY <1>1, <1>5 DEF FlashInv, FlashTypes
<1>7. Hardware'
  <2>1. flash'.busy = [op |-> call'.op, addr |-> call'.addr, data |-> F!block']
    BY <1>4, <1>5 DEF b
  <2> QED BY <1>1, <2>1 DEF FlashInv, Hardware, Masked
<1>8. Work'
  <2>1. Undone /\ Undone' /\ ~Done' /\ call.op # "read"
    BY <1>1, <1>4, <1>5 DEF Undone, Done, FlashInv, Work, LeftToRead
  <2> QED BY <1>1, <1>2, <1>5, <2>1 DEF FlashInv, Work, LeftToErase, LeftToProgram, CallType
<1> QED BY <1>6, <1>7, <1>8 DEF FlashInv

\* The poll ends only when the device is idle: the driver reads the status
\* more often than the device may be busy.
LEMMA WaitKeeps == ASSUME FlashInv, F!WaitDone PROVE FlashInv'
<1>1. fpc = "wait" /\ UNCHANGED <<hw, call, expected>> /\ call \in CallType
  BY DEF F!WaitDone, FlashInv, FlashTypes
<1>2. CASE flash.busy = F!Idle
  <2>1. fpc' = "end" /\ flash' = flash
    BY <1>2 DEF F!WaitDone
  <2>2. FlashTypes' /\ Hardware'
    BY <1>1, <1>2, <2>1 DEF FlashInv, FlashTypes, Hardware, Masked
  <2>3. n_block' = n_block
    BY <1>1 DEF n_block
  <2>4. Done /\ Done' /\ ~Undone /\ ~Undone' /\ call.op # "read"
    BY <1>1, <1>2, <2>1 DEF Done, Undone, FlashInv, Work, LeftToRead
  <2>5. Work'
    BY <1>1, <2>1, <2>3, <2>4 DEF FlashInv, Work, LeftToErase, LeftToProgram, CallType
  <2> QED BY <2>2, <2>5 DEF FlashInv
<1>3. CASE flash.busy # F!Idle
  <2>1. flash.polls \in Nat /\ flash.polls < BUSY_CNT_MAX - 1
    BY <1>3 DEF F!WaitDone, F!MaxBusy, FlashInv, FlashTypes
  <2>2. F!poll_again(flash.polls + 1)
    BY <2>1, FlashAssumption DEF F!poll_again
  <2>3. fpc' = "wait" /\ flash' = [flash EXCEPT !.polls = @ + 1]
    BY <1>3, <2>2 DEF F!WaitDone
  <2>4. /\ flash'.wel = flash.wel /\ flash'.mem = flash.mem /\ flash'.busy = flash.busy
        /\ flash'.polls = flash.polls + 1
        /\ flash' = [mem |-> flash'.mem, wel |-> flash'.wel, busy |-> flash'.busy, polls |-> flash'.polls]
    BY <2>3 DEF FlashInv, FlashTypes
  <2>5. FlashTypes'
    BY <1>1, <2>1, <2>3, <2>4 DEF FlashInv, FlashTypes
  <2>6. F!block' = F!block
    BY <1>1 DEF F!block
  <2>7. Hardware'
    BY <1>1, <2>3, <2>4, <2>6 DEF FlashInv, Hardware, Masked
  <2>8. Undone /\ Undone' /\ ~Done' /\ call.op # "read"
    BY <1>1, <1>3, <2>3, <2>4 DEF Undone, Done, FlashInv, Work, LeftToRead
  <2>9. Work'
    BY <1>1, <2>3, <2>4, <2>8 DEF FlashInv, Work, LeftToErase, LeftToProgram, CallType
  <2> QED BY <2>5, <2>7, <2>9 DEF FlashInv
<1> QED BY <1>2, <1>3

LEMMA ReadKeeps == ASSUME FlashInv, F!Read PROVE FlashInv'
<1>1. /\ fpc = "read" /\ fpc' = "end" /\ UNCHANGED <<flash, hw, expected>>
      /\ call \in CallType /\ flash.busy = F!Idle
  BY DEF F!Read, FlashInv, FlashTypes, Hardware
<1>2. call.op = "read" /\ expected = flash.mem
  BY <1>1 DEF FlashInv, Work, LeftToRead, LeftToErase, LeftToProgram, CallType
<1> DEFINE g == [i \in 1 .. Len(call.buf) |-> flash.mem[call.addr + i - 1]]
<1>3. call' = [call EXCEPT !.got = g]
  BY <1>1 DEF F!Read
<1>4. g \in Seq(Nat)
  <2>1. /\ Len(call.buf) \in Nat /\ call.addr \in Nat /\ call.addr + Len(call.buf) <= FLASH_SIZE
        /\ flash.mem \in [F!Addr -> Nat]
    BY <1>1 DEF FlashInv, FlashTypes, CallType
  <2>2. ASSUME NEW i \in 1 .. Len(call.buf) PROVE flash.mem[call.addr + i - 1] \in Nat
    <3>1. call.addr + i - 1 \in F!Addr
      <4>1. PICK d \in Nat, n \in Nat : d = call.addr /\ n = Len(call.buf)
        BY <2>1
      <4>2. d + n <= FLASH_SIZE /\ i \in 1 .. n
        BY <2>1, <4>1
      <4>3. d + i - 1 \in F!Addr
        BY ONLY <4>2, FlashAssumption, d \in Nat, n \in Nat DEF F!Addr
      <4> QED BY <4>1, <4>3
    <3> QED BY <2>1, <3>1
  <2> QED BY <2>1, <2>2
<1>5. g = [i \in 1 .. Len(call.buf) |-> expected[call.addr + i - 1]]
  BY <1>2
<1> HIDE DEF g
<1>6. /\ call' \in CallType /\ call'.op = call.op /\ call'.addr = call.addr /\ call'.buf = call.buf
      /\ call'.got = g /\ call'.r = call.r /\ call'.cipher = call.cipher /\ call'.brpe = call.brpe
  BY <1>1, <1>3, <1>4 DEF CallType
<1>7. FlashTypes' /\ Hardware'
  BY <1>1, <1>6 DEF FlashInv, FlashTypes, Hardware, Masked
<1>8. call'.got = [i \in 1 .. Len(call'.buf) |-> expected'[call'.addr + i - 1]]
  BY <1>1, <1>5, <1>6
<1>9. Work'
  BY <1>1, <1>2, <1>6, <1>8 DEF Work, LeftToRead
<1> QED BY <1>7, <1>9 DEF FlashInv

\* The registers come back, and the next block is what is left.
LEMMA EndKeeps == ASSUME FlashInv, F!End PROVE FlashInv'
<1>1. /\ fpc = "end" /\ hw' = F!restored /\ UNCHANGED <<flash, expected>>
      /\ call \in CallType /\ flash.busy = F!Idle
  BY DEF F!End, FlashInv, FlashTypes, Hardware
<1>2. hw' = Normal
  BY <1>1 DEF FlashInv, Hardware, Masked, F!restored, Normal, CallType
<1>3. Done /\ ~Undone
  BY <1>1 DEF Done, Undone
<1>4. CASE call.op # "program"
  <2>1. fpc' = "return" /\ call' = call
    BY <1>4 DEF F!End
  <2>2. FlashTypes' /\ Hardware'
    BY <1>1, <1>2, <2>1 DEF FlashInv, FlashTypes, Hardware, Masked
  <2>3. ~Undone'
    BY <2>1 DEF Undone
  <2>4. Work'
    BY <1>1, <1>3, <1>4, <2>1, <2>3 DEF FlashInv, Work, LeftToRead, LeftToErase, CallType
  <2> QED BY <2>2, <2>4 DEF FlashInv
<1>5. CASE call.op = "program"
  <2>1. /\ Len(call.buf) > 0 /\ call.addr \in Nat /\ call.buf \in Seq({0, 1})
        /\ expected = After(flash.mem, call.addr + n_block,
                            SubSeq(call.buf, n_block + 1, Len(call.buf)))
        /\ call.addr + Len(call.buf) <= FLASH_SIZE
    BY <1>1, <1>3, <1>5 DEF FlashInv, FlashTypes, Work, LeftToProgram, CallType
  <2>2. n_block \in 1 .. Len(call.buf) /\ Len(F!block) = n_block
    BY <1>1, <2>1, BlockNow
  <2>3. PICK n \in Nat, l \in Nat : n = n_block /\ l = Len(call.buf) /\ n \in 1 .. l
    BY <2>1, <2>2
  <2> DEFINE rest == SubSeq(call.buf, n + 1, l)
  <2>4. rest \in Seq({0, 1}) /\ Len(rest) = l - n
    BY <2>1, <2>3
  <2>5. expected = After(flash.mem, call.addr + n, rest)
    BY <2>1, <2>3
  <2>6. call' = [call EXCEPT !.addr = call.addr + n, !.buf = rest]
        /\ fpc' = IF l = n THEN "return" ELSE "begin"
    BY <1>5, <2>2, <2>3 DEF F!End
  <2> HIDE DEF rest
  <2>7. /\ call' \in CallType /\ call'.op = "program" /\ call'.addr = call.addr + n /\ call'.buf = rest
        /\ call'.addr + Len(call'.buf) <= FLASH_SIZE
    <3>1. call.addr + n \in Nat /\ (call.addr + n) + (l - n) <= FLASH_SIZE
      BY <2>1, <2>3, FlashAssumption
    <3>2. /\ call' \in CallType /\ call'.op = "program" /\ call'.addr = call.addr + n /\ call'.buf = rest
      BY <1>1, <1>5, <2>4, <2>6, <3>1 DEF CallType
    <3> QED BY <2>4, <3>1, <3>2
  <2>8. FlashTypes'
    BY <1>1, <2>6, <2>7 DEF FlashInv, FlashTypes
  <2>9. Hardware'
    BY <1>1, <1>2, <2>6 DEF FlashInv, Hardware, Masked
  <2>10. Work'
    <3>1. CASE l = n
      <4>1. fpc' = "return" /\ Len(rest) = 0
        BY <2>4, <2>6, <3>1
      <4>2. flash.mem \in [F!Addr -> Nat]
        BY DEF FlashInv, FlashTypes
      <4>3. ASSUME NEW x \in F!Addr PROVE After(flash.mem, call.addr + n, rest)[x] = flash.mem[x]
        BY <2>1, <4>1 DEF After
      <4>4. expected = flash.mem
        BY <2>5, <4>2, <4>3, Zenon DEF After
      <4> QED BY <1>1, <2>7, <4>1, <4>4 DEF Work, LeftToProgram, Undone, Done
    <3>2. CASE l # n
      <4>1. fpc' = "begin" /\ Len(rest) > 0
        BY <2>3, <2>4, <2>6, <3>2
      <4> QED BY <1>1, <2>5, <2>7, <4>1 DEF Work, LeftToProgram, Undone, Done
    <3> QED BY <3>1, <3>2
  <2> QED BY <2>8, <2>9, <2>10 DEF FlashInv
<1> QED BY <1>4, <1>5

LEMMA FlashKeeps == FlashInv /\ [Next]_vars => FlashInv'
<1> SUFFICES ASSUME FlashInv, [Next]_vars PROVE FlashInv'
  OBVIOUS
<1>1. CASE F!Next
  BY <1>1, CallKeeps, DoneKeeps, DriverKeeps, CommandKeeps, WaitKeeps, ReadKeeps, EndKeeps DEF F!Next
<1>2. CASE UNCHANGED flash_vars
  BY <1>2 DEF flash_vars, FlashInv, FlashTypes, Hardware, Masked, Work, LeftToRead, LeftToErase,
              LeftToProgram, Undone, Done, n_block, F!block
<1> QED BY <1>1, <1>2, FlashMoves

(***************************************************************************)
(* For every size of flash, page and program block, and any calls: while   *)
(* interrupts are enabled the flash delivers instructions, from the mask   *)
(* that soc_flash.c sets before its first command to the one it lifts      *)
(* after its last status poll.                                             *)
(***************************************************************************)
THEOREM FlashCodeCanRun == Spec => []CodeCanRun
<1>1. Init => FlashInv
  BY FlashInit DEF Init
<1>2. FlashInv => CodeCanRun
  BY DEF FlashInv, Hardware, Masked, Normal, CodeCanRun, F!CodeCanRun
<1> QED BY <1>1, <1>2, FlashKeeps, PTL DEF Spec

(***************************************************************************)
(* The driver keeps the contract of a storage device: a write that crosses *)
(* program blocks, which the device wraps at, programs every byte in its   *)
(* place (tlk_storage_flash_write and its wr_len), an erase cleans one   *)
(* page, a read returns the cells, and the hardware is as it was.          *)
(***************************************************************************)
THEOREM FlashKeepsContract == Spec => []DeviceContract
<1>1. Init => FlashInv
  BY FlashInit DEF Init
<1>2. FlashInv => DeviceContract
  <2> SUFFICES ASSUME FlashInv, fpc = "return" PROVE DeviceContract
    BY DEF DeviceContract, F!DeviceContract
  <2>1. hw = Normal /\ ~Undone /\ call \in CallType
    BY DEF FlashInv, FlashTypes, Hardware, Masked, Undone
  <2>2. /\ expected = flash.mem
        /\ call.op = "read" => call.got = [i \in 1 .. Len(call.buf) |-> expected[call.addr + i - 1]]
    BY <2>1 DEF FlashInv, Work, LeftToRead, LeftToErase, LeftToProgram, CallType
  <2> QED BY <2>1, <2>2 DEF DeviceContract, F!DeviceContract, Normal
<1> QED BY <1>1, <1>2, FlashKeeps, PTL DEF Spec

-----------------------------------------------------------------------------
(* The sleep API. *)

\* A time is its two halves, and the high one never goes back.
LEMMA Halves ==
    ASSUME NEW t \in Nat
    PROVE  /\ S!high(t) \in Nat /\ S!low(t) \in Nat
           /\ S!high(t) * Half + S!low(t) = t
<1>1. t \div Half \in Nat /\ t % Half \in 0 .. Half - 1
  BY SleepAssumption
<1>2. t = Half * (t \div Half) + (t % Half)
  BY SleepAssumption
<1>3. PICK q \in Nat, r \in Nat : q = t \div Half /\ r = t % Half
  BY <1>1, SleepAssumption
<1>4. Half * q = q * Half
  BY SleepAssumption
<1>5. q * Half + r = t
  BY <1>2, <1>3, <1>4
<1> QED BY <1>3, <1>5 DEF S!high, S!low

LEMMA HighGrows ==
    ASSUME NEW t \in Nat, NEW u \in Nat, t <= u
    PROVE  S!high(t) <= S!high(u)
<1>1. PICK q \in Nat, r \in 0 .. Half - 1 : q = t \div Half /\ t = Half * q + r
  BY SleepAssumption
<1>2. PICK p \in Nat, s \in 0 .. Half - 1 : p = u \div Half /\ u = Half * p + s
  BY SleepAssumption
<1>3. q <= p
  <2> SUFFICES ASSUME p + 1 <= q PROVE FALSE
    OBVIOUS
  <2>1. Half * (p + 1) <= Half * q
    BY SleepAssumption
  <2>2. Half * (p + 1) = Half * p + Half
    BY SleepAssumption
  <2>3. PICK x \in Nat, y \in Nat : x = Half * p /\ y = Half * q
    BY SleepAssumption
  <2>4. x + Half <= y /\ t = y + r /\ u = x + s
    BY <1>1, <1>2, <2>1, <2>2, <2>3
  <2> QED BY ONLY <2>4, t <= u, x \in Nat, y \in Nat, r \in 0 .. Half - 1, s \in 0 .. Half - 1,
             SleepAssumption
<1> QED BY <1>1, <1>2, <1>3 DEF S!high

SleepTypes ==
    /\ mtime \in Nat /\ current_time \in Nat /\ ticks \in Nat /\ began \in Nat
    /\ tmp \in [{"main", "isr"} -> [h : Nat, l : Nat]]
    /\ began <= mtime

\* The halves r belong to a time since the call, unless the high half has been
\* left behind by a carry.
HalvesOf(r, t) == began <= t /\ t <= mtime /\ r.l = S!low(t) /\ r.h <= S!high(t)
SinceCall(r) == \E t \in Nat : HalvesOf(r, t)
TimeSinceCall(v) == v \in Nat /\ began <= v /\ v <= mtime

ClockRead ==
    /\ spc \in {"l", "loop.l"} => tmp["main"].h <= S!high(mtime)
    /\ spc \in {"again", "loop.again"} => SinceCall(tmp["main"])
    /\ spc \in {"got", "loop.got"} => TimeSinceCall(S!value(tmp["main"]))
    /\ spc \in {"c1", "c2", "c3", "set", "loop.h", "loop.l", "loop.again", "loop.got", "wfi", "asleep",
               "return"} => began <= current_time
    /\ spc = "return" => current_time + ticks <= mtime

SleepInv == SleepTypes /\ ClockRead

\* One access of tlk_mtimer_get_mtime() by the main context, from place p to q.
LEMMA ReadsClock ==
    ASSUME SleepTypes, NEW p, NEW q, S!get_mtime("main", p, q),
           p = "l" => tmp["main"].h <= S!high(mtime),
           p = "again" => SinceCall(tmp["main"])
    PROVE  /\ tmp' \in [{"main", "isr"} -> [h : Nat, l : Nat]]
           /\ p \in {"h", "l", "again"} /\ q \in {"h", "l", "again", "got"}
           /\ q = "l" => tmp'["main"].h <= S!high(mtime)
           /\ q = "again" => SinceCall(tmp'["main"])
           /\ q = "got" => TimeSinceCall(S!value(tmp'["main"]))
<1>1. /\ S!high(mtime) \in Nat /\ S!low(mtime) \in Nat /\ mtime \in Nat /\ began \in Nat
      /\ tmp["main"].h \in Nat /\ tmp["main"].l \in Nat
  BY Halves DEF SleepTypes
<1>2. CASE p = "h"
  <2>1. tmp' = [tmp EXCEPT !["main"].h = S!high(mtime)] /\ q = "l"
    BY <1>2 DEF S!get_mtime
  <2>2. tmp'["main"].h = S!high(mtime) /\ tmp' \in [{"main", "isr"} -> [h : Nat, l : Nat]]
    BY <1>1, <2>1 DEF SleepTypes
  <2> QED BY <1>1, <1>2, <2>1, <2>2
<1>3. CASE p = "l"
  <2>1. tmp' = [tmp EXCEPT !["main"].l = S!low(mtime)] /\ q = "again"
    BY <1>3 DEF S!get_mtime
  <2>2. /\ tmp'["main"].l = S!low(mtime) /\ tmp'["main"].h = tmp["main"].h
        /\ tmp' \in [{"main", "isr"} -> [h : Nat, l : Nat]]
    BY <1>1, <2>1 DEF SleepTypes
  <2>3. HalvesOf(tmp'["main"], mtime)
    BY <1>1, <1>3, <2>2 DEF HalvesOf, SleepTypes
  <2>4. SinceCall(tmp'["main"])
    BY <1>1, <2>3 DEF SinceCall
  <2> QED BY <1>3, <2>1, <2>2, <2>4
<1>4. CASE p = "again"
  <2>1. tmp' = tmp /\ q = IF S!torn(tmp["main"].h) THEN "h" ELSE "got"
    BY <1>4 DEF S!get_mtime
  <2>2. CASE tmp["main"].h # S!high(mtime)
    BY <1>4, <2>1, <2>2 DEF S!torn, SleepTypes
  <2>3. CASE tmp["main"].h = S!high(mtime)
    <3>1. PICK t \in Nat : HalvesOf(tmp["main"], t)
      BY <1>4 DEF SinceCall
    <3>2. /\ S!high(t) \in Nat /\ S!low(t) \in Nat /\ S!high(t) * Half + S!low(t) = t
          /\ S!high(t) <= S!high(mtime)
      BY <1>1, <3>1, Halves, HighGrows DEF HalvesOf
    <3>3. tmp["main"].h = S!high(t) /\ tmp["main"].l = S!low(t)
      BY <1>1, <2>3, <3>1, <3>2 DEF HalvesOf
    <3>4. S!value(tmp["main"]) = t
      BY <3>2, <3>3, Zenon DEF S!value
    <3>5. TimeSinceCall(S!value(tmp["main"]))
      BY <3>1, <3>4 DEF HalvesOf, TimeSinceCall
    <3>6. q = "got"
      BY <2>1, <2>3 DEF S!torn
    <3> QED BY <1>4, <2>1, <3>5, <3>6 DEF SleepTypes
  <2> QED BY <2>2, <2>3
<1> QED BY <1>2, <1>3, <1>4 DEF S!get_mtime

\* Nothing the main context has read is touched by the handler or the clock.
LEMMA ClockKept ==
    ASSUME SleepInv, mtime' \in Nat, mtime <= mtime', UNCHANGED <<current_time, ticks, began>>,
           tmp' \in [{"main", "isr"} -> [h : Nat, l : Nat]], tmp'["main"] = tmp["main"],
           spc' = spc \/ (spc = "asleep" /\ spc' = "loop.h")
           \/ (spc = "wfi" /\ spc' = "asleep")
           \/ (spc \in {"c1", "c2", "c3"} /\ spc' \in {"c2", "c3", "set"})
           \/ (spc = "set" /\ spc' = "loop.h")
    PROVE  SleepInv'
<1>1. SleepTypes'
  BY DEF SleepInv, SleepTypes
<1>2. S!high(mtime) <= S!high(mtime') /\ S!high(mtime) \in Nat /\ S!high(mtime') \in Nat
  BY HighGrows, Halves DEF SleepInv, SleepTypes
<1>3. spc' \in {"l", "loop.l"} => tmp'["main"].h <= S!high(mtime')
  <2> SUFFICES ASSUME spc' \in {"l", "loop.l"} PROVE tmp["main"].h <= S!high(mtime')
    OBVIOUS
  <2>1. tmp["main"].h <= S!high(mtime) /\ tmp["main"].h \in Nat
    BY DEF SleepInv, SleepTypes, ClockRead
  <2> QED BY <1>2, <2>1
<1>4. spc' \in {"again", "loop.again"} => SinceCall(tmp["main"])'
  <2> SUFFICES ASSUME spc' \in {"again", "loop.again"} PROVE SinceCall(tmp["main"])'
    OBVIOUS
  <2>1. SinceCall(tmp["main"])
    BY DEF SleepInv, ClockRead
  <2>2. PICK t \in Nat : HalvesOf(tmp["main"], t)
    BY <2>1 DEF SinceCall
  <2>3. HalvesOf(tmp["main"], t)'
    BY <2>2 DEF HalvesOf, SleepInv, SleepTypes
  <2> QED BY <2>3 DEF SinceCall
<1>5. spc' \in {"got", "loop.got"} => TimeSinceCall(S!value(tmp["main"]))'
  <2> SUFFICES ASSUME spc' \in {"got", "loop.got"} PROVE TimeSinceCall(S!value(tmp["main"]))'
    OBVIOUS
  <2>1. TimeSinceCall(S!value(tmp["main"]))
    BY DEF SleepInv, ClockRead
  <2>2. PICK v \in Nat : v = S!value(tmp["main"]) /\ began <= v /\ v <= mtime
    BY <2>1 DEF TimeSinceCall
  <2>3. S!value(tmp["main"])' = v
    BY <2>2 DEF S!value
  <2>4. began' <= v /\ v <= mtime'
    BY <2>2 DEF SleepInv, SleepTypes
  <2> QED BY <2>3, <2>4 DEF TimeSinceCall
<1>6. ClockRead'
  BY <1>3, <1>4, <1>5 DEF SleepInv, SleepTypes, ClockRead
<1> QED BY <1>1, <1>6 DEF SleepInv

LEMMA SleepInit == S!Init => SleepInv
<1> SUFFICES ASSUME S!Init PROVE SleepInv
  OBVIOUS
<1>1. SleepTypes
  BY DEF S!Init, SleepTypes
<1>2. ClockRead
  BY DEF S!Init, ClockRead
<1> QED BY <1>1, <1>2 DEF SleepInv

LEMMA SleepCallKeeps == SleepInv /\ S!Sleep => SleepInv'
<1> SUFFICES ASSUME SleepInv, S!Sleep PROVE SleepInv'
  OBVIOUS
<1>1. ticks' \in Nat
  BY SleepAssumption DEF S!Sleep
<1>2. SleepTypes'
  BY <1>1 DEF SleepInv, SleepTypes, S!Sleep
<1>3. ClockRead'
  BY DEF S!Sleep, ClockRead
<1> QED BY <1>2, <1>3 DEF SleepInv

LEMMA SleepReadKeeps == SleepInv /\ S!SleepReadTime => SleepInv'
<1> SUFFICES ASSUME SleepInv, S!SleepReadTime PROVE SleepInv'
  OBVIOUS
<1>1. SleepTypes /\ ClockRead
  BY DEF SleepInv
<1>2. S!get_mtime("main", spc, spc') /\ UNCHANGED <<mtime, current_time, ticks, began>>
  BY DEF S!SleepReadTime
<1>3. /\ spc = "l" => tmp["main"].h <= S!high(mtime)
      /\ spc = "again" => SinceCall(tmp["main"])
  BY <1>1 DEF ClockRead
<1>4. /\ tmp' \in [{"main", "isr"} -> [h : Nat, l : Nat]]
      /\ spc' \in {"h", "l", "again", "got"}
      /\ spc' = "l" => tmp'["main"].h <= S!high(mtime)
      /\ spc' = "again" => SinceCall(tmp'["main"])
      /\ spc' = "got" => TimeSinceCall(S!value(tmp'["main"]))
  BY <1>1, <1>2, <1>3, ReadsClock
<1>5. SleepTypes'
  BY <1>1, <1>2, <1>4 DEF SleepTypes
<1>6. spc' = "l" => (tmp["main"].h <= S!high(mtime))'
  BY <1>2, <1>4 DEF S!high
<1>7. spc' = "again" => SinceCall(tmp["main"])'
  BY <1>2, <1>4 DEF SinceCall, HalvesOf, S!high, S!low
<1>8. spc' = "got" => TimeSinceCall(S!value(tmp["main"]))'
  BY <1>2, <1>4 DEF TimeSinceCall, S!value
<1>9. ClockRead'
  BY <1>4, <1>6, <1>7, <1>8 DEF ClockRead
<1> QED BY <1>5, <1>9 DEF SleepInv

LEMMA SleepLoopKeeps == SleepInv /\ S!SleepLoop => SleepInv'
<1> SUFFICES ASSUME SleepInv, S!SleepLoop PROVE SleepInv'
  OBVIOUS
<1>1. SleepTypes /\ ClockRead
  BY DEF SleepInv
<1>2. PICK p \in {"h", "l", "again", "got"} :
          /\ S!get_mtime("main", S!loop_pc(spc), p)
          /\ spc' = CASE p = "h" -> "loop.h" [] p = "l" -> "loop.l" [] p = "again" -> "loop.again"
                      [] p = "got" -> "loop.got"
  BY DEF S!SleepLoop
<1>3. UNCHANGED <<mtime, current_time, ticks, began>>
  BY DEF S!SleepLoop
<1>4. /\ S!loop_pc(spc) = "l" => spc = "loop.l"
      /\ S!loop_pc(spc) = "again" => spc = "loop.again"
      /\ S!loop_pc(spc) \in {"h", "l", "again"} => spc \in {"loop.h", "loop.l", "loop.again"}
  BY DEF S!loop_pc
<1>5. /\ S!loop_pc(spc) = "l" => tmp["main"].h <= S!high(mtime)
      /\ S!loop_pc(spc) = "again" => SinceCall(tmp["main"])
  BY <1>1, <1>4 DEF ClockRead
<1>6. /\ tmp' \in [{"main", "isr"} -> [h : Nat, l : Nat]]
      /\ S!loop_pc(spc) \in {"h", "l", "again"}
      /\ p = "l" => tmp'["main"].h <= S!high(mtime)
      /\ p = "again" => SinceCall(tmp'["main"])
      /\ p = "got" => TimeSinceCall(S!value(tmp'["main"]))
  BY <1>1, <1>2, <1>5, ReadsClock
<1>7. /\ spc' \in {"loop.h", "loop.l", "loop.again", "loop.got"}
      /\ spc' = "loop.l" => p = "l"
      /\ spc' = "loop.again" => p = "again"
      /\ spc' = "loop.got" => p = "got"
  BY <1>2
<1>8. SleepTypes'
  BY <1>1, <1>3, <1>6 DEF SleepTypes
<1>9. spc' = "loop.l" => (tmp["main"].h <= S!high(mtime))'
  BY <1>3, <1>6, <1>7 DEF S!high
<1>10. spc' = "loop.again" => SinceCall(tmp["main"])'
  BY <1>3, <1>6, <1>7 DEF SinceCall, HalvesOf, S!high, S!low
<1>11. spc' = "loop.got" => TimeSinceCall(S!value(tmp["main"]))'
  BY <1>3, <1>6, <1>7 DEF TimeSinceCall, S!value
<1>12. began' <= current_time'
  BY <1>1, <1>3, <1>4, <1>6 DEF ClockRead
<1>13. ClockRead'
  BY <1>7, <1>9, <1>10, <1>11, <1>12 DEF ClockRead
<1> QED BY <1>8, <1>13 DEF SleepInv

LEMMA SleepNowKeeps == SleepInv /\ S!SleepNow => SleepInv'
<1> SUFFICES ASSUME SleepInv, S!SleepNow PROVE SleepInv'
  OBVIOUS
<1>1. PICK v \in Nat : v = S!value(tmp["main"]) /\ began <= v
  BY DEF SleepInv, ClockRead, TimeSinceCall, S!SleepNow
<1>2. current_time' = v
  BY <1>1 DEF S!SleepNow
<1>3. SleepTypes'
  BY <1>2 DEF SleepInv, SleepTypes, S!SleepNow
<1>4. ClockRead'
  BY <1>1, <1>2 DEF ClockRead, S!SleepNow
<1> QED BY <1>3, <1>4 DEF SleepInv

LEMMA SleepTestKeeps == SleepInv /\ S!SleepTest => SleepInv'
<1> SUFFICES ASSUME SleepInv, S!SleepTest PROVE SleepInv'
  OBVIOUS
<1>1. PICK v \in Nat : v = S!value(tmp["main"]) /\ v <= mtime
  BY DEF SleepInv, ClockRead, TimeSinceCall, S!SleepTest
<1>2. spc' = IF v < current_time + ticks THEN "wfi" ELSE "return"
  BY <1>1 DEF S!SleepTest
<1>3. UNCHANGED <<mtime, current_time, ticks, began>> /\ began <= current_time
  BY DEF SleepInv, ClockRead, S!SleepTest
<1>4. mtime \in Nat /\ current_time \in Nat /\ ticks \in Nat
  BY DEF SleepInv, SleepTypes
<1>5. SleepTypes'
  BY <1>3 DEF SleepInv, SleepTypes, S!SleepTest
<1>6. spc' = "return" => current_time + ticks <= mtime
  BY <1>1, <1>2, <1>4
<1>7. ClockRead'
  BY <1>2, <1>3, <1>6 DEF ClockRead
<1> QED BY <1>5, <1>7 DEF SleepInv

LEMMA SleepReturnKeeps == SleepInv /\ S!SleepReturn => SleepInv'
<1> SUFFICES ASSUME SleepInv, S!SleepReturn PROVE SleepInv'
  OBVIOUS
<1>1. SleepTypes'
  BY DEF SleepInv, SleepTypes, S!SleepReturn
<1>2. ClockRead'
  BY DEF ClockRead, S!SleepReturn
<1> QED BY <1>1, <1>2 DEF SleepInv

LEMMA TickKeeps == SleepInv /\ S!Tick => SleepInv'
<1> SUFFICES ASSUME SleepInv, S!Tick PROVE SleepInv'
  OBVIOUS
<1>1. /\ mtime' \in Nat /\ mtime <= mtime'
      /\ tmp' \in [{"main", "isr"} -> [h : Nat, l : Nat]]
  BY DEF SleepInv, SleepTypes, S!Tick
<1> QED BY <1>1, ClockKept DEF S!Tick

\* The steps of the main context that read nothing.
LEMMA SleepRestKeeps ==
    SleepInv /\ (S!SleepSetCompare \/ S!SleepEnable \/ S!SleepWait) => SleepInv'
<1> SUFFICES ASSUME SleepInv, S!SleepSetCompare \/ S!SleepEnable \/ S!SleepWait PROVE SleepInv'
  OBVIOUS
<1>1. /\ UNCHANGED <<mtime, current_time, ticks, began, tmp>>
      /\ \/ spc = "asleep" /\ spc' = "loop.h"
         \/ spc = "wfi" /\ spc' = "asleep"
         \/ spc \in {"c1", "c2", "c3"} /\ spc' \in {"c2", "c3", "set"}
         \/ spc = "set" /\ spc' = "loop.h"
  BY DEF S!SleepSetCompare, S!set_compare, S!SleepEnable, S!SleepWait
<1>2. mtime' \in Nat /\ mtime <= mtime' /\ tmp' \in [{"main", "isr"} -> [h : Nat, l : Nat]]
  BY <1>1 DEF SleepInv, SleepTypes
<1> QED BY <1>1, <1>2, ClockKept

LEMMA HandlerKeeps == SleepInv /\ S!Handler => SleepInv'
<1> SUFFICES ASSUME SleepInv, S!Handler PROVE SleepInv'
  OBVIOUS
<1>1. /\ UNCHANGED <<mtime, current_time, ticks, began>>
      /\ spc' = spc \/ (spc = "asleep" /\ spc' = "loop.h")
  BY DEF S!Handler, S!Irq, S!IrqReadTime, S!IrqGot, S!IrqSetCompare, S!IrqReturn
<1>2. mtime \in Nat /\ S!high(mtime) \in Nat /\ S!low(mtime) \in Nat
      /\ tmp \in [{"main", "isr"} -> [h : Nat, l : Nat]]
  BY Halves DEF SleepInv, SleepTypes
<1>3. \/ UNCHANGED tmp
      \/ tmp' = [tmp EXCEPT !["isr"].h = S!high(mtime)]
      \/ tmp' = [tmp EXCEPT !["isr"].l = S!low(mtime)]
      \/ tmp' = [tmp EXCEPT !["isr"] = [h |-> 0, l |-> 0]]
  BY DEF S!Handler, S!Irq, S!IrqReadTime, S!get_mtime, S!IrqGot, S!IrqSetCompare, S!IrqReturn
<1>4. tmp' \in [{"main", "isr"} -> [h : Nat, l : Nat]] /\ tmp'["main"] = tmp["main"]
  BY <1>2, <1>3
<1> QED BY <1>1, <1>2, <1>4, ClockKept

LEMMA SleepKeeps == SleepInv /\ [Next]_vars => SleepInv'
<1> SUFFICES ASSUME SleepInv, [Next]_vars PROVE SleepInv'
  OBVIOUS
<1>1. CASE S!Tick \/ S!Main \/ S!Handler
  BY <1>1, TickKeeps, SleepCallKeeps, SleepReadKeeps, SleepNowKeeps, SleepRestKeeps, SleepLoopKeeps,
     SleepTestKeeps, SleepReturnKeeps, HandlerKeeps DEF S!Main
<1>2. CASE UNCHANGED sleep_vars
  BY <1>2 DEF sleep_vars, SleepInv, SleepTypes, ClockRead, SinceCall, HalvesOf, TimeSinceCall,
              S!value, S!high, S!low
<1> QED BY <1>1, <1>2, SleepMoves DEF S!Next, S!Over, S!svars, sleep_vars

(***************************************************************************)
(* For every width of a half and every length of a sleep: tlk_api_sleep()  *)
(* does not return before its duration has passed, although the clock may  *)
(* carry between the reads of its halves (tlk_mtimer_get_mtime()) and the  *)
(* handler reads it and moves the compare register at any point.           *)
(***************************************************************************)
THEOREM SleepNotEarly == Spec => []NotEarly
<1>1. Init => SleepInv
  BY SleepInit DEF Init
<1>2. SleepInv => NotEarly
  <2> SUFFICES ASSUME SleepInv, spc = "return" PROVE mtime >= began + ticks
    BY DEF NotEarly, S!NotEarly
  <2>1. began <= current_time /\ current_time + ticks <= mtime
    BY DEF SleepInv, ClockRead
  <2> QED BY <2>1 DEF SleepInv, SleepTypes
<1> QED BY <1>1, <1>2, SleepKeeps, PTL DEF Spec
-----------------------------------------------------------------------------
(* The bootloader port. *)

(***************************************************************************)
(* The mailbox.  A complete request in it is one that is owed, and the     *)
(* words on the way to a complete one, or away from it, are never taken    *)
(* for one: the last store of a request is the first one cleared.          *)
(***************************************************************************)
Pending == mailbox.magic = B!MAGIC /\ mailbox.magic_inv = B!INV

MailboxType ==
    /\ bpc = <<bpc[1], bpc[2]>>
    /\ mailbox = [magic |-> mailbox.magic, magic_inv |-> mailbox.magic_inv]
    /\ owed \in BOOLEAN

MailboxInv ==
    /\ MailboxType
    /\ Pending => owed
    /\ bpc = <<"app", 2>> => mailbox.magic = "0"
    /\ B!at("clear") => owed
    /\ B!at("clear_inv") => owed /\ mailbox.magic = "0"
    /\ (B!at("enter") /\ by = "mailbox") => owed /\ mailbox.magic = "0"

(***************************************************************************)
(* A store of tlk_mcuboot_request_recovery() keeps the mailbox invariant:  *)
(* only the third one completes a request.                                 *)
(***************************************************************************)
LEMMA StoreKeeps == ASSUME MailboxInv, B!Store PROVE MailboxInv'
<1> USE DEF B!MAGIC, B!INV, MailboxInv, MailboxType, Pending, B!at
<1>1. PICK n \in {1, 2, 3} : bpc = <<"app", n>>
  <2>1. DOMAIN B!request_stores = {1, 2, 3}
    BY DEF B!request_stores
  <2> QED BY <2>1 DEF B!Store
<1>2. bpc' = <<"app", n + 1>> /\ by' = by
  BY <1>1 DEF B!Store
<1>3. /\ B!request_stores[1] = [w |-> "magic", v |-> "0"]
      /\ B!request_stores[2] = [w |-> "magic_inv", v |-> B!INV]
      /\ B!request_stores[3] = [w |-> "magic", v |-> B!MAGIC]
      /\ Len(B!request_stores) = 3
  BY DEF B!request_stores
<1>4. mailbox' = [mailbox EXCEPT ![B!request_stores[n].w] = B!request_stores[n].v]
  BY <1>1 DEF B!Store
<1>5. owed' \in BOOLEAN /\ (owed => owed') /\ (n = 3 => owed')
  <2>1. owed' = (owed \/ n = 3)
    BY <1>1, <1>3 DEF B!Store
  <2> QED BY <2>1
<1>6. CASE n = 1
  <2>1. mailbox' = [mailbox EXCEPT !.magic = "0"]
    <3>1. B!request_stores[n].w = "magic" /\ B!request_stores[n].v = "0"
      BY <1>3, <1>6
    <3> QED BY <1>4, <3>1, Zenon
  <2> QED BY <2>1, <1>1, <1>2, <1>5, <1>6
<1>7. CASE n = 2
  <2>1. mailbox' = [mailbox EXCEPT !.magic_inv = B!INV]
    <3>1. B!request_stores[n].w = "magic_inv" /\ B!request_stores[n].v = B!INV
      BY <1>3, <1>7
    <3> QED BY <1>4, <3>1, Zenon
  <2> QED BY <2>1, <1>1, <1>2, <1>5, <1>7
<1>8. CASE n = 3
  <2>1. mailbox' = [mailbox EXCEPT !.magic = B!MAGIC]
    <3>1. B!request_stores[n].w = "magic" /\ B!request_stores[n].v = B!MAGIC
      BY <1>3, <1>8
    <3> QED BY <1>4, <3>1, Zenon
  <2> QED BY <2>1, <1>1, <1>2, <1>5, <1>8
<1> QED BY <1>1, <1>6, <1>7, <1>8

(***************************************************************************)
(* tlk_mcuboot_recovery_mailbox_pending() keeps it: the word that makes a  *)
(* request complete is cleared before the other one.                       *)
(***************************************************************************)
LEMMA PendingKeeps == ASSUME MailboxInv, B!MailboxPending PROVE MailboxInv'
<1> USE DEF B!MAGIC, B!INV, MailboxInv, MailboxType, Pending, B!at, B!goto, B!cleared
<1>1. owed' = owed
  BY DEF B!MailboxPending
<1>2. CASE B!at("mailbox")
  BY <1>1, <1>2 DEF B!MailboxPending
<1>3. CASE B!at("clear")
  BY <1>1, <1>3 DEF B!MailboxPending
<1>4. CASE B!at("clear_inv")
  BY <1>1, <1>4 DEF B!MailboxPending
<1> QED BY <1>2, <1>3, <1>4 DEF B!MailboxPending

(***************************************************************************)
(* Every step keeps the mailbox invariant.                                 *)
(***************************************************************************)
LEMMA MailboxStep == MailboxInv /\ [Next]_vars => MailboxInv'
<1> SUFFICES ASSUME MailboxInv, [Next]_vars PROVE MailboxInv'
  OBVIOUS
<1> USE DEF MailboxInv, MailboxType, Pending, B!at, B!goto
<1>1. CASE B!Request
  BY <1>1 DEF B!Request
<1>2. CASE B!Store
  BY <1>2, StoreKeeps
<1>3. CASE B!CryptoInit
  BY <1>3 DEF B!CryptoInit
<1>4. CASE B!MailboxPending
  BY <1>4, PendingKeeps
<1>5. CASE B!ReadKey
  BY <1>5 DEF B!ReadKey
<1>6. CASE B!EnterRecovery
  BY <1>6 DEF B!EnterRecovery, B!MAGIC
<1>7. CASE B!Upload
  BY <1>7 DEF B!Upload
<1>8. CASE B!BootGo
  BY <1>8 DEF B!BootGo
<1>9. CASE B!Key
  BY <1>9 DEF B!Key
<1>10. CASE B!Reset
  <2>1. bpc' = <<"start", 0>> /\ by' = "none"
    BY <1>10 DEF B!Reset
  <2>2. CASE UNCHANGED <<mailbox, owed>>
    BY <2>1, <2>2
  <2>3. CASE ~UNCHANGED <<mailbox, owed>>
    <3>1. PICK m \in {"0", B!MAGIC, "junk"}, i \in {"0", B!INV, "junk"} :
             ~(m = B!MAGIC /\ i = B!INV) /\ mailbox' = [magic |-> m, magic_inv |-> i]
      BY <2>3, <1>10 DEF B!Reset
    <3>2. owed' = FALSE
      BY <2>3, <1>10 DEF B!Reset
    <3>3. ~Pending'
      BY <3>1
    <3> QED BY <2>1, <3>1, <3>2, <3>3
  <2> QED BY <2>2, <2>3
<1>11. CASE UNCHANGED boot_vars
  BY <1>11 DEF boot_vars
<1> QED
  BY <1>1, <1>2, <1>3, <1>4, <1>5, <1>6, <1>7, <1>8, <1>9, <1>10, <1>11, BootMoves DEF B!Next

(***************************************************************************)
(* The mailbox starts a recovery only for a request that was completed and *)
(* not served (OneShot), however many requests and resets there are.       *)
(***************************************************************************)
THEOREM RecoveryOneShot == Spec => []OneShot
<1>1. Init => MailboxInv
  <2> SUFFICES ASSUME Init PROVE MailboxInv
    OBVIOUS
  <2>1. bpc = <<"start", 0>> /\ mailbox = [magic |-> "junk", magic_inv |-> "junk"] /\ owed = FALSE
    BY DEF Init, B!Init
  <2>2. ~Pending
    BY <2>1 DEF Pending, B!MAGIC
  <2> QED BY <2>1, <2>2 DEF MailboxInv, MailboxType, B!at
<1>2. MailboxInv => OneShot
  BY DEF MailboxInv, OneShot, B!OneShot
<1> QED BY <1>1, <1>2, MailboxStep, PTL DEF Spec

-----------------------------------------------------------------------------
(* The flash areas. *)

\* The sectors of the two image slots.
Slots == BOOTLOADER_SIZE .. BOOTLOADER_SIZE + 2 * SLOT_SIZE - 1

(***************************************************************************)
(* flash_area_open() with an identifier from                               *)
(* flash_area_id_from_direct_image() gives one of the image slots.         *)
(***************************************************************************)
LEMMA OpensSlots ==
  ASSUME NEW image_id \in 0 .. 3, NEW a \in B!flash_area_open(B!id_from_direct_image(image_id))
  PROVE  a \in {B!area(BOOTLOADER_SIZE, SLOT_SIZE), B!area(BOOTLOADER_SIZE + SLOT_SIZE, SLOT_SIZE)}
<1>1. B!id_from_direct_image(image_id) \in {0, 1, 255}
  BY DEF B!id_from_direct_image, B!PRIMARY, B!SECONDARY
<1>2. /\ DOMAIN B!partitions = {1, 2, 3, 4}
      /\ B!partitions[1] = B!area(BOOTLOADER_SIZE, SLOT_SIZE)
      /\ B!partitions[2] = B!area(BOOTLOADER_SIZE + SLOT_SIZE, SLOT_SIZE)
  BY DEF B!partitions
<1>3. PICK j \in DOMAIN B!partitions : a = B!partitions[j] /\ j - 1 = B!id_from_direct_image(image_id)
  BY DEF B!flash_area_open
<1> QED BY <1>1, <1>2, <1>3

(***************************************************************************)
(* What a checked range touches lies in the slots: the address arithmetic  *)
(* of flash_area_write() and flash_area_erase() does not wrap.             *)
(***************************************************************************)
LEMMA TouchesSlots ==
  ASSUME NEW a \in {B!area(BOOTLOADER_SIZE, SLOT_SIZE), B!area(BOOTLOADER_SIZE + SLOT_SIZE, SLOT_SIZE)},
         NEW off \in 0 .. UINT32 - 1, NEW len \in 0 .. UINT32 - 1
  PROVE  B!touched(a, off, len) \subseteq Slots
<1> SUFFICES ASSUME B!range_is_valid(a, off, len), NEW i \in 0 .. len - 1
             PROVE  (a.fa_off + off + i) % UINT32 \in Slots
  BY DEF B!touched
<1>1. /\ a.fa_off \in Nat /\ a.fa_size = SLOT_SIZE
      /\ BOOTLOADER_SIZE <= a.fa_off /\ a.fa_off <= BOOTLOADER_SIZE + SLOT_SIZE
  BY BootAssumption DEF B!area
<1>2. off + i < SLOT_SIZE
  BY <1>1, BootAssumption DEF B!range_is_valid
<1> DEFINE addr == a.fa_off + off + i
<1>3. addr \in Nat /\ BOOTLOADER_SIZE <= addr /\ addr < BOOTLOADER_SIZE + 2 * SLOT_SIZE /\ addr < UINT32
  BY <1>1, <1>2, BootAssumption
<1>4. addr % UINT32 = addr
  <2> HIDE DEF addr
  <2> QED BY <1>3, BootAssumption
<1> QED BY <1>3, <1>4, BootAssumption DEF Slots

(***************************************************************************)
(* No upload changes a sector outside of the slots.                        *)
(***************************************************************************)
AreasInv == DOMAIN areas = B!Units /\ BootloaderIntact

LEMMA UploadKeeps == ASSUME AreasInv, B!Upload PROVE AreasInv'
<1>1. PICK image_id \in 0 .. 3, off \in 0 .. UINT32 - 1, len \in 0 .. UINT32 - 1, v \in {"erased", "new"} :
        \E a \in B!flash_area_open(B!id_from_direct_image(image_id)) :
            LET t == B!touched(a, off, len)
            IN  areas' = [u \in B!Units |-> IF u \in t THEN v ELSE areas[u]]
  BY DEF B!Upload
<1>2. PICK a \in B!flash_area_open(B!id_from_direct_image(image_id)) :
        areas' = [u \in B!Units |-> IF u \in B!touched(a, off, len) THEN v ELSE areas[u]]
  BY <1>1
<1>3. B!touched(a, off, len) \subseteq Slots
  BY <1>2, OpensSlots, TouchesSlots
<1>4. ASSUME NEW u \in B!Units \ Slots PROVE areas'[u] = areas[u]
  BY <1>2, <1>3
<1>5. B!units(B!partitions[4]) \subseteq B!Units \ Slots /\ B!units(B!partitions[3]) \subseteq B!Units \ Slots
  <2>1. B!units(B!partitions[4]) = 0 .. BOOTLOADER_SIZE - 1
    BY BootAssumption DEF B!units, B!partitions, B!area
  <2>2. B!units(B!partitions[3]) =
          BOOTLOADER_SIZE + 2 * SLOT_SIZE .. BOOTLOADER_SIZE + 2 * SLOT_SIZE + SCRATCH_SIZE - 1
    BY BootAssumption DEF B!units, B!partitions, B!area
  <2> QED BY <2>1, <2>2, BootAssumption DEF B!Units, Slots
<1> QED BY <1>2, <1>4, <1>5 DEF AreasInv, BootloaderIntact, B!BootloaderIntact

(***************************************************************************)
(* The bootloader and the scratch area stay as they are (BootloaderIntact) *)
(* in every layout and for every offset and length a host sends.           *)
(***************************************************************************)
THEOREM BootloaderKept == Spec => []BootloaderIntact
<1>1. Init => AreasInv
  <2> SUFFICES ASSUME Init PROVE AreasInv
    OBVIOUS
  <2>1. areas = [u \in B!Units |-> IF u < BOOTLOADER_SIZE THEN "boot" ELSE "old"]
    BY DEF Init, B!Init
  <2>2. B!units(B!partitions[4]) = 0 .. BOOTLOADER_SIZE - 1
    BY BootAssumption DEF B!units, B!partitions, B!area
  <2>3. B!units(B!partitions[3]) =
          BOOTLOADER_SIZE + 2 * SLOT_SIZE .. BOOTLOADER_SIZE + 2 * SLOT_SIZE + SCRATCH_SIZE - 1
    BY BootAssumption DEF B!units, B!partitions, B!area
  <2>4. \A u \in B!units(B!partitions[4]) : u \in B!Units /\ u < BOOTLOADER_SIZE
    BY <2>2, BootAssumption DEF B!Units
  <2>5. \A u \in B!units(B!partitions[3]) : u \in B!Units /\ ~(u < BOOTLOADER_SIZE)
    BY <2>3, BootAssumption DEF B!Units
  <2> QED BY <2>1, <2>4, <2>5 DEF AreasInv, BootloaderIntact, B!BootloaderIntact
<1>2. AreasInv /\ [Next]_vars => AreasInv'
  <2> SUFFICES ASSUME AreasInv, [Next]_vars PROVE AreasInv'
    OBVIOUS
  <2>1. CASE B!Upload
    BY <2>1, UploadKeeps
  <2>2. CASE ~B!Upload
    <3>1. areas' = areas
      BY <2>2, BootMoves DEF B!Next, boot_vars, B!Request, B!Store, B!CryptoInit, B!MailboxPending, B!ReadKey,
                  B!EnterRecovery, B!BootGo, B!Key, B!Reset
    <3> QED BY <3>1 DEF AreasInv, BootloaderIntact, B!BootloaderIntact
  <2> QED BY <2>1, <2>2
<1>3. AreasInv => BootloaderIntact
  BY DEF AreasInv
<1> QED BY <1>1, <1>2, <1>3, PTL DEF Spec

-----------------------------------------------------------------------------
(* The recovery console: sequences of characters. *)

Text == Seq(L!Chars)

LEMMA TextJoin ==
    ASSUME NEW a \in Text, NEW b \in Text
    PROVE  a \o b \in Text /\ Len(a \o b) = Len(a) + Len(b)
BY ConcatProperties DEF Text

\* Concatenation and Append as names, which the provers do not look into.
Join(a, b) == a \o b
Add(a, x) == Append(a, x)

LEMMA TextRegroup ==
    ASSUME NEW a \in Text, NEW b \in Text, NEW c \in Text
    PROVE  Join(Join(a, b), c) = Join(a, Join(b, c))
<1>1. (a \o b) \o c = a \o (b \o c)
  BY ConcatAssociative DEF Text
<1> QED BY <1>1, Zenon DEF Join

LEMMA TextEmpty ==
    /\ <<>> \in Text /\ Len(<<>>) = 0
    /\ \A a \in Text : a \o <<>> = a /\ <<>> \o a = a /\ Len(a) \in Nat
BY ConcatEmptySeq DEF Text

LEMMA TextFull == ASSUME NEW a \in Text PROVE SubSeq(a, 1, Len(a)) = a
BY SubSeqFull DEF Text

\* A part of a text, cut in two.
LEMMA TextPart ==
    ASSUME NEW a \in Text, NEW m \in Nat, NEW n \in Nat, m <= n, n <= Len(a)
    PROVE  /\ SubSeq(a, m + 1, n) \in Text /\ Len(SubSeq(a, m + 1, n)) = n - m
           /\ \A i \in 1 .. n - m : SubSeq(a, m + 1, n)[i] = a[m + i]
<1>1. Len(a) \in Nat /\ \A i \in 1 .. Len(a) : a[i] \in L!Chars
  BY DEF Text
<1>2. \A i \in m + 1 .. n : a[i] \in L!Chars
  BY <1>1
<1>3. /\ SubSeq(a, m + 1, n) \in Seq(L!Chars)
      /\ Len(SubSeq(a, m + 1, n)) = IF m + 1 <= n THEN n - (m + 1) + 1 ELSE 0
      /\ \A i \in 1 .. n - (m + 1) + 1 : SubSeq(a, m + 1, n)[i] = a[(m + 1) + i - 1]
  BY <1>2, SubSeqProperties
<1>4. Len(SubSeq(a, m + 1, n)) = n - m
  BY <1>3
<1>5. ASSUME NEW i \in 1 .. n - m PROVE SubSeq(a, m + 1, n)[i] = a[m + i]
  BY <1>3
<1> QED BY <1>3, <1>4, <1>5 DEF Text

LEMMA TextNothing == ASSUME NEW a, NEW m \in Nat, NEW n \in Nat, n <= m PROVE SubSeq(a, m + 1, n) = <<>>
BY SubSeqEmpty

LEMMA TextCut ==
    ASSUME NEW a \in Text, NEW m \in Nat, NEW k \in Nat, NEW n \in Nat, m <= k, k <= n, n <= Len(a)
    PROVE  SubSeq(a, m + 1, k) \o SubSeq(a, k + 1, n) = SubSeq(a, m + 1, n)
<1>1. a \in Seq(L!Chars) /\ Len(a) \in Nat
  BY DEF Text
<1>2. m + 1 \in 1 .. Len(a) + 1 /\ k \in m + 1 - 1 .. Len(a) /\ n \in k .. Len(a)
  BY <1>1
<1> QED BY <1>1, <1>2, ConcatAdjacentSubSeq

\* A text, cut in two.
LEMMA TextSplit ==
    ASSUME NEW a \in Text, NEW k \in Nat, k <= Len(a)
    PROVE  /\ SubSeq(a, 1, k) \in Text /\ Len(SubSeq(a, 1, k)) = k
           /\ \A i \in 1 .. k : SubSeq(a, 1, k)[i] = a[i]
           /\ SubSeq(a, k + 1, Len(a)) \in Text /\ Len(SubSeq(a, k + 1, Len(a))) = Len(a) - k
           /\ SubSeq(a, 1, k) \o SubSeq(a, k + 1, Len(a)) = a
<1>1. PICK n \in Nat : n = Len(a)
  BY DEF Text
<1>2. 0 \in Nat /\ 0 <= k /\ k <= n /\ n <= Len(a) /\ 0 + 1 = 1 /\ k - 0 = k
  BY <1>1
<1>3. /\ SubSeq(a, 0 + 1, k) \in Text /\ Len(SubSeq(a, 0 + 1, k)) = k - 0
      /\ \A i \in 1 .. k - 0 : SubSeq(a, 0 + 1, k)[i] = a[0 + i]
  BY <1>2, TextPart
<1>4. SubSeq(a, k + 1, n) \in Text /\ Len(SubSeq(a, k + 1, n)) = n - k
  BY <1>2, TextPart
<1>5. SubSeq(a, 0 + 1, k) \o SubSeq(a, k + 1, n) = SubSeq(a, 0 + 1, n)
  BY <1>2, TextCut
<1>6. SubSeq(a, 1, n) = a
  BY <1>1, TextFull
<1>7. \A i \in 1 .. k : 0 + i = i
  OBVIOUS
<1> QED BY <1>1, <1>2, <1>3, <1>4, <1>5, <1>6, <1>7

\* The front part of a part.
LEMMA TextFront ==
    ASSUME NEW a \in Text, NEW m \in Nat, NEW k \in Nat, NEW n \in Nat, m + k <= n, n <= Len(a)
    PROVE  SubSeq(SubSeq(a, m + 1, n), 1, k) = SubSeq(a, m + 1, m + k)
<1>1. PICK b \in Text : /\ b = SubSeq(a, m + 1, n) /\ Len(b) = n - m
                        /\ \A i \in 1 .. n - m : b[i] = a[m + i]
  <2>1. m <= n
    OBVIOUS
  <2>2. /\ SubSeq(a, m + 1, n) \in Text /\ Len(SubSeq(a, m + 1, n)) = n - m
        /\ \A i \in 1 .. n - m : SubSeq(a, m + 1, n)[i] = a[m + i]
    BY <2>1, TextPart
  <2> QED BY <2>2, Zenon
<1>2. /\ SubSeq(b, 1, k) \in Text /\ Len(SubSeq(b, 1, k)) = k
      /\ \A i \in 1 .. k : SubSeq(b, 1, k)[i] = b[i]
  <2>1. k <= Len(b)
    BY <1>1
  <2> QED BY <2>1, TextSplit
<1>3. /\ SubSeq(a, m + 1, m + k) \in Text /\ Len(SubSeq(a, m + 1, m + k)) = (m + k) - m
      /\ \A i \in 1 .. (m + k) - m : SubSeq(a, m + 1, m + k)[i] = a[m + i]
  <2>1. m + k \in Nat /\ m <= m + k /\ m + k <= Len(a)
    BY DEF Text
  <2> QED BY <2>1, TextPart
<1> DEFINE c == SubSeq(b, 1, k)
           d == SubSeq(a, m + 1, m + k)
<1>4. c \in Text /\ d \in Text /\ Len(c) = k /\ Len(d) = k
  <2>1. (m + k) - m = k
    OBVIOUS
  <2> QED BY <1>2, <1>3, <2>1, Zenon
<1>5. \A i \in 1 .. k : c[i] = d[i]
  BY <1>1, <1>2, <1>3
<1> HIDE DEF c, d
<1>6. c = d
  BY <1>4, <1>5, SeqEqual DEF Text
<1> QED BY <1>1, <1>6 DEF c, d

\* A character added to the second of two texts.
LEMMA TextAppend ==
    ASSUME NEW a \in Text, NEW b \in Text, NEW x \in L!Chars
    PROVE  Add(Join(a, b), x) = Join(a, Add(b, x))
<1>1. a \o b \in Text /\ <<x>> \in Text
  BY TextJoin DEF Text
<1>2. Append(a \o b, x) = (a \o b) \o <<x>> /\ Append(b, x) = b \o <<x>>
  BY <1>1, AppendIsConcat DEF Text
<1>3. Join(Join(a, b), <<x>>) = Join(a, Join(b, <<x>>))
  BY <1>1, TextRegroup
<1>4. Append(a \o b, x) = a \o Append(b, x)
  BY <1>2, <1>3, Zenon DEF Join
<1> QED BY <1>4, Zenon DEF Add, Join

LEMMA TextOne ==
    ASSUME NEW a \in Text, NEW x \in L!Chars
    PROVE  Append(a, x) \in Text /\ Len(Append(a, x)) = Len(a) + 1
BY AppendProperties DEF Text

LEMMA TextGrows ==
    ASSUME NEW a \in Text, NEW n \in Nat, n < Len(a)
    PROVE  SubSeq(a, 1, n + 1) = Append(SubSeq(a, 1, n), a[n + 1]) /\ a[n + 1] \in L!Chars
<1>1. a \in Seq(L!Chars) /\ 1 \in 1 .. Len(a) /\ n + 1 \in 1 .. Len(a) /\ a[n + 1] \in L!Chars
  BY DEF Text
<1>2. SubSeq(a, 1, n + 1) = SubSeq(a, 1, n + 1 - 1) \o <<a[n + 1]>>
  BY <1>1, SubSeqRecursiveSecond
<1>3. SubSeq(a, 1, n) \in Text
  <2>1. n <= Len(a)
    BY <1>1
  <2> QED BY <2>1, TextSplit
<1>4. n + 1 - 1 = n
  OBVIOUS
<1>5. Append(SubSeq(a, 1, n), a[n + 1]) = SubSeq(a, 1, n) \o <<a[n + 1]>>
  BY <1>1, <1>3, <1>4, AppendIsConcat DEF Text
<1> QED BY <1>1, <1>2, <1>4, <1>5

LEMMA PrefixOf ==
    ASSUME NEW a \in Text, NEW b \in Text
    PROVE  L!IsPrefix(a, a \o b)
<1>1. a \o b \in Text /\ Len(a \o b) = Len(a) + Len(b) /\ Len(a) \in Nat /\ Len(b) \in Nat
  BY TextJoin, TextEmpty
<1>2. Len(a) <= Len(a \o b)
  BY <1>1
<1>3. SubSeq(a, 1, Len(a)) = SubSeq(a \o b, 1, Len(a))
  <2>1. CASE Len(a) = 0
    BY <2>1, SubSeqEmpty
  <2>2. CASE Len(a) # 0
    <3>1. 1 \in 1 .. Len(a) /\ Len(a) \in 1 .. Len(a)
      BY <1>1, <2>2
    <3> QED BY <3>1, SubSeqOfConcat1 DEF Text
  <2> QED BY <2>1, <2>2
<1> QED BY <1>2, <1>3 DEF L!IsPrefix

-----------------------------------------------------------------------------
(* The invariant of the serial console. *)

Reading == {"idle", "copy", "reset", "arm"}
Writing == {"tx_wait", "tx_put", "tx_flush"}

SerialTypes ==
    /\ transport \in {"none", "uart", "usb"} /\ cpc \in {"off"} \union Reading \union Writing
    /\ armed \in BOOLEAN /\ tx_done \in BOOLEAN
    /\ rx_buf \in Text /\ fifo \in Text /\ tx_buf \in Text /\ src \in Text
    /\ wire \in Text /\ got \in Text /\ out \in Text /\ told \in Text
    /\ rx_count \in Nat /\ rx_pos \in Nat /\ wcnt \in Nat /\ ends \in Seq(Nat)

ReadControl ==
    /\ rx_pos <= rx_count /\ rx_count <= Len(rx_buf)
    /\ armed => transport = "uart" /\ rx_count = 0 /\ cpc \notin {"copy", "reset", "arm"}
    /\ cpc = "reset" => transport = "uart" /\ rx_pos >= rx_count
    /\ cpc = "arm" => transport = "uart" /\ rx_count = 0
    /\ cpc = "off" => transport = "none" /\ rx_count = 0
    /\ transport # "usb" => fifo = <<>>

WriteControl ==
    /\ wcnt <= Len(src) /\ Len(tx_buf) <= BUF_SIZE
    /\ cpc \notin Writing => wcnt = Len(src)
    /\ cpc = "tx_wait" => transport = "uart" /\ src # <<>> /\ (tx_done => wcnt = Len(src))
    /\ cpc \in {"tx_put", "tx_flush"} => transport = "usb" /\ src # <<>>
    /\ transport # "usb" => tx_buf = <<>>
    /\ transport = "none" => cpc = "off"

\* A line that was written has left.
Flushed ==
    /\ (cpc = "tx_put" /\ wcnt > 0 /\ src[wcnt] = L!NL) => tx_buf = <<>>
    /\ (cpc \notin Writing /\ told # <<>> /\ L!Last(told) = L!NL) => tx_buf = <<>>

\* What was received: what the console has, what the buffer has left, the FIFO.
Rest == SubSeq(rx_buf, rx_pos + 1, rx_count)
ReadsKept == got = out \o (Rest \o fifo)
EndsKept == {i \in DOMAIN out : out[i] = L!NL} = {ends[j] : j \in DOMAIN ends}

\* What was taken of the current write.
Taken == IF cpc \in Writing THEN SubSeq(src, 1, wcnt) ELSE <<>>
WritesKept == wire \o tx_buf = told \o Taken

SerialInv == SerialTypes /\ ReadControl /\ WriteControl /\ Flushed /\ ReadsKept /\ EndsKept /\ WritesKept

LEMMA SerialStarts == Init => SerialInv
<1> SUFFICES ASSUME L!Init PROVE SerialInv
  BY DEF Init
<1>1. <<>> \in Text /\ <<>> \in Seq(Nat) /\ Len(<<>>) = 0 /\ <<>> \o <<>> = <<>>
  BY TextEmpty
<1>2. SerialTypes
  BY <1>1 DEF SerialTypes, L!Init
<1>3. ReadControl
  BY <1>1 DEF ReadControl, L!Init
<1>4. WriteControl
  BY <1>1, SerialAssumption DEF WriteControl, L!Init, Writing
<1>5. Flushed
  BY DEF Flushed, L!Init
<1>6. Rest = <<>> /\ Taken = <<>>
  <2>1. SubSeq(<<>>, 0 + 1, 0) = <<>>
    BY TextNothing
  <2>2. Rest = SubSeq(<<>>, 0 + 1, 0)
    BY DEF Rest, L!Init
  <2>3. Taken = <<>>
    BY DEF Taken, L!Init, Writing
  <2> QED BY <2>1, <2>2, <2>3
<1>7. got = <<>> /\ out = <<>> /\ fifo = <<>> /\ wire = <<>> /\ tx_buf = <<>> /\ told = <<>> /\ ends = <<>>
  BY DEF L!Init
<1>8. ReadsKept
  BY <1>1, <1>6, <1>7, Zenon DEF ReadsKept
<1>9. EndsKept
  BY <1>7 DEF EndsKept
<1>10. WritesKept
  BY <1>1, <1>6, <1>7, Zenon DEF WritesKept
<1> QED BY <1>2, <1>3, <1>4, <1>5, <1>8, <1>9, <1>10 DEF SerialInv

\* How much a read takes.
TakenOf(rest, n) ==
    /\ n \in 0 .. Len(rest)
    /\ n <= STR_SIZE /\ \A i \in 1 .. n - 1 : rest[i] # L!NL
    /\ n = STR_SIZE \/ n = Len(rest) \/ (n > 0 /\ rest[n] = L!NL)

LEMMA TakenExists ==
    ASSUME NEW rest \in Text
    PROVE  TakenOf(rest, L!taken(rest))
<1> DEFINE Stop == {n \in Nat : n = STR_SIZE \/ n = Len(rest) \/ (n > 0 /\ n <= Len(rest) /\ rest[n] = L!NL)}
<1>1. Len(rest) \in Nat /\ STR_SIZE \in Nat
  BY TextEmpty, SerialAssumption
<1>2. Len(rest) \in Stop /\ STR_SIZE \in Stop /\ Stop \subseteq Nat
  BY <1>1
<1>3. PICK n \in Stop : \A m \in Stop : ~(m < n)
  <2>1. Stop # {} /\ IsWellFoundedOn(OpToRel(<, Nat), Nat)
    <3>1. Stop # {}
      BY <1>2, Zenon
    <3> QED BY <3>1, NatLessThanWellFounded, Zenon
  <2>2. PICK n \in Stop : \A m \in Stop : ~(<<m, n>> \in OpToRel(<, Nat))
    BY <1>2, <2>1, WFMin, Zenon
  <2>3. ASSUME NEW m \in Stop PROVE ~(m < n)
    BY <1>2, <2>2 DEF OpToRel
  <2> QED BY <2>3
<1>4. n \in Nat /\ n <= Len(rest) /\ n <= STR_SIZE
  BY <1>1, <1>2, <1>3
<1>5. ASSUME NEW i \in 1 .. n - 1 PROVE rest[i] # L!NL
  <2>1. i \in Nat /\ i > 0 /\ i < n /\ i <= Len(rest)
    BY <1>1, <1>4
  <2>2. i \notin Stop
    BY <1>3, <2>1
  <2> QED BY <2>1, <2>2
<1>6. n = STR_SIZE \/ n = Len(rest) \/ (n > 0 /\ rest[n] = L!NL)
  BY <1>3
<1> HIDE DEF Stop
<1>7. TakenOf(rest, n)
  BY <1>1, <1>4, <1>5, <1>6 DEF TakenOf
<1>8. L!taken(rest) = CHOOSE k \in 0 .. Len(rest) : TakenOf(rest, k)
  BY DEF L!taken, TakenOf
<1> QED BY <1>7, <1>8 DEF TakenOf

-----------------------------------------------------------------------------
(* What the console reads. *)

\* The copy of a read: what is handed over moves from the buffer to out.
LEMMA CopyKeeps ==
    ASSUME SerialInv, L!Copy
    PROVE  /\ ReadsKept' /\ EndsKept' /\ out' \in Text /\ ends' \in Seq(Nat)
           /\ rx_pos' \in Nat /\ rx_pos' <= rx_count
<1>1. /\ rx_buf \in Text /\ fifo \in Text /\ got \in Text /\ out \in Text /\ ends \in Seq(Nat)
      /\ rx_count \in Nat /\ rx_pos \in Nat /\ rx_pos <= rx_count /\ rx_count <= Len(rx_buf)
  BY DEF SerialInv, SerialTypes, ReadControl
<1>2. PICK rest \in Text : /\ rest = SubSeq(rx_buf, rx_pos + 1, rx_count) /\ rest = Rest
                           /\ Len(rest) = rx_count - rx_pos
  BY <1>1, TextPart DEF Rest
<1>3. PICK n \in Nat : n = L!taken(rest) /\ TakenOf(rest, n)
  <2>1. TakenOf(rest, L!taken(rest))
    BY TakenExists
  <2>2. L!taken(rest) \in Nat
    BY <2>1, <1>1, <1>2 DEF TakenOf
  <2> QED BY <2>1, <2>2
<1>4. n <= rx_count - rx_pos /\ n <= Len(rest)
  BY <1>1, <1>2, <1>3 DEF TakenOf
<1>5. /\ out' = out \o SubSeq(rest, 1, n)
      /\ ends' = IF n > 0 /\ rest[n] = L!NL THEN Append(ends, Len(out')) ELSE ends
      /\ rx_pos' = rx_pos + n
      /\ rx_count' = rx_count /\ rx_buf' = rx_buf /\ got' = got /\ fifo' = fifo
  BY <1>2, <1>3 DEF L!Copy
<1>6. rx_pos' \in Nat /\ rx_pos + n <= rx_count /\ rx_pos <= rx_pos + n
  BY <1>1, <1>4, <1>5
<1>7. PICK front \in Text : /\ front = SubSeq(rest, 1, n) /\ Len(front) = n
                            /\ \A i \in 1 .. n : front[i] = rest[i]
  BY <1>4, TextSplit
<1>8. PICK back \in Text : back = SubSeq(rx_buf, (rx_pos + n) + 1, rx_count)
  <2>1. rx_pos + n \in Nat /\ rx_pos + n <= rx_count
    BY <1>1, <1>6
  <2> QED BY <1>1, <2>1, TextPart
<1>9. front \o back = rest
  <2>1. front = SubSeq(rx_buf, rx_pos + 1, rx_pos + n)
    BY <1>1, <1>2, <1>6, <1>7, TextFront
  <2>2. PICK j \in Nat : j = rx_pos + n
    BY <1>1
  <2>3. rx_pos <= j /\ j <= rx_count
    BY <1>6, <2>2
  <2>4. SubSeq(rx_buf, rx_pos + 1, j) \o SubSeq(rx_buf, j + 1, rx_count)
          = SubSeq(rx_buf, rx_pos + 1, rx_count)
    BY <1>1, <2>3, TextCut
  <2> QED BY <1>2, <1>8, <2>1, <2>2, <2>4
<1>10. Rest' = back
  BY <1>5, <1>8 DEF Rest
<1>11. out' = out \o front
  BY <1>5, <1>7
<1>12. ReadsKept'
  <2>1. got = out \o ((front \o back) \o fifo)
    BY <1>2, <1>9 DEF SerialInv, ReadsKept
  <2>2. (front \o back) \o fifo = front \o (back \o fifo) /\ back \o fifo \in Text
    <3>1. fifo \in Text
      BY <1>1
    <3>2. (front \o back) \o fifo = front \o (back \o fifo)
      <4>1. Join(Join(front, back), fifo) = Join(front, Join(back, fifo))
        BY <3>1, TextRegroup
      <4> QED BY <4>1, Zenon DEF Join
    <3>3. back \o fifo \in Text
      BY <3>1, TextJoin
    <3> QED BY <3>2, <3>3
  <2>3. (out \o front) \o (back \o fifo) = out \o (front \o (back \o fifo))
    <3>1. PICK t \in Text : t = back \o fifo
      BY <2>2
    <3>2. out \in Text
      BY <1>1
    <3>3. (out \o front) \o t = out \o (front \o t)
      <4>1. Join(Join(out, front), t) = Join(out, Join(front, t))
        BY <3>2, TextRegroup
      <4> QED BY <4>1, Zenon DEF Join
    <3> QED BY <3>1, <3>3, Zenon
  <2>4. got = (out \o front) \o (back \o fifo)
    BY <2>1, <2>2, <2>3
  <2>5. got' = out' \o (Rest' \o fifo')
    BY <1>5, <1>10, <1>11, <2>4
  <2> QED BY <2>5 DEF ReadsKept
<1>13. PICK k \in Nat : k = Len(out)
  BY <1>1, TextEmpty
<1>14. /\ out' \in Text /\ Len(out') = k + n /\ DOMAIN out' = 1 .. k + n /\ DOMAIN out = 1 .. k
       /\ \A i \in 1 .. k : out'[i] = out[i]
       /\ \A i \in 1 .. n : out'[k + i] = front[i]
  <2>1. out' \in Text /\ Len(out') = k + n
    BY <1>1, <1>7, <1>11, <1>13, TextJoin
  <2>2. DOMAIN out' = 1 .. k + n /\ DOMAIN out = 1 .. k
    BY <1>1, <1>13, <2>1 DEF Text
  <2>3. \A i \in 1 .. k + n : (out \o front)[i] = IF i <= k THEN out[i] ELSE front[i - k]
    BY <1>1, <1>7, <1>13, ConcatProperties DEF Text
  <2>4. ASSUME NEW i \in 1 .. k PROVE out'[i] = out[i]
    <3>1. i \in 1 .. k + n /\ i <= k
      OBVIOUS
    <3> QED BY <1>11, <2>3, <3>1
  <2>5. ASSUME NEW i \in 1 .. n PROVE out'[k + i] = front[i]
    <3>1. k + i \in 1 .. k + n /\ ~(k + i <= k) /\ (k + i) - k = i
      OBVIOUS
    <3> QED BY <1>11, <2>3, <3>1
  <2> QED BY <2>1, <2>2, <2>4, <2>5
<1>15. \A i \in 1 .. n - 1 : rest[i] # L!NL
  BY <1>3 DEF TakenOf
<1> DEFINE marks == {i \in 1 .. k : out[i] = L!NL}
           marks2 == {i \in 1 .. k + n : out'[i] = L!NL}
<1>16. marks = {ends[j] : j \in DOMAIN ends}
  BY <1>14 DEF SerialInv, EndsKept
<1>17. EndsKept' /\ ends' \in Seq(Nat)
  <2>1. CASE n > 0 /\ rest[n] = L!NL
    <3>1. ends' = Append(ends, k + n) /\ k + n \in Nat
      BY <1>5, <1>14, <2>1
    <3>2. marks2 = marks \union {k + n}
      <4>1. ASSUME NEW i \in marks2 PROVE i \in marks \union {k + n}
        <5>1. CASE i <= k
          BY <1>14, <4>1, <5>1
        <5>2. CASE i > k
          <6>1. i - k \in 1 .. n /\ k + (i - k) = i
            BY <5>2
          <6>2. rest[i - k] = L!NL
            BY <6>1, <1>14, <1>7, <4>1
          <6>3. i - k = n
            BY <6>1, <6>2, <1>15
          <6> QED BY <6>1, <6>3
        <5> QED BY <5>1, <5>2
      <4>2. ASSUME NEW i \in marks PROVE i \in marks2
        BY <1>14, <4>2
      <4>3. k + n \in marks2
        <5>1. n \in 1 .. n /\ k + n \in 1 .. k + n
          BY <2>1
        <5>2. out'[k + n] = rest[n]
          BY <5>1, <1>14, <1>7
        <5> QED BY <5>1, <5>2, <2>1
      <4> QED BY <4>1, <4>2, <4>3
    <3>3. /\ ends' \in Seq(Nat) /\ DOMAIN ends' = DOMAIN ends \union {Len(ends) + 1}
          /\ ends'[Len(ends) + 1] = k + n /\ \A j \in DOMAIN ends : ends'[j] = ends[j]
      <4>1. ends \in Seq(Nat)
        BY <1>1
      <4> QED BY ONLY <4>1, <3>1
    <3>4. {ends'[j] : j \in DOMAIN ends'} = {ends[j] : j \in DOMAIN ends} \union {k + n}
      BY ONLY <3>3
    <3>5. marks2 = {ends'[j] : j \in DOMAIN ends'}
      BY <1>16, <3>2, <3>4
    <3> QED BY <1>14, <3>3, <3>5 DEF EndsKept
  <2>2. CASE ~(n > 0 /\ rest[n] = L!NL)
    <3>1. ends' = ends
      BY <1>5, <2>2
    <3>2. marks2 = marks
      <4>1. ASSUME NEW i \in marks2 PROVE i \in marks
        <5>1. CASE i <= k
          BY <1>14, <4>1, <5>1
        <5>2. CASE i > k
          <6>1. i - k \in 1 .. n /\ k + (i - k) = i
            BY <5>2
          <6>2. rest[i - k] = L!NL
            BY <6>1, <1>14, <1>7, <4>1
          <6>3. i - k = n
            BY <6>1, <6>2, <1>15
          <6> QED BY <6>1, <6>2, <6>3, <2>2
        <5> QED BY <5>1, <5>2
      <4>2. ASSUME NEW i \in marks PROVE i \in marks2
        BY <1>14, <4>2
      <4> QED BY <4>1, <4>2
    <3>3. marks2 = {ends'[j] : j \in DOMAIN ends'}
      BY <1>16, <3>1, <3>2
    <3> QED BY <1>1, <1>14, <3>1, <3>3 DEF EndsKept
  <2> QED BY <2>1, <2>2
<1> QED BY <1>5, <1>6, <1>12, <1>14, <1>17

LEMMA ReadsSame ==
    ASSUME SerialInv, UNCHANGED <<out, ends>>, got' = out \o (Rest' \o fifo')
    PROVE  ReadsKept' /\ EndsKept'
BY DEF SerialInv, ReadsKept, EndsKept

LEMMA NothingLeft ==
    ASSUME SerialInv, rx_pos >= rx_count
    PROVE  Rest = <<>> /\ got = out \o fifo
<1>1. rx_pos \in Nat /\ rx_count \in Nat /\ rx_count <= rx_pos /\ fifo \in Text
  BY DEF SerialInv, SerialTypes
<1>2. Rest = <<>>
  BY <1>1, TextNothing DEF Rest
<1>3. <<>> \o fifo = fifo
  BY <1>1, TextEmpty
<1> QED BY <1>2, <1>3 DEF SerialInv, ReadsKept

\* Every other step leaves the bytes received where they are, or moves them on.
LEMMA ReadsStep ==
    ASSUME SerialInv, L!Next
    PROVE  ReadsKept' /\ EndsKept'
<1>1. /\ rx_buf \in Text /\ fifo \in Text /\ got \in Text /\ out \in Text
      /\ rx_count \in Nat /\ rx_pos \in Nat /\ rx_pos <= rx_count /\ rx_count <= Len(rx_buf)
  BY DEF SerialInv, SerialTypes, ReadControl
<1>2. ASSUME UNCHANGED <<rx_buf, rx_count, rx_pos, fifo, got, out, ends>> PROVE ReadsKept' /\ EndsKept'
  BY <1>2 DEF SerialInv, ReadsKept, EndsKept, Rest
<1>3. CASE L!UartSend \/ L!Write \/ L!WriteReturn \/ L!UsbPut \/ L!UsbFlush \/ L!Start
  <2>1. UNCHANGED <<rx_buf, rx_count, rx_pos, fifo, got, out, ends>>
    BY <1>3 DEF L!UartSend, L!Write, L!WriteReturn, L!UsbPut, L!UsbFlush, L!Start
  <2> QED BY <1>2, <2>1
<1>4. CASE L!Copy
  BY <1>4, CopyKeeps
<1>5. CASE L!UartByte
  <2>1. rx_count = 0 /\ rx_pos = 0 /\ UNCHANGED <<rx_count, rx_pos, fifo, got, out, ends>>
    BY <1>1, <1>5 DEF L!UartByte, SerialInv, ReadControl
  <2>2. Rest' = <<>> /\ Rest = <<>>
    <3>1. \A a : SubSeq(a, 0 + 1, 0) = <<>>
      BY TextNothing
    <3> QED BY <2>1, <3>1 DEF Rest
  <2>3. got' = out \o (Rest' \o fifo')
    BY <2>1, <2>2 DEF SerialInv, ReadsKept
  <2> QED BY <2>1, <2>3, ReadsSame
<1>6. CASE L!RxHandler
  <2>1. /\ rx_count = 0 /\ rx_pos = 0 /\ fifo = <<>> /\ rx_count' = Len(rx_buf) /\ got' = got \o rx_buf
        /\ UNCHANGED <<rx_buf, rx_pos, fifo, out, ends>>
    BY <1>1, <1>6 DEF L!RxHandler, SerialInv, ReadControl
  <2>2. got = out
    <3>1. got = out \o <<>>
      BY <2>1, NothingLeft
    <3> QED BY <1>1, <3>1, TextEmpty
  <2>3. Rest' = rx_buf
    <3>1. SubSeq(rx_buf, 1, Len(rx_buf)) = rx_buf
      BY <1>1, TextFull
    <3> QED BY <2>1, <3>1 DEF Rest
  <2>4. Rest' \o fifo' = rx_buf
    BY <1>1, <2>1, <2>3, TextEmpty
  <2>5. got' = out \o (Rest' \o fifo')
    BY <2>1, <2>2, <2>4
  <2> QED BY <2>1, <2>5, ReadsSame
<1>7. CASE L!UsbByte
  <2>1. PICK b \in L!Chars : fifo' = Append(fifo, b) /\ got' = Append(got, b)
    BY <1>7 DEF L!UsbByte
  <2>2. UNCHANGED <<rx_buf, rx_count, rx_pos, out, ends>>
    BY <1>7 DEF L!UsbByte
  <2>3. PICK r \in Text : r = Rest
    BY <1>1, TextPart DEF Rest
  <2>4. PICK t \in Text : t = r \o fifo /\ Append(t, b) = r \o Append(fifo, b)
    <3>1. r \o fifo \in Text
      BY <1>1, TextJoin
    <3>2. Add(Join(r, fifo), b) = Join(r, Add(fifo, b))
      BY <1>1, TextAppend
    <3>3. Append(r \o fifo, b) = r \o Append(fifo, b)
      BY <3>2, Zenon DEF Join, Add
    <3> QED BY <3>1, <3>3, Zenon
  <2>5. got = out \o t
    BY <2>3, <2>4 DEF SerialInv, ReadsKept
  <2>6. Append(out \o t, b) = out \o Append(t, b)
    <3>1. out \in Text
      BY <1>1
    <3>2. Add(Join(out, t), b) = Join(out, Add(t, b))
      BY <3>1, TextAppend
    <3> QED BY <3>2, Zenon DEF Join, Add
  <2>7. Rest' = r
    BY <2>2, <2>3 DEF Rest
  <2>8. got' = out \o (Rest' \o fifo')
    BY <2>1, <2>4, <2>5, <2>6, <2>7
  <2> QED BY <2>2, <2>8, ReadsSame
<1>8. CASE L!Read
  <2>1. CASE UNCHANGED <<rx_buf, rx_count, rx_pos, fifo>>
    BY <1>2, <1>8, <2>1 DEF L!Read
  <2>2. CASE ~UNCHANGED <<rx_buf, rx_count, rx_pos, fifo>>
    <3>1. /\ rx_pos >= rx_count
          /\ rx_count' = IF Len(fifo) < BUF_SIZE THEN Len(fifo) ELSE BUF_SIZE
          /\ rx_buf' = SubSeq(fifo, 1, rx_count')
          /\ fifo' = SubSeq(fifo, rx_count' + 1, Len(fifo))
          /\ rx_pos' = 0
      BY <1>8, <2>2 DEF L!Read
    <3>2. UNCHANGED <<got, out, ends>>
      BY <1>8 DEF L!Read
    <3>3. PICK c \in Nat : c = rx_count' /\ c <= Len(fifo) /\ Len(fifo) \in Nat
      BY <1>1, <3>1, TextEmpty, SerialAssumption
    <3>4. got = out \o fifo
      BY <3>1, NothingLeft
    <3>5. PICK front \in Text : front = SubSeq(fifo, 1, c) /\ Len(front) = c
      BY <1>1, <3>3, TextSplit, Zenon
    <3>6. front \o SubSeq(fifo, c + 1, Len(fifo)) = fifo
      BY <1>1, <3>3, <3>5, TextSplit
    <3>7. Rest' = front
      <4>1. SubSeq(front, 1, c) = front
        BY <3>5, TextFull
      <4> QED BY <3>1, <3>3, <3>5, <4>1 DEF Rest
    <3>8. Rest' \o fifo' = fifo
      BY <3>1, <3>3, <3>6, <3>7
    <3>9. got' = out \o (Rest' \o fifo')
      BY <3>2, <3>4, <3>8
    <3> QED BY <3>2, <3>9, ReadsSame
  <2> QED BY <2>1, <2>2
<1>9. CASE L!Arm
  <2>1. UNCHANGED <<fifo, got, out, ends>> /\ rx_pos >= rx_count
    BY <1>1, <1>9 DEF L!Arm, SerialInv, ReadControl
  <2>2. rx_count' = 0 /\ rx_pos' = 0
    BY <1>1, <1>9 DEF L!Arm, L!arm_order, SerialInv, ReadControl
  <2>3. Rest' = <<>>
    <3>1. \A a : SubSeq(a, 0 + 1, 0) = <<>>
      BY TextNothing
    <3> QED BY <2>2, <3>1 DEF Rest
  <2>4. got = out \o fifo /\ <<>> \o fifo = fifo
    BY <1>1, <2>1, NothingLeft, TextEmpty
  <2>5. got' = out \o (Rest' \o fifo')
    BY <2>1, <2>3, <2>4
  <2> QED BY <2>1, <2>5, ReadsSame
<1> QED BY <1>3, <1>4, <1>5, <1>6, <1>7, <1>8, <1>9 DEF L!Next

-----------------------------------------------------------------------------
(* What the console writes. *)

LEMMA WritesStep ==
    ASSUME SerialInv, L!Next
    PROVE  WritesKept'
<1>1. /\ tx_buf \in Text /\ src \in Text /\ wire \in Text /\ told \in Text /\ wcnt \in Nat
      /\ wcnt <= Len(src) /\ Len(src) \in Nat
  BY TextEmpty DEF SerialInv, SerialTypes, WriteControl
<1>2. wire \o tx_buf = told \o Taken
  BY DEF SerialInv, WritesKept
<1>3. ASSUME UNCHANGED <<wire, tx_buf, told>>, Taken' = Taken PROVE WritesKept'
  BY <1>2, <1>3 DEF WritesKept
<1>4. CASE L!UartByte \/ L!RxHandler \/ L!UsbByte
  <2>1. UNCHANGED <<wire, tx_buf, told, cpc, src, wcnt>>
    BY <1>4 DEF L!UartByte, L!RxHandler, L!UsbByte
  <2> QED BY <1>3, <2>1 DEF Taken
<1>5. CASE L!Read \/ L!Copy \/ L!Arm \/ L!Start
  <2>1. UNCHANGED <<wire, tx_buf, told>> /\ cpc \notin Writing /\ cpc' \notin Writing
    BY <1>5 DEF L!Read, L!Copy, L!Arm, L!Start, Writing
  <2> QED BY <1>3, <2>1 DEF Taken
<1>6. CASE L!UartSend
  <2>1. /\ transport = "uart" /\ wcnt < Len(src) /\ cpc = "tx_wait" /\ tx_buf = <<>>
        /\ wire' = Append(wire, src[wcnt + 1]) /\ wcnt' = wcnt + 1 /\ UNCHANGED <<cpc, tx_buf, src, told>>
    BY <1>6 DEF L!UartSend, SerialInv, WriteControl, Writing
  <2>2. PICK t \in Text : t = SubSeq(src, 1, wcnt)
    BY <1>1, TextSplit
  <2>3. PICK x \in L!Chars : x = src[wcnt + 1] /\ SubSeq(src, 1, wcnt + 1) = Append(t, x)
    BY <1>1, <2>1, <2>2, TextGrows
  <2>4. Taken = t /\ Taken' = Append(t, x)
    BY <2>1, <2>2, <2>3 DEF Taken, Writing
  <2>5. wire = told \o t
    BY <1>1, <1>2, <2>1, <2>4, TextEmpty
  <2>6. wire' = told \o Append(t, x) /\ wire' \in Text
    <3>1. told \in Text /\ wire \in Text
      BY <1>1
    <3>2. Append(told \o t, x) = told \o Append(t, x)
      <4>1. Add(Join(told, t), x) = Join(told, Add(t, x))
        BY <3>1, TextAppend
      <4> QED BY <4>1, Zenon DEF Join, Add
    <3>3. Append(wire, x) \in Text
      BY <3>1, TextOne
    <3> QED BY <2>1, <2>3, <2>5, <3>2, <3>3, Zenon
  <2>7. wire' \o <<>> = wire'
    BY <2>6, TextEmpty
  <2> QED BY <2>1, <2>4, <2>6, <2>7 DEF WritesKept
<1>7. CASE L!Write
  <2>1. /\ UNCHANGED <<wire, tx_buf, told>> /\ cpc = "idle" /\ wcnt' = 0
        /\ cpc' \in Writing
    BY <1>7 DEF L!Write, Writing
  <2>2. Taken = <<>>
    BY <2>1 DEF Taken, Writing
  <2>3. Taken' = <<>>
    <3>1. SubSeq(src', 0 + 1, 0) = <<>>
      BY TextNothing
    <3> QED BY <2>1, <3>1 DEF Taken
  <2> QED BY <1>3, <2>1, <2>2, <2>3
<1>8. CASE L!WriteReturn
  <2>1. /\ UNCHANGED <<wire, tx_buf, src, wcnt>> /\ cpc \in Writing /\ cpc' = "idle"
        /\ told' = told \o src /\ wcnt = Len(src)
    BY <1>8 DEF L!WriteReturn, L!sent, Writing, SerialInv, WriteControl
  <2>2. Taken = src
    BY <1>1, <2>1, TextFull DEF Taken
  <2>3. Taken' = <<>>
    BY <2>1 DEF Taken, Writing
  <2>4. told' \in Text
    BY <1>1, <2>1, TextJoin
  <2>5. told' \o <<>> = told'
    BY <2>4, TextEmpty
  <2> QED BY <1>2, <2>1, <2>2, <2>3, <2>5 DEF WritesKept
<1>9. CASE L!UsbPut
  <2>1. UNCHANGED <<wire, told, src>> /\ cpc = "tx_put" /\ cpc' \in Writing /\ wcnt < Len(src)
    BY <1>9 DEF L!UsbPut, Writing
  <2>2. CASE L!full
    <3>1. UNCHANGED <<tx_buf, wcnt>>
      BY <1>9, <2>2 DEF L!UsbPut
    <3> QED BY <1>3, <2>1, <3>1 DEF Taken, Writing
  <2>3. CASE ~L!full
    <3>1. tx_buf' = Append(tx_buf, src[wcnt + 1]) /\ wcnt' = wcnt + 1
      BY <1>9, <2>3 DEF L!UsbPut
    <3>2. PICK t \in Text : t = SubSeq(src, 1, wcnt)
      BY <1>1, TextSplit
    <3>3. PICK x \in L!Chars : x = src[wcnt + 1] /\ SubSeq(src, 1, wcnt + 1) = Append(t, x)
      BY <1>1, <2>1, <3>2, TextGrows
    <3>4. Taken = t /\ Taken' = Append(t, x)
      BY <2>1, <3>1, <3>2, <3>3 DEF Taken, Writing
    <3>5. Append(wire \o tx_buf, x) = wire \o Append(tx_buf, x) /\ Append(told \o t, x) = told \o Append(t, x)
      <4>1. told \in Text /\ wire \in Text /\ tx_buf \in Text
        BY <1>1
      <4>2. Append(told \o t, x) = told \o Append(t, x)
        <5>1. Add(Join(told, t), x) = Join(told, Add(t, x))
          BY <4>1, TextAppend
        <5> QED BY <5>1, Zenon DEF Join, Add
      <4>3. Append(wire \o tx_buf, x) = wire \o Append(tx_buf, x)
        <5>1. Add(Join(wire, tx_buf), x) = Join(wire, Add(tx_buf, x))
          BY <4>1, TextAppend
        <5> QED BY <5>1, Zenon DEF Join, Add
      <4> QED BY <4>2, <4>3
    <3> QED BY <1>2, <2>1, <3>1, <3>3, <3>4, <3>5, Zenon DEF WritesKept
  <2> QED BY <2>2, <2>3
<1>10. CASE L!UsbFlush
  <2>1. UNCHANGED <<told, src, wcnt>> /\ cpc = "tx_flush" /\ cpc' \in Writing
    BY <1>10 DEF L!UsbFlush, Writing
  <2>2. Taken' = Taken
    BY <2>1 DEF Taken, Writing
  <2>3. CASE tx_buf = <<>>
    <3>1. UNCHANGED <<tx_buf, wire>>
      BY <1>10, <2>3 DEF L!UsbFlush
    <3> QED BY <1>3, <2>1, <2>2, <3>1
  <2>4. CASE tx_buf # <<>>
    <3>1. PICK n \in 0 .. Len(tx_buf) : /\ wire' = wire \o SubSeq(tx_buf, 1, n)
                                        /\ tx_buf' = SubSeq(tx_buf, n + 1, Len(tx_buf))
      BY <1>10, <2>4 DEF L!UsbFlush
    <3>2. n \in Nat /\ n <= Len(tx_buf)
      BY <1>1, TextEmpty
    <3>3. /\ SubSeq(tx_buf, 1, n) \in Text /\ tx_buf' \in Text
          /\ SubSeq(tx_buf, 1, n) \o tx_buf' = tx_buf
      BY <1>1, <3>1, <3>2, TextSplit
    <3>4. PICK f \in Text : f = SubSeq(tx_buf, 1, n)
      BY <3>3
    <3>5. (wire \o f) \o tx_buf' = wire \o (f \o tx_buf')
      <4>1. wire \in Text /\ tx_buf' \in Text
        BY <1>1, <3>3
      <4>2. Join(Join(wire, f), tx_buf') = Join(wire, Join(f, tx_buf'))
        BY <4>1, TextRegroup
      <4> QED BY <4>2, Zenon DEF Join
    <3> QED BY <1>2, <2>1, <2>2, <3>1, <3>3, <3>4, <3>5, Zenon DEF WritesKept
  <2> QED BY <2>3, <2>4
<1> QED BY <1>4, <1>5, <1>6, <1>7, <1>8, <1>9, <1>10 DEF L!Next

-----------------------------------------------------------------------------
(* Types and control. *)

LEMMA SerialTyped ==
    ASSUME SerialInv, L!Next
    PROVE  SerialTypes'
<1> USE DEF SerialTypes, Reading, Writing
<1>1. SerialTypes /\ Len(rx_buf) \in Nat /\ Len(fifo) \in Nat /\ Len(tx_buf) \in Nat /\ Len(src) \in Nat
  BY TextEmpty DEF SerialInv
<1>2. CASE L!UartByte
  <2>1. PICK b \in L!Chars : rx_buf' = Append(rx_buf, b)
    BY <1>2 DEF L!UartByte
  <2>2. rx_buf' \in Text
    BY <1>1, <2>1, TextOne
  <2> QED BY <1>1, <1>2, <2>2 DEF L!UartByte
<1>3. CASE L!RxHandler
  <2>1. got' \in Text
    BY <1>1, <1>3, TextJoin DEF L!RxHandler
  <2> QED BY <1>1, <1>3, <2>1 DEF L!RxHandler
<1>4. CASE L!UsbByte
  <2>1. PICK b \in L!Chars : fifo' = Append(fifo, b) /\ got' = Append(got, b)
    BY <1>4 DEF L!UsbByte
  <2>2. fifo' \in Text /\ got' \in Text
    BY <1>1, <2>1, TextOne
  <2> QED BY <1>1, <1>4, <2>2 DEF L!UsbByte
<1>5. CASE L!UartSend
  <2>1. wire' \in Text
    <3>1. wcnt < Len(src) /\ wire' = Append(wire, src[wcnt + 1])
      BY <1>5 DEF L!UartSend
    <3>2. src[wcnt + 1] \in L!Chars
      BY <1>1, <3>1, TextGrows
    <3> QED BY <1>1, <3>1, <3>2, TextOne
  <2>2. tx_done' \in BOOLEAN
    BY <1>5, Zenon DEF L!UartSend
  <2> QED BY <1>1, <1>5, <2>1, <2>2 DEF L!UartSend
<1>6. CASE L!Read
  <2>1. CASE UNCHANGED <<rx_buf, rx_count, rx_pos, fifo>>
    BY <1>1, <1>6, <2>1 DEF L!Read
  <2>2. CASE ~UNCHANGED <<rx_buf, rx_count, rx_pos, fifo>>
    <3>1. /\ rx_count' = IF Len(fifo) < BUF_SIZE THEN Len(fifo) ELSE BUF_SIZE
          /\ rx_buf' = SubSeq(fifo, 1, rx_count')
          /\ fifo' = SubSeq(fifo, rx_count' + 1, Len(fifo))
          /\ rx_pos' = 0
      BY <1>6, <2>2 DEF L!Read
    <3>2. PICK c \in Nat : c = rx_count' /\ c <= Len(fifo)
      BY <1>1, <3>1, SerialAssumption
    <3>3. rx_buf' \in Text /\ fifo' \in Text
      BY <1>1, <3>1, <3>2, TextSplit
    <3> QED BY <1>1, <1>6, <3>1, <3>2, <3>3 DEF L!Read
  <2> QED BY <2>1, <2>2
<1>7. CASE L!Copy
  <2>1. out' \in Text /\ ends' \in Seq(Nat) /\ rx_pos' \in Nat
    BY <1>7, CopyKeeps
  <2> QED BY <1>1, <1>7, <2>1 DEF L!Copy
<1>8. CASE L!Arm
  <2>1. <<>> \in Text
    BY TextEmpty
  <2>2. rx_buf' \in Text /\ rx_count' \in Nat /\ rx_pos' \in Nat /\ armed' \in BOOLEAN
    <3>1. CASE cpc = "reset"
      <4>1. rx_count' = 0 /\ rx_pos' = 0 /\ UNCHANGED <<armed, rx_buf>>
        BY <1>8, <3>1 DEF L!Arm, L!arm_order
      <4> QED BY <1>1, <4>1
    <3>2. CASE cpc # "reset"
      <4>1. armed' = TRUE /\ rx_buf' = <<>> /\ UNCHANGED <<rx_count, rx_pos>>
        BY <1>8, <3>2 DEF L!Arm, L!arm_order
      <4> QED BY <1>1, <2>1, <4>1
    <3> QED BY <3>1, <3>2
  <2> QED BY <1>1, <1>8, <2>2 DEF L!Arm
<1>9. CASE L!Write
  <2>1. PICK n \in 1 .. 2 : src' \in [1 .. n -> L!Chars]
    BY <1>9 DEF L!Write
  <2>2. src' \in Text
    BY <2>1 DEF Text
  <2> QED BY <1>1, <1>9, <2>2 DEF L!Write
<1>10. CASE L!WriteReturn
  <2>1. told' \in Text
    BY <1>1, <1>10, TextJoin DEF L!WriteReturn
  <2> QED BY <1>1, <1>10, <2>1 DEF L!WriteReturn
<1>11. CASE L!UsbPut
  <2>1. wcnt < Len(src)
    BY <1>11 DEF L!UsbPut
  <2>2. src[wcnt + 1] \in L!Chars
    BY <1>1, <2>1, TextGrows
  <2>3. Append(tx_buf, src[wcnt + 1]) \in Text
    BY <1>1, <2>2, TextOne
  <2>4. tx_buf' \in Text /\ wcnt' \in Nat
    <3>1. \/ tx_buf' = tx_buf /\ wcnt' = wcnt
          \/ tx_buf' = Append(tx_buf, src[wcnt + 1]) /\ wcnt' = wcnt + 1
      BY <1>11 DEF L!UsbPut
    <3>2. CASE tx_buf' = tx_buf /\ wcnt' = wcnt
      BY <1>1, <3>2
    <3>3. CASE tx_buf' = Append(tx_buf, src[wcnt + 1]) /\ wcnt' = wcnt + 1
      <4>1. tx_buf' \in Text
        BY <2>3, <3>3, Zenon
      <4> QED BY <1>1, <3>3, <4>1
    <3> QED BY <3>1, <3>2, <3>3
  <2> QED BY <1>1, <1>11, <2>4 DEF L!UsbPut
<1>12. CASE L!UsbFlush
  <2>1. tx_buf' \in Text /\ wire' \in Text
    <3>1. CASE tx_buf = <<>>
      BY <1>1, <1>12, <3>1 DEF L!UsbFlush
    <3>2. CASE tx_buf # <<>>
      <4>1. PICK n \in 0 .. Len(tx_buf) : /\ wire' = wire \o SubSeq(tx_buf, 1, n)
                                          /\ tx_buf' = SubSeq(tx_buf, n + 1, Len(tx_buf))
        BY <1>12, <3>2 DEF L!UsbFlush
      <4>2. n \in Nat /\ n <= Len(tx_buf)
        BY <1>1
      <4>3. tx_buf' \in Text /\ SubSeq(tx_buf, 1, n) \in Text
        BY <1>1, <4>1, <4>2, TextSplit
      <4> QED BY <1>1, <4>1, <4>3, TextJoin
    <3> QED BY <3>1, <3>2
  <2> QED BY <1>1, <1>12, <2>1 DEF L!UsbFlush
<1>13. CASE L!Start
  BY <1>1, <1>13 DEF L!Start
<1> QED BY <1>2, <1>3, <1>4, <1>5, <1>6, <1>7, <1>8, <1>9, <1>10, <1>11, <1>12, <1>13 DEF L!Next

LEMMA ReadControlled ==
    ASSUME SerialInv, L!Next
    PROVE  ReadControl'
<1>1. /\ SerialTypes /\ ReadControl /\ WriteControl
      /\ Len(rx_buf) \in Nat /\ Len(fifo) \in Nat
  BY TextEmpty DEF SerialInv, SerialTypes
<1> USE DEF SerialTypes, ReadControl
<1>2. CASE L!UartByte
  <2>1. PICK b \in L!Chars : rx_buf' = Append(rx_buf, b)
    BY <1>2 DEF L!UartByte
  <2>2. Len(rx_buf') = Len(rx_buf) + 1
    BY <1>1, <2>1, TextOne
  <2> QED BY <1>1, <1>2, <2>2 DEF L!UartByte
<1>3. CASE L!RxHandler
  BY <1>1, <1>3 DEF L!RxHandler
<1>4. CASE L!UsbByte
  BY <1>1, <1>4 DEF L!UsbByte
<1>5. CASE L!UartSend \/ L!UsbFlush \/ L!UsbPut
  <2>1. UNCHANGED <<transport, armed, rx_buf, rx_count, rx_pos, fifo>>
    BY <1>5 DEF L!UartSend, L!UsbFlush, L!UsbPut
  <2>2. cpc' \in {"tx_put", "tx_flush"} \/ cpc' = cpc
    BY <1>5 DEF L!UartSend, L!UsbFlush, L!UsbPut
  <2> QED BY <1>1, <2>1, <2>2
<1>6. CASE L!Read
  <2>1. CASE UNCHANGED <<rx_buf, rx_count, rx_pos, fifo>>
    BY <1>1, <1>6, <2>1 DEF L!Read
  <2>2. CASE ~UNCHANGED <<rx_buf, rx_count, rx_pos, fifo>>
    <3>1. /\ transport = "usb"
          /\ rx_count' = IF Len(fifo) < BUF_SIZE THEN Len(fifo) ELSE BUF_SIZE
          /\ rx_buf' = SubSeq(fifo, 1, rx_count')
          /\ rx_pos' = 0
      BY <1>6, <2>2 DEF L!Read
    <3>2. PICK c \in Nat : c = rx_count' /\ c <= Len(fifo)
      BY <1>1, <3>1, SerialAssumption
    <3>3. Len(rx_buf') = rx_count'
      BY <1>1, <3>1, <3>2, TextSplit
    <3> QED BY <1>1, <1>6, <3>1, <3>2, <3>3 DEF L!Read
  <2> QED BY <2>1, <2>2
<1>7. CASE L!Copy
  <2>1. rx_pos' <= rx_count
    BY <1>7, CopyKeeps
  <2>2. ~armed /\ UNCHANGED <<transport, armed, rx_buf, rx_count, fifo>>
    BY <1>1, <1>7 DEF L!Copy
  <2>3. cpc' = IF transport = "uart" /\ rx_pos' >= rx_count THEN "reset" ELSE "idle"
    BY <1>7 DEF L!Copy
  <2> QED BY <1>1, <2>1, <2>2, <2>3
<1>8. CASE L!Arm
  BY <1>1, <1>8, TextEmpty DEF L!Arm, L!arm_order
<1>9. CASE L!Write
  BY <1>1, <1>9 DEF L!Write
<1>10. CASE L!WriteReturn
  BY <1>1, <1>10 DEF L!WriteReturn
<1>11. CASE L!Start
  BY <1>1, <1>11 DEF L!Start
<1> QED BY <1>2, <1>3, <1>4, <1>5, <1>6, <1>7, <1>8, <1>9, <1>10, <1>11 DEF L!Next

LEMMA WriteControlled ==
    ASSUME SerialInv, L!Next
    PROVE  WriteControl'
<1>1. /\ SerialTypes /\ ReadControl /\ WriteControl
      /\ Len(tx_buf) \in Nat /\ Len(src) \in Nat
  BY TextEmpty DEF SerialInv, SerialTypes
<1> USE DEF SerialTypes, WriteControl, Writing
<1>2. CASE L!UartByte \/ L!RxHandler \/ L!UsbByte
  BY <1>1, <1>2 DEF L!UartByte, L!RxHandler, L!UsbByte
<1>3. CASE L!Read
  BY <1>1, <1>3 DEF L!Read
<1>4. CASE L!Copy
  <2>1. UNCHANGED <<transport, tx_done, tx_buf, src, wcnt>> /\ cpc = "copy" /\ cpc' \in {"reset", "idle"}
    BY <1>4 DEF L!Copy
  <2> QED BY <1>1, <2>1
<1>5. CASE L!Arm
  <2>1. /\ UNCHANGED <<transport, tx_done, tx_buf, src, wcnt>>
        /\ cpc \in {"reset", "arm"} /\ cpc' \in {"arm", "idle"}
    BY <1>5 DEF L!Arm
  <2> QED BY <1>1, <2>1
<1>6. CASE L!UartSend
  <2>1. cpc = "tx_wait" /\ wcnt < Len(src) /\ wcnt' = wcnt + 1 /\ UNCHANGED <<transport, cpc, tx_buf, src>>
    BY <1>1, <1>6 DEF L!UartSend
  <2>2. tx_done' => wcnt' = Len(src)
    <3>1. ~tx_done
      BY <1>1, <2>1
    <3>2. tx_done' = (tx_done \/ wcnt' = Len(src))
      BY <1>6 DEF L!UartSend
    <3> QED BY <3>1, <3>2, Zenon
  <2> QED BY <1>1, <2>1, <2>2
<1>7. CASE L!Write
  <2>1. PICK n \in 1 .. 2 : src' \in [1 .. n -> L!Chars]
    BY <1>7 DEF L!Write
  <2>2. Len(src') \in Nat /\ src' # <<>>
    <3>1. src' \in Seq(L!Chars) /\ Len(src') = n
      BY <2>1
    <3> QED BY <2>1, <3>1
  <2> QED BY <1>1, <1>7, <2>2 DEF L!Write
<1>8. CASE L!WriteReturn
  BY <1>1, <1>8 DEF L!WriteReturn, L!sent
<1>9. CASE L!UsbPut
  <2>1. CASE L!full
    BY <1>1, <1>9, <2>1 DEF L!UsbPut
  <2>2. CASE ~L!full
    <3>1. /\ tx_buf' = Append(tx_buf, src[wcnt + 1]) /\ wcnt' = wcnt + 1
          /\ UNCHANGED <<transport, src, tx_done>>
          /\ wcnt < Len(src) /\ cpc = "tx_put" /\ cpc' \in {"tx_flush", "tx_put"}
      BY <1>9, <2>2 DEF L!UsbPut
    <3>2. src[wcnt + 1] \in L!Chars
      BY <1>1, <3>1, TextGrows
    <3>3. Len(tx_buf') = Len(tx_buf) + 1
      BY <1>1, <3>1, <3>2, TextOne
    <3>4. Len(tx_buf) < BUF_SIZE
      BY <1>1, <2>2, SerialAssumption DEF L!full
    <3> QED BY <1>1, <3>1, <3>3, <3>4, SerialAssumption
  <2> QED BY <2>1, <2>2
<1>10. CASE L!UsbFlush
  <2>1. Len(tx_buf') <= BUF_SIZE
    <3>1. CASE tx_buf = <<>>
      BY <1>1, <1>10, <3>1 DEF L!UsbFlush
    <3>2. CASE tx_buf # <<>>
      <4>1. PICK n \in 0 .. Len(tx_buf) : tx_buf' = SubSeq(tx_buf, n + 1, Len(tx_buf))
        BY <1>10, <3>2 DEF L!UsbFlush
      <4>2. n \in Nat /\ n <= Len(tx_buf)
        BY <1>1
      <4>3. Len(tx_buf') = Len(tx_buf) - n
        BY <1>1, <4>1, <4>2, TextSplit
      <4> QED BY <1>1, <4>2, <4>3, SerialAssumption
    <3> QED BY <3>1, <3>2
  <2> QED BY <1>1, <1>10, <2>1 DEF L!UsbFlush
<1>11. CASE L!Start
  BY <1>1, <1>11 DEF L!Start, ReadControl
<1> QED BY <1>2, <1>3, <1>4, <1>5, <1>6, <1>7, <1>8, <1>9, <1>10, <1>11 DEF L!Next

LEMMA LinesFlushed ==
    ASSUME SerialInv, L!Next
    PROVE  Flushed'
<1>1. SerialTypes /\ WriteControl /\ Flushed /\ Len(src) \in Nat
  BY TextEmpty DEF SerialInv, SerialTypes
<1> USE DEF SerialTypes, WriteControl, Flushed, Writing
<1>2. CASE L!UartByte \/ L!RxHandler \/ L!UsbByte
  BY <1>1, <1>2 DEF L!UartByte, L!RxHandler, L!UsbByte
<1>3. CASE L!Read \/ L!Copy \/ L!Arm \/ L!Start
  <2>1. UNCHANGED <<tx_buf, told>> /\ cpc \notin Writing /\ cpc' \notin Writing
    BY <1>3 DEF L!Read, L!Copy, L!Arm, L!Start
  <2> QED BY <1>1, <2>1
<1>4. CASE L!UartSend
  <2>1. cpc = "tx_wait" /\ UNCHANGED cpc
    BY <1>1, <1>4 DEF L!UartSend
  <2> QED BY <2>1
<1>5. CASE L!Write
  BY <1>5 DEF L!Write
<1>6. CASE L!WriteReturn
  <2>1. UNCHANGED tx_buf /\ told' = told \o src /\ cpc' = "idle" /\ wcnt = Len(src) /\ src # <<>>
    BY <1>1, <1>6 DEF L!WriteReturn, L!sent
  <2>2. PICK n \in Nat : n = Len(src) /\ n > 0
    <3>1. src \in Seq(L!Chars) /\ src # <<>>
      BY <1>1, <2>1 DEF Text
    <3>2. Len(src) # 0
      BY ONLY <3>1, EmptySeq
    <3> QED BY <1>1, <3>2
  <2>3. L!Last(told') = src[n]
    <3>1. PICK k \in Nat : k = Len(told)
      BY <1>1, TextEmpty
    <3>2. Len(told') = k + n /\ k + n \in 1 .. k + n /\ ~(k + n <= k) /\ (k + n) - k = n
      BY <1>1, <2>1, <2>2, <3>1, TextJoin
    <3>3. \A i \in 1 .. k + n : (told \o src)[i] = IF i <= k THEN told[i] ELSE src[i - k]
      <4>1. told \in Seq(L!Chars) /\ src \in Seq(L!Chars)
        BY <1>1 DEF Text
      <4> QED BY ONLY <4>1, <2>2, <3>1, ConcatProperties
    <3>4. (told \o src)[k + n] = src[n]
      BY <3>2, <3>3
    <3> QED BY <2>1, <3>2, <3>4 DEF L!Last
  <2>4. CASE cpc = "tx_put"
    BY <1>1, <2>1, <2>2, <2>3, <2>4
  <2>5. CASE cpc = "tx_wait"
    BY <1>1, <2>1, <2>5
  <2> QED BY <1>6, <2>4, <2>5 DEF L!WriteReturn
<1>7. CASE L!UsbPut
  BY <1>1, <1>7 DEF L!UsbPut
<1>8. CASE L!UsbFlush
  BY <1>1, <1>8 DEF L!UsbFlush
<1> QED BY <1>2, <1>3, <1>4, <1>5, <1>6, <1>7, <1>8 DEF L!Next

LEMMA SerialSteps == SerialInv /\ [Next]_vars => SerialInv'
<1> SUFFICES ASSUME SerialInv, [Next]_vars PROVE SerialInv'
  OBVIOUS
<1>1. CASE L!Next
  BY <1>1, SerialTyped, ReadControlled, WriteControlled, LinesFlushed, ReadsStep, WritesStep DEF SerialInv
<1>2. CASE UNCHANGED serial_vars
  <2> USE <1>2 DEF serial_vars
  <2>1. SerialTypes' /\ ReadControl'
    BY DEF SerialInv, SerialTypes, ReadControl
  <2>2. WriteControl' /\ Flushed'
    BY DEF SerialInv, WriteControl, Flushed
  <2>3. ReadsKept' /\ EndsKept'
    BY DEF SerialInv, ReadsKept, EndsKept, Rest
  <2>4. WritesKept'
    BY DEF SerialInv, WritesKept, Taken
  <2> QED BY <2>1, <2>2, <2>3, <2>4 DEF SerialInv
<1> QED BY <1>1, <1>2, SerialMoves

LEMMA SerialImplies == SerialInv => SerialWhole
<1> SUFFICES ASSUME SerialInv PROVE SerialWhole
  OBVIOUS
<1>1. /\ rx_buf \in Text /\ fifo \in Text /\ got \in Text /\ out \in Text /\ ends \in Seq(Nat)
      /\ rx_count \in Nat /\ rx_pos \in Nat /\ rx_pos <= rx_count /\ rx_count <= Len(rx_buf)
  BY DEF SerialInv, SerialTypes, ReadControl
<1>2. L!LinesWhole
  <2>1. PICK r \in Text : r = Rest \o fifo
    <3>1. Rest \in Text
      BY <1>1, TextPart DEF Rest
    <3> QED BY <1>1, <3>1, TextJoin
  <2>2. L!IsPrefix(out, got)
    <3>1. got = out \o r
      BY <2>1 DEF SerialInv, ReadsKept
    <3>2. L!IsPrefix(out, out \o r)
      BY <1>1, PrefixOf
    <3> QED BY <3>1, <3>2
  <2>3. ASSUME rx_count = 0, fifo = <<>> PROVE out = got
    <3>1. got = out \o <<>>
      BY <1>1, <2>3, NothingLeft
    <3> QED BY <1>1, <3>1, TextEmpty
  <2>4. {i \in DOMAIN out : out[i] = L!NL} = L!ToSet(ends)
    BY DEF SerialInv, EndsKept, L!ToSet
  <2> QED BY <2>2, <2>3, <2>4 DEF L!LinesWhole
<1>3. /\ tx_buf \in Text /\ src \in Text /\ wire \in Text /\ told \in Text
      /\ wcnt \in Nat /\ wcnt <= Len(src)
  BY DEF SerialInv, SerialTypes, WriteControl
<1>4. wire \o tx_buf = told \o Taken
  BY DEF SerialInv, WritesKept
<1>5. L!IsPrefix(wire, told \o src)
  <2>1. PICK t \in Text : t = Taken /\ \E u \in Text : t \o u = src
    <3>1. CASE cpc \in Writing
      <4>1. Taken = SubSeq(src, 1, wcnt)
        BY <3>1 DEF Taken
      <4>2. Taken \in Text /\ Taken \o SubSeq(src, wcnt + 1, Len(src)) = src
        BY <1>3, <4>1, TextSplit
      <4>3. SubSeq(src, wcnt + 1, Len(src)) \in Text
        BY <1>3, TextSplit
      <4> QED BY <4>2, <4>3, Zenon
    <3>2. CASE cpc \notin Writing
      <4>1. Taken = <<>>
        BY <3>2 DEF Taken
      <4>2. Taken \in Text /\ Taken \o src = src
        BY <1>3, <4>1, TextEmpty
      <4> QED BY <1>3, <4>2, Zenon
    <3> QED BY <3>1, <3>2
  <2>2. PICK u \in Text : t \o u = src
    BY <2>1
  <2>3. told \o (t \o u) = (told \o t) \o u
    <3>1. told \in Text
      BY <1>3
    <3>2. Join(Join(told, t), u) = Join(told, Join(t, u))
      BY <3>1, TextRegroup
    <3> QED BY <3>2, Zenon DEF Join
  <2>4. (wire \o tx_buf) \o u = wire \o (tx_buf \o u) /\ tx_buf \o u \in Text
    <3>1. wire \in Text /\ tx_buf \in Text
      BY <1>3
    <3>2. tx_buf \o u \in Text
      BY <3>1, TextJoin
    <3>3. (wire \o tx_buf) \o u = wire \o (tx_buf \o u)
      <4>1. Join(Join(wire, tx_buf), u) = Join(wire, Join(tx_buf, u))
        BY <3>1, TextRegroup
      <4> QED BY <4>1, Zenon DEF Join
    <3> QED BY <3>2, <3>3
  <2>5. told \o src = wire \o (tx_buf \o u)
    BY <1>4, <2>1, <2>2, <2>3, <2>4
  <2>6. L!IsPrefix(wire, wire \o (tx_buf \o u))
    <3>1. PICK v \in Text : v = tx_buf \o u
      BY <2>4
    <3>2. L!IsPrefix(wire, wire \o v)
      BY <1>3, PrefixOf
    <3> QED BY <3>1, <3>2
  <2> QED BY <2>5, <2>6
<1>6. ASSUME cpc = "idle", told # <<>>, transport = "uart" \/ L!Last(told) = L!NL PROVE wire = told
  <2>1. tx_buf = <<>> /\ Taken = <<>>
    BY <1>6 DEF SerialInv, WriteControl, Flushed, Taken, Writing
  <2>2. wire \o <<>> = told \o <<>>
    BY <1>4, <2>1
  <2> QED BY <1>3, <2>2, TextEmpty
<1>7. Len(tx_buf) <= BUF_SIZE
  BY DEF SerialInv, WriteControl
<1>8. L!WritesWhole
  BY <1>5, <1>6, <1>7 DEF L!WritesWhole
<1> QED BY <1>2, <1>8 DEF SerialWhole

(***************************************************************************)
(* For every buffer size, every room that the console gives to a read and  *)
(* every sequence of bytes, both boot_serial transports hand the console   *)
(* what was received and the host what was written, whole and in order,    *)
(* wherever the receive handler falls between the steps of a read.         *)
(***************************************************************************)
THEOREM SerialIsWhole == Spec => []SerialWhole
<1>1. Init => SerialInv
  BY SerialStarts
<1>2. SerialInv /\ [Next]_vars => SerialInv'
  BY SerialSteps
<1>3. SerialInv => SerialWhole
  BY SerialImplies
<1> QED BY <1>1, <1>2, <1>3, PTL DEF Spec

-----------------------------------------------------------------------------
(* Power: the hooks. *)

\* The least element of a set of numbers.
LEMMA LeastExists ==
    ASSUME NEW T, T \subseteq Nat, T # {}
    PROVE  \E n \in T : \A m \in T : n <= m
<1>1. PICK n \in T : \A m \in T : ~(<<m, n>> \in OpToRel(<, Nat))
  BY WFMin, NatLessThanWellFounded
<1>2. ASSUME NEW m \in T PROVE n <= m
  <2>1. m \in Nat /\ n \in Nat
    OBVIOUS
  <2>2. CASE m < n
    BY <1>1, <2>1, <2>2 DEF OpToRel
  <2> QED BY <2>1, <2>2
<1> QED BY <1>2

-----------------------------------------------------------------------------
(* The hooks of the power driver. *)

PreHooks == {"task_planner_init", "log_init", "flash_register_device", "uart_auto_config",
             "i2c_auto_config", "spi_auto_config", "init_mtimer"}
BeforeHooks == {"flip_led", "init_led", "pmp_save"}
AfterHooks == {"init_led", "rf_reinitialize", "pmp_restore", "critical_print_pm_reinit"}

HookType == [fn : PreHooks \cup BeforeHooks \cup AfterHooks, level : Nat, priority : Nat]
Key(h) == h.level * 10 + h.priority

LeftOf(s) == {s[i] : i \in DOMAIN s}
Waiting(fn) == \E h \in LeftOf(todo) : h.fn = fn

LEMMA Picked ==
    ASSUME NEW s \in Seq(HookType), s # <<>>
    PROVE  /\ P!next_hook(s) \in DOMAIN s
           /\ \A h \in LeftOf(s) : Key(s[P!next_hook(s)]) <= Key(h)
<1>1. Len(s) \in Nat \ {0} /\ DOMAIN s = 1 .. Len(s) /\ \A i \in DOMAIN s : s[i] \in HookType
  BY EmptySeq
<1>2. \A i \in DOMAIN s : Key(s[i]) \in Nat
  BY <1>1 DEF HookType, Key
<1> DEFINE keys == {Key(s[i]) : i \in DOMAIN s}
<1>3. PICK k \in keys : \A m \in keys : k <= m
  <2>1. keys \subseteq Nat /\ keys # {}
    BY <1>1, <1>2
  <2> QED BY <2>1, LeastExists
<1> DEFINE least == {i \in DOMAIN s : Key(s[i]) = k}
<1>4. PICK i \in least : \A j \in least : i <= j
  <2>1. least \subseteq Nat /\ least # {}
    BY <1>1, <1>3
  <2> QED BY <2>1, LeastExists
<1>5. \A j \in DOMAIN s : Key(s[i]) <= Key(s[j])
  BY <1>3, <1>4
<1>6. \A j \in 1 .. i - 1 : ~(Key(s[j]) <= Key(s[i]))
  <2> SUFFICES ASSUME NEW j \in 1 .. i - 1, Key(s[j]) <= Key(s[i]) PROVE FALSE
    OBVIOUS
  <2>1. j \in DOMAIN s /\ j < i
    BY <1>1, <1>4
  <2>2. Key(s[j]) = k
    BY <1>2, <1>5, <1>4, <2>1
  <2> QED BY <1>4, <2>1, <2>2
<1> DEFINE Good(n) == /\ \A j \in DOMAIN s : Key(s[n]) <= Key(s[j])
                      /\ \A j \in 1 .. n - 1 : ~(Key(s[j]) <= Key(s[n]))
<1>7. P!next_hook(s) = CHOOSE n \in DOMAIN s : Good(n)
  BY Zenon DEF P!next_hook, P!sorts_before, Key
<1>8. i \in DOMAIN s /\ Good(i)
  BY <1>4, <1>5, <1>6
<1> HIDE DEF Good
<1>9. P!next_hook(s) \in DOMAIN s /\ Good(P!next_hook(s))
  BY <1>7, <1>8, Zenon
<1> QED BY <1>9, Zenon DEF Good, LeftOf

LEMMA Removed ==
    ASSUME NEW s \in Seq(HookType), NEW i \in DOMAIN s
    PROVE  /\ P!RemoveAt(s, i) \in Seq(HookType)
           /\ LeftOf(P!RemoveAt(s, i)) \subseteq LeftOf(s)
           /\ LeftOf(s) \subseteq LeftOf(P!RemoveAt(s, i)) \cup {s[i]}
<1>1. PICK n \in Nat : n = Len(s) /\ DOMAIN s = 1 .. n /\ i \in 1 .. n /\ \A j \in 1 .. n : s[j] \in HookType
  OBVIOUS
<1>2. /\ SubSeq(s, 1, i - 1) \in Seq(HookType) /\ Len(SubSeq(s, 1, i - 1)) = i - 1
      /\ \A j \in 1 .. i - 1 : SubSeq(s, 1, i - 1)[j] = s[j]
  <2>1. \A j \in 1 .. i - 1 : s[j] \in HookType
    BY <1>1
  <2>2. i - 1 \in Int /\ 1 \in Int
    BY <1>1
  <2>3. /\ SubSeq(s, 1, i - 1) \in Seq(HookType)
        /\ Len(SubSeq(s, 1, i - 1)) = IF 1 <= i - 1 THEN (i - 1) - 1 + 1 ELSE 0
        /\ \A j \in 1 .. (i - 1) - 1 + 1 : SubSeq(s, 1, i - 1)[j] = s[1 + j - 1]
    BY <2>1, <2>2, SubSeqProperties
  <2>4. Len(SubSeq(s, 1, i - 1)) = i - 1
    BY <1>1, <2>3
  <2>5. ASSUME NEW j \in 1 .. i - 1 PROVE SubSeq(s, 1, i - 1)[j] = s[j]
    <3>1. j \in 1 .. (i - 1) - 1 + 1 /\ 1 + j - 1 = j
      BY <1>1
    <3> QED BY <2>3, <3>1
  <2> QED BY <2>3, <2>4, <2>5
<1>3. /\ SubSeq(s, i + 1, n) \in Seq(HookType) /\ Len(SubSeq(s, i + 1, n)) = n - i
      /\ \A j \in 1 .. n - i : SubSeq(s, i + 1, n)[j] = s[i + j]
  <2>1. \A j \in i + 1 .. n : s[j] \in HookType
    BY <1>1
  <2>2. i + 1 \in Int /\ n \in Int
    BY <1>1
  <2>3. /\ SubSeq(s, i + 1, n) \in Seq(HookType)
        /\ Len(SubSeq(s, i + 1, n)) = IF i + 1 <= n THEN n - (i + 1) + 1 ELSE 0
        /\ \A j \in 1 .. n - (i + 1) + 1 : SubSeq(s, i + 1, n)[j] = s[i + 1 + j - 1]
    BY <2>1, <2>2, SubSeqProperties
  <2>4. Len(SubSeq(s, i + 1, n)) = n - i
    BY <1>1, <2>3
  <2>5. ASSUME NEW j \in 1 .. n - i PROVE SubSeq(s, i + 1, n)[j] = s[i + j]
    <3>1. j \in 1 .. n - (i + 1) + 1 /\ i + 1 + j - 1 = i + j
      BY <1>1
    <3> QED BY <2>3, <3>1
  <2> QED BY <2>3, <2>4, <2>5
<1>4. PICK a \in Seq(HookType) : a = SubSeq(s, 1, i - 1) /\ Len(a) = i - 1 /\ \A j \in 1 .. i - 1 : a[j] = s[j]
  BY <1>2
<1>5. PICK b \in Seq(HookType) : b = SubSeq(s, i + 1, n) /\ Len(b) = n - i /\ \A j \in 1 .. n - i : b[j] = s[i + j]
  BY <1>3
<1>6. P!RemoveAt(s, i) = a \o b
  BY <1>1, <1>4, <1>5 DEF P!RemoveAt
<1>7. PICK c \in Seq(HookType) : /\ c = P!RemoveAt(s, i) /\ Len(c) = n - 1 /\ DOMAIN c = 1 .. n - 1
                                /\ \A j \in 1 .. n - 1 : c[j] = IF j <= i - 1 THEN a[j] ELSE b[j - (i - 1)]
  <2>1. a \o b \in Seq(HookType) /\ Len(a \o b) = Len(a) + Len(b)
        /\ \A j \in 1 .. Len(a) + Len(b) : (a \o b)[j] = IF j <= Len(a) THEN a[j] ELSE b[j - Len(a)]
    BY ConcatProperties
  <2>2. Len(a) + Len(b) = n - 1
    BY <1>1, <1>4, <1>5
  <2>3. Len(a) = i - 1
    BY <1>4
  <2>4. DOMAIN (a \o b) = 1 .. n - 1
    BY <2>1, <2>2
  <2> QED BY <1>6, <2>1, <2>2, <2>3, <2>4
<1>8. ASSUME NEW j \in 1 .. n - 1 PROVE c[j] = IF j < i THEN s[j] ELSE s[j + 1]
  <2>1. CASE j < i
    <3>1. j \in 1 .. i - 1 /\ j <= i - 1
      BY <1>1, <2>1
    <3> QED BY <1>4, <1>7, <2>1, <3>1
  <2>2. CASE ~(j < i)
    <3>1. ~(j <= i - 1) /\ j - (i - 1) \in 1 .. n - i /\ i + (j - (i - 1)) = j + 1
      BY <1>1, <2>2
    <3> QED BY <1>5, <1>7, <2>2, <3>1
  <2> QED BY <2>1, <2>2
<1>9. ASSUME NEW h \in LeftOf(c) PROVE h \in LeftOf(s)
  <2>1. PICK j \in 1 .. n - 1 : h = c[j]
    BY <1>7 DEF LeftOf
  <2>2. h = s[j] \/ h = s[j + 1]
    BY <1>8, <2>1
  <2>3. j \in DOMAIN s /\ j + 1 \in DOMAIN s
    BY <1>1
  <2> QED BY <2>2, <2>3 DEF LeftOf
<1>10. ASSUME NEW h \in LeftOf(s) PROVE h \in LeftOf(c) \cup {s[i]}
  <2>1. PICK j \in 1 .. n : h = s[j]
    BY <1>1 DEF LeftOf
  <2>2. CASE j < i
    <3>1. j \in 1 .. n - 1
      BY <1>1, <2>2
    <3>2. c[j] = s[j]
      BY <1>8, <2>2, <3>1
    <3> QED BY <1>7, <2>1, <3>1, <3>2 DEF LeftOf
  <2>3. CASE j = i
    BY <2>1, <2>3
  <2>4. CASE j > i
    <3>1. j - 1 \in 1 .. n - 1 /\ ~(j - 1 < i) /\ (j - 1) + 1 = j
      BY <1>1, <2>4
    <3>2. c[j - 1] = s[j]
      BY <1>8, <3>1
    <3> QED BY <1>7, <2>1, <3>1, <3>2 DEF LeftOf
  <2> QED BY <1>1, <2>2, <2>3, <2>4
<1> QED BY <1>7, <1>9, <1>10

-----------------------------------------------------------------------------
(* What a sleep leaves and the hooks bring back. *)

RfRegs == [config : BOOLEAN, fifo : BOOLEAN, fs : BOOLEAN, fs_tx : BOOLEAN]
Regs == [rf : RfRegs, uart : BOOLEAN, garbled : BOOLEAN, port : BOOLEAN, flow : {FALSE, UART_FLOW},
         log : BOOLEAN, pins : {<<>>} \cup [0 .. 1 -> BOOLEAN],
         i2c : [pins : BOOLEAN, role : {"none", I2C_MODE}], spi : [pins : BOOLEAN, role : {"none", SPI_ROLE}]]

PowerTypes ==
    /\ phase \in {"init", "run", "before", "off", "after"} /\ mode \in {"none", "suspend", "sleep"}
    /\ todo \in Seq(HookType)
    /\ rf \in [initialized : BOOLEAN, config : BOOLEAN, fifo : BOOLEAN, fs : BOOLEAN, fs_tx : BOOLEAN]
    /\ regs \in Regs
    /\ inited \in BOOLEAN /\ leds \in [0 .. 1 -> BOOLEAN]

\* Which hooks may be waiting in a phase, with their places.
Placed ==
    /\ phase \in {"run", "off"} => LeftOf(todo) = {}
    /\ \A h \in LeftOf(todo) :
          /\ phase = "init" => h.fn \in PreHooks
          /\ phase = "before" => h.fn \in BeforeHooks
          /\ phase = "after" => h.fn \in AfterHooks
          /\ h.fn = "uart_auto_config" => Key(h) = 58
          /\ h.fn = "log_init" => Key(h) = 82
          /\ h.fn = "init_mtimer" => Key(h) = 55
          /\ h.fn = "task_planner_init" => Key(h) = 85

RfKept ==
    /\ phase = "init" => ~rf.initialized
    /\ rf.initialized => rf.config
    /\ ~rf.initialized => ~rf.config /\ ~rf.fifo /\ ~rf.fs /\ ~rf.fs_tx /\ regs.rf = P!lost_rf
    /\ rf.fs_tx => rf.fs
    /\ (phase = "run" \/ (phase = "after" /\ ~Waiting("rf_reinitialize"))) =>
          /\ regs.rf.config = rf.config /\ regs.rf.fifo = rf.fifo
          /\ regs.rf.fs = rf.fs /\ regs.rf.fs_tx = rf.fs_tx

PinsKept ==
    /\ phase # "init" => leds[0] = ~leds[1]
    /\ (phase = "run" \/ (phase = "after" /\ ~Waiting("init_led"))) => regs.pins = leds

\* The port of the critical print is lost only where it will be set up again.
PrintKept ==
    /\ ~regs.garbled
    /\ inited => \/ regs.uart
                 \/ phase = "off" /\ mode = "sleep"
                 \/ phase = "after" /\ Waiting("critical_print_pm_reinit")

BootKept ==
    /\ regs.log
    /\ (phase = "init" /\ Waiting("uart_auto_config")) \/ regs.port
    /\ (phase = "init" /\ Waiting("i2c_auto_config")) \/ regs.i2c.role = I2C_MODE
    /\ (phase = "init" /\ Waiting("spi_auto_config")) \/ regs.spi.role = SPI_ROLE
    /\ (phase = "init" /\ Waiting("task_planner_init"))
          \/ (irq_cb = "planner" /\ ~Waiting("init_mtimer"))

PowerInv == PowerTypes /\ Placed /\ RfKept /\ PinsKept /\ PrintKept /\ BootKept

\* What the arrays hold.
LEMMA Arrays ==
    /\ P!pre_init \in Seq(HookType) /\ P!before_sleep \in Seq(HookType)
    /\ P!after_suspend \in Seq(HookType) /\ P!after_sleep \in Seq(HookType)
    /\ \A h \in LeftOf(P!pre_init) :
          /\ h.fn \in PreHooks
          /\ h.fn = "uart_auto_config" => Key(h) = 58
          /\ h.fn = "log_init" => Key(h) = 82
          /\ h.fn = "init_mtimer" => Key(h) = 55
          /\ h.fn = "task_planner_init" => Key(h) = 85
    /\ \A fn \in PreHooks : \E h \in LeftOf(P!pre_init) : h.fn = fn
    /\ \A h \in LeftOf(P!before_sleep) : h.fn \in BeforeHooks
    /\ \A h \in LeftOf(P!after_suspend) : h.fn \in AfterHooks
    /\ \A h \in LeftOf(P!after_sleep) : h.fn \in AfterHooks
    /\ \A fn \in {"init_led", "rf_reinitialize", "pmp_restore"} :
          (\E h \in LeftOf(P!after_suspend) : h.fn = fn) /\ (\E h \in LeftOf(P!after_sleep) : h.fn = fn)
    /\ \E h \in LeftOf(P!after_sleep) : h.fn = "critical_print_pm_reinit"
    /\ \E h \in LeftOf(P!before_sleep) : h.fn = "pmp_save"
<1> USE DEF P!hook, P!SYSTEM, P!DRIVER, P!APPLICATION, P!HIGH, P!NORMAL, P!LOW
<1>1. DOMAIN P!pre_init = 1 .. 7 /\ DOMAIN P!before_sleep = 1 .. 3 /\ DOMAIN P!after_suspend = 1 .. 3
  BY DEF P!pre_init, P!before_sleep, P!after_suspend
<1>2. /\ P!pre_init[1] = [fn |-> "task_planner_init", level |-> 8, priority |-> 5]
      /\ P!pre_init[2] = [fn |-> "log_init", level |-> 8, priority |-> 2]
      /\ P!pre_init[3] = [fn |-> "flash_register_device", level |-> 5, priority |-> 8]
      /\ P!pre_init[4] = [fn |-> "uart_auto_config", level |-> 5, priority |-> 8]
      /\ P!pre_init[5] = [fn |-> "i2c_auto_config", level |-> 5, priority |-> 5]
      /\ P!pre_init[6] = [fn |-> "spi_auto_config", level |-> 5, priority |-> 5]
      /\ P!pre_init[7] = [fn |-> "init_mtimer", level |-> 5, priority |-> 5]
  BY DEF P!pre_init
<1>3. /\ P!before_sleep[1] = [fn |-> "flip_led", level |-> 8, priority |-> 5]
      /\ P!before_sleep[2] = [fn |-> "init_led", level |-> 8, priority |-> 5]
      /\ P!before_sleep[3] = [fn |-> "pmp_save", level |-> 5, priority |-> 2]
  BY DEF P!before_sleep
<1>4. /\ P!after_suspend[1] = [fn |-> "init_led", level |-> 8, priority |-> 5]
      /\ P!after_suspend[2] = [fn |-> "rf_reinitialize", level |-> 5, priority |-> 5]
      /\ P!after_suspend[3] = [fn |-> "pmp_restore", level |-> 5, priority |-> 2]
  BY DEF P!after_suspend
<1>5. P!pre_init \in Seq(HookType)
  BY DEF P!pre_init, HookType, PreHooks
<1>6. P!before_sleep \in Seq(HookType)
  BY DEF P!before_sleep, HookType, BeforeHooks
<1>7. P!after_suspend \in Seq(HookType) /\ Len(P!after_suspend) = 3
  BY DEF P!after_suspend, HookType, AfterHooks
<1> DEFINE last == [fn |-> "critical_print_pm_reinit", level |-> 2, priority |-> 2]
<1>8. /\ P!after_sleep \in Seq(HookType) /\ DOMAIN P!after_sleep = 1 .. 4
      /\ \A i \in 1 .. 3 : P!after_sleep[i] = P!after_suspend[i]
      /\ P!after_sleep[4] = last
  <2>1. last \in HookType
    BY DEF HookType, AfterHooks
  <2>2. P!after_sleep = Append(P!after_suspend, last)
    BY DEF P!after_sleep
  <2> HIDE DEF last
  <2>3. PICK a \in Seq(HookType) : a = P!after_suspend /\ Len(a) = 3
    BY <1>7
  <2>4. /\ Append(a, last) \in Seq(HookType) /\ Len(Append(a, last)) = Len(a) + 1
        /\ \A i \in 1 .. Len(a) : Append(a, last)[i] = a[i]
        /\ Append(a, last)[Len(a) + 1] = last
    BY ONLY <2>1, AppendProperties
  <2>5. PICK b \in Seq(HookType) : b = Append(a, last)
    BY <2>4
  <2>6. Len(b) = 4 /\ (\A i \in 1 .. 3 : b[i] = a[i]) /\ b[4] = last
    BY ONLY <2>3, <2>4, <2>5
  <2>7. DOMAIN b = 1 .. 4
    BY <2>6
  <2>8. P!after_sleep = b
    BY ONLY <2>2, <2>3, <2>5
  <2> QED BY ONLY <2>3, <2>5, <2>6, <2>7, <2>8
<1> HIDE DEF P!hook, P!SYSTEM, P!DRIVER, P!APPLICATION, P!HIGH, P!NORMAL, P!LOW
<1>9. \A h \in LeftOf(P!pre_init) :
          /\ h.fn \in PreHooks
          /\ h.fn = "uart_auto_config" => Key(h) = 58
          /\ h.fn = "log_init" => Key(h) = 82
          /\ h.fn = "init_mtimer" => Key(h) = 55
          /\ h.fn = "task_planner_init" => Key(h) = 85
  <2> SUFFICES ASSUME NEW i \in 1 .. 7, NEW h, h = P!pre_init[i]
               PROVE  /\ h.fn \in PreHooks
                      /\ h.fn = "uart_auto_config" => Key(h) = 58
                      /\ h.fn = "log_init" => Key(h) = 82
                      /\ h.fn = "init_mtimer" => Key(h) = 55
                      /\ h.fn = "task_planner_init" => Key(h) = 85
    BY <1>1 DEF LeftOf
  <2>1. i = 1 \/ i = 2 \/ i = 3 \/ i = 4 \/ i = 5 \/ i = 6 \/ i = 7
    OBVIOUS
  <2> QED BY <1>2, <2>1 DEF PreHooks, Key
<1>10. \A fn \in PreHooks : \E h \in LeftOf(P!pre_init) : h.fn = fn
  <2>1. \A fn \in PreHooks : \E i \in 1 .. 7 : P!pre_init[i].fn = fn
    BY <1>2 DEF PreHooks
  <2> QED BY <1>1, <2>1 DEF LeftOf
<1>11. \A h \in LeftOf(P!before_sleep) : h.fn \in BeforeHooks
  <2>1. \A i \in 1 .. 3 : P!before_sleep[i].fn \in BeforeHooks
    BY <1>3 DEF BeforeHooks
  <2> QED BY <1>1, <2>1 DEF LeftOf
<1>12. \A i \in 1 .. 3 : P!after_suspend[i].fn \in AfterHooks
  BY <1>4 DEF AfterHooks
<1>13. \A h \in LeftOf(P!after_suspend) : h.fn \in AfterHooks
  BY <1>1, <1>12 DEF LeftOf
<1>14. last.fn \in AfterHooks /\ last.fn = "critical_print_pm_reinit"
  BY DEF AfterHooks
<1> HIDE DEF last
<1>15. \A h \in LeftOf(P!after_sleep) : h.fn \in AfterHooks
  <2> SUFFICES ASSUME NEW i \in 1 .. 4 PROVE P!after_sleep[i].fn \in AfterHooks
    BY <1>8 DEF LeftOf
  <2>1. i \in 1 .. 3 \/ i = 4
    OBVIOUS
  <2> QED BY <1>8, <1>12, <1>14, <2>1
<1>16. \A fn \in {"init_led", "rf_reinitialize", "pmp_restore"} : \E i \in 1 .. 3 : P!after_suspend[i].fn = fn
  BY <1>4
<1>17. \A fn \in {"init_led", "rf_reinitialize", "pmp_restore"} :
          (\E h \in LeftOf(P!after_suspend) : h.fn = fn) /\ (\E h \in LeftOf(P!after_sleep) : h.fn = fn)
  BY <1>1, <1>8, <1>16 DEF LeftOf
<1>18. \E h \in LeftOf(P!after_sleep) : h.fn = "critical_print_pm_reinit"
  BY <1>8, <1>14 DEF LeftOf
<1>19. \E h \in LeftOf(P!before_sleep) : h.fn = "pmp_save"
  <2>1. P!before_sleep[3].fn = "pmp_save"
    BY <1>3
  <2> QED BY <1>1, <2>1 DEF LeftOf
<1> QED BY <1>5, <1>6, <1>7, <1>8, <1>9, <1>10, <1>11, <1>13, <1>15, <1>17, <1>18, <1>19

LEMMA PowerStarts == Init => PowerInv
<1> SUFFICES ASSUME P!Init PROVE PowerInv
  BY DEF Init
<1> USE DEF P!Init
<1>1. PowerTypes
  BY Arrays DEF PowerTypes, Regs, RfRegs, P!lost_rf, P!no_bus
<1>2. Placed
  BY Arrays DEF Placed
<1>3. RfKept /\ PinsKept /\ PrintKept
  BY DEF RfKept, PinsKept, PrintKept
<1>4. BootKept
  <2>1. \A fn \in PreHooks : Waiting(fn)
    BY Arrays DEF Waiting
  <2> QED BY <2>1 DEF BootKept, PreHooks
<1> QED BY <1>1, <1>2, <1>3, <1>4 DEF PowerInv

\* One hook: the one with the least place leaves the array.
LEMMA HookStep ==
    ASSUME PowerTypes, P!Hook
    PROVE  \E h \in LeftOf(todo) :
              /\ \A k \in LeftOf(todo) : Key(h) <= Key(k)
              /\ LeftOf(todo') \subseteq LeftOf(todo)
              /\ LeftOf(todo) \subseteq LeftOf(todo') \cup {h}
              /\ todo' \in Seq(HookType)
              /\ regs' = P!hook_regs(h.fn)
              /\ retention' = IF h.fn = "pmp_save" THEN P!tlk_pmp_save ELSE retention
              /\ pmp' = IF h.fn = "pmp_restore" THEN P!tlk_pmp_restore(pmp, retention) ELSE pmp
              /\ inited' = (inited /\ h.fn # "critical_print_pm_reinit")
              /\ leds' = IF h.fn = "flip_led" THEN [l \in 0 .. 1 |-> ~leds[l]] ELSE leds
              /\ irq_cb' = CASE h.fn = "init_mtimer" -> "sleep" [] h.fn = "task_planner_init" -> "planner"
                             [] OTHER -> irq_cb
<1>1. todo \in Seq(HookType) /\ todo # <<>>
  BY DEF PowerTypes, P!Hook
<1>2. PICK i \in DOMAIN todo : i = P!next_hook(todo) /\ \A k \in LeftOf(todo) : Key(todo[i]) <= Key(k)
  BY <1>1, Picked
<1>3. PICK h : h = todo[i]
  OBVIOUS
<1>4. h \in LeftOf(todo)
  BY <1>2, <1>3 DEF LeftOf
<1>5. todo' = P!RemoveAt(todo, i)
  BY <1>2 DEF P!Hook
<1>6. /\ todo' \in Seq(HookType) /\ LeftOf(todo') \subseteq LeftOf(todo)
      /\ LeftOf(todo) \subseteq LeftOf(todo') \cup {h}
  BY <1>1, <1>2, <1>3, <1>5, Removed
<1>7. /\ regs' = P!hook_regs(h.fn)
      /\ retention' = IF h.fn = "pmp_save" THEN P!tlk_pmp_save ELSE retention
      /\ pmp' = IF h.fn = "pmp_restore" THEN P!tlk_pmp_restore(pmp, retention) ELSE pmp
      /\ inited' = (inited /\ h.fn # "critical_print_pm_reinit")
      /\ leds' = IF h.fn = "flip_led" THEN [l \in 0 .. 1 |-> ~leds[l]] ELSE leds
      /\ irq_cb' = CASE h.fn = "init_mtimer" -> "sleep" [] h.fn = "task_planner_init" -> "planner"
                     [] OTHER -> irq_cb
  BY <1>2, <1>3, Zenon DEF P!Hook
<1> QED BY <1>2, <1>3, <1>4, <1>6, <1>7, Zenon

\* What the hooks store keeps the shape of the registers.
LEMMA RegStores ==
    ASSUME NEW g \in Regs
    PROVE  /\ \A b \in BOOLEAN : [g EXCEPT !.log = b] \in Regs
           /\ [g EXCEPT !.port = TRUE, !.flow = UART_FLOW] \in Regs
           /\ [g EXCEPT !.i2c = [pins |-> TRUE, role |-> I2C_MODE]] \in Regs
           /\ [g EXCEPT !.spi = [pins |-> TRUE, role |-> SPI_ROLE]] \in Regs
           /\ \A r \in RfRegs : [g EXCEPT !.rf = r] \in Regs
           /\ \A l \in [0 .. 1 -> BOOLEAN] : [g EXCEPT !.pins = l] \in Regs
<1>1. \A b \in BOOLEAN : [g EXCEPT !.log = b] \in Regs
  BY DEF Regs
<1>2. [g EXCEPT !.port = TRUE, !.flow = UART_FLOW] \in Regs
  BY DEF Regs
<1>3. [pins |-> TRUE, role |-> I2C_MODE] \in [pins : BOOLEAN, role : {"none", I2C_MODE}]
  OBVIOUS
<1>4. [pins |-> TRUE, role |-> SPI_ROLE] \in [pins : BOOLEAN, role : {"none", SPI_ROLE}]
  OBVIOUS
<1>5. \A b \in [pins : BOOLEAN, role : {"none", I2C_MODE}] : [g EXCEPT !.i2c = b] \in Regs
  BY DEF Regs
<1>6. \A b \in [pins : BOOLEAN, role : {"none", SPI_ROLE}] : [g EXCEPT !.spi = b] \in Regs
  BY DEF Regs
<1>7. \A r \in RfRegs : [g EXCEPT !.rf = r] \in Regs
  BY DEF Regs
<1>8. \A l \in [0 .. 1 -> BOOLEAN] : [g EXCEPT !.pins = l] \in Regs
  BY DEF Regs
<1> QED BY <1>1, <1>2, <1>3, <1>4, <1>5, <1>6, <1>7, <1>8, Zenon

\* A hook of one of the arrays keeps what the others have brought back.
LEMMA HookKeeps ==
    ASSUME PowerInv, P!Hook
    PROVE  PowerInv'
<1>1. PowerTypes /\ Placed /\ RfKept /\ PinsKept /\ PrintKept /\ BootKept
  BY DEF PowerInv
<1>2. PICK h \in LeftOf(todo) :
              /\ \A k \in LeftOf(todo) : Key(h) <= Key(k)
              /\ LeftOf(todo') \subseteq LeftOf(todo)
              /\ LeftOf(todo) \subseteq LeftOf(todo') \cup {h}
              /\ todo' \in Seq(HookType)
              /\ regs' = P!hook_regs(h.fn)
              /\ retention' = IF h.fn = "pmp_save" THEN P!tlk_pmp_save ELSE retention
              /\ pmp' = IF h.fn = "pmp_restore" THEN P!tlk_pmp_restore(pmp, retention) ELSE pmp
              /\ inited' = (inited /\ h.fn # "critical_print_pm_reinit")
              /\ leds' = IF h.fn = "flip_led" THEN [l \in 0 .. 1 |-> ~leds[l]] ELSE leds
              /\ irq_cb' = CASE h.fn = "init_mtimer" -> "sleep" [] h.fn = "task_planner_init" -> "planner"
                             [] OTHER -> irq_cb
  BY <1>1, HookStep, Zenon
<1>3. phase \in {"init", "before", "after"} /\ UNCHANGED <<phase, mode, rf>>
  BY DEF P!Hook
<1>4. \A fn : Waiting(fn)' => Waiting(fn)
  BY <1>2 DEF Waiting
<1>5. \A fn : Waiting(fn) => Waiting(fn)' \/ fn = h.fn
  BY <1>2, Zenon DEF Waiting
<1>6. h.fn \in PreHooks \cup BeforeHooks \cup AfterHooks
  <2>1. \A k \in LeftOf(todo) : k \in HookType
    BY <1>1 DEF PowerTypes, LeftOf
  <2> QED BY <1>2, <2>1 DEF HookType
<1>7. Placed'
  <2>1. phase' \notin {"run", "off"}
    BY <1>3
  <2> QED BY <1>1, <1>2, <1>3, <2>1 DEF Placed
<1> DEFINE fn == h.fn
<1>8. /\ fn = "rf_reinitialize" => regs' = [regs EXCEPT !.rf = P!tlk_rf_reinitialize]
      /\ fn = "init_led" => regs' = [regs EXCEPT !.pins = leds]
      /\ fn = "log_init" => regs' = [regs EXCEPT !.log = regs.port]
      /\ fn = "uart_auto_config" => regs' = P!uart_auto_config
      /\ fn = "i2c_auto_config" => regs' = P!i2c_auto_config
      /\ fn = "spi_auto_config" => regs' = P!spi_auto_config
      /\ fn \notin {"rf_reinitialize", "init_led", "log_init", "uart_auto_config", "i2c_auto_config",
                    "spi_auto_config"} => regs' = regs
  BY <1>2 DEF P!hook_regs
<1>9. PowerTypes'
  <2>1. leds' \in [0 .. 1 -> BOOLEAN] /\ inited' \in BOOLEAN
    BY <1>1, <1>2 DEF PowerTypes
  <2>2. regs' \in Regs
    <3>0. regs \in Regs /\ regs.port \in BOOLEAN
      BY <1>1 DEF PowerTypes, Regs
    <3>1. CASE fn = "rf_reinitialize"
      <4>1. P!tlk_rf_reinitialize \in RfRegs
        BY <1>1 DEF PowerTypes, Regs, RfRegs, P!tlk_rf_reinitialize
      <4> QED BY ONLY <1>8, <3>0, <3>1, <4>1, RegStores
    <3>2. CASE fn = "init_led"
      BY <1>1, <1>8, <3>2 DEF PowerTypes, Regs
    <3>3. CASE fn = "log_init"
      BY ONLY <1>8, <3>3, <3>0, RegStores
    <3>4. CASE fn = "uart_auto_config"
      BY ONLY <1>8, <3>4, <3>0, RegStores DEF P!uart_auto_config
    <3>5. CASE fn = "i2c_auto_config"
      BY ONLY <1>8, <3>5, <3>0, RegStores DEF P!i2c_auto_config
    <3>6. CASE fn = "spi_auto_config"
      BY ONLY <1>8, <3>6, <3>0, RegStores DEF P!spi_auto_config
    <3> QED BY <1>8, <3>0, <3>1, <3>2, <3>3, <3>4, <3>5, <3>6
  <2> QED BY <1>1, <1>2, <1>3, <2>1, <2>2 DEF PowerTypes
<1>10. RfKept'
  <2>1. CASE fn = "rf_reinitialize"
    <3>1. regs'.rf = P!tlk_rf_reinitialize
      BY <1>1, <1>8, <2>1 DEF PowerTypes, Regs
    <3>2. CASE rf.initialized
      <4>1. /\ regs'.rf.config = TRUE /\ regs'.rf.fifo = rf.fifo /\ regs'.rf.fs = rf.fs
            /\ regs'.rf.fs_tx = (rf.fs /\ rf.fs_tx)
        BY <3>1, <3>2 DEF P!tlk_rf_reinitialize
      <4>2. rf.config = TRUE /\ (rf.fs /\ rf.fs_tx) = rf.fs_tx
        BY <1>1, <3>2 DEF RfKept, PowerTypes
      <4> QED BY <1>1, <1>3, <3>2, <4>1, <4>2 DEF RfKept
    <3>3. CASE ~rf.initialized
      <4>1. regs'.rf = regs.rf /\ regs.rf = P!lost_rf
        BY <1>1, <3>1, <3>3 DEF RfKept, P!tlk_rf_reinitialize
      <4>2. rf.config = FALSE /\ rf.fifo = FALSE /\ rf.fs = FALSE /\ rf.fs_tx = FALSE
        BY <1>1, <3>3 DEF RfKept, PowerTypes
      <4>3. P!lost_rf.config = FALSE /\ P!lost_rf.fifo = FALSE /\ P!lost_rf.fs = FALSE /\ P!lost_rf.fs_tx = FALSE
        BY DEF P!lost_rf
      <4> QED BY <1>1, <1>3, <3>3, <4>1, <4>2, <4>3 DEF RfKept
    <3> QED BY <3>2, <3>3
  <2>2. CASE fn # "rf_reinitialize"
    <3>1. regs'.rf = regs.rf
      BY <1>1, <1>8, <2>2 DEF PowerTypes, Regs, P!uart_auto_config, P!i2c_auto_config, P!spi_auto_config
    <3>2. ~Waiting("rf_reinitialize")' => ~Waiting("rf_reinitialize")
      BY <1>5, <2>2
    <3> QED BY <1>1, <1>3, <3>1, <3>2 DEF RfKept
  <2> QED BY <2>1, <2>2
<1>11. PinsKept'
  <2>1. CASE fn = "flip_led"
    <3>1. phase = "before"
      BY <1>1, <1>2, <1>3, <2>1 DEF Placed, PreHooks, AfterHooks
    <3>2. leds'[0] = ~leds[0] /\ leds'[1] = ~leds[1]
      BY <1>2, <2>1
    <3> QED BY <1>1, <1>3, <3>1, <3>2 DEF PinsKept, PowerTypes
  <2>2. CASE fn # "flip_led"
    <3>1. leds' = leds
      BY <1>2, <2>2
    <3>2. fn = "init_led" => regs'.pins = leds
      BY <1>1, <1>8 DEF PowerTypes, Regs
    <3>3. fn # "init_led" => regs'.pins = regs.pins
      BY <1>1, <1>8 DEF PowerTypes, Regs, P!uart_auto_config, P!i2c_auto_config, P!spi_auto_config
    <3>4. fn # "init_led" => (~Waiting("init_led")' => ~Waiting("init_led"))
      BY <1>5
    <3> QED BY <1>1, <1>3, <3>1, <3>2, <3>3, <3>4 DEF PinsKept
  <2> QED BY <2>1, <2>2
<1>12. PrintKept'
  <2>1. regs'.uart = regs.uart /\ regs'.garbled = regs.garbled
    BY <1>1, <1>8 DEF PowerTypes, Regs, P!uart_auto_config, P!i2c_auto_config, P!spi_auto_config
  <2>2. inited' => inited /\ (Waiting("critical_print_pm_reinit") => Waiting("critical_print_pm_reinit")')
    BY <1>2, <1>5
  <2> QED BY <1>1, <1>3, <2>1, <2>2 DEF PrintKept
<1>13. BootKept'
  <2> USE DEF PowerTypes, Regs, P!uart_auto_config, P!i2c_auto_config, P!spi_auto_config
  <2>1. /\ fn # "log_init" => regs'.log = regs.log
        /\ fn = "log_init" => regs'.log = regs.port
    BY <1>1, <1>8
  <2>7. regs'.port = IF fn = "uart_auto_config" THEN TRUE ELSE regs.port
    BY <1>1, <1>8
  <2>10. regs'.i2c = IF fn = "i2c_auto_config" THEN [pins |-> TRUE, role |-> I2C_MODE] ELSE regs.i2c
    BY <1>1, <1>8
  <2>11. regs'.spi = IF fn = "spi_auto_config" THEN [pins |-> TRUE, role |-> SPI_ROLE] ELSE regs.spi
    BY <1>1, <1>8
  <2>8. regs'.i2c.role = IF fn = "i2c_auto_config" THEN I2C_MODE ELSE regs.i2c.role
    BY ONLY <2>10
  <2>9. regs'.spi.role = IF fn = "spi_auto_config" THEN SPI_ROLE ELSE regs.spi.role
    BY ONLY <2>11
  <2> HIDE DEF PowerTypes, Regs, P!uart_auto_config, P!i2c_auto_config, P!spi_auto_config
  <2>2. regs'.log
    <3>1. ASSUME fn = "log_init" PROVE ~Waiting("uart_auto_config")
      <4>1. Key(h) = 82
        BY <1>1, <1>2, <3>1 DEF Placed
      <4>2. ASSUME NEW k \in LeftOf(todo) PROVE k.fn # "uart_auto_config"
        BY <1>1, <1>2, <4>1 DEF Placed
      <4> QED BY <4>2 DEF Waiting
    <3> QED BY <1>1, <2>1, <3>1 DEF BootKept
  <2>3. (phase = "init" /\ Waiting("uart_auto_config")') \/ regs'.port
    BY <1>1, <1>5, <2>7 DEF BootKept
  <2>4. (phase = "init" /\ Waiting("i2c_auto_config")') \/ regs'.i2c.role = I2C_MODE
    BY <1>1, <1>5, <2>8 DEF BootKept
  <2>5. (phase = "init" /\ Waiting("spi_auto_config")') \/ regs'.spi.role = SPI_ROLE
    BY <1>1, <1>5, <2>9 DEF BootKept
  <2>6. (phase = "init" /\ Waiting("task_planner_init")')
          \/ (irq_cb' = "planner" /\ ~Waiting("init_mtimer")')
    <3>1. CASE fn = "task_planner_init"
      <4>1. Key(h) = 85
        BY <1>1, <1>2, <3>1 DEF Placed
      <4>2. ASSUME NEW k \in LeftOf(todo) PROVE k.fn # "init_mtimer"
        BY <1>1, <1>2, <4>1 DEF Placed
      <4>3. ~Waiting("init_mtimer")'
        BY <1>4, <4>2 DEF Waiting
      <4> QED BY <1>2, <3>1, <4>3
    <3>2. CASE fn # "task_planner_init"
      <4>1. fn = "init_mtimer" => Waiting("init_mtimer")
        BY <1>2 DEF Waiting
      <4>2. fn # "init_mtimer" => irq_cb' = irq_cb
        BY <1>2, <3>2
      <4> QED BY <1>1, <1>4, <1>5, <3>2, <4>1, <4>2 DEF BootKept
    <3> QED BY <3>1, <3>2
  <2> QED BY <1>3, <2>2, <2>3, <2>4, <2>5, <2>6 DEF BootKept
<1> QED BY <1>7, <1>9, <1>10, <1>11, <1>12, <1>13 DEF PowerInv

\* The calls of the running program and the moves of the power driver.
LEMMA PowerRunKeeps ==
    ASSUME PowerInv, P!PmpCall \/ P!RfCall \/ P!CriticalPrint
    PROVE  PowerInv'
<1>1. PowerTypes /\ Placed /\ RfKept /\ PinsKept /\ PrintKept /\ BootKept /\ phase = "run"
  BY DEF PowerInv, P!PmpCall, P!RfCall, P!CriticalPrint
<1>2. CASE P!PmpCall
  <2>1. UNCHANGED <<phase, mode, todo, rf, regs, inited, leds, irq_cb>>
    BY <1>2 DEF P!PmpCall
  <2> QED BY <1>1, <2>1 DEF PowerInv, PowerTypes, Placed, RfKept, PinsKept, PrintKept, BootKept, Waiting
<1>3. CASE P!RfCall
  <2>1. PICK f \in {"config", "fifo", "fs", "fs_tx"} :
            /\ f # "config" => rf.initialized
            /\ f = "fs_tx" => rf.fs
            /\ rf' = [rf EXCEPT ![f] = TRUE, !.initialized = TRUE]
            /\ regs' = [regs EXCEPT !.rf[f] = TRUE]
    BY <1>3 DEF P!RfCall
  <2>2. UNCHANGED <<phase, mode, todo, inited, leds, irq_cb>>
    BY <1>3 DEF P!RfCall
  <2>3. regs \in Regs /\ regs.rf \in RfRegs
    BY <1>1 DEF PowerTypes, Regs
  <2>4. PICK r \in RfRegs : r = [regs.rf EXCEPT ![f] = TRUE]
    BY <2>3 DEF RfRegs
  <2>5. regs' = [regs EXCEPT !.rf = r]
    BY <2>1, <2>3, <2>4 DEF Regs
  <2>6. regs' \in Regs
    BY ONLY <2>3, <2>5, RegStores
  <2>7. /\ regs'.rf = r /\ regs'.pins = regs.pins /\ regs'.uart = regs.uart /\ regs'.garbled = regs.garbled
        /\ regs'.log = regs.log /\ regs'.port = regs.port /\ regs'.i2c = regs.i2c /\ regs'.spi = regs.spi
    BY <2>3, <2>5 DEF Regs
  <2>8. rf' \in [initialized : BOOLEAN, config : BOOLEAN, fifo : BOOLEAN, fs : BOOLEAN, fs_tx : BOOLEAN]
    BY <1>1, <2>1 DEF PowerTypes
  <2>9. PowerTypes'
    BY <1>1, <2>2, <2>6, <2>8 DEF PowerTypes
  <2>10. Placed' /\ PinsKept' /\ PrintKept' /\ BootKept'
    BY <1>1, <2>2, <2>7 DEF Placed, PinsKept, PrintKept, BootKept, Waiting
  <2>11. RfKept'
    <3>1. /\ regs.rf.config = rf.config /\ regs.rf.fifo = rf.fifo
          /\ regs.rf.fs = rf.fs /\ regs.rf.fs_tx = rf.fs_tx
      BY <1>1 DEF RfKept
    <3>2. /\ r.config = rf'.config /\ r.fifo = rf'.fifo /\ r.fs = rf'.fs /\ r.fs_tx = rf'.fs_tx
      BY <1>1, <2>1, <2>3, <2>4, <3>1 DEF PowerTypes, RfRegs
    <3>3. rf'.initialized /\ rf'.config /\ (rf'.fs_tx => rf'.fs)
      <4>1. rf'.initialized
        BY <1>1, <2>1 DEF PowerTypes
      <4>2. CASE f = "config"
        BY <1>1, <2>1, <4>2 DEF PowerTypes, RfKept
      <4>3. CASE f = "fifo"
        BY <1>1, <2>1, <4>3 DEF PowerTypes, RfKept
      <4>4. CASE f = "fs"
        BY <1>1, <2>1, <4>4 DEF PowerTypes, RfKept
      <4>5. CASE f = "fs_tx"
        BY <1>1, <2>1, <4>5 DEF PowerTypes, RfKept
      <4> QED BY <2>1, <4>1, <4>2, <4>3, <4>4, <4>5
    <3>4. phase' # "init"
      BY <1>1, <2>2
    <3> QED BY <2>7, <3>2, <3>3, <3>4 DEF RfKept
  <2> QED BY <2>9, <2>10, <2>11 DEF PowerInv
<1>4. CASE P!CriticalPrint
  <2>1. /\ inited' = TRUE
        /\ regs' = IF inited THEN [regs EXCEPT !.garbled = ~regs.uart]
                   ELSE [regs EXCEPT !.uart = TRUE, !.garbled = FALSE]
        /\ UNCHANGED <<phase, mode, todo, rf, leds, irq_cb>>
    BY <1>4 DEF P!CriticalPrint
  <2>2. regs \in Regs
    BY <1>1 DEF PowerTypes
  <2>3. inited => regs.uart
    BY <1>1 DEF PrintKept
  <2>4. regs' \in Regs
    BY <2>1, <2>2 DEF Regs
  <2>5. /\ regs'.rf = regs.rf /\ regs'.pins = regs.pins
        /\ regs'.log = regs.log /\ regs'.port = regs.port /\ regs'.i2c = regs.i2c /\ regs'.spi = regs.spi
    BY <2>1, <2>2 DEF Regs
  <2>6. regs'.uart /\ ~regs'.garbled
    BY <2>1, <2>2, <2>3 DEF Regs
  <2>7. PowerTypes'
    BY <1>1, <2>1, <2>4 DEF PowerTypes
  <2>8. Placed' /\ RfKept' /\ PinsKept' /\ BootKept'
    BY <1>1, <2>1, <2>5 DEF Placed, RfKept, PinsKept, BootKept, Waiting
  <2>9. PrintKept'
    BY <2>6 DEF PrintKept
  <2> QED BY <2>7, <2>8, <2>9 DEF PowerInv
<1> QED BY <1>2, <1>3, <1>4

LEMMA PowerDriverKeeps ==
    ASSUME PowerInv, P!Start \/ P!Sleep \/ P!PowerDown \/ P!Wake \/ P!Awake
    PROVE  PowerInv'
<1>1. PowerTypes /\ Placed /\ RfKept /\ PinsKept /\ PrintKept /\ BootKept /\ regs \in Regs
  BY DEF PowerInv, PowerTypes
<1>2. ASSUME todo = <<>> PROVE \A fn : ~Waiting(fn)
  BY <1>2 DEF Waiting, LeftOf
<1>3. CASE P!Start
  <2>1. /\ phase = "init" /\ todo = <<>> /\ phase' = "run"
        /\ leds' = [l \in 0 .. 1 |-> l = 0]
        /\ regs' = [regs EXCEPT !.pins = leds']
        /\ UNCHANGED <<mode, todo, rf, inited, irq_cb>>
    BY <1>3 DEF P!Start
  <2>2. leds' \in [0 .. 1 -> BOOLEAN] /\ leds'[0] = TRUE /\ leds'[1] = FALSE
    <3>1. leds' \in [0 .. 1 -> BOOLEAN]
      BY <2>1, Zenon
    <3>2. leds'[0] = (0 = 0) /\ leds'[1] = (1 = 0)
      BY ONLY <2>1
    <3>3. (0 = 0) = TRUE /\ (1 = 0) = FALSE
      OBVIOUS
    <3> QED BY <3>1, <3>2, <3>3, Zenon
  <2>3. regs' \in Regs
    BY ONLY <1>1, <2>1, <2>2, RegStores
  <2>4. /\ regs'.rf = regs.rf /\ regs'.pins = leds' /\ regs'.uart = regs.uart /\ regs'.garbled = regs.garbled
        /\ regs'.log = regs.log /\ regs'.port = regs.port /\ regs'.i2c = regs.i2c /\ regs'.spi = regs.spi
    BY <1>1, <2>1 DEF Regs
  <2>5. (\A fn : ~Waiting(fn)) /\ LeftOf(todo) = {}
    BY <1>2, <2>1 DEF LeftOf
  <2>6. PowerTypes'
    BY <1>1, <2>1, <2>2, <2>3 DEF PowerTypes
  <2>7. Placed' /\ PrintKept' /\ BootKept'
    BY <1>1, <2>1, <2>4, <2>5 DEF Placed, PrintKept, BootKept, Waiting
  <2>8. PinsKept'
    BY <2>2, <2>4 DEF PinsKept
  <2>9. RfKept'
    <3>1. /\ rf.initialized = FALSE /\ rf.config = FALSE /\ rf.fifo = FALSE /\ rf.fs = FALSE /\ rf.fs_tx = FALSE
          /\ regs.rf = P!lost_rf
      BY <1>1, <2>1 DEF RfKept, PowerTypes
    <3>2. P!lost_rf.config = FALSE /\ P!lost_rf.fifo = FALSE /\ P!lost_rf.fs = FALSE /\ P!lost_rf.fs_tx = FALSE
      BY DEF P!lost_rf
    <3> QED BY <2>1, <2>4, <3>1, <3>2 DEF RfKept
  <2> QED BY <2>6, <2>7, <2>8, <2>9 DEF PowerInv
<1>4. CASE P!Sleep
  <2>1. UNCHANGED <<rf, regs, inited, leds, irq_cb>> /\ phase = "run"
    BY <1>4 DEF P!Sleep
  <2>2. CASE UNCHANGED <<phase, mode, todo>>
    BY <1>1, <2>1, <2>2 DEF PowerInv, PowerTypes, Placed, RfKept, PinsKept, PrintKept, BootKept, Waiting
  <2>3. CASE ~UNCHANGED <<phase, mode, todo>>
    <3>1. phase' = "before" /\ mode' \in {"suspend", "sleep"} /\ todo' = P!before_sleep
      BY <1>4, <2>3 DEF P!Sleep
    <3>2. ASSUME NEW h \in LeftOf(todo)' PROVE h.fn \in BeforeHooks
      BY <3>1, Arrays
    <3>3. PowerTypes'
      BY <1>1, <2>1, <3>1, Arrays DEF PowerTypes
    <3>4. Placed'
      BY <3>1, <3>2 DEF Placed, BeforeHooks
    <3>5. ~Waiting("init_mtimer")'
      BY <3>2 DEF Waiting, BeforeHooks
    <3>6. RfKept' /\ PinsKept' /\ PrintKept' /\ BootKept'
      BY <1>1, <2>1, <3>1, <3>5 DEF RfKept, PinsKept, PrintKept, BootKept
    <3> QED BY <3>3, <3>4, <3>6 DEF PowerInv
  <2> QED BY <2>2, <2>3
<1>5. CASE P!PowerDown
  <2>1. /\ phase = "before" /\ todo = <<>> /\ phase' = "off"
        /\ \/ regs' = [regs EXCEPT !.rf = P!lost_rf, !.pins = IF mode = "sleep" THEN <<>> ELSE @,
                              !.uart = @ /\ mode # "sleep"]
           \/ regs' = regs
        /\ UNCHANGED <<mode, todo, rf, inited, leds, irq_cb>>
    BY <1>5 DEF P!PowerDown
  <2>2. P!lost_rf \in RfRegs
    BY DEF P!lost_rf, RfRegs
  <2>3. regs' \in Regs
    BY <1>1, <2>1, <2>2 DEF Regs
  <2>4. /\ regs'.rf \in {regs.rf, P!lost_rf} /\ regs'.garbled = regs.garbled
        /\ regs'.log = regs.log /\ regs'.port = regs.port /\ regs'.i2c = regs.i2c /\ regs'.spi = regs.spi
        /\ mode # "sleep" => regs'.uart = regs.uart
    BY <1>1, <2>1 DEF Regs
  <2>5. (\A fn : ~Waiting(fn)) /\ LeftOf(todo) = {}
    BY <1>2, <2>1 DEF LeftOf
  <2>6. PowerTypes'
    BY <1>1, <2>1, <2>3 DEF PowerTypes
  <2>7. Placed' /\ BootKept'
    BY <1>1, <2>1, <2>4, <2>5 DEF Placed, BootKept, Waiting
  <2>8. PrintKept'
    BY <1>1, <2>1, <2>4 DEF PrintKept
  <2>9. RfKept' /\ PinsKept'
    BY <1>1, <2>1, <2>4 DEF RfKept, PinsKept
  <2> QED BY <2>6, <2>7, <2>8, <2>9 DEF PowerInv
<1>6. CASE P!Wake
  <2>1. /\ phase = "off" /\ phase' = "after"
        /\ todo' = IF mode = "sleep" THEN P!after_sleep ELSE P!after_suspend
        /\ UNCHANGED <<mode, rf, regs, inited, leds, irq_cb>>
    BY <1>6 DEF P!Wake
  <2>2. \A h \in LeftOf(todo)' : h.fn \in AfterHooks
    BY <2>1, Arrays
  <2>3. /\ Waiting("init_led")' /\ Waiting("rf_reinitialize")'
        /\ mode = "sleep" => Waiting("critical_print_pm_reinit")'
        /\ ~Waiting("init_mtimer")'
    BY <2>1, <2>2, Arrays DEF Waiting, AfterHooks
  <2>4. PowerTypes'
    BY <1>1, <2>1, Arrays DEF PowerTypes
  <2>5. Placed'
    BY <2>1, <2>2 DEF Placed, AfterHooks
  <2>6. RfKept' /\ PinsKept' /\ PrintKept' /\ BootKept'
    BY <1>1, <2>1, <2>3 DEF RfKept, PinsKept, PrintKept, BootKept
  <2> QED BY <2>4, <2>5, <2>6 DEF PowerInv
<1>7. CASE P!Awake
  <2>1. phase = "after" /\ todo = <<>> /\ phase' = "run" /\ UNCHANGED <<mode, todo, rf, regs, inited, leds, irq_cb>>
    BY <1>7 DEF P!Awake
  <2>2. (\A fn : ~Waiting(fn)) /\ LeftOf(todo) = {}
    BY <1>2, <2>1 DEF LeftOf
  <2> QED BY <1>1, <2>1, <2>2 DEF PowerInv, PowerTypes, Placed, RfKept, PinsKept, PrintKept, BootKept, Waiting
<1> QED BY <1>3, <1>4, <1>5, <1>6, <1>7

LEMMA PowerInvStep == PowerInv /\ [Next]_vars => PowerInv'
<1> SUFFICES ASSUME PowerInv, [Next]_vars PROVE PowerInv'
  OBVIOUS
<1>1. CASE P!Next
  BY <1>1, HookKeeps, PowerRunKeeps, PowerDriverKeeps DEF P!Next
<1>2. CASE UNCHANGED power_vars
  <2>1. UNCHANGED <<phase, mode, todo, rf, regs, inited, leds, irq_cb>>
    BY <1>2 DEF power_vars
  <2> QED BY <2>1 DEF PowerInv, PowerTypes, Placed, RfKept, PinsKept, PrintKept, BootKept, Waiting
<1> QED BY <1>1, <1>2, PowerMoves

(***************************************************************************)
(* After any sleep, whatever the order in which the hooks were linked into *)
(* their arrays' levels, the radio, the LEDs and the critical print are as *)
(* the program left them, and the start-up order gives the log its port    *)
(* and the task planner the machine timer.                                 *)
(***************************************************************************)
THEOREM HooksRestore == Spec => []Restored
<1>1. Init => PowerInv
  BY PowerStarts
<1>2. PowerInv /\ [Next]_vars => PowerInv'
  BY PowerInvStep
<1>3. PowerInv => Restored
  <2> SUFFICES ASSUME PowerInv PROVE P!Restored /\ P!BootOrder
    BY DEF Restored
  <2>1. PowerTypes /\ RfKept /\ PinsKept /\ PrintKept /\ BootKept
    BY DEF PowerInv
  <2>2. P!Restored
    <3> SUFFICES ASSUME phase = "run" PROVE
            /\ \A f \in DOMAIN regs.rf : regs.rf[f] = rf[f]
            /\ regs.pins = leds /\ leds[0] = ~leds[1]
            /\ ~regs.garbled
      BY DEF P!Restored
    <3>1. DOMAIN regs.rf = {"config", "fifo", "fs", "fs_tx"}
      BY <2>1 DEF PowerTypes, Regs, RfRegs
    <3> QED BY <2>1, <3>1 DEF RfKept, PinsKept, PrintKept
  <2>3. P!BootOrder
    BY <2>1 DEF BootKept, P!BootOrder
  <2> QED BY <2>2, <2>3
<1> QED BY <1>1, <1>2, <1>3, PTL DEF Spec

-----------------------------------------------------------------------------
(* Power: the PMP unit and its copy. *)

PmpType == [cfg : [0 .. 1 -> 0 .. 63], addr : [0 .. 3 -> Nat]]

LEMMA Four == P!Entries = 0 .. 3 /\ \A e \in P!Entries : e = 0 \/ e = 1 \/ e = 2 \/ e = 3
BY DEF P!Entries

LEMMA Powers8 == 8^0 = 1 /\ 8^1 = 8
OBVIOUS

\* The bytes of a configuration register.
LEMMA ByteOf ==
    ASSUME NEW v \in 0 .. 63
    PROVE  /\ P!byte_of(v, 0) = v % 8 /\ P!byte_of(v, 1) = v \div 8
           /\ v % 8 \in 0 .. 7 /\ v \div 8 \in 0 .. 7 /\ (v % 8) + 8 * (v \div 8) = v
<1>1. v \div 1 = v /\ (v \div 8) % 8 = v \div 8
  OBVIOUS
<1> QED BY <1>1, Powers8 DEF P!byte_of, P!Byte

LEMMA ConfigOf ==
    ASSUME NEW p \in PmpType
    PROVE  /\ P!config_of(p, 0) = p.cfg[0] % 8 /\ P!config_of(p, 1) = p.cfg[0] \div 8
           /\ P!config_of(p, 2) = p.cfg[1] % 8 /\ P!config_of(p, 3) = p.cfg[1] \div 8
           /\ \A e \in P!Entries : P!config_of(p, e) \in 0 .. 7 /\ P!scheme_of(p, e) \in 0 .. 3
<1>1. p.cfg[0] \in 0 .. 63 /\ p.cfg[1] \in 0 .. 63
  BY DEF PmpType
<1>2. /\ 0 \div 2 = 0 /\ 1 \div 2 = 0 /\ 2 \div 2 = 1 /\ 3 \div 2 = 1
      /\ 0 % 2 = 0 /\ 1 % 2 = 1 /\ 2 % 2 = 0 /\ 3 % 2 = 1
  OBVIOUS
<1>3. /\ P!config_of(p, 0) = p.cfg[0] % 8 /\ P!config_of(p, 1) = p.cfg[0] \div 8
      /\ P!config_of(p, 2) = p.cfg[1] % 8 /\ P!config_of(p, 3) = p.cfg[1] \div 8
  BY <1>1, <1>2, ByteOf DEF P!config_of, P!Lanes
<1>4. \A e \in P!Entries : P!config_of(p, e) \in 0 .. 7
  BY <1>1, <1>3, ByteOf, Four
<1>5. \A e \in P!Entries : P!scheme_of(p, e) \in 0 .. 3
  BY <1>4 DEF P!scheme_of, P!LOCK
<1> QED BY <1>3, <1>4, <1>5

\* A store to a configuration register leaves the bytes of the locked entries.
LowStored(p, v, q) ==
    /\ q \in PmpType /\ q.addr = p.addr /\ q.cfg[1] = p.cfg[1]
    /\ P!config_of(q, 0) = IF P!locked(p, 0) THEN P!config_of(p, 0) ELSE v % 8
    /\ P!config_of(q, 1) = IF P!locked(p, 1) THEN P!config_of(p, 1) ELSE v \div 8
    /\ P!config_of(q, 2) = P!config_of(p, 2) /\ P!config_of(q, 3) = P!config_of(p, 3)

HighStored(p, v, q) ==
    /\ q \in PmpType /\ q.addr = p.addr /\ q.cfg[0] = p.cfg[0]
    /\ P!config_of(q, 2) = IF P!locked(p, 2) THEN P!config_of(p, 2) ELSE v % 8
    /\ P!config_of(q, 3) = IF P!locked(p, 3) THEN P!config_of(p, 3) ELSE v \div 8
    /\ P!config_of(q, 0) = P!config_of(p, 0) /\ P!config_of(q, 1) = P!config_of(p, 1)

LEMMA WriteCfg ==
    ASSUME NEW p \in PmpType, NEW v \in 0 .. 63
    PROVE  LowStored(p, v, P!write_cfg(p, 0, v)) /\ HighStored(p, v, P!write_cfg(p, 1, v))
<1>1. /\ p.cfg \in [0 .. 1 -> 0 .. 63] /\ p.cfg[0] \in 0 .. 63 /\ p.cfg[1] \in 0 .. 63
      /\ 0 * 2 + 0 = 0 /\ 0 * 2 + 1 = 1 /\ 1 * 2 + 0 = 2 /\ 1 * 2 + 1 = 3
  BY DEF PmpType
<1>2. PICK a0 \in 0 .. 7 : a0 = IF P!locked(p, 0) THEN P!config_of(p, 0) ELSE v % 8
  BY ConfigOf, ByteOf, Four
<1>3. PICK a1 \in 0 .. 7 : a1 = IF P!locked(p, 1) THEN P!config_of(p, 1) ELSE v \div 8
  BY ConfigOf, ByteOf, Four
<1>4. PICK a2 \in 0 .. 7 : a2 = IF P!locked(p, 2) THEN P!config_of(p, 2) ELSE v % 8
  BY ConfigOf, ByteOf, Four
<1>5. PICK a3 \in 0 .. 7 : a3 = IF P!locked(p, 3) THEN P!config_of(p, 3) ELSE v \div 8
  BY ConfigOf, ByteOf, Four
<1>6. /\ P!byte_of(p.cfg[0], 0) = P!config_of(p, 0) /\ P!byte_of(p.cfg[0], 1) = P!config_of(p, 1)
      /\ P!byte_of(p.cfg[1], 0) = P!config_of(p, 2) /\ P!byte_of(p.cfg[1], 1) = P!config_of(p, 3)
      /\ P!byte_of(v, 0) = v % 8 /\ P!byte_of(v, 1) = v \div 8
  BY <1>1, ByteOf, ConfigOf
<1>7. P!write_cfg(p, 0, v) = [p EXCEPT !.cfg[0] = a0 + 8 * a1]
  BY <1>1, <1>2, <1>3, <1>6 DEF P!write_cfg, P!Lanes, P!Byte
<1>8. P!write_cfg(p, 1, v) = [p EXCEPT !.cfg[1] = a2 + 8 * a3]
  BY <1>1, <1>4, <1>5, <1>6 DEF P!write_cfg, P!Lanes, P!Byte
<1>9. \A x, y \in 0 .. 7 : x + 8 * y \in 0 .. 63 /\ (x + 8 * y) % 8 = x /\ (x + 8 * y) \div 8 = y
  OBVIOUS
<1>10. ASSUME NEW q, q = P!write_cfg(p, 0, v)
       PROVE  /\ q \in PmpType /\ q.addr = p.addr /\ q.cfg[1] = p.cfg[1]
              /\ P!config_of(q, 0) = a0 /\ P!config_of(q, 1) = a1
              /\ P!config_of(q, 2) = P!config_of(p, 2) /\ P!config_of(q, 3) = P!config_of(p, 3)
  <2>1. q \in PmpType /\ q.addr = p.addr /\ q.cfg[1] = p.cfg[1] /\ q.cfg[0] = a0 + 8 * a1
    BY <1>7, <1>9, <1>10 DEF PmpType
  <2> QED BY <1>9, <2>1, ConfigOf
<1>11. ASSUME NEW q, q = P!write_cfg(p, 1, v)
       PROVE  /\ q \in PmpType /\ q.addr = p.addr /\ q.cfg[0] = p.cfg[0]
              /\ P!config_of(q, 2) = a2 /\ P!config_of(q, 3) = a3
              /\ P!config_of(q, 0) = P!config_of(p, 0) /\ P!config_of(q, 1) = P!config_of(p, 1)
  <2>1. q \in PmpType /\ q.addr = p.addr /\ q.cfg[0] = p.cfg[0] /\ q.cfg[1] = a2 + 8 * a3
    BY <1>8, <1>9, <1>11 DEF PmpType
  <2> QED BY <1>9, <2>1, ConfigOf
<1>12. \A q : q = P!write_cfg(p, 0, v) => LowStored(p, v, q)
  BY <1>2, <1>3, <1>10, Zenon DEF LowStored
<1>13. \A q : q = P!write_cfg(p, 1, v) => HighStored(p, v, q)
  BY <1>4, <1>5, <1>11, Zenon DEF HighStored
<1> QED BY <1>12, <1>13, Zenon

\* tlk_pmp_write_config changes one byte.
ByteStored(p, e, b, q) ==
    /\ q \in PmpType /\ q.addr = p.addr
    /\ \A k \in P!Entries :
          P!config_of(q, k) = IF k = e /\ ~P!locked(p, e) THEN b ELSE P!config_of(p, k)

LEMMA WriteConfig ==
    ASSUME NEW p \in PmpType, NEW e \in P!Entries, NEW b \in 0 .. 7, NEW q,
           q = P!tlk_pmp_write_config(p, e, b)
    PROVE  ByteStored(p, e, b, q)
<1> USE DEF ByteStored
<1>1. /\ p.cfg[0] \in 0 .. 63 /\ p.cfg[1] \in 0 .. 63
      /\ 0 \div 2 = 0 /\ 1 \div 2 = 0 /\ 2 \div 2 = 1 /\ 3 \div 2 = 1
      /\ 0 % 2 = 0 /\ 1 % 2 = 1 /\ 2 % 2 = 0 /\ 3 % 2 = 1
  BY DEF PmpType
<1>2. \A v \in 0 .. 63 : /\ v + (b - (v % 8)) * 1 \in 0 .. 63
                         /\ (v + (b - (v % 8)) * 1) % 8 = b /\ (v + (b - (v % 8)) * 1) \div 8 = v \div 8
                         /\ v + (b - (v \div 8)) * 8 \in 0 .. 63
                         /\ (v + (b - (v \div 8)) * 8) % 8 = v % 8 /\ (v + (b - (v \div 8)) * 8) \div 8 = b
  OBVIOUS
<1>3. CASE e = 0
  <2>1. PICK v \in 0 .. 63 : v = p.cfg[0] + (b - (p.cfg[0] % 8)) * 1 /\ v % 8 = b /\ v \div 8 = p.cfg[0] \div 8
    BY <1>1, <1>2
  <2>2. q = P!write_cfg(p, 0, v)
    BY <1>1, <1>3, <2>1, ConfigOf, Powers8 DEF P!tlk_pmp_write_config, P!Lanes, P!Byte
  <2>5. LowStored(p, v, q)
    BY <2>2, WriteCfg
  <2>3. q \in PmpType /\ q.addr = p.addr
    BY <2>5 DEF LowStored
  <2>4. /\ P!config_of(q, 0) = IF P!locked(p, 0) THEN P!config_of(p, 0) ELSE b
        /\ P!config_of(q, 1) = P!config_of(p, 1)
        /\ P!config_of(q, 2) = P!config_of(p, 2) /\ P!config_of(q, 3) = P!config_of(p, 3)
    <3>1. /\ P!config_of(q, 0) = IF P!locked(p, 0) THEN P!config_of(p, 0) ELSE v % 8
          /\ P!config_of(q, 1) = IF P!locked(p, 1) THEN P!config_of(p, 1) ELSE v \div 8
          /\ P!config_of(q, 2) = P!config_of(p, 2) /\ P!config_of(q, 3) = P!config_of(p, 3)
      BY <2>5, Zenon DEF LowStored
    <3>2. P!config_of(p, 0) = p.cfg[0] % 8 /\ P!config_of(p, 1) = p.cfg[0] \div 8
      BY ConfigOf
    <3> QED BY ONLY <2>1, <3>1, <3>2
  <2> QED BY <1>3, <2>3, <2>4, Four
<1>4. CASE e = 1
  <2>1. PICK v \in 0 .. 63 : v = p.cfg[0] + (b - (p.cfg[0] \div 8)) * 8 /\ v % 8 = p.cfg[0] % 8 /\ v \div 8 = b
    BY <1>1, <1>2
  <2>2. q = P!write_cfg(p, 0, v)
    BY <1>1, <1>4, <2>1, ConfigOf, Powers8 DEF P!tlk_pmp_write_config, P!Lanes, P!Byte
  <2>5. LowStored(p, v, q)
    BY <2>2, WriteCfg
  <2>3. q \in PmpType /\ q.addr = p.addr
    BY <2>5 DEF LowStored
  <2>4. /\ P!config_of(q, 1) = IF P!locked(p, 1) THEN P!config_of(p, 1) ELSE b
        /\ P!config_of(q, 0) = P!config_of(p, 0)
        /\ P!config_of(q, 2) = P!config_of(p, 2) /\ P!config_of(q, 3) = P!config_of(p, 3)
    <3>1. /\ P!config_of(q, 0) = IF P!locked(p, 0) THEN P!config_of(p, 0) ELSE v % 8
          /\ P!config_of(q, 1) = IF P!locked(p, 1) THEN P!config_of(p, 1) ELSE v \div 8
          /\ P!config_of(q, 2) = P!config_of(p, 2) /\ P!config_of(q, 3) = P!config_of(p, 3)
      BY <2>5, Zenon DEF LowStored
    <3>2. P!config_of(p, 0) = p.cfg[0] % 8 /\ P!config_of(p, 1) = p.cfg[0] \div 8
      BY ConfigOf
    <3> QED BY ONLY <2>1, <3>1, <3>2
  <2> QED BY <1>4, <2>3, <2>4, Four
<1>5. CASE e = 2
  <2>1. PICK v \in 0 .. 63 : v = p.cfg[1] + (b - (p.cfg[1] % 8)) * 1 /\ v % 8 = b /\ v \div 8 = p.cfg[1] \div 8
    BY <1>1, <1>2
  <2>2. q = P!write_cfg(p, 1, v)
    BY <1>1, <1>5, <2>1, ConfigOf, Powers8 DEF P!tlk_pmp_write_config, P!Lanes, P!Byte
  <2>5. HighStored(p, v, q)
    BY <2>2, WriteCfg
  <2>3. q \in PmpType /\ q.addr = p.addr
    BY <2>5 DEF HighStored
  <2>4. /\ P!config_of(q, 2) = IF P!locked(p, 2) THEN P!config_of(p, 2) ELSE b
        /\ P!config_of(q, 3) = P!config_of(p, 3)
        /\ P!config_of(q, 0) = P!config_of(p, 0) /\ P!config_of(q, 1) = P!config_of(p, 1)
    <3>1. /\ P!config_of(q, 2) = IF P!locked(p, 2) THEN P!config_of(p, 2) ELSE v % 8
          /\ P!config_of(q, 3) = IF P!locked(p, 3) THEN P!config_of(p, 3) ELSE v \div 8
          /\ P!config_of(q, 0) = P!config_of(p, 0) /\ P!config_of(q, 1) = P!config_of(p, 1)
      BY <2>5, Zenon DEF HighStored
    <3>2. P!config_of(p, 2) = p.cfg[1] % 8 /\ P!config_of(p, 3) = p.cfg[1] \div 8
      BY ConfigOf
    <3> QED BY ONLY <2>1, <3>1, <3>2
  <2> QED BY <1>5, <2>3, <2>4, Four
<1>6. CASE e = 3
  <2>1. PICK v \in 0 .. 63 : v = p.cfg[1] + (b - (p.cfg[1] \div 8)) * 8 /\ v % 8 = p.cfg[1] % 8 /\ v \div 8 = b
    BY <1>1, <1>2
  <2>2. q = P!write_cfg(p, 1, v)
    BY <1>1, <1>6, <2>1, ConfigOf, Powers8 DEF P!tlk_pmp_write_config, P!Lanes, P!Byte
  <2>5. HighStored(p, v, q)
    BY <2>2, WriteCfg
  <2>3. q \in PmpType /\ q.addr = p.addr
    BY <2>5 DEF HighStored
  <2>4. /\ P!config_of(q, 3) = IF P!locked(p, 3) THEN P!config_of(p, 3) ELSE b
        /\ P!config_of(q, 2) = P!config_of(p, 2)
        /\ P!config_of(q, 0) = P!config_of(p, 0) /\ P!config_of(q, 1) = P!config_of(p, 1)
    <3>1. /\ P!config_of(q, 2) = IF P!locked(p, 2) THEN P!config_of(p, 2) ELSE v % 8
          /\ P!config_of(q, 3) = IF P!locked(p, 3) THEN P!config_of(p, 3) ELSE v \div 8
          /\ P!config_of(q, 0) = P!config_of(p, 0) /\ P!config_of(q, 1) = P!config_of(p, 1)
      BY <2>5, Zenon DEF HighStored
    <3>2. P!config_of(p, 2) = p.cfg[1] % 8 /\ P!config_of(p, 3) = p.cfg[1] \div 8
      BY ConfigOf
    <3> QED BY ONLY <2>1, <3>1, <3>2
  <2> QED BY <1>6, <2>3, <2>4, Four
<1> QED BY <1>3, <1>4, <1>5, <1>6, Four

\* What the last call that its lock let through asked of each entry.
Asked(p) == \A e \in P!Entries : P!scheme_of(p, e) = given[e].kind /\ p.addr[e] = P!raw(given[e])

NoRequest == [kind |-> 0, lo |-> 0, hi |-> 0]

LEMMA RawOf ==
    ASSUME NEW r \in P!Requests \cup {NoRequest}
    PROVE  /\ P!raw(r) \in Nat /\ r.kind \in {0, 1, 3}
           /\ r.kind # 3 => P!raw(r) = r.hi
           /\ r.kind = 3 => (r.lo = 2 /\ r.hi = 4 /\ P!raw(r) = 2) \/ (r.lo = 4 /\ r.hi = 8 /\ P!raw(r) = 5)
<1> USE DEF P!raw, P!NAPOT, P!OFF, P!TOR
<1>1. CASE r = [kind |-> 1, lo |-> 0, hi |-> 4]
  BY <1>1
<1>2. CASE r = [kind |-> 0, lo |-> 2, hi |-> 2]
  BY <1>2
<1>3. CASE r = NoRequest
  BY <1>3 DEF NoRequest
<1>4. CASE r = [kind |-> 3, lo |-> 2, hi |-> 4]
  <2>1. P!NAPOT_ADDR(8, 8) = 2
    BY DEF P!NAPOT_ADDR
  <2>2. 4 * 2 = 8 /\ 4 * (4 - 2) = 8 /\ r.kind = 3 /\ r.lo = 2 /\ r.hi = 4
    BY <1>4
  <2> QED BY <2>1, <2>2
<1>5. CASE r = [kind |-> 3, lo |-> 4, hi |-> 8]
  <2>1. P!NAPOT_ADDR(16, 16) = 5
    BY DEF P!NAPOT_ADDR
  <2>2. 4 * 4 = 16 /\ 4 * (8 - 4) = 16 /\ r.kind = 3 /\ r.lo = 4 /\ r.hi = 8
    BY <1>5
  <2> QED BY <2>1, <2>2
<1> QED BY <1>1, <1>2, <1>3, <1>4, <1>5 DEF P!Requests

\* The trailing ones of the two NAPOT addresses.
LEMMA OnesOf == P!ones(2) = 0 /\ P!ones(5) = 1
<1>1. 2^0 = 1 /\ 2^1 = 2
  OBVIOUS
<1>2. P!ones(2) = 0
  <2> DEFINE Good(n) == (2 \div 2^n) % 2 = 0 /\ \A k \in 0 .. n - 1 : (2 \div 2^k) % 2 = 1
  <2>1. Good(0)
    BY <1>1
  <2>2. ASSUME NEW n \in 0 .. 8, n # 0 PROVE ~Good(n)
    <3>1. 0 \in 0 .. n - 1 /\ (2 \div 2^0) % 2 # 1
      BY <1>1, <2>2
    <3> QED BY <3>1
  <2>3. P!ones(2) = CHOOSE n \in 0 .. 8 : Good(n)
    BY DEF P!ones
  <2> HIDE DEF Good
  <2> QED BY <2>1, <2>2, <2>3
<1>3. P!ones(5) = 1
  <2> DEFINE Good(n) == (5 \div 2^n) % 2 = 0 /\ \A k \in 0 .. n - 1 : (5 \div 2^k) % 2 = 1
  <2>1. Good(1)
    <3>1. (5 \div 2^1) % 2 = 0 /\ (5 \div 2^0) % 2 = 1
      BY <1>1
    <3>2. \A k \in 0 .. 1 - 1 : k = 0
      OBVIOUS
    <3> QED BY <3>1, <3>2
  <2>2. ASSUME NEW n \in 0 .. 8, n # 1 PROVE ~Good(n)
    <3>1. CASE n = 0
      BY <1>1, <3>1
    <3>2. CASE n # 0
      <4>1. 1 \in 0 .. n - 1 /\ (5 \div 2^1) % 2 # 1
        BY <1>1, <2>2, <3>2
      <4> QED BY <4>1
    <3> QED BY <3>1, <3>2
  <2>3. P!ones(5) = CHOOSE n \in 0 .. 8 : Good(n)
    BY DEF P!ones
  <2> HIDE DEF Good
  <2> QED BY <2>1, <2>2, <2>3
<1> QED BY <1>2, <1>3

\* Entries that hold what was asked protect what was asked.
LEMMA AskedProtects ==
    ASSUME given \in [P!Entries -> P!Requests \cup {NoRequest}], pmp \in PmpType, Asked(pmp)
    PROVE  P!Protected
<1> SUFFICES ASSUME NEW e \in P!Entries
             PROVE  P!region(pmp, e) =
                      LET q == given[e]
                          low == IF e = 0 THEN 0 ELSE P!raw(given[e - 1])
                      IN  CASE q.kind = P!TOR -> {w \in P!Words : low <= w /\ w < q.hi}
                            [] q.kind = P!NAPOT -> q.lo .. q.hi - 1
                            [] OTHER -> {}
  BY DEF P!Protected
<1>1. PICK r \in P!Requests \cup {NoRequest} : r = given[e]
  OBVIOUS
<1>2. P!scheme_of(pmp, e) = r.kind /\ pmp.addr[e] = P!raw(r)
  BY <1>1 DEF Asked
<1>3. (IF e = 0 THEN 0 ELSE pmp.addr[e - 1]) = (IF e = 0 THEN 0 ELSE P!raw(given[e - 1]))
  <2>1. e # 0 => e - 1 \in P!Entries
    BY Four
  <2> QED BY <2>1 DEF Asked
<1>4. CASE r.kind = 1
  <2>1. pmp.addr[e] = r.hi
    BY <1>2, <1>4, RawOf
  <2> QED BY <1>1, <1>2, <1>3, <1>4, <2>1 DEF P!region, P!TOR, P!NAPOT
<1>5. CASE r.kind = 3
  <2>1. P!region(pmp, e) = LET span == 2^(P!ones(pmp.addr[e]) + 1)
                           IN  {w \in P!Words : w \div span = pmp.addr[e] \div span}
    BY <1>2, <1>5 DEF P!region, P!TOR, P!NAPOT
  <2>2. CASE r.lo = 2 /\ r.hi = 4 /\ P!raw(r) = 2
    <3>1. 2^(P!ones(pmp.addr[e]) + 1) = 2
      <4>1. P!ones(pmp.addr[e]) + 1 = 1 /\ 2^1 = 2
        BY <1>2, <2>2, OnesOf
      <4> QED BY ONLY <4>1
    <3>2. P!region(pmp, e) = {w \in P!Words : w \div 2 = 2 \div 2}
      BY <1>2, <2>1, <2>2, <3>1
    <3>3. {w \in P!Words : w \div 2 = 2 \div 2} = 2 .. 4 - 1
      BY DEF P!Words
    <3> QED BY <1>1, <1>5, <2>2, <3>2, <3>3 DEF P!TOR, P!NAPOT
  <2>3. CASE r.lo = 4 /\ r.hi = 8 /\ P!raw(r) = 5
    <3>1. 2^(P!ones(pmp.addr[e]) + 1) = 4
      <4>1. P!ones(pmp.addr[e]) + 1 = 2 /\ 2^2 = 4
        BY <1>2, <2>3, OnesOf
      <4> QED BY ONLY <4>1
    <3>2. P!region(pmp, e) = {w \in P!Words : w \div 4 = 5 \div 4}
      BY <1>2, <2>1, <2>3, <3>1
    <3>3. {w \in P!Words : w \div 4 = 5 \div 4} = 4 .. 8 - 1
      BY DEF P!Words
    <3> QED BY <1>1, <1>5, <2>3, <3>2, <3>3 DEF P!TOR, P!NAPOT
  <2> QED BY <1>5, <2>2, <2>3, RawOf
<1>6. CASE r.kind = 0
  BY <1>1, <1>2, <1>6 DEF P!region, P!TOR, P!NAPOT
<1> QED BY <1>4, <1>5, <1>6, RawOf

\* tlk_pmp_restore over registers that were lost, or over registers that were kept.
LEMMA NoPmp == /\ P!no_pmp \in PmpType
               /\ \A e \in P!Entries : P!config_of(P!no_pmp, e) = 0 /\ P!no_pmp.addr[e] = 0
<1>1. P!no_pmp \in PmpType /\ P!no_pmp.cfg[0] = 0 /\ P!no_pmp.cfg[1] = 0
  BY Four DEF P!no_pmp, PmpType
<1>2. \A e \in P!Entries : P!no_pmp.addr[e] = 0
  BY DEF P!no_pmp
<1>3. /\ P!config_of(P!no_pmp, 0) = 0 % 8 /\ P!config_of(P!no_pmp, 1) = 0 \div 8
      /\ P!config_of(P!no_pmp, 2) = 0 % 8 /\ P!config_of(P!no_pmp, 3) = 0 \div 8
  BY <1>1, ConfigOf
<1>4. 0 % 8 = 0 /\ 0 \div 8 = 0
  OBVIOUS
<1> QED BY <1>1, <1>2, <1>3, <1>4, Four

LEMMA AddrStores ==
    ASSUME NEW p \in PmpType, NEW e \in P!Entries, NEW a \in Nat, NEW q, q = P!write_addr(p, e, a)
    PROVE  /\ q \in PmpType /\ q.cfg = p.cfg
           /\ \A k \in P!Entries : P!config_of(q, k) = P!config_of(p, k)
           /\ \A k \in P!Entries : q.addr[k] = IF k = e /\ ~P!addr_locked(p, e) THEN a ELSE p.addr[k]
<1>1. q = p \/ q = [p EXCEPT !.addr[e] = a]
  BY DEF P!write_addr
<1>2. q \in PmpType /\ q.cfg = p.cfg
  BY <1>1, Four DEF PmpType
<1>3. \A k \in P!Entries : P!config_of(q, k) = P!config_of(p, k)
  BY <1>2 DEF P!config_of
<1>4. \A k \in P!Entries : q.addr[k] = IF k = e /\ ~P!addr_locked(p, e) THEN a ELSE p.addr[k]
  BY Four DEF P!write_addr, PmpType
<1> QED BY <1>2, <1>3, <1>4

Unlocked(p) == \A k \in P!Entries : P!config_of(p, k) = 0

AddrStored(p, e, a, q) ==
    /\ q \in PmpType /\ Unlocked(q)
    /\ \A k \in P!Entries : q.addr[k] = IF k = e THEN a ELSE p.addr[k]

LEMMA UnlockedStores ==
    ASSUME NEW p \in PmpType, Unlocked(p), NEW e \in P!Entries, NEW a \in Nat, NEW q, q = P!write_addr(p, e, a)
    PROVE  AddrStored(p, e, a, q)
<1>1. \A k \in P!Entries : ~P!locked(p, k)
  BY DEF Unlocked, P!locked, P!LOCK
<1>2. ~P!addr_locked(p, e)
  BY <1>1 DEF P!addr_locked
<1>3. q \in PmpType /\ Unlocked(q)
  BY AddrStores DEF Unlocked
<1>4. \A k \in P!Entries : q.addr[k] = IF k = e THEN a ELSE p.addr[k]
  BY <1>2, AddrStores
<1> QED BY <1>3, <1>4 DEF AddrStored

\* Two units with equal bytes and addresses are one.
LEMMA SameUnit ==
    ASSUME NEW p \in PmpType, NEW q \in PmpType,
           \A k \in P!Entries : P!config_of(p, k) = P!config_of(q, k) /\ p.addr[k] = q.addr[k]
    PROVE  p = q
<1>1. /\ p.cfg \in [0 .. 1 -> 0 .. 63] /\ q.cfg \in [0 .. 1 -> 0 .. 63]
      /\ p.addr \in [0 .. 3 -> Nat] /\ q.addr \in [0 .. 3 -> Nat]
      /\ p = [cfg |-> p.cfg, addr |-> p.addr] /\ q = [cfg |-> q.cfg, addr |-> q.addr]
  BY DEF PmpType
<1>2. p.cfg[0] % 8 = q.cfg[0] % 8 /\ p.cfg[0] \div 8 = q.cfg[0] \div 8
  BY ConfigOf, Four
<1>3. p.cfg[1] % 8 = q.cfg[1] % 8 /\ p.cfg[1] \div 8 = q.cfg[1] \div 8
  BY ConfigOf, Four
<1>4. p.cfg[0] = q.cfg[0] /\ p.cfg[1] = q.cfg[1]
  BY <1>1, <1>2, <1>3
<1>5. p.cfg = q.cfg
  BY <1>1, <1>4
<1>6. p.addr = q.addr
  BY <1>1, Four
<1> QED BY <1>1, <1>5, <1>6, Zenon

LEMMA CfgStores ==
    ASSUME NEW p \in PmpType, NEW saved \in PmpType,
           \A k \in P!Entries : p.addr[k] = saved.addr[k],
           Unlocked(p) \/ p = saved
    PROVE  P!store_cfgs(p, saved) = saved
<1>0. saved.cfg[0] \in 0 .. 63 /\ saved.cfg[1] \in 0 .. 63
  BY DEF PmpType
<1>1. PICK v \in 0 .. 63, w \in 0 .. 63 : v = saved.cfg[0] /\ w = saved.cfg[1]
  BY ONLY <1>0
<1>2. PICK q : q = P!write_cfg(p, 0, v)
  OBVIOUS
<1>3. LowStored(p, v, q)
  BY <1>2, WriteCfg
<1>4. PICK r : r = P!write_cfg(q, 1, w)
  OBVIOUS
<1>5. q \in PmpType
  BY <1>3 DEF LowStored
<1>6. HighStored(q, w, r)
  BY <1>4, <1>5, WriteCfg
<1>7. P!store_cfgs(p, saved) = r
  BY <1>1, <1>2, <1>4 DEF P!store_cfgs
<1>8. /\ P!config_of(saved, 0) = v % 8 /\ P!config_of(saved, 1) = v \div 8
      /\ P!config_of(saved, 2) = w % 8 /\ P!config_of(saved, 3) = w \div 8
  BY <1>1, ConfigOf
<1>9. r \in PmpType /\ r.addr = q.addr /\ q.addr = p.addr
  BY <1>3, <1>6 DEF LowStored, HighStored
<1>10. CASE p = saved
  <2>1. P!config_of(q, 0) = v % 8 /\ P!config_of(q, 1) = v \div 8 /\ P!config_of(q, 2) = w % 8 /\ P!config_of(q, 3) = w \div 8
    BY <1>3, <1>8, <1>10 DEF LowStored
  <2>2. P!config_of(r, 0) = v % 8 /\ P!config_of(r, 1) = v \div 8 /\ P!config_of(r, 2) = w % 8 /\ P!config_of(r, 3) = w \div 8
    BY <1>6, <2>1 DEF HighStored
  <2> QED BY <1>7, <1>8, <1>9, <2>2, SameUnit, Four
<1>11. CASE Unlocked(p)
  <2>1. \A k \in P!Entries : ~P!locked(p, k)
    BY <1>11 DEF Unlocked, P!locked, P!LOCK
  <2>2. P!config_of(q, 0) = v % 8 /\ P!config_of(q, 1) = v \div 8 /\ P!config_of(q, 2) = P!config_of(p, 2)
        /\ P!config_of(q, 3) = P!config_of(p, 3)
    BY <1>3, <2>1, Four DEF LowStored
  <2>3. ~P!locked(q, 2) /\ ~P!locked(q, 3)
    BY <2>1, <2>2, Four DEF P!locked
  <2>4. P!config_of(r, 0) = v % 8 /\ P!config_of(r, 1) = v \div 8 /\ P!config_of(r, 2) = w % 8 /\ P!config_of(r, 3) = w \div 8
    BY <1>6, <2>2, <2>3 DEF HighStored
  <2> QED BY <1>7, <1>8, <1>9, <2>4, SameUnit, Four
<1> QED BY <1>10, <1>11

LEMMA Restore ==
    ASSUME NEW saved \in PmpType, NEW p, p = P!no_pmp \/ p = saved
    PROVE  P!tlk_pmp_restore(p, saved) = saved
<1>1. \A k \in P!Entries : saved.addr[k] \in Nat
  BY Four DEF PmpType
<1>2. 0 \in P!Entries /\ 1 \in P!Entries /\ 2 \in P!Entries /\ 3 \in P!Entries
  BY Four
<1>3. CASE p = saved
  <2>1. ASSUME NEW e \in P!Entries PROVE P!write_addr(saved, e, saved.addr[e]) = saved
    <3>1. PICK q : q = P!write_addr(saved, e, saved.addr[e])
      OBVIOUS
    <3>2. saved.addr[e] \in Nat
      BY <1>1
    <3>3. q \in PmpType
      BY ONLY <3>1, <3>2, saved \in PmpType, e \in P!Entries, AddrStores
    <3>4. \A k \in P!Entries : P!config_of(q, k) = P!config_of(saved, k)
      BY ONLY <3>1, <3>2, saved \in PmpType, e \in P!Entries, AddrStores
    <3>5. \A k \in P!Entries : q.addr[k] = IF k = e /\ ~P!addr_locked(saved, e) THEN saved.addr[e] ELSE saved.addr[k]
      BY ONLY <3>1, <3>2, saved \in PmpType, e \in P!Entries, AddrStores
    <3>6. q = saved
      BY <3>3, <3>4, <3>5, SameUnit
    <3> QED BY <3>1, <3>6
  <2>2. P!store_addrs(saved, saved) = saved
    BY <1>2, <2>1 DEF P!store_addrs
  <2>3. P!store_cfgs(saved, saved) = saved
    BY CfgStores
  <2> QED BY <1>3, <2>2, <2>3 DEF P!tlk_pmp_restore
<1>4. CASE p = P!no_pmp
  <2>1. p \in PmpType /\ Unlocked(p)
    BY <1>4, NoPmp DEF Unlocked
  <2>12. PICK a0 \in Nat, a1 \in Nat, a2 \in Nat, a3 \in Nat :
            a0 = saved.addr[0] /\ a1 = saved.addr[1] /\ a2 = saved.addr[2] /\ a3 = saved.addr[3]
    BY ONLY <1>1, <1>2
  <2>2. PICK q0 : q0 = P!write_addr(p, 0, a0)
    OBVIOUS
  <2>3. q0 \in PmpType /\ Unlocked(q0) /\ q0.addr[0] = a0
    <3>1. AddrStored(p, 0, a0, q0)
      BY <1>2, <2>1, <2>2, UnlockedStores
    <3> QED BY ONLY <1>2, <2>1, <3>1 DEF AddrStored
  <2>4. PICK q1 : q1 = P!write_addr(q0, 1, a1)
    OBVIOUS
  <2>5. q1 \in PmpType /\ Unlocked(q1) /\ q1.addr[0] = a0 /\ q1.addr[1] = a1
    <3>1. AddrStored(q0, 1, a1, q1)
      BY <1>2, <2>3, <2>4, UnlockedStores
    <3> QED BY ONLY <1>2, <2>3, <3>1 DEF AddrStored
  <2>6. PICK q2 : q2 = P!write_addr(q1, 2, a2)
    OBVIOUS
  <2>7. q2 \in PmpType /\ Unlocked(q2) /\ q2.addr[0] = a0 /\ q2.addr[1] = a1 /\ q2.addr[2] = a2
    <3>1. AddrStored(q1, 2, a2, q2)
      BY <1>2, <2>5, <2>6, UnlockedStores
    <3> QED BY ONLY <1>2, <2>5, <3>1 DEF AddrStored
  <2>8. PICK q3 : q3 = P!write_addr(q2, 3, a3)
    OBVIOUS
  <2>9. q3 \in PmpType /\ Unlocked(q3) /\ q3.addr[0] = a0 /\ q3.addr[1] = a1 /\ q3.addr[2] = a2 /\ q3.addr[3] = a3
    <3>1. AddrStored(q2, 3, a3, q3)
      BY <1>2, <2>7, <2>8, UnlockedStores
    <3> QED BY ONLY <1>2, <2>7, <3>1 DEF AddrStored
  <2>10. P!store_addrs(p, saved) = q3
    BY <2>2, <2>4, <2>6, <2>8, <2>12, Zenon DEF P!store_addrs
  <2>11. P!store_cfgs(q3, saved) = saved
    BY <2>9, <2>12, CfgStores, Four
  <2> QED BY <2>10, <2>11 DEF P!tlk_pmp_restore
<1> QED BY <1>3, <1>4

-----------------------------------------------------------------------------
\* What the unit and its copy hold in each phase.
PmpKept ==
    /\ pmp \in PmpType /\ retention \in PmpType
    /\ given \in [P!Entries -> P!Requests \cup {NoRequest}]
    /\ phase \in {"init", "run", "before"} => Asked(pmp)
    /\ phase = "before" /\ ~Waiting("pmp_save") => retention = pmp
    /\ phase \in {"off", "after"} => Asked(retention) /\ pmp \in {P!no_pmp, retention}
    /\ phase = "after" /\ ~Waiting("pmp_restore") => pmp = retention

LEMMA PmpStarts == Init => PmpKept
<1> SUFFICES ASSUME P!Init PROVE PmpKept
  BY DEF Init
<1>1. phase = "init" /\ pmp = P!no_pmp /\ retention = P!no_pmp /\ given = [e \in P!Entries |-> NoRequest]
  BY DEF P!Init, NoRequest, P!OFF
<1>2. \A e \in P!Entries : P!scheme_of(P!no_pmp, e) = 0
  BY NoPmp DEF P!scheme_of, P!LOCK
<1>3. NoRequest.kind = 0 /\ P!raw(NoRequest) = 0
  BY DEF NoRequest, P!raw, P!NAPOT
<1>4. Asked(pmp)
  BY <1>1, <1>2, <1>3, NoPmp DEF Asked
<1> QED BY <1>1, <1>4, NoPmp DEF PmpKept

\* A call changes one entry, or nothing when the entry is locked.
LEMMA PmpCallKeeps ==
    ASSUME PmpKept, P!PmpCall
    PROVE  PmpKept'
<1>1. PICK e \in P!Entries, q \in P!Requests, lock \in {0, P!LOCK} :
          /\ P!locked(pmp, e) \/ ~P!addr_locked(pmp, e)
          /\ pmp' = P!configure(pmp, e, P!raw(q), q.kind + lock)
          /\ given' = IF P!locked(pmp, e) THEN given ELSE [given EXCEPT ![e] = q]
  BY DEF P!PmpCall
<1>2. phase = "run" /\ UNCHANGED <<phase, retention>>
  BY DEF P!PmpCall
<1>3. pmp \in PmpType /\ Asked(pmp) /\ given \in [P!Entries -> P!Requests \cup {NoRequest}]
  BY <1>2 DEF PmpKept
<1>4. PICK a \in Nat, b \in 0 .. 7 : a = P!raw(q) /\ b = q.kind + lock /\ b % 4 = q.kind
  BY RawOf DEF P!LOCK
<1>5. PICK m : m = P!write_addr(pmp, e, a)
  OBVIOUS
<1>6. m \in PmpType
  BY ONLY <1>3, <1>5, a \in Nat, e \in P!Entries, AddrStores
<1>7. \A k \in P!Entries : P!config_of(m, k) = P!config_of(pmp, k)
  BY ONLY <1>3, <1>5, a \in Nat, e \in P!Entries, AddrStores
<1>8. \A k \in P!Entries : m.addr[k] = IF k = e /\ ~P!addr_locked(pmp, e) THEN a ELSE pmp.addr[k]
  BY ONLY <1>3, <1>5, a \in Nat, e \in P!Entries, AddrStores
<1>9. pmp' = P!tlk_pmp_write_config(m, e, b)
  BY <1>1, <1>4, <1>5 DEF P!configure
<1>10. PICK n : n = pmp'
  OBVIOUS
<1>18. ByteStored(m, e, b, n)
  BY ONLY <1>6, <1>9, <1>10, b \in 0 .. 7, e \in P!Entries, WriteConfig
<1>11. n \in PmpType /\ n.addr = m.addr
  BY <1>18, Zenon DEF ByteStored
<1>12. \A k \in P!Entries : P!config_of(n, k) = IF k = e /\ ~P!locked(m, e) THEN b ELSE P!config_of(m, k)
  BY <1>18, Zenon DEF ByteStored
<1>13. P!locked(m, e) <=> P!locked(pmp, e)
  BY <1>7 DEF P!locked
<1>14. given' \in [P!Entries -> P!Requests \cup {NoRequest}]
  BY <1>1, <1>3
<1>15. ASSUME NEW k \in P!Entries PROVE P!scheme_of(n, k) = given'[k].kind /\ n.addr[k] = P!raw(given'[k])
  <2>1. P!scheme_of(pmp, k) = given[k].kind /\ pmp.addr[k] = P!raw(given[k])
    BY <1>3 DEF Asked
  <2>2. CASE P!locked(pmp, e) \/ k # e
    <3>1. given'[k] = given[k]
      BY <1>1, <1>3, <2>2
    <3>2. P!config_of(n, k) = P!config_of(pmp, k)
      BY <1>7, <1>12, <1>13, <2>2
    <3>3. n.addr[k] = pmp.addr[k]
      <4>1. P!locked(pmp, e) => P!addr_locked(pmp, e)
        BY DEF P!addr_locked
      <4> QED BY <1>8, <1>11, <2>2, <4>1
    <3> QED BY <2>1, <3>1, <3>2, <3>3 DEF P!scheme_of
  <2>3. CASE ~P!locked(pmp, e) /\ k = e
    <3>1. given'[k] = q
      BY <1>1, <1>3, <2>3
    <3>2. P!config_of(n, k) = b
      BY <1>12, <1>13, <2>3
    <3>3. n.addr[k] = a
      BY <1>1, <1>8, <1>11, <2>3
    <3> QED BY <1>4, <3>1, <3>2, <3>3 DEF P!scheme_of, P!LOCK
  <2> QED BY <2>2, <2>3
<1>16. Asked(pmp)'
  BY <1>10, <1>15 DEF Asked
<1> QED BY <1>2, <1>3, <1>10, <1>11, <1>14, <1>16 DEF PmpKept

LEMMA PmpStep ==
    ASSUME PowerInv, PmpKept, P!Next
    PROVE  PmpKept'
<1>1. PowerTypes /\ Placed
  BY DEF PowerInv
<1>2. ASSUME todo = <<>> PROVE \A fn : ~Waiting(fn)
  BY <1>2 DEF Waiting, LeftOf
<1>3. CASE P!PmpCall
  BY <1>3, PmpCallKeeps
<1>4. CASE P!RfCall \/ P!CriticalPrint
  <2>1. UNCHANGED <<phase, todo, pmp, retention, given>>
    BY <1>4 DEF P!RfCall, P!CriticalPrint
  <2> QED BY <2>1 DEF PmpKept, Asked, Waiting
<1>5. CASE P!Hook
  <2>1. PICK h \in LeftOf(todo) :
              /\ LeftOf(todo) \subseteq LeftOf(todo') \cup {h}
              /\ retention' = IF h.fn = "pmp_save" THEN P!tlk_pmp_save ELSE retention
              /\ pmp' = IF h.fn = "pmp_restore" THEN P!tlk_pmp_restore(pmp, retention) ELSE pmp
    BY <1>1, <1>5, HookStep, Zenon
  <2>2. phase \in {"init", "before", "after"} /\ UNCHANGED <<phase, given>>
    BY <1>5 DEF P!Hook
  <2>3. \A fn : Waiting(fn) => Waiting(fn)' \/ fn = h.fn
    BY <2>1, Zenon DEF Waiting
  <2>4. CASE phase = "after"
    <3>1. h.fn # "pmp_save"
      BY <1>1, <2>1, <2>4 DEF Placed, AfterHooks
    <3>2. retention' = retention
      BY <2>1, <3>1
    <3>3. h.fn = "pmp_restore" => pmp' = retention
      BY <2>1, <2>4, Restore DEF PmpKept
    <3> QED BY <2>1, <2>2, <2>3, <2>4, <3>2, <3>3 DEF PmpKept, Asked
  <2>5. CASE phase # "after"
    <3>1. h.fn # "pmp_restore"
      BY <1>1, <2>1, <2>2, <2>5 DEF Placed, PreHooks, BeforeHooks
    <3>2. pmp' = pmp
      BY <2>1, <3>1
    <3>3. retention' = IF h.fn = "pmp_save" THEN pmp ELSE retention
      BY <2>1 DEF P!tlk_pmp_save
    <3> QED BY <2>2, <2>3, <2>5, <3>2, <3>3 DEF PmpKept, Asked
  <2> QED BY <2>4, <2>5
<1>6. CASE P!Start
  <2>1. phase = "init" /\ phase' = "run" /\ UNCHANGED <<pmp, retention, given>>
    BY <1>6 DEF P!Start
  <2> QED BY <2>1 DEF PmpKept, Asked
<1>7. CASE P!Sleep
  <2>1. phase = "run" /\ UNCHANGED <<pmp, retention, given>>
    BY <1>7 DEF P!Sleep
  <2>2. (phase' = "run" /\ todo' = todo) \/ (phase' = "before" /\ todo' = P!before_sleep)
    BY <1>7, <2>1 DEF P!Sleep
  <2>3. todo' = P!before_sleep => Waiting("pmp_save")'
    BY Arrays DEF Waiting
  <2> QED BY <2>1, <2>2, <2>3 DEF PmpKept, Asked
<1>8. CASE P!PowerDown
  <2>1. phase = "before" /\ todo = <<>> /\ phase' = "off" /\ UNCHANGED <<retention, given>>
        /\ (pmp' = P!no_pmp \/ pmp' = pmp)
    BY <1>8 DEF P!PowerDown
  <2>2. retention = pmp /\ Asked(retention)
    BY <1>2, <2>1 DEF PmpKept
  <2> QED BY <2>1, <2>2, NoPmp DEF PmpKept, Asked
<1>9. CASE P!Wake
  <2>1. phase = "off" /\ phase' = "after" /\ UNCHANGED <<pmp, retention, given>>
        /\ todo' \in {P!after_sleep, P!after_suspend}
    BY <1>9 DEF P!Wake
  <2>2. Waiting("pmp_restore")'
    BY <2>1, Arrays DEF Waiting
  <2> QED BY <2>1, <2>2 DEF PmpKept, Asked
<1>10. CASE P!Awake
  <2>1. phase = "after" /\ todo = <<>> /\ phase' = "run" /\ UNCHANGED <<pmp, retention, given>>
    BY <1>10 DEF P!Awake
  <2>2. pmp = retention /\ Asked(pmp)
    BY <1>2, <2>1 DEF PmpKept
  <2> QED BY <2>1, <2>2 DEF PmpKept, Asked
<1> QED BY <1>3, <1>4, <1>5, <1>6, <1>7, <1>8, <1>9, <1>10 DEF P!Next

(***************************************************************************)
(* After any calls and any sleeps every PMP entry protects the region of   *)
(* the last call that its lock let through.                                *)
(***************************************************************************)
THEOREM RegionsProtected == Spec => []Protected
<1>1. Init => PowerInv /\ PmpKept
  BY PowerStarts, PmpStarts
<1>2. PowerInv /\ PmpKept /\ [Next]_vars => (PowerInv /\ PmpKept)'
  <2> SUFFICES ASSUME PowerInv, PmpKept, [Next]_vars PROVE PowerInv' /\ PmpKept'
    OBVIOUS
  <2>1. PowerInv'
    BY PowerInvStep
  <2>2. CASE P!Next
    BY <2>1, <2>2, PmpStep
  <2>3. CASE UNCHANGED power_vars
    <3>1. UNCHANGED <<phase, todo, pmp, retention, given>>
      BY <2>3 DEF power_vars
    <3> QED BY <2>1, <3>1 DEF PmpKept, Asked, Waiting
  <2> QED BY <2>2, <2>3, PowerMoves
<1>3. PowerInv /\ PmpKept => Protected
  <2> SUFFICES ASSUME PmpKept, phase = "run" PROVE P!Protected
    BY DEF Protected, P!Protected
  <2> QED BY AskedProtects DEF PmpKept
<1> QED BY <1>1, <1>2, <1>3, PTL DEF Spec

-----------------------------------------------------------------------------
(* Common helpers: the list of devices. *)

LEMMA HelperCardinality == \A X : G!Cardinality(X) = Cardinality(X)
BY Zenon DEF G!Cardinality, Cardinality

\* The ring is the list, then n devices, each once, then the list again.
Ring(n, r) ==
    /\ r \in [0 .. n + 1 -> G!Nodes] /\ r[0] = G!LIST /\ r[n + 1] = G!LIST
    /\ \A i \in 1 .. n : r[i] \in Devices
    /\ \A i, j \in 1 .. n : r[i] = r[j] => i = j
    /\ next \in [G!Nodes -> G!Nodes \cup {G!NULL}] /\ prev \in [G!Nodes -> G!Nodes \cup {G!NULL}]
    /\ \A i \in 0 .. n : next[r[i]] = r[i + 1] /\ prev[r[i + 1]] = r[i]
    /\ \A d \in Devices : d \notin {r[i] : i \in 1 .. n} => next[d] = G!NULL /\ prev[d] = G!NULL

Once(d) == \E i \in 1 .. Len(seen) : \A j \in 1 .. Len(seen) : seen[j] = d <=> j = i
Never(d) == \A j \in 1 .. Len(seen) : seen[j] # d

\* A walk has seen the devices that stayed up to the one it stands on.
Walk(n, r) ==
    /\ seen \in Seq(Devices) /\ stayed \subseteq {r[i] : i \in 1 .. n}
    /\ cursor = G!NULL => seen = <<>> \/ \A d \in stayed : Once(d)
    /\ cursor # G!NULL =>
          \E c \in 1 .. n :
             /\ r[c] = cursor
             /\ \A p \in 1 .. n : r[p] \in stayed => IF p <= c THEN Once(r[p]) ELSE Never(r[p])

RingInv == \E n \in Nat : \E r \in [0 .. n + 1 -> G!Nodes] : Ring(n, r) /\ Walk(n, r)

LEMMA Names == /\ G!LIST \notin Devices /\ G!NULL \notin Devices /\ G!LIST # G!NULL
               /\ G!Nodes = Devices \cup {G!LIST} /\ G!NULL \notin G!Nodes
BY HelpersAssumption DEF G!LIST, G!NULL, G!Nodes

\* What comes after the k-th of the ring, to a walk.
DeviceAfter(n, r, k) == IF k < n THEN r[k + 1] ELSE G!NULL

LEMMA NextOfRing ==
    ASSUME NEW n \in Nat, NEW r, Ring(n, r), NEW i \in 0 .. n
    PROVE  G!get_next_device(r[i]) = DeviceAfter(n, r, i)
<1>1. next[r[i]] = r[i + 1]
  BY DEF Ring
<1>2. CASE i < n
  <2>1. r[i + 1] \in Devices
    BY <1>2 DEF Ring
  <2> QED BY <1>1, <1>2, <2>1, Names DEF G!get_next_device, DeviceAfter
<1>3. CASE i = n
  <2>1. r[i + 1] = G!LIST
    BY <1>3 DEF Ring
  <2> QED BY <1>1, <1>3, <2>1 DEF G!get_next_device, DeviceAfter
<1> QED BY <1>2, <1>3

\* tlk_storage_is_exist_device() goes round the whole ring.
LEMMA RingFits ==
    ASSUME NEW n \in Nat, NEW r, Ring(n, r)
    PROVE  Cardinality(Devices) \in Nat /\ n <= Cardinality(Devices)
<1> DEFINE f == [i \in 1 .. n |-> r[i]]
<1>1. f \in Injection(1 .. n, Devices)
  BY DEF Ring, Injection, IsInjective
<1>2. IsFiniteSet(1 .. n) /\ Cardinality(1 .. n) = n
  BY FS_Interval
<1>3. Cardinality(1 .. n) <= Cardinality(Devices)
  BY <1>1, <1>2, HelpersAssumption, FS_Injection DEF ExistsInjection
<1> QED BY <1>2, <1>3, HelpersAssumption, FS_CardinalityType

LEMMA WalkOfRing ==
    ASSUME NEW n \in Nat, NEW r, Ring(n, r)
    PROVE  /\ DOMAIN G!walk = 0 .. Cardinality(Devices)
           /\ \A k \in 0 .. Cardinality(Devices) : G!walk[k] = DeviceAfter(n, r, k)
<1> DEFINE size == Cardinality(Devices)
           body(g) == [k \in 0 .. size |-> IF k = 0 THEN G!get_next_device(G!LIST)
                                          ELSE IF g[k - 1] = G!NULL THEN G!NULL
                                               ELSE G!get_next_device(g[k - 1])]
           h == [k \in 0 .. size |-> DeviceAfter(n, r, k)]
           w == G!walk
<1>1. size \in Nat
  BY RingFits
<1> HIDE DEF size
<1>2. G!get_next_device(G!LIST) = DeviceAfter(n, r, 0)
  <2>1. r[0] = G!LIST /\ 0 \in 0 .. n
    BY DEF Ring
  <2> QED BY <2>1, NextOfRing
<1>3. ASSUME NEW k \in 1 .. size
      PROVE  DeviceAfter(n, r, k) = IF DeviceAfter(n, r, k - 1) = G!NULL THEN G!NULL
                              ELSE G!get_next_device(DeviceAfter(n, r, k - 1))
  <2>1. CASE k - 1 < n
    <3>1. DeviceAfter(n, r, k - 1) = r[k] /\ r[k] \in Devices /\ k \in 0 .. n
      BY <1>1, <2>1 DEF DeviceAfter, Ring
    <3> QED BY <3>1, NextOfRing, Names
  <2>2. CASE ~(k - 1 < n)
    BY <1>1, <2>2 DEF DeviceAfter
  <2> QED BY <2>1, <2>2
<1>4. h = body(h)
  <2> SUFFICES ASSUME NEW k \in 0 .. size PROVE h[k] = body(h)[k]
    OBVIOUS
  <2>1. CASE k = 0
    BY <1>2, <2>1
  <2>2. CASE k # 0
    <3>1. k \in 1 .. size /\ k - 1 \in 0 .. size
      BY <1>1, <2>2
    <3> QED BY <1>3, <2>2, <3>1
  <2> QED BY <2>1, <2>2
<1>5. w = CHOOSE g : g = body(g)
  BY HelperCardinality DEF G!walk, size
<1> HIDE DEF body, h, w
<1>6. w = body(w)
  BY <1>4, <1>5, Zenon
<1>7. DOMAIN w = 0 .. size
  <2>1. DOMAIN body(w) = 0 .. size
    BY DEF body
  <2> QED BY <1>6, <2>1
<1>8. \A k \in 0 .. size : w[k] = h[k]
  <2> DEFINE T == {k \in 0 .. size : w[k] # h[k]}
  <2>1. SUFFICES ASSUME T # {} PROVE FALSE
    OBVIOUS
  <2>2. T \subseteq Nat
    BY <1>1
  <2>3. PICK m \in T : \A k \in T : m <= k
    BY <2>1, <2>2, LeastExists
  <2>4. m \in 0 .. size /\ w[m] # h[m] /\ w[m] = body(w)[m] /\ h[m] = body(h)[m]
    BY <1>4, <1>6
  <2>5. CASE m = 0
    BY <2>4, <2>5 DEF body
  <2>6. CASE m # 0
    <3>1. m - 1 \in 0 .. size /\ ~(m <= m - 1)
      BY <1>1, <2>4, <2>6
    <3>2. w[m - 1] = h[m - 1]
      BY <2>3, <3>1
    <3> QED BY <2>4, <2>6, <3>2 DEF body
  <2> QED BY <2>5, <2>6
<1> QED BY <1>7, <1>8 DEF w, h, size

LEMMA ExistsInRing ==
    ASSUME NEW n \in Nat, NEW r, Ring(n, r), NEW d \in Devices
    PROVE  G!is_exist_device(d) <=> d \in {r[i] : i \in 1 .. n}
<1>1. Cardinality(Devices) \in Nat /\ n <= Cardinality(Devices)
  BY RingFits
<1>2. G!is_exist_device(d) <=> \E k \in 0 .. Cardinality(Devices) : DeviceAfter(n, r, k) = d
  BY WalkOfRing DEF G!is_exist_device
<1>3. ASSUME NEW k \in 0 .. Cardinality(Devices), DeviceAfter(n, r, k) = d PROVE d \in {r[i] : i \in 1 .. n}
  <2>1. k < n /\ r[k + 1] = d
    BY <1>3, Names DEF DeviceAfter
  <2>2. k + 1 \in 1 .. n
    BY <1>1, <2>1
  <2> QED BY <2>1, <2>2
<1>4. ASSUME NEW i \in 1 .. n, r[i] = d PROVE \E k \in 0 .. Cardinality(Devices) : DeviceAfter(n, r, k) = d
  <2>1. i - 1 \in 0 .. Cardinality(Devices) /\ i - 1 < n /\ i - 1 + 1 = i
    BY <1>1
  <2>2. DeviceAfter(n, r, i - 1) = d
    BY <1>4, <2>1 DEF DeviceAfter
  <2> QED BY <2>1, <2>2
<1> QED BY <1>2, <1>3, <1>4

\* Only the list itself stands at two places, the first and the last.
LEMMA PlacesApart ==
    ASSUME NEW n \in Nat, NEW r, Ring(n, r), NEW i \in 0 .. n + 1, NEW k \in 0 .. n + 1, i < k, r[i] = r[k]
    PROVE  i = 0 /\ k = n + 1
<1>1. CASE i = 0
  <2>1. k \in 1 .. n \/ k = n + 1
    BY <1>1
  <2> QED BY <1>1, <2>1, Names DEF Ring
<1>2. CASE k = n + 1
  <2>1. i \in 1 .. n \/ i = 0
    BY <1>2
  <2> QED BY <1>2, <2>1, Names DEF Ring
<1>3. CASE i # 0 /\ k # n + 1
  <2>1. i \in 1 .. n /\ k \in 1 .. n /\ i # k
    BY <1>3
  <2> QED BY <2>1 DEF Ring
<1> QED BY <1>1, <1>2, <1>3

\* tlk_dlist_append() puts a device before the list.
LEMMA AppendKeeps ==
    ASSUME NEW n \in Nat, NEW r, Ring(n, r), Walk(n, r),
           NEW d \in Devices, d \notin {r[i] : i \in 1 .. n},
           G!tlk_dlist_append(d), UNCHANGED <<cursor, seen, stayed>>
    PROVE  RingInv'
<1> DEFINE q == [i \in 0 .. n + 2 |-> IF i <= n THEN r[i] ELSE IF i = n + 1 THEN d ELSE G!LIST]
<1>1. /\ r \in [0 .. n + 1 -> G!Nodes] /\ r[0] = G!LIST /\ r[n + 1] = G!LIST
      /\ \A i \in 1 .. n : r[i] \in Devices
      /\ \A i, j \in 1 .. n : r[i] = r[j] => i = j
      /\ next \in [G!Nodes -> G!Nodes \cup {G!NULL}] /\ prev \in [G!Nodes -> G!Nodes \cup {G!NULL}]
      /\ \A i \in 0 .. n : next[r[i]] = r[i + 1] /\ prev[r[i + 1]] = r[i]
  BY DEF Ring
<1>2. prev[G!LIST] = r[n]
  BY <1>1
<1>3. next' = [next EXCEPT ![d] = G!LIST, ![r[n]] = d] /\ prev' = [prev EXCEPT ![d] = r[n], ![G!LIST] = d]
  BY <1>2 DEF G!tlk_dlist_append, G!tlk_dlist_insert
<1>4. \A i \in 0 .. n : r[i] # d
  <2> SUFFICES ASSUME NEW i \in 0 .. n PROVE r[i] # d
    OBVIOUS
  <2>1. i = 0 \/ i \in 1 .. n
    OBVIOUS
  <2> QED BY <1>1, <2>1, Names
<1>5. /\ next' \in [G!Nodes -> G!Nodes \cup {G!NULL}] /\ prev' \in [G!Nodes -> G!Nodes \cup {G!NULL}]
  BY <1>1, <1>3, Names
<1>6. r[n] \in G!Nodes /\ r[n] # d /\ d \in G!Nodes /\ G!LIST \in G!Nodes /\ d # G!LIST
  BY <1>1, <1>4, Names
<1>7. \A x \in G!Nodes : /\ next'[x] = IF x = r[n] THEN d ELSE IF x = d THEN G!LIST ELSE next[x]
                         /\ prev'[x] = IF x = G!LIST THEN d ELSE IF x = d THEN r[n] ELSE prev[x]
  BY <1>1, <1>3, <1>6
<1>8. /\ \A i \in 0 .. n : q[i] = r[i]
      /\ q[n + 1] = d /\ q[n + 2] = G!LIST /\ q \in [0 .. n + 2 -> G!Nodes]
  BY <1>1, <1>6
<1> HIDE DEF q
<1>9. ASSUME NEW i \in 0 .. n + 1 PROVE next'[q[i]] = q[i + 1] /\ prev'[q[i + 1]] = q[i]
  <2>1. CASE i < n
    <3>1. i \in 0 .. n /\ i + 1 \in 0 .. n /\ i + 1 \in 1 .. n
      BY <2>1
    <3>2. q[i] = r[i] /\ q[i + 1] = r[i + 1] /\ r[i] # d /\ r[i + 1] # d /\ r[i + 1] # G!LIST
      BY <1>1, <1>4, <1>8, <3>1, Names
    <3>3. r[i] # r[n]
      <4>1. i \in 0 .. n + 1 /\ n \in 0 .. n + 1 /\ n # n + 1
        OBVIOUS
      <4> QED BY <2>1, <4>1, PlacesApart
    <3>4. r[i] \in G!Nodes /\ r[i + 1] \in G!Nodes
      BY <1>1, <3>1
    <3> QED BY <1>1, <1>7, <3>1, <3>2, <3>3, <3>4
  <2>2. CASE i = n
    <3>1. q[i] = r[n] /\ q[i + 1] = d
      BY <1>8, <2>2
    <3> QED BY <1>6, <1>7, <3>1
  <2>3. CASE i = n + 1
    <3>1. q[i] = d /\ q[i + 1] = G!LIST
      BY <1>8, <2>3
    <3> QED BY <1>6, <1>7, <3>1
  <2> QED BY <2>1, <2>2, <2>3
<1>10. \A i \in 1 .. n + 1 : q[i] \in Devices
  <2> SUFFICES ASSUME NEW i \in 1 .. n + 1 PROVE q[i] \in Devices
    OBVIOUS
  <2>1. i \in 1 .. n \/ i = n + 1
    OBVIOUS
  <2> QED BY <1>1, <1>8, <2>1
<1>11. ASSUME NEW i \in 1 .. n + 1, NEW j \in 1 .. n + 1, q[i] = q[j] PROVE i = j
  <2>1. CASE i \in 1 .. n /\ j \in 1 .. n
    <3>1. q[i] = r[i] /\ q[j] = r[j]
      BY <1>8, <2>1
    <3> QED BY <1>1, <1>11, <2>1, <3>1
  <2>2. CASE i = n + 1 /\ j \in 1 .. n
    <3>1. q[i] = d /\ q[j] = r[j] /\ r[j] # d
      BY <1>4, <1>8, <2>2
    <3> QED BY <1>11, <3>1
  <2>3. CASE j = n + 1 /\ i \in 1 .. n
    <3>1. q[j] = d /\ q[i] = r[i] /\ r[i] # d
      BY <1>4, <1>8, <2>3
    <3> QED BY <1>11, <3>1
  <2>4. (i \in 1 .. n \/ i = n + 1) /\ (j \in 1 .. n \/ j = n + 1)
    OBVIOUS
  <2> QED BY <2>1, <2>2, <2>3, <2>4
<1>12. ASSUME NEW x \in Devices, x \notin {q[i] : i \in 1 .. n + 1} PROVE next'[x] = G!NULL /\ prev'[x] = G!NULL
  <2>1. \A i \in 1 .. n : x # r[i]
    <3> SUFFICES ASSUME NEW i \in 1 .. n PROVE x # r[i]
      OBVIOUS
    <3>1. i \in 1 .. n + 1 /\ q[i] = r[i]
      BY <1>8
    <3> QED BY <1>12, <3>1
  <2>2. x # d
    <3>1. n + 1 \in 1 .. n + 1 /\ q[n + 1] = d
      BY <1>8
    <3> QED BY <1>12, <3>1
  <2>3. x # G!LIST /\ x \in G!Nodes /\ x # r[n]
    <3>1. n = 0 \/ n \in 1 .. n
      OBVIOUS
    <3> QED BY <1>1, <2>1, <3>1, Names
  <2>4. next[x] = G!NULL /\ prev[x] = G!NULL
    <3>1. x \notin {r[i] : i \in 1 .. n}
      BY <2>1
    <3> QED BY <3>1 DEF Ring
  <2> QED BY <1>7, <2>2, <2>3, <2>4
<1>13. Ring(n + 1, q)'
  <2>1. n + 1 + 1 = n + 2
    OBVIOUS
  <2>2. q[0] = G!LIST
    BY <1>1, <1>8
  <2> QED BY <1>5, <1>8, <1>9, <1>10, <1>11, <1>12, <2>1, <2>2 DEF Ring, G!Nodes, G!LIST, G!NULL
<1>14. Walk(n + 1, q)'
  <2>1. \A e : /\ Once(e)' <=> Once(e)
               /\ Never(e)' <=> Never(e)
    BY DEF Once, Never
  <2>2. \A x \in stayed : \E i \in 1 .. n : x = r[i]
    BY DEF Walk
  <2>3. stayed \subseteq {q[i] : i \in 1 .. n + 1}
    <3> SUFFICES ASSUME NEW x \in stayed PROVE x \in {q[i] : i \in 1 .. n + 1}
      OBVIOUS
    <3>1. PICK i \in 1 .. n : x = r[i]
      BY <2>2
    <3>2. i \in 1 .. n + 1 /\ q[i] = r[i]
      BY <1>8
    <3> QED BY <3>1, <3>2
  <2>4. ASSUME cursor # G!NULL
        PROVE  \E c \in 1 .. n + 1 :
                  /\ q[c] = cursor
                  /\ \A p \in 1 .. n + 1 : q[p] \in stayed => IF p <= c THEN Once(q[p]) ELSE Never(q[p])
    <3>1. PICK c \in 1 .. n :
             /\ r[c] = cursor
             /\ \A p \in 1 .. n : r[p] \in stayed => IF p <= c THEN Once(r[p]) ELSE Never(r[p])
      BY <2>4 DEF Walk
    <3>2. c \in 1 .. n + 1 /\ q[c] = cursor
      BY <1>8, <3>1
    <3>3. ASSUME NEW p \in 1 .. n + 1, q[p] \in stayed PROVE IF p <= c THEN Once(q[p]) ELSE Never(q[p])
      <4>1. p # n + 1
        BY <1>4, <1>8, <2>2, <3>3
      <4>2. p \in 1 .. n /\ q[p] = r[p]
        BY <1>8, <4>1
      <4> QED BY <3>1, <3>3, <4>2
    <3> QED BY <3>2, <3>3
  <2>5. seen \in Seq(Devices) /\ (cursor = G!NULL => seen = <<>> \/ \A x \in stayed : Once(x))
    BY DEF Walk
  <2> QED BY <2>1, <2>3, <2>4, <2>5 DEF Walk, G!NULL
<1>15. n + 1 \in Nat /\ n + 1 + 1 = n + 2 /\ q \in [0 .. n + 2 -> G!Nodes']
  BY <1>8 DEF G!Nodes, G!LIST
<1> QED BY <1>13, <1>14, <1>15 DEF RingInv

\* tlk_dlist_remove() of the j-th device; a walk does not stand on it.
LEMMA RemoveKeeps ==
    ASSUME NEW n \in Nat, NEW r, Ring(n, r), Walk(n, r), NEW j \in 1 .. n, cursor # r[j],
           G!tlk_dlist_remove(r[j]), stayed' = stayed \ {r[j]}, UNCHANGED <<cursor, seen>>
    PROVE  RingInv'
<1> DEFINE q == [i \in 0 .. n |-> IF i < j THEN r[i] ELSE r[i + 1]]
<1>1. /\ r \in [0 .. n + 1 -> G!Nodes] /\ r[0] = G!LIST /\ r[n + 1] = G!LIST
      /\ \A i \in 1 .. n : r[i] \in Devices
      /\ \A i, k \in 1 .. n : r[i] = r[k] => i = k
      /\ next \in [G!Nodes -> G!Nodes \cup {G!NULL}] /\ prev \in [G!Nodes -> G!Nodes \cup {G!NULL}]
      /\ \A i \in 0 .. n : next[r[i]] = r[i + 1] /\ prev[r[i + 1]] = r[i]
  BY DEF Ring
<1>2. PICK m \in Nat : n = m + 1
  <2>1. n - 1 \in Nat /\ n = n - 1 + 1
    OBVIOUS
  <2> QED BY <2>1
<1>3. prev[r[j]] = r[j - 1] /\ next[r[j]] = r[j + 1]
  <2>1. j \in 0 .. n /\ j - 1 \in 0 .. n /\ j - 1 + 1 = j
    OBVIOUS
  <2> QED BY <1>1, <2>1
<1>4. /\ next' = [next EXCEPT ![r[j - 1]] = r[j + 1], ![r[j]] = G!NULL]
      /\ prev' = [prev EXCEPT ![r[j + 1]] = r[j - 1], ![r[j]] = G!NULL]
  BY <1>3 DEF G!tlk_dlist_remove, G!unlinked_prev
<1>5. /\ j - 1 \in 0 .. n + 1 /\ j + 1 \in 0 .. n + 1 /\ j \in 0 .. n + 1
      /\ r[j - 1] \in G!Nodes /\ r[j + 1] \in G!Nodes /\ r[j] \in G!Nodes /\ r[j] \in Devices
  <2>1. j - 1 \in 0 .. n + 1 /\ j + 1 \in 0 .. n + 1 /\ j \in 0 .. n + 1
    OBVIOUS
  <2> QED BY <1>1, <2>1
<1>6. r[j - 1] # r[j] /\ r[j + 1] # r[j]
  <2>1. j - 1 < j /\ j < j + 1 /\ j # n + 1 /\ j # 0
    OBVIOUS
  <2> QED BY <1>5, <2>1, PlacesApart
<1>7. /\ next' \in [G!Nodes -> G!Nodes \cup {G!NULL}] /\ prev' \in [G!Nodes -> G!Nodes \cup {G!NULL}]
  BY <1>1, <1>4, <1>5
<1>8. \A x \in G!Nodes : /\ next'[x] = IF x = r[j] THEN G!NULL ELSE IF x = r[j - 1] THEN r[j + 1] ELSE next[x]
                         /\ prev'[x] = IF x = r[j] THEN G!NULL ELSE IF x = r[j + 1] THEN r[j - 1] ELSE prev[x]
  BY <1>1, <1>4, <1>5, <1>6
<1>9. /\ \A i \in 0 .. j - 1 : q[i] = r[i]
      /\ \A i \in j .. n : q[i] = r[i + 1]
      /\ q \in [0 .. n -> G!Nodes]
  <2>1. \A i \in 0 .. n : i \in 0 .. n + 1 /\ i + 1 \in 0 .. n + 1
    OBVIOUS
  <2>2. \A i \in 0 .. j - 1 : i \in 0 .. n /\ i < j
    OBVIOUS
  <2>3. \A i \in j .. n : i \in 0 .. n /\ ~(i < j)
    OBVIOUS
  <2> QED BY <1>1, <2>1, <2>2, <2>3
<1> HIDE DEF q
<1>10. ASSUME NEW i \in 0 .. m PROVE next'[q[i]] = q[i + 1] /\ prev'[q[i + 1]] = q[i]
  <2>1. CASE i + 1 < j
    <3>1. q[i] = r[i] /\ q[i + 1] = r[i + 1]
      <4>1. i \in 0 .. j - 1 /\ i + 1 \in 0 .. j - 1
        BY <2>1
      <4> QED BY <1>9, <4>1
    <3>2. r[i] # r[j] /\ r[i] # r[j - 1] /\ r[i + 1] # r[j] /\ r[i + 1] # r[j + 1]
      <4>1. /\ i \in 0 .. n + 1 /\ i + 1 \in 0 .. n + 1 /\ i < j /\ i < j - 1 /\ i + 1 < j + 1
            /\ j # n + 1 /\ j - 1 # n + 1 /\ i + 1 # 0
        BY <1>2, <2>1
      <4> QED BY <1>5, <2>1, <4>1, PlacesApart
    <3>3. i \in 0 .. n /\ r[i] \in G!Nodes /\ r[i + 1] \in G!Nodes
      BY <1>1, <1>2
    <3> QED BY <1>1, <1>8, <3>1, <3>2, <3>3
  <2>2. CASE i + 1 = j
    <3>1. i = j - 1 /\ j - 1 \in 0 .. j - 1 /\ j \in j .. n
      BY <2>2
    <3>2. q[i] = r[j - 1] /\ q[i + 1] = r[j + 1]
      BY <1>9, <2>2, <3>1
    <3> QED BY <1>5, <1>6, <1>8, <3>2
  <2>3. CASE j < i + 1
    <3>1. q[i] = r[i + 1] /\ q[i + 1] = r[i + 1 + 1]
      <4>1. i \in j .. n /\ i + 1 \in j .. n
        BY <1>2, <2>3
      <4> QED BY <1>9, <4>1
    <3>2. i + 1 \in 0 .. n /\ i + 1 \in 0 .. n + 1 /\ i + 1 + 1 \in 0 .. n + 1
      BY <1>2
    <3>3. r[i + 1] # r[j] /\ r[i + 1] # r[j - 1] /\ r[i + 1 + 1] # r[j] /\ r[i + 1 + 1] # r[j + 1]
      <4>1. /\ j < i + 1 /\ j - 1 < i + 1 /\ j < i + 1 + 1 /\ j + 1 < i + 1 + 1
            /\ j # 0 /\ j + 1 # 0 /\ i + 1 # n + 1
        BY <1>2, <2>3
      <4> QED BY <1>5, <3>2, <4>1, PlacesApart
    <3>4. r[i + 1] \in G!Nodes /\ r[i + 1 + 1] \in G!Nodes
      BY <1>1, <3>2
    <3> QED BY <1>1, <1>8, <3>1, <3>2, <3>3, <3>4
  <2>4. i + 1 < j \/ i + 1 = j \/ j < i + 1
    OBVIOUS
  <2> QED BY <2>1, <2>2, <2>3, <2>4
\* The device of the shorter ring at p, where it was in the longer one.
<1> DEFINE old(p) == IF p < j THEN p ELSE p + 1
<1>11. \A p \in 1 .. m : old(p) \in 1 .. n /\ q[p] = r[old(p)] /\ old(p) # j
  <2> SUFFICES ASSUME NEW p \in 1 .. m PROVE old(p) \in 1 .. n /\ q[p] = r[old(p)] /\ old(p) # j
    OBVIOUS
  <2>1. CASE p < j
    <3>1. p \in 0 .. j - 1 /\ p \in 1 .. n /\ p # j
      BY <1>2, <2>1
    <3> QED BY <1>9, <2>1, <3>1
  <2>2. CASE ~(p < j)
    <3>1. p \in j .. n /\ p + 1 \in 1 .. n /\ p + 1 # j
      BY <1>2, <2>2
    <3> QED BY <1>9, <2>2, <3>1
  <2> QED BY <2>1, <2>2
<1>12. \A p, k \in 1 .. m : old(p) = old(k) => p = k
  OBVIOUS
<1>13. \A i \in 1 .. n : i # j => \E p \in 1 .. m : old(p) = i
  <2> SUFFICES ASSUME NEW i \in 1 .. n, i # j PROVE \E p \in 1 .. m : old(p) = i
    OBVIOUS
  <2>1. CASE i < j
    <3>1. i \in 1 .. m /\ old(i) = i
      BY <1>2, <2>1
    <3> QED BY <3>1
  <2>2. CASE j < i
    <3>1. i - 1 \in 1 .. m /\ old(i - 1) = i
      BY <1>2, <2>2
    <3> QED BY <3>1
  <2> QED BY <2>1, <2>2
<1>14. \A p, k \in 1 .. m : p <= k <=> old(p) <= old(k)
  OBVIOUS
<1> HIDE DEF old
<1>15. ASSUME NEW x \in Devices, x \notin {q[i] : i \in 1 .. m} PROVE next'[x] = G!NULL /\ prev'[x] = G!NULL
  <2>1. CASE x = r[j]
    BY <1>5, <1>8, <2>1
  <2>2. CASE x # r[j]
    <3>1. \A i \in 1 .. n : x # r[i]
      <4> SUFFICES ASSUME NEW i \in 1 .. n PROVE x # r[i]
        OBVIOUS
      <4>1. CASE i = j
        BY <2>2, <4>1
      <4>2. CASE i # j
        <5>1. PICK p \in 1 .. m : old(p) = i
          BY <1>13, <4>2
        <5> QED BY <1>11, <1>15, <5>1
      <4> QED BY <4>1, <4>2
    <3>2. next[x] = G!NULL /\ prev[x] = G!NULL
      <4>1. x \notin {r[i] : i \in 1 .. n}
        BY <3>1
      <4> QED BY <4>1 DEF Ring
    <3>3. x # r[j - 1] /\ x # r[j + 1]
      <4>1. (j - 1 = 0 \/ j - 1 \in 1 .. n) /\ (j + 1 = n + 1 \/ j + 1 \in 1 .. n)
        OBVIOUS
      <4> QED BY <1>1, <3>1, <4>1, Names
    <3> QED BY <1>8, <2>2, <3>2, <3>3, Names
  <2> QED BY <2>1, <2>2
<1>16. q[0] = G!LIST /\ q[m + 1] = G!LIST
  <2>1. 0 \in 0 .. j - 1 /\ m + 1 \in j .. n /\ m + 1 = n
    BY <1>2
  <2> QED BY <1>1, <1>9, <2>1
<1>17. Ring(m, q)'
  <2>1. q \in [0 .. m + 1 -> G!Nodes]
    BY <1>2, <1>9
  <2>2. \A i \in 1 .. m : q[i] \in Devices
    BY <1>1, <1>11
  <2>3. ASSUME NEW i \in 1 .. m, NEW k \in 1 .. m, q[i] = q[k] PROVE i = k
    <3>1. r[old(i)] = r[old(k)] /\ old(i) \in 1 .. n /\ old(k) \in 1 .. n
      BY <1>11, <2>3
    <3>2. old(i) = old(k)
      BY <1>1, <3>1
    <3> QED BY <1>12, <3>2
  <2> QED BY <1>7, <1>10, <1>15, <1>16, <2>1, <2>2, <2>3 DEF Ring, G!Nodes, G!LIST, G!NULL
<1>18. Walk(m, q)'
  <2>1. \A e : /\ Once(e)' <=> Once(e)
               /\ Never(e)' <=> Never(e)
    BY DEF Once, Never
  <2>2. \A x \in stayed : \E i \in 1 .. n : x = r[i]
    BY DEF Walk
  <2>3. stayed' \subseteq {q[i] : i \in 1 .. m}
    <3> SUFFICES ASSUME NEW x \in stayed, x # r[j] PROVE \E p \in 1 .. m : x = q[p]
      OBVIOUS
    <3>1. PICK i \in 1 .. n : x = r[i]
      BY <2>2
    <3>2. PICK p \in 1 .. m : old(p) = i
      BY <1>13, <3>1
    <3> QED BY <1>11, <3>1, <3>2
  <2>4. ASSUME cursor # G!NULL
        PROVE  \E c \in 1 .. m :
                  /\ q[c] = cursor
                  /\ \A p \in 1 .. m : q[p] \in stayed' => IF p <= c THEN Once(q[p]) ELSE Never(q[p])
    <3>1. PICK k \in 1 .. n :
             /\ r[k] = cursor
             /\ \A p \in 1 .. n : r[p] \in stayed => IF p <= k THEN Once(r[p]) ELSE Never(r[p])
      BY <2>4 DEF Walk
    <3>2. PICK c \in 1 .. m : old(c) = k
      BY <1>13, <3>1
    <3>3. q[c] = cursor
      BY <1>11, <3>1, <3>2
    <3>4. ASSUME NEW p \in 1 .. m, q[p] \in stayed' PROVE IF p <= c THEN Once(q[p]) ELSE Never(q[p])
      <4>1. old(p) \in 1 .. n /\ q[p] = r[old(p)] /\ q[p] \in stayed
        BY <1>11, <3>4
      <4>2. p <= c <=> old(p) <= k
        BY <1>14, <3>2
      <4> QED BY <3>1, <4>1, <4>2
    <3> QED BY <3>3, <3>4
  <2>5. seen \in Seq(Devices) /\ (cursor = G!NULL => seen = <<>> \/ \A x \in stayed' : Once(x))
    BY DEF Walk
  <2> QED BY <2>1, <2>3, <2>4, <2>5 DEF Walk, G!NULL
<1>19. q \in [0 .. m + 1 -> G!Nodes']
  BY <1>2, <1>9 DEF G!Nodes, G!LIST
<1> QED BY <1>17, <1>18, <1>19 DEF RingInv

\* A device that a walk comes to is seen once more.
LEMMA SeesNext ==
    ASSUME seen \in Seq(Devices), NEW x \in Devices, seen' = Append(seen, x)
    PROVE  /\ seen' \in Seq(Devices)
           /\ Never(x) => Once(x)'
           /\ \A d : d # x => ((Once(d) => Once(d)') /\ (Never(d) => Never(d)'))
<1>1. PICK n \in Nat : n = Len(seen)
  OBVIOUS
<1>2. /\ seen' \in Seq(Devices) /\ Len(seen') = n + 1
      /\ \A i \in 1 .. n : seen'[i] = seen[i]
      /\ seen'[n + 1] = x
  BY <1>1, AppendProperties
<1>3. \A i \in 1 .. n + 1 : i \in 1 .. n \/ i = n + 1
  OBVIOUS
<1>4. ASSUME Never(x) PROVE Once(x)'
  <2>1. \A i \in 1 .. n + 1 : seen'[i] = x <=> i = n + 1
    BY <1>1, <1>2, <1>3, <1>4 DEF Never
  <2>2. n + 1 \in 1 .. n + 1
    OBVIOUS
  <2> QED BY <1>2, <2>1, <2>2 DEF Once
<1>5. ASSUME NEW d, d # x, Once(d) PROVE Once(d)'
  <2>1. PICK m \in 1 .. n : \A k \in 1 .. n : seen[k] = d <=> k = m
    BY <1>1, <1>5 DEF Once
  <2>2. m \in 1 .. n + 1 /\ m # n + 1
    OBVIOUS
  <2>3. ASSUME NEW k \in 1 .. n + 1 PROVE seen'[k] = d <=> k = m
    <3>1. CASE k \in 1 .. n
      <4>1. seen'[k] = seen[k]
        BY <1>2, <3>1
      <4> QED BY <2>1, <3>1, <4>1
    <3>2. CASE k = n + 1
      BY <1>2, <1>5, <2>2, <3>2
    <3> QED BY <1>3, <3>1, <3>2
  <2>4. m \in 1 .. Len(seen') /\ \A k \in 1 .. Len(seen') : seen'[k] = d <=> k = m
    BY <1>2, <2>2, <2>3
  <2> QED BY <2>4 DEF Once
<1>6. ASSUME NEW d, d # x, Never(d) PROVE Never(d)'
  BY <1>1, <1>2, <1>3, <1>6 DEF Never
<1> QED BY <1>2, <1>4, <1>5, <1>6

LEMMA WalkKeeps ==
    ASSUME RingInv, G!WalkStart \/ G!WalkStep
    PROVE  RingInv'
<1>0. PICK n \in Nat : \E r \in [0 .. n + 1 -> G!Nodes] : Ring(n, r) /\ Walk(n, r)
  BY DEF RingInv
<1>1. PICK r \in [0 .. n + 1 -> G!Nodes] : Ring(n, r) /\ Walk(n, r)
  BY <1>0
<1>2. Ring(n, r)' /\ r \in [0 .. n + 1 -> G!Nodes']
  BY <1>1 DEF G!WalkStart, G!WalkStep, Ring, G!Nodes, G!LIST, G!NULL
<1>3. ASSUME Walk(n, r)' PROVE RingInv'
  BY <1>2, <1>3 DEF RingInv
<1>4. CASE G!WalkStart
  <2>1. /\ G!get_next_device(G!LIST) # G!NULL /\ cursor' = G!get_next_device(G!LIST)
        /\ seen' = <<cursor'>> /\ stayed' = {d \in Devices : G!is_exist_device(d)}
    BY <1>4 DEF G!WalkStart
  <2>2. n > 0 /\ cursor' = r[1] /\ r[1] \in Devices /\ 1 \in 1 .. n
    <3>1. r[0] = G!LIST /\ 0 \in 0 .. n
      BY <1>1 DEF Ring
    <3>2. cursor' = DeviceAfter(n, r, 0)
      BY <1>1, <2>1, <3>1, NextOfRing
    <3>3. n > 0 /\ cursor' = r[1]
      BY <2>1, <3>2 DEF DeviceAfter
    <3> QED BY <1>1, <3>3 DEF Ring
  <2>3. stayed' \subseteq {r[i] : i \in 1 .. n}
    BY <1>1, <2>1, ExistsInRing
  <2>4. seen' \in Seq(Devices) /\ Len(seen') = 1 /\ seen'[1] = r[1]
    BY <2>1, <2>2
  <2>5. Once(r[1])'
    <3>1. 1 \in 1 .. 1 /\ \A i \in 1 .. 1 : seen'[i] = r[1] <=> i = 1
      BY <2>4
    <3> QED BY <2>4, <3>1 DEF Once
  <2>6. \A p \in 1 .. n : p # 1 => Never(r[p])'
    <3> SUFFICES ASSUME NEW p \in 1 .. n, p # 1 PROVE Never(r[p])'
      OBVIOUS
    <3>1. r[p] # r[1]
      BY <1>1, <2>2 DEF Ring
    <3>2. \A i \in 1 .. 1 : seen'[i] # r[p]
      BY <2>4, <3>1
    <3> QED BY <2>4, <3>2 DEF Never
  <2>7. cursor' # G!NULL
    BY <2>1
  <2>8. \E c \in 1 .. n :
           /\ r[c] = cursor'
           /\ \A p \in 1 .. n : r[p] \in stayed' => IF p <= c THEN Once(r[p])' ELSE Never(r[p])'
    <3>1. ASSUME NEW p \in 1 .. n PROVE IF p <= 1 THEN Once(r[p])' ELSE Never(r[p])'
      <4>1. p <= 1 <=> p = 1
        OBVIOUS
      <4> QED BY <2>5, <2>6, <4>1
    <3> QED BY <2>2, <3>1
  <2> QED BY <1>3, <2>3, <2>4, <2>7, <2>8 DEF Walk, G!NULL
<1>5. CASE G!WalkStep
  <2>1. /\ cursor # G!NULL /\ cursor' = G!get_next_device(cursor) /\ stayed' = stayed
        /\ seen' = IF cursor' = G!NULL THEN seen ELSE Append(seen, cursor')
    BY <1>5 DEF G!WalkStep
  <2>2. PICK c \in 1 .. n :
           /\ r[c] = cursor
           /\ \A p \in 1 .. n : r[p] \in stayed => IF p <= c THEN Once(r[p]) ELSE Never(r[p])
    BY <1>1, <2>1 DEF Walk
  <2>3. cursor' = DeviceAfter(n, r, c)
    BY <1>1, <2>1, <2>2, NextOfRing
  <2>4. seen \in Seq(Devices) /\ stayed \subseteq {r[i] : i \in 1 .. n}
    BY <1>1 DEF Walk
  <2>5. CASE c < n
    <3>1. c + 1 \in 1 .. n /\ cursor' = r[c + 1] /\ r[c + 1] \in Devices
      BY <1>1, <2>3, <2>5 DEF DeviceAfter, Ring
    <3>2. cursor' # G!NULL /\ seen' = Append(seen, r[c + 1])
      BY <2>1, <3>1, Names
    <3>3. /\ seen' \in Seq(Devices)
          /\ Never(r[c + 1]) => Once(r[c + 1])'
          /\ \A d : d # r[c + 1] => ((Once(d) => Once(d)') /\ (Never(d) => Never(d)'))
      BY <2>4, <3>1, <3>2, SeesNext
    <3>4. ASSUME NEW p \in 1 .. n, r[p] \in stayed PROVE IF p <= c + 1 THEN Once(r[p])' ELSE Never(r[p])'
      <4>1. IF p <= c THEN Once(r[p]) ELSE Never(r[p])
        BY <2>2, <3>4
      <4>2. CASE p = c + 1
        BY <3>3, <4>1, <4>2
      <4>3. CASE p # c + 1
        <5>1. r[p] # r[c + 1]
          BY <1>1, <3>1, <4>3 DEF Ring
        <5>2. p <= c <=> p <= c + 1
          BY <4>3
        <5> QED BY <3>3, <4>1, <5>1, <5>2
      <4> QED BY <4>2, <4>3
    <3>5. \E k \in 1 .. n :
             /\ r[k] = cursor'
             /\ \A p \in 1 .. n : r[p] \in stayed' => IF p <= k THEN Once(r[p])' ELSE Never(r[p])'
      BY <2>1, <3>1, <3>4
    <3> QED BY <1>3, <2>1, <2>4, <3>2, <3>3, <3>5 DEF Walk, G!NULL
  <2>6. CASE c = n
    <3>1. cursor' = G!NULL /\ seen' = seen
      BY <2>1, <2>3, <2>6 DEF DeviceAfter
    <3>2. \A e : Once(e)' <=> Once(e)
      BY <3>1 DEF Once
    <3>3. \A d \in stayed : Once(d)
      <4> SUFFICES ASSUME NEW d \in stayed PROVE Once(d)
        OBVIOUS
      <4>1. PICK p \in 1 .. n : d = r[p]
        BY <2>4
      <4>2. p <= c
        BY <2>6
      <4> QED BY <2>2, <4>1, <4>2
    <3> QED BY <1>3, <2>1, <2>4, <3>1, <3>2, <3>3 DEF Walk, G!NULL
  <2> QED BY <2>5, <2>6
<1> QED BY <1>4, <1>5

LEMMA ListRests == ASSUME RingInv, UNCHANGED <<next, prev, cursor, seen, stayed>> PROVE RingInv'
<1>0. PICK n \in Nat : \E r \in [0 .. n + 1 -> G!Nodes] : Ring(n, r) /\ Walk(n, r)
  BY DEF RingInv
<1>1. PICK r \in [0 .. n + 1 -> G!Nodes] : Ring(n, r) /\ Walk(n, r)
  BY <1>0
<1>2. Ring(n, r)' /\ r \in [0 .. n + 1 -> G!Nodes']
  BY <1>1 DEF Ring, G!Nodes, G!LIST, G!NULL
<1>3. \A e : /\ Once(e)' <=> Once(e)
             /\ Never(e)' <=> Never(e)
  BY DEF Once, Never
<1>4. Walk(n, r)'
  BY <1>1, <1>3 DEF Walk, G!NULL
<1> QED BY <1>2, <1>4 DEF RingInv

LEMMA DeviceKeeps ==
    ASSUME RingInv, NEW d \in Devices, G!AddDevice(d) \/ G!RemoveDevice(d)
    PROVE  RingInv'
<1>0. PICK n \in Nat : \E r \in [0 .. n + 1 -> G!Nodes] : Ring(n, r) /\ Walk(n, r)
  BY DEF RingInv
<1>1. PICK r \in [0 .. n + 1 -> G!Nodes] : Ring(n, r) /\ Walk(n, r)
  BY <1>0
<1>2. G!is_exist_device(d) <=> d \in {r[i] : i \in 1 .. n}
  BY <1>1, ExistsInRing
<1>3. CASE G!AddDevice(d)
  <2>1. UNCHANGED <<cursor, seen, stayed>>
        /\ IF G!is_exist_device(d) THEN UNCHANGED <<next, prev>> ELSE G!tlk_dlist_append(d)
    BY <1>3 DEF G!AddDevice
  <2>2. CASE G!is_exist_device(d)
    BY <2>1, <2>2, ListRests
  <2>3. CASE ~G!is_exist_device(d)
    BY <1>1, <1>2, <2>1, <2>3, AppendKeeps
  <2> QED BY <2>2, <2>3
<1>4. CASE G!RemoveDevice(d)
  <2>1. /\ cursor # d /\ UNCHANGED <<cursor, seen>> /\ stayed' = stayed \ {d}
        /\ IF G!is_exist_device(d) THEN G!tlk_dlist_remove(d) ELSE UNCHANGED <<next, prev>>
    BY <1>4 DEF G!RemoveDevice
  <2>2. CASE G!is_exist_device(d)
    <3>1. PICK j \in 1 .. n : d = r[j]
      BY <1>2, <2>2
    <3> QED BY <1>1, <2>1, <2>2, <3>1, RemoveKeeps
  <2>3. CASE ~G!is_exist_device(d)
    <3>1. d \notin stayed
      BY <1>1, <1>2, <2>3 DEF Walk
    <3>2. stayed' = stayed
      BY <2>1, <3>1
    <3> QED BY <2>1, <2>3, <3>2, ListRests
  <2> QED BY <2>2, <2>3
<1> QED BY <1>3, <1>4

LEMMA RingStarts == G!Init => RingInv
<1> SUFFICES ASSUME G!Init PROVE RingInv
  OBVIOUS
<1>1. /\ next = [d \in G!Nodes |-> IF d = G!LIST THEN G!LIST ELSE G!NULL] /\ prev = next
      /\ cursor = G!NULL /\ seen = <<>> /\ stayed = {}
  BY DEF G!Init
<1> DEFINE r == [i \in 0 .. 1 |-> G!LIST]
<1>2. r \in [0 .. 0 + 1 -> G!Nodes] /\ r[0] = G!LIST /\ r[1] = G!LIST
  BY Names
<1>3. next[G!LIST] = G!LIST /\ \A d \in Devices : next[d] = G!NULL
  BY <1>1, Names
<1>4. next \in [G!Nodes -> G!Nodes \cup {G!NULL}]
  BY <1>1, Names
<1> HIDE DEF r
<1>5. Ring(0, r)
  <2>1. \A i \in 0 .. 0 : next[r[i]] = r[i + 1] /\ prev[r[i + 1]] = r[i]
    <3>1. \A i \in 0 .. 0 : i = 0 /\ i + 1 = 1
      OBVIOUS
    <3> QED BY <1>1, <1>2, <1>3, <3>1
  <2> QED BY <1>1, <1>2, <1>3, <1>4, <2>1 DEF Ring
<1>6. Walk(0, r)
  BY <1>1 DEF Walk
<1> QED BY <1>2, <1>5, <1>6 DEF RingInv

LEMMA RingTrue == RingInv => G!WalkSeesAll
<1> SUFFICES ASSUME RingInv PROVE G!WalkSeesAll
  OBVIOUS
<1>0. PICK n \in Nat : \E r \in [0 .. n + 1 -> G!Nodes] : Ring(n, r) /\ Walk(n, r)
  BY DEF RingInv
<1>1. PICK r \in [0 .. n + 1 -> G!Nodes] : Ring(n, r) /\ Walk(n, r)
  BY <1>0
<1>2. ASSUME cursor = G!NULL, seen # <<>>, NEW d \in stayed
      PROVE  G!Cardinality({i \in DOMAIN seen : seen[i] = d}) = 1
  <2>1. Once(d) /\ seen \in Seq(Devices)
    BY <1>1, <1>2 DEF Walk
  <2>2. PICK i \in 1 .. Len(seen) : \A j \in 1 .. Len(seen) : seen[j] = d <=> j = i
    BY <2>1 DEF Once
  <2>3. {j \in DOMAIN seen : seen[j] = d} = {i}
    BY <2>1, <2>2
  <2> QED BY <2>3, FS_Singleton, HelperCardinality
<1>3. ASSUME NEW x \in G!Nodes, next[x] # G!NULL PROVE prev[next[x]] = x
  <2>1. \E i \in 0 .. n : x = r[i]
    <3>1. CASE x = G!LIST
      <4>1. 0 \in 0 .. n /\ x = r[0]
        BY <1>1, <3>1 DEF Ring
      <4> QED BY <4>1
    <3>2. CASE x # G!LIST
      <4>1. x \in {r[i] : i \in 1 .. n}
        BY <1>1, <1>3, <3>2, Names DEF Ring
      <4> QED BY <4>1
    <3> QED BY <3>1, <3>2
  <2>2. PICK i \in 0 .. n : x = r[i]
    BY <2>1
  <2> QED BY <1>1, <2>2 DEF Ring
<1> QED BY <1>2, <1>3 DEF G!WalkSeesAll

-----------------------------------------------------------------------------
(* Common helpers: the heap. *)

\* Blocks follow each other from the start of the heap to its end so far.
HeapInv ==
    /\ heap_end \in HEAP_START .. HEAP_END
    /\ blocks \in Seq([from : Nat, to : Nat])
    /\ \A i \in 1 .. Len(blocks) :
          HEAP_START <= blocks[i].from /\ blocks[i].from < blocks[i].to /\ blocks[i].to <= heap_end
    /\ \A i, j \in 1 .. Len(blocks) : i < j => blocks[i].to <= blocks[j].from

LEMMA BlocksOf ==
    ASSUME HeapInv
    PROVE  /\ \A i \in 1 .. Len(blocks) :
                /\ blocks[i] \in [from : Nat, to : Nat] /\ blocks[i].from \in Nat /\ blocks[i].to \in Nat
                /\ HEAP_START <= blocks[i].from /\ blocks[i].from < blocks[i].to /\ blocks[i].to <= heap_end
           /\ \A i, j \in 1 .. Len(blocks) : i < j => blocks[i].to <= blocks[j].from
<1>1. \A i \in 1 .. Len(blocks) : blocks[i] \in [from : Nat, to : Nat]
  <2>1. blocks \in Seq([from : Nat, to : Nat])
    BY Zenon DEF HeapInv
  <2> QED BY <2>1, ElementOfSeq
<1>2. \A b \in [from : Nat, to : Nat] : b.from \in Nat /\ b.to \in Nat
  OBVIOUS
<1>3. \A i \in 1 .. Len(blocks) : blocks[i].from \in Nat /\ blocks[i].to \in Nat
  BY <1>1, <1>2
<1>4. \A i \in 1 .. Len(blocks) :
         HEAP_START <= blocks[i].from /\ blocks[i].from < blocks[i].to /\ blocks[i].to <= heap_end
  BY Zenon DEF HeapInv
<1>5. \A i, j \in 1 .. Len(blocks) : i < j => blocks[i].to <= blocks[j].from
  BY Zenon DEF HeapInv
<1> QED BY <1>1, <1>3, <1>4, <1>5

LEMMA BelowIsPrefix ==
    ASSUME HeapInv, NEW x \in Nat
    PROVE  G!below(x) \in 0 .. Len(blocks) /\ \A i \in 1 .. G!below(x) : blocks[i].to <= x
<1> DEFINE ended == {i \in 1 .. Len(blocks) : blocks[i].to <= x}
           rest == {i \in 1 .. Len(blocks) : ~(blocks[i].to <= x)}
<1>1. PICK n \in Nat : n = Len(blocks)
  BY DEF HeapInv
<1>2. G!below(x) = Cardinality(ended)
  <2>1. DOMAIN blocks = 1 .. Len(blocks)
    BY DEF HeapInv
  <2> QED BY <2>1, HelperCardinality DEF G!below
<1>3. ASSUME NEW i \in 1 .. n, NEW j \in 1 .. n, i < j, blocks[j].to <= x PROVE blocks[i].to <= x
  <2>1. blocks[i].to <= blocks[j].from /\ blocks[j].from < blocks[j].to
    BY <1>1, <1>3, BlocksOf
  <2>2. blocks[i].to \in Nat /\ blocks[j].to \in Nat /\ blocks[j].from \in Nat
    BY <1>1, BlocksOf
  <2> QED BY <1>3, <2>1, <2>2
<1>4. \E k \in 0 .. n : ended = 1 .. k
  <2>1. CASE rest = {}
    BY <1>1, <2>1
  <2>2. CASE rest # {}
    <3>1. rest \subseteq Nat
      OBVIOUS
    <3>2. PICK m \in rest : \A i \in rest : m <= i
      BY <2>2, <3>1, LeastExists
    <3>3. m \in 1 .. n /\ ~(blocks[m].to <= x)
      BY <1>1
    <3>4. ASSUME NEW i \in 1 .. n PROVE blocks[i].to <= x <=> i < m
      <4>1. CASE i < m
        BY <1>1, <3>2, <3>3, <4>1
      <4>2. CASE i = m
        BY <3>3, <4>2
      <4>3. CASE m < i
        BY <1>3, <3>3, <4>3
      <4> QED BY <3>3, <4>1, <4>2, <4>3
    <3>5. ended = 1 .. m - 1 /\ m - 1 \in 0 .. n
      BY <1>1, <3>3, <3>4
    <3> QED BY <3>5
  <2> QED BY <2>1, <2>2
<1>5. PICK k \in 0 .. n : ended = 1 .. k
  BY <1>4
<1>6. Cardinality(1 .. k) = k
  BY <1>5, FS_Interval
<1>7. G!below(x) = k
  BY <1>2, <1>5, <1>6
<1> QED BY <1>1, <1>5, <1>7

LEMMA Unwrapped == ASSUME NEW u \in Nat, NEW x \in Nat, x < u PROVE (x % u) = x
OBVIOUS

LEMMA SbrkKeeps ==
    ASSUME HeapInv, NEW incr \in -(UINTPTR \div 2) .. UINTPTR \div 2 - 1, G!Sbrk(incr)
    PROVE  HeapInv'
<1>1. /\ heap_end + incr >= HEAP_START /\ heap_end' = heap_end + incr
      /\ ~(((heap_end + incr) % UINTPTR) > HEAP_END)
      /\ blocks' = IF incr > 0 THEN Append(blocks, [from |-> heap_end, to |-> heap_end + incr])
                   ELSE SubSeq(blocks, 1, G!below(heap_end + incr))
  BY DEF G!Sbrk, G!out_of_range
<1>2. heap_end \in Nat /\ HEAP_START \in Nat /\ HEAP_END \in Nat /\ incr \in Int /\ UINTPTR \in Nat
  BY HelpersAssumption DEF HeapInv
<1>3. heap_end + incr \in Nat /\ heap_end + incr < UINTPTR
  BY <1>1, <1>2, HelpersAssumption DEF HeapInv
<1>4. heap_end' \in HEAP_START .. HEAP_END
  <2>1. ((heap_end + incr) % UINTPTR) = heap_end + incr
    BY <1>2, <1>3, Unwrapped
  <2> QED BY <1>1, <1>2, <1>3, <2>1
<1>5. PICK n \in Nat : n = Len(blocks)
  BY DEF HeapInv
<1>6. /\ blocks \in Seq([from : Nat, to : Nat])
      /\ \A i \in 1 .. n : /\ blocks[i] \in [from : Nat, to : Nat]
                           /\ blocks[i].from \in Nat /\ blocks[i].to \in Nat
                           /\ HEAP_START <= blocks[i].from /\ blocks[i].from < blocks[i].to
                           /\ blocks[i].to <= heap_end
      /\ \A i, j \in 1 .. n : i < j => blocks[i].to <= blocks[j].from
  <2>1. blocks \in Seq([from : Nat, to : Nat])
    BY DEF HeapInv
  <2> QED BY <1>5, <2>1, BlocksOf
<1>7. CASE incr > 0
  <2> DEFINE new == [from |-> heap_end, to |-> heap_end + incr]
  <2>1. new \in [from : Nat, to : Nat] /\ new.from = heap_end /\ new.to = heap_end'
    BY <1>1, <1>2, <1>3
  <2> HIDE DEF new
  <2>2. blocks' = Append(blocks, new)
    BY <1>1, <1>7 DEF new
  <2>3. /\ blocks' \in Seq([from : Nat, to : Nat]) /\ Len(blocks') = n + 1
        /\ \A i \in 1 .. n : blocks'[i] = blocks[i]
        /\ blocks'[n + 1] = new
    BY <1>5, <1>6, <2>1, <2>2, AppendProperties
  <2>4. \A i \in 1 .. n + 1 : i \in 1 .. n \/ i = n + 1
    OBVIOUS
  <2>5. heap_end < heap_end' /\ HEAP_START <= heap_end /\ heap_end' \in Nat
    BY <1>1, <1>2, <1>3, <1>7 DEF HeapInv
  <2>6. ASSUME NEW i \in 1 .. n + 1
        PROVE  HEAP_START <= blocks'[i].from /\ blocks'[i].from < blocks'[i].to /\ blocks'[i].to <= heap_end'
    <3>1. CASE i \in 1 .. n
      <4>1. /\ blocks'[i] = blocks[i] /\ blocks[i].to \in Nat /\ blocks[i].to <= heap_end
            /\ HEAP_START <= blocks[i].from /\ blocks[i].from < blocks[i].to
        BY <1>6, <2>3, <3>1
      <4> QED BY <1>2, <2>5, <4>1
    <3>2. CASE i = n + 1
      BY <1>2, <2>1, <2>3, <2>5, <3>2
    <3> QED BY <2>4, <3>1, <3>2
  <2>7. ASSUME NEW i \in 1 .. n + 1, NEW j \in 1 .. n + 1, i < j PROVE blocks'[i].to <= blocks'[j].from
    <3>1. i \in 1 .. n
      BY <2>7
    <3>2. blocks'[i] = blocks[i]
      BY <2>3, <3>1
    <3>3. CASE j \in 1 .. n
      <4>1. blocks'[j] = blocks[j] /\ blocks[i].to <= blocks[j].from
        BY <1>6, <2>3, <2>7, <3>1, <3>3
      <4> QED BY <3>2, <4>1
    <3>4. CASE j = n + 1
      <4>1. blocks'[j].from = heap_end /\ blocks[i].to <= heap_end
        BY <1>6, <2>1, <2>3, <3>1, <3>4
      <4> QED BY <3>2, <4>1
    <3> QED BY <2>4, <3>3, <3>4
  <2> QED BY <1>4, <2>3, <2>6, <2>7 DEF HeapInv
<1>8. CASE ~(incr > 0)
  <2>1. PICK k \in 0 .. n : k = G!below(heap_end')
    BY <1>1, <1>3, <1>5, BelowIsPrefix
  <2>2. \A i \in 1 .. k : blocks[i].to <= heap_end'
    BY <1>1, <1>3, <2>1, BelowIsPrefix
  <2>3. blocks' = SubSeq(blocks, 1, k)
    BY <1>1, <1>8, <2>1
  <2>4. /\ blocks' \in Seq([from : Nat, to : Nat]) /\ Len(blocks') = k
        /\ \A i \in 1 .. k : blocks'[i] = blocks[i]
    <3>1. \A i \in 1 .. k : blocks[i] \in [from : Nat, to : Nat]
      BY <1>6
    <3>2. /\ SubSeq(blocks, 1, k) \in Seq([from : Nat, to : Nat])
          /\ Len(SubSeq(blocks, 1, k)) = IF 1 <= k THEN k - 1 + 1 ELSE 0
          /\ \A i \in 1 .. k - 1 + 1 : SubSeq(blocks, 1, k)[i] = blocks[1 + i - 1]
      BY <3>1, SubSeqProperties
    <3> QED BY <2>3, <3>2
  <2>5. \A i \in 1 .. k : i \in 1 .. n
    OBVIOUS
  <2> QED BY <1>4, <1>6, <2>2, <2>4, <2>5 DEF HeapInv
<1> QED BY <1>2, <1>7, <1>8

LEMMA HeapTrue == HeapInv => G!BlocksApart
<1> SUFFICES ASSUME HeapInv PROVE G!BlocksApart
  OBVIOUS
<1>1. DOMAIN blocks = 1 .. Len(blocks)
  BY DEF HeapInv
<1>2. ASSUME NEW i \in 1 .. Len(blocks) PROVE blocks[i].from >= HEAP_START /\ blocks[i].to <= HEAP_END
  <2>1. /\ blocks[i].from \in Nat /\ blocks[i].to \in Nat
        /\ HEAP_START <= blocks[i].from /\ blocks[i].to <= heap_end
    BY BlocksOf
  <2>2. heap_end \in Nat /\ heap_end <= HEAP_END /\ HEAP_START \in Nat /\ HEAP_END \in Nat
    BY HelpersAssumption DEF HeapInv
  <2> QED BY <2>1, <2>2
<1>3. \A i, j \in 1 .. Len(blocks) : i < j => blocks[i].to <= blocks[j].from
  BY BlocksOf
<1> QED BY <1>1, <1>2, <1>3 DEF G!BlocksApart

-----------------------------------------------------------------------------
(* Common helpers: the text of a buffer. *)

LEMMA FittingFits ==
    ASSUME NEW n \in Nat, NEW dst_len \in Nat \ {0}
    PROVE  /\ G!fitting(n, dst_len) \in 0 .. n
           /\ 2 * G!fitting(n, dst_len) < dst_len
<1> DEFINE converted == {i \in 0 .. n - 1 : 2 * i + 3 < dst_len}
<1>1. \E m \in 0 .. n : converted = 0 .. m - 1 /\ 2 * m < dst_len
  <2>1. CASE dst_len <= 3
    <3>1. converted = 0 .. 0 - 1 /\ 2 * 0 < dst_len /\ 0 \in 0 .. n
      BY <2>1
    <3> QED BY <3>1
  <2>2. CASE dst_len > 3
    <3>1. PICK h \in Nat : 2 * h <= dst_len - 2 /\ dst_len - 2 < 2 * h + 2
      <4>1. /\ (dst_len - 2) \div 2 \in Nat
            /\ 2 * ((dst_len - 2) \div 2) <= dst_len - 2
            /\ dst_len - 2 < 2 * ((dst_len - 2) \div 2) + 2
        BY <2>2
      <4> QED BY <4>1
    <3>2. CASE h <= n
      <4>1. converted = 0 .. h - 1 /\ h \in 0 .. n /\ 2 * h < dst_len
        BY <3>1, <3>2
      <4> QED BY <4>1
    <3>3. CASE n < h
      <4>1. converted = 0 .. n - 1 /\ n \in 0 .. n /\ 2 * n < dst_len
        BY <3>1, <3>3
      <4> QED BY <4>1
    <3> QED BY <3>2, <3>3
  <2> QED BY <2>1, <2>2
<1>2. PICK m \in 0 .. n : converted = 0 .. m - 1 /\ 2 * m < dst_len
  BY <1>1
<1>3. Cardinality(0 .. m - 1) = m
  <2>1. 0 \in Int /\ m - 1 \in Int /\ (IF 0 > m - 1 THEN 0 ELSE m - 1 - 0 + 1) = m
    OBVIOUS
  <2> QED BY <2>1, FS_Interval
<1>4. G!fitting(n, dst_len) = m
  BY <1>2, <1>3, HelperCardinality DEF G!fitting
<1> QED BY <1>2, <1>4

LEMMA NibbleBack ==
    ASSUME NEW v \in 0 .. 15
    PROVE  v = IF G!convert_nibble(v) < 97 THEN G!convert_nibble(v) - 48 ELSE G!convert_nibble(v) - 87
BY DEF G!convert_nibble

LEMMA ConvertFits ==
    ASSUME NEW n \in Nat, NEW buf \in [1 .. n -> Bytes], NEW dst_len \in 1 .. MaxDst,
           text' = [src |-> buf, dst_len |-> dst_len, out |-> G!convert_buf_to_hex(buf, dst_len)]
    PROVE  G!TextFits'
<1>1. Len(buf) = n
  OBVIOUS
<1>2. PICK m \in 0 .. n : m = G!fitting(n, dst_len) /\ 2 * m < dst_len
  <2>1. dst_len \in Nat \ {0}
    BY HelpersAssumption
  <2> QED BY <2>1, FittingFits
<1> DEFINE hex == [i \in 1 .. 2 * m |-> G!convert_byte_to_char(buf[(i + 1) \div 2], (i % 2) = 1)]
<1>3. text'.src = buf /\ text'.dst_len = dst_len /\ text'.out = hex
  BY <1>1, <1>2 DEF G!convert_buf_to_hex
<1>4. Len(hex) = 2 * m
  <2>1. 2 * m \in Nat
    OBVIOUS
  <2> QED BY <2>1
<1>5. ASSUME NEW k \in 1 .. m
      PROVE  /\ hex[2 * k - 1] = G!convert_nibble(buf[k] \div 16)
             /\ hex[2 * k] = G!convert_nibble((buf[k] % 16))
  <2>1. /\ 2 * k - 1 \in 1 .. 2 * m /\ 2 * k \in 1 .. 2 * m
        /\ (2 * k - 1 + 1) \div 2 = k /\ ((2 * k - 1) % 2) = 1
        /\ (2 * k + 1) \div 2 = k /\ ((2 * k) % 2) = 0
    OBVIOUS
  <2>2. hex[2 * k - 1] = G!convert_byte_to_char(buf[k], TRUE)
    BY <2>1
  <2>3. hex[2 * k] = G!convert_byte_to_char(buf[k], FALSE)
    <3>1. PICK i \in 1 .. 2 * m : i = 2 * k /\ (i + 1) \div 2 = k /\ (i % 2) = 0
      BY <2>1
    <3>2. hex[i] = G!convert_byte_to_char(buf[(i + 1) \div 2], (i % 2) = 1)
      BY <3>1
    <3>3. ((i % 2) = 1) = FALSE
      BY <3>1
    <3> QED BY <3>1, <3>2, <3>3, Zenon
  <2> QED BY <2>2, <2>3 DEF G!convert_byte_to_char
<1> HIDE DEF hex
<1>6. ASSUME NEW k \in 1 .. m
      PROVE  LET digit(c) == IF c < 97 THEN c - 48 ELSE c - 87
             IN  buf[k] = 16 * digit(hex[2 * k - 1]) + digit(hex[2 * k])
  <2>1. PICK b \in 0 .. 255 : b = buf[k]
    <3>1. k \in 1 .. n
      OBVIOUS
    <3> QED BY <3>1, HelpersAssumption
  <2>2. PICK hi \in 0 .. 15 : hi = b \div 16
    OBVIOUS
  <2>3. PICK lo \in 0 .. 15 : lo = (b % 16)
    OBVIOUS
  <2>4. b = 16 * hi + lo
    BY <2>2, <2>3
  <2>5. hex[2 * k - 1] = G!convert_nibble(hi) /\ hex[2 * k] = G!convert_nibble(lo)
    BY <1>5, <2>1, <2>2, <2>3
  <2>6. hi = IF G!convert_nibble(hi) < 97 THEN G!convert_nibble(hi) - 48 ELSE G!convert_nibble(hi) - 87
    BY NibbleBack
  <2>7. lo = IF G!convert_nibble(lo) < 97 THEN G!convert_nibble(lo) - 48 ELSE G!convert_nibble(lo) - 87
    BY NibbleBack
  <2>8. hi = IF hex[2 * k - 1] < 97 THEN hex[2 * k - 1] - 48 ELSE hex[2 * k - 1] - 87
    BY <2>5, <2>6, Zenon
  <2>9. lo = IF hex[2 * k] < 97 THEN hex[2 * k] - 48 ELSE hex[2 * k] - 87
    BY <2>5, <2>7, Zenon
  <2> QED BY <2>1, <2>4, <2>8, <2>9, Zenon
<1>7. \A k \in 1 .. Len(hex) \div 2 : k \in 1 .. m
  BY <1>4
<1> QED BY <1>2, <1>3, <1>4, <1>6, <1>7 DEF G!TextFits

-----------------------------------------------------------------------------
(* Common helpers: the theorem. *)

CommonInv == RingInv /\ HeapInv /\ G!TextFits

LEMMA CommonStarts == G!Init => CommonInv
<1> SUFFICES ASSUME G!Init PROVE CommonInv
  OBVIOUS
<1>1. heap_end = HEAP_START /\ blocks = <<>> /\ text = [src |-> <<>>, dst_len |-> MaxDst, out |-> <<>>]
  BY DEF G!Init
<1>2. HeapInv
  BY <1>1, HelpersAssumption DEF HeapInv
<1>3. G!TextFits
  <2>1. text.out = <<>> /\ text.dst_len = MaxDst
    BY <1>1
  <2>2. Len(text.out) = 0 /\ Len(text.out) \div 2 = 0
    BY <2>1
  <2> QED BY <2>1, <2>2, HelpersAssumption DEF G!TextFits
<1> QED BY <1>2, <1>3, RingStarts DEF CommonInv

LEMMA TextRests == G!TextFits /\ UNCHANGED text => G!TextFits'
BY DEF G!TextFits

LEMMA HeapRests == HeapInv /\ UNCHANGED <<heap_end, blocks>> => HeapInv'
BY DEF HeapInv

LEMMA CommonKeeps == CommonInv /\ [Next]_vars => CommonInv'
<1> SUFFICES ASSUME CommonInv, [Next]_vars PROVE CommonInv'
  OBVIOUS
<1>1. RingInv /\ HeapInv /\ G!TextFits
  BY DEF CommonInv
<1>2. CASE UNCHANGED common_vars
  BY <1>1, <1>2, ListRests, HeapRests, TextRests DEF CommonInv, common_vars
<1>3. ASSUME NEW d \in Devices, G!AddDevice(d) \/ G!RemoveDevice(d) PROVE CommonInv'
  <2>1. UNCHANGED <<heap_end, blocks, text>>
    BY <1>3 DEF G!AddDevice, G!RemoveDevice
  <2>2. RingInv'
    BY <1>1, <1>3, DeviceKeeps
  <2> QED BY <1>1, <2>1, <2>2, HeapRests, TextRests DEF CommonInv
<1>4. CASE G!WalkStart \/ G!WalkStep
  <2>1. UNCHANGED <<heap_end, blocks, text>>
    BY <1>4 DEF G!WalkStart, G!WalkStep
  <2>2. RingInv'
    BY <1>1, <1>4, WalkKeeps
  <2> QED BY <1>1, <2>1, <2>2, HeapRests, TextRests DEF CommonInv
<1>5. ASSUME NEW incr \in -(UINTPTR \div 2) .. UINTPTR \div 2 - 1, G!Sbrk(incr) PROVE CommonInv'
  <2>1. UNCHANGED <<next, prev, cursor, seen, stayed, text>>
    BY <1>5 DEF G!Sbrk
  <2>2. HeapInv'
    BY <1>1, <1>5, SbrkKeeps
  <2> QED BY <1>1, <2>1, <2>2, ListRests, TextRests DEF CommonInv
<1>6. CASE G!Convert
  <2>1. UNCHANGED <<next, prev, cursor, seen, stayed, heap_end, blocks>>
    BY <1>6 DEF G!Convert
  <2>2. G!TextFits'
    <3>1. PICK n \in 0 .. MaxSrc : \E buf \in [1 .. n -> Bytes], dst_len \in 1 .. MaxDst :
             text' = [src |-> buf, dst_len |-> dst_len, out |-> G!convert_buf_to_hex(buf, dst_len)]
      BY <1>6 DEF G!Convert
    <3>2. n \in Nat
      BY HelpersAssumption
    <3> QED BY <3>1, <3>2, ConvertFits
  <2> QED BY <1>1, <2>1, <2>2, ListRests, HeapRests DEF CommonInv
<1>7. CASE G!Next
  BY <1>3, <1>4, <1>5, <1>6, <1>7 DEF G!Next
<1> QED BY <1>2, <1>7, CommonMoves

LEMMA CommonHolds == CommonInv => HelpersHold
BY RingTrue, HeapTrue DEF CommonInv, HelpersHold

(***************************************************************************)
(* For any set of devices, any heap and any buffers: a walk over the       *)
(* devices sees each one that stays, once, whatever tlk_storage_add_device *)
(* and tlk_storage_remove_device do meanwhile, the blocks of _sbrk() lie   *)
(* apart in the heap, and tlk_str_utils_convert_buf_to_hex() writes the    *)
(* beginning of its source with room left for the zero.                    *)
(***************************************************************************)
THEOREM HelpersAreSound == Spec => []HelpersHold
<1>1. Init => CommonInv
  BY CommonStarts DEF Init
<1> QED BY <1>1, CommonKeeps, CommonHolds, PTL DEF Spec
=============================================================================
