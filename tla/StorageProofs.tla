---------------------------- MODULE StorageProofs ----------------------------
(***************************************************************************)
(* Proofs about Storage for every set of devices, page size, contents and  *)
(* call: a call that returns 0 did what it was asked and nothing else, and *)
(* a device error or a power loss at any step damages at most one page.    *)
(***************************************************************************)
EXTENDS Storage, WellFoundedInduction, TLAPS

-----------------------------------------------------------------------------
(* Arithmetic of pages: offsets, starts and ends for any page size. *)

\* Quotient, multiple and remainder.
LEMMA Division ==
    ASSUME NEW x \in Nat, NEW P \in Nat \ {0}
    PROVE  \E q \in Nat, u \in Nat, r \in 0 .. P - 1 : x % P = r /\ u = P * q /\ x = u + r
<1>1. x % P = x - P * (x \div P)
  OBVIOUS
<1>2. x \div P \in Nat
  OBVIOUS
<1>3. PICK q \in Nat : q = x \div P
  BY <1>2
<1>4. x % P = x - P * q
  BY <1>1, <1>3
<1>5. PICK u \in Nat : u = P * q
  OBVIOUS
<1>6. x % P \in 0 .. P - 1
  OBVIOUS
<1>7. PICK r \in 0 .. P - 1 : r = x % P
  BY <1>6
<1>8. r = x - u
  BY <1>4, <1>5, <1>7
<1>9. x = u + r
  BY ONLY <1>8, x \in Nat, u \in Nat, r \in 0 .. P - 1, P \in Nat
<1> QED BY <1>5, <1>7, <1>9

\* Two multiples less than a page apart the wrong way round are in order.
LEMMA Multiples ==
    ASSUME NEW P \in Nat \ {0}, NEW q \in Nat, NEW c \in Nat, P * q + P > P * c
    PROVE  P * q >= P * c
<1>1. q >= c
  <2> SUFFICES ASSUME q <= c - 1 PROVE FALSE
    OBVIOUS
  <2>1. P * q <= P * (c - 1)
    OBVIOUS
  <2>2. P * (c - 1) = P * c - P
    OBVIOUS
  <2> QED BY <2>1, <2>2
<1> QED BY <1>1

\* The page around an address of an aligned area lies within the area.
LEMMA PageWithin ==
    ASSUME NEW x \in Nat, NEW P \in Nat \ {0}, NEW b \in Nat, NEW s \in Nat,
           b % P = 0, s % P = 0, x >= b, x < b + s
    PROVE  b <= x - (x % P) /\ x - (x % P) + P <= b + s
<1>1. PICK q \in Nat, u \in Nat, r \in 0 .. P - 1 : x % P = r /\ u = P * q /\ x = u + r
  BY Division
<1>2. PICK c \in Nat, v \in Nat, r1 \in 0 .. P - 1 : b % P = r1 /\ v = P * c /\ b = v + r1
  BY Division
<1>3. PICK d \in Nat, w \in Nat, r2 \in 0 .. P - 1 : s % P = r2 /\ w = P * d /\ s = w + r2
  BY Division
<1>4. v = b /\ w = s
  <2>1. r1 = 0 /\ r2 = 0
    BY <1>2, <1>3
  <2>2. b = v + r1 /\ s = w + r2
    BY <1>2, <1>3
  <2> QED BY ONLY <2>1, <2>2, v \in Nat, w \in Nat
<1>5. P * (c + d) = v + w
  <2>1. P * (c + d) = P * c + P * d
    OBVIOUS
  <2> QED BY <1>2, <1>3, <2>1
<1>6. P * (q + 1) = u + P
  <2>1. P * (q + 1) = P * q + P
    OBVIOUS
  <2> QED BY <1>1, <2>1
<1>7. x = u + r /\ v = b /\ w = s
  BY <1>1, <1>4
<1>8. u + P > v
  BY ONLY <1>7, x >= b, u \in Nat, r \in 0 .. P - 1, P \in Nat, v \in Nat
<1>9. v + w + P > u + P
  BY ONLY <1>7, x < b + s, u \in Nat, r \in 0 .. P - 1, P \in Nat, v \in Nat, w \in Nat
<1>10. u >= v
  <2>1. u = P * q /\ v = P * c
    BY <1>1, <1>2
  <2> QED BY <1>8, <2>1, Multiples
<1>11. v + w >= u + P
  <2>1. c + d \in Nat /\ q + 1 \in Nat
    OBVIOUS
  <2> QED BY <1>5, <1>6, <1>9, <2>1, Multiples
<1>12. x - r = u /\ x % P = r
  <2>1. x - r = u
    BY ONLY <1>7, u \in Nat, r \in 0 .. P - 1, P \in Nat
  <2> QED BY <1>1, <2>1
<1>13. b <= u /\ u + P <= b + s
  BY ONLY <1>7, <1>10, <1>11, u \in Nat, v \in Nat, w \in Nat, P \in Nat
<1> QED BY <1>12, <1>13, Zenon

\* The address after the end of a page is the start of one.
LEMMA NextPage ==
    ASSUME NEW x \in Nat, NEW P \in Nat \ {0}
    PROVE  (x + (P - (x % P))) % P = 0
<1>1. PICK q \in Nat, u \in Nat, r \in 0 .. P - 1 : x % P = r /\ u = P * q /\ x = u + r
  BY Division
<1>2. PICK n \in Nat : n = q + 1
  OBVIOUS
<1>3. P * n = u + P
  <2>1. P * (q + 1) = P * q + P
    OBVIOUS
  <2> QED BY <1>1, <1>2, <2>1
<1>4. (P * n) % P = 0
  BY ONLY P \in Nat \ {0}, n \in Nat
<1>5. x + (P - r) = u + P
  <2>1. x = u + r
    BY <1>1
  <2> QED BY ONLY <2>1, u \in Nat, r \in 0 .. P - 1, P \in Nat
<1>6. x + (P - (x % P)) = P * n
  BY <1>1, <1>3, <1>5, Zenon
<1> QED BY <1>4, <1>6, Zenon

\* A non-empty set of naturals has a least element, and a bounded one a greatest.
LEMMA LeastElement ==
    ASSUME NEW S, S \subseteq Nat, S # {}
    PROVE  Min(S) \in S /\ \A y \in S : Min(S) <= y
<1>1. PICK x \in S : \A y \in S : ~(<<y, x>> \in OpToRel(<, Nat))
  BY NatLessThanWellFounded, WFMin
<1>2. \A y \in S : x <= y
  <2> SUFFICES ASSUME NEW y \in S, y < x PROVE FALSE
    OBVIOUS
  <2>1. <<y, x>> \in OpToRel(<, Nat)
    BY DEF OpToRel
  <2> QED BY <1>1, <2>1
<1> QED BY <1>2, Zenon DEF Min

LEMMA GreatestElement ==
    ASSUME NEW n \in Nat, NEW S, S \subseteq 0 .. n, S # {}
    PROVE  Max(S) \in S /\ \A y \in S : y <= Max(S)
<1> DEFINE T == {n - y : y \in S}
<1>1. T \subseteq Nat
  OBVIOUS
<1>2. T # {}
  <2>1. PICK y \in S : TRUE
    OBVIOUS
  <2>2. n - y \in T
    OBVIOUS
  <2> QED BY <2>2
<1>3. PICK m \in T : \A y \in T : m <= y
  BY <1>1, <1>2, LeastElement
<1>4. PICK x \in S : m = n - x
  OBVIOUS
<1>5. \A y \in S : x >= y
  BY <1>3, <1>4
<1>6. Max(S) \in S /\ \A y \in S : Max(S) >= y
  BY <1>5, Zenon DEF Max
<1> QED BY <1>6

\* The smaller of two naturals.
LEMMA MinOfTwo ==
    ASSUME NEW a \in Nat, NEW b \in Nat
    PROVE  Min({a, b}) \in {a, b} /\ Min({a, b}) <= a /\ Min({a, b}) <= b
BY LeastElement, {a, b} \subseteq Nat, {a, b} # {}

-----------------------------------------------------------------------------
(* The inductive invariant, by the place the call is at. *)

\* The call was accepted: its range lies within the device.
CallOK ==
    /\ call.addr \in Nat /\ call.len \in Nat \ {0}
    /\ dev \in Devices
    /\ Base[dev] <= call.addr /\ call.addr + call.len <= Base[dev] + Size[dev]
    /\ call.op \in {"read", "erase", "write"}
    /\ call.op = "write" => call.buf \in [1 .. call.len -> Byte]

PagePcs == {"page", "head", "tail", "erase", "restore"}
Working == pc \in PagePcs \cup {"write"}

\* Between two pieces: at most the first of them starts inside a page.
PieceOK ==
    /\ call.op # "read"
    /\ done \in 0 .. call.len - 1
    /\ Page[dev] > 0 => done = 0 \/ page_offset = 0

\* What a byte should be when the call has got as far as address x.
Upto(x, a) == IF a < x THEN Wanted[a] ELSE before[a]

\* What the page should hold after its rewrite.
Target(a) == IF a \in Piece THEN bt_new(a) ELSE before[a]

\* The first n bytes of the buffer are what the page should hold.
Buffered(n) == \A i \in 0 .. n - 1 : buffer[i] = Target(page_start + i)

Contents ==
    /\ pc = "read" => call.op = "read" /\ mem = before
    /\ pc \in {"page", "head", "tail", "erase", "write"} => \A a \in Addr : mem[a] = Upto(at, a)
    /\ pc = "write" /\ Page[dev] > 0 => no_erase
    /\ pc = "tail" => Buffered(page_offset + piece_len)
    /\ pc \in {"erase", "restore"} => Buffered(Page[dev])
    /\ pc = "restore" => dirty # {}
    /\ pc = "restore" => \A a \in Addr : mem[a] = IF a \in PageArea THEN CLEAN ELSE Upto(at, a)

Outcome ==
    /\ Busy => result = "none"
    /\ pc \in {"boot", "idle"} => result = "none"
    /\ result = "0" => mem = Wanted
    /\ result \in {"-EIO", "lost"} =>
          \A a \in Addr \ WorkArea : mem[a] = Upto(at, a)

StoreInv ==
    /\ storage_device \in Seq(Devices)
    /\ mem \in [Addr -> Byte] /\ before \in [Addr -> Byte]
    /\ pc \in PagePcs \cup {"write", "read", "boot", "idle", "returned", "off"}
    /\ Busy => CallOK
    /\ Working => PieceOK
    /\ pc \in PagePcs => Page[dev] > 0
    /\ Contents
    /\ Outcome

-----------------------------------------------------------------------------
(* What the next piece of an accepted call is. *)

\* The constants' types, and a device's area within all addresses.
LEMMA DeviceTypes ==
    ASSUME NEW d \in Devices
    PROVE  /\ Base[d] \in Nat /\ Size[d] \in Nat \ {0} /\ Page[d] \in Nat
           /\ Base[d] .. Base[d] + Size[d] - 1 \subseteq Addr
BY DevicesAssumption DEF Addr, Area

LEMMA AddrsAreNaturals == Addr \subseteq Nat
<1> SUFFICES ASSUME NEW d \in Devices, NEW a \in Area(d) PROVE a \in Nat
  BY DEF Addr
<1> QED BY DeviceTypes DEF Area

\* The piece is not empty, ends within the call, and within the page it is in;
\* it is short of the call's end only when it reaches the end of its page (or
\* of the buffer); the page is the device's.
LEMMA PieceFacts ==
    ASSUME CallOK, PieceOK
    PROVE  /\ at \in Nat /\ at >= call.addr /\ piece_len \in Nat \ {0}
           /\ at + piece_len <= call.addr + call.len
           /\ Piece \subseteq Asked(call) /\ Piece \subseteq Addr
           /\ Page[dev] > 0 =>
                 /\ page_offset \in 0 .. Page[dev] - 1 /\ page_start \in Nat
                 /\ page_start + page_offset = at
                 /\ page_offset + piece_len <= Page[dev]
                 /\ PageArea \subseteq Addr /\ Piece \subseteq PageArea
                 /\ \/ at + piece_len = call.addr + call.len
                    \/ (at + piece_len) % Page[dev] = 0
<1> DEFINE len == call.len - done
           P == Page[dev]
<1>1. call.addr \in Nat /\ call.len \in Nat /\ done \in Nat /\ len \in Nat \ {0}
      /\ done + len = call.len /\ at = call.addr + done /\ at \in Nat /\ at >= call.addr
  BY DEF CallOK, PieceOK, at
<1>2. Base[dev] \in Nat /\ Size[dev] \in Nat /\ P \in Nat
      /\ Base[dev] .. Base[dev] + Size[dev] - 1 \subseteq Addr
  BY DeviceTypes DEF CallOK
<1>3. Base[dev] <= at /\ at + len <= Base[dev] + Size[dev]
  <2>1. Base[dev] <= call.addr /\ call.addr + call.len <= Base[dev] + Size[dev]
    BY DEF CallOK
  <2>2. PICK b \in Nat, z \in Nat : b = Base[dev] /\ z = Size[dev]
    BY <1>2
  <2>3. PICK a \in Nat, l \in Nat, d \in Nat : a = call.addr /\ l = call.len /\ d = done
    BY <1>1
  <2>4. PICK m \in Nat : m = len
    BY <1>1
  <2>5. b <= a /\ a + l <= b + z /\ d + m = l /\ at = a + d
    BY <1>1, <2>1, <2>2, <2>3, <2>4
  <2>6. b <= a + d /\ (a + d) + m <= b + z
    BY ONLY <2>5, b \in Nat, z \in Nat, a \in Nat, l \in Nat, d \in Nat, m \in Nat
  <2> HIDE DEF len
  <2> QED BY ONLY <2>2, <2>4, <2>5, <2>6
<1>4. CASE ~(P > 0)
  <2>1. piece_len \in Nat \ {0} /\ piece_len <= len
    <3>1. CASE call.op = "erase"
      <4>1. Min({len, DefaultBuffer}) \in {len, DefaultBuffer} /\ Min({len, DefaultBuffer}) <= len
        BY <1>1, MinOfTwo, SizesAssumption
      <4>2. piece_len = Min({len, DefaultBuffer})
        BY <1>4, <3>1 DEF piece_len
      <4> QED BY <1>1, <4>1, <4>2, SizesAssumption
    <3>2. CASE call.op # "erase"
      BY <1>1, <1>4, <3>2 DEF piece_len
    <3> QED BY <3>1, <3>2
  <2>2. PICK n \in Nat \ {0} : n = piece_len
    BY <2>1
  <2>3. n <= len
    BY <2>1, <2>2
  <2> HIDE DEF len
  <2>4. at + n <= call.addr + call.len
    BY ONLY <1>1, <2>3, n \in Nat
  <2>5. at .. at + n - 1 \subseteq Asked(call)
    BY <1>1, <2>4 DEF Asked
  <2>6. at .. at + n - 1 \subseteq Addr
    BY <1>1, <1>2, <1>3, <2>3
  <2> QED BY <1>1, <1>4, <2>2, <2>4, <2>5, <2>6 DEF Piece
<1>5. CASE P > 0
  <2>1. P \in Nat \ {0} /\ Base[dev] % P = 0 /\ Size[dev] % P = 0
    BY <1>2, <1>5, AlignAssumption DEF CallOK
  <2>2. PICK o \in 0 .. P - 1 : o = page_offset /\ o = at % P
    <3>1. at % P \in 0 .. P - 1
      BY <1>1, <2>1
    <3> QED BY <3>1 DEF page_offset
  <2>3. PICK ps \in Int : ps = at - o
    BY <1>1
  <2>4. page_start = ps
    BY <2>2, <2>3 DEF page_start
  <2>5. Base[dev] <= ps /\ ps + P <= Base[dev] + Size[dev]
    <3>1. at < Base[dev] + Size[dev]
      BY <1>1, <1>2, <1>3
    <3>2. Base[dev] <= at - (at % P) /\ (at - (at % P)) + P <= Base[dev] + Size[dev]
      BY <1>1, <1>2, <1>3, <2>1, <3>1, PageWithin
    <3> QED BY <2>2, <2>3, <3>2, Zenon
  <2>6. PICK n \in Nat \ {0} : n = piece_len /\ n \in {len, P - o} /\ n <= len /\ n <= P - o
    <3>1. P - o \in Nat \ {0}
      BY <2>1
    <3>2. piece_len = Min({len, P - o})
      BY <1>5, <2>2 DEF piece_len
    <3> HIDE DEF len
    <3>3. /\ Min({len, P - o}) \in {len, P - o}
          /\ Min({len, P - o}) <= len /\ Min({len, P - o}) <= P - o
      BY <1>1, <3>1, MinOfTwo
    <3> QED BY <1>1, <3>1, <3>2, <3>3
  <2>7. at + n = call.addr + call.len \/ (at + n) % P = 0
    <3>1. CASE n = len
      BY <1>1, <3>1
    <3>2. CASE n = P - o
      <4>1. (at + (P - (at % P))) % P = 0
        BY <1>1, <2>1, NextPage
      <4> QED BY <2>2, <3>2, <4>1, Zenon
    <3> QED BY <2>6, <3>1, <3>2
  <2> HIDE DEF len, P
  <2>8. at + n <= call.addr + call.len
    BY ONLY <1>1, <2>6, n \in Nat
  <2>9. at .. at + n - 1 \subseteq Asked(call)
    BY <1>1, <2>8 DEF Asked
  <2>10. ps \in Nat /\ ps + o = at /\ o + n <= P
    BY ONLY <1>1, <1>2, <2>1, <2>3, <2>5, <2>6, o \in 0 .. P - 1, n \in Nat, ps \in Int
  <2>11. ps .. ps + P - 1 \subseteq Addr
    BY <1>2, <2>1, <2>5, <2>10
  <2>12. at .. at + n - 1 \subseteq ps .. ps + P - 1
    BY ONLY <1>1, <2>1, <2>10, o \in 0 .. P - 1, n \in Nat
  <2>13. Piece = at .. at + n - 1 /\ PageArea = ps .. ps + P - 1 /\ P = Page[dev]
    BY <2>4, <2>6 DEF Piece, PageArea, P
  <2> QED BY <1>1, <2>2, <2>4, <2>6, <2>7, <2>8, <2>9, <2>10, <2>11, <2>12, <2>13
<1> QED BY <1>4, <1>5

\* The bytes a call wants are bytes, and it wants none outside its range.
LEMMA WantedFacts ==
    ASSUME CallOK, before \in [Addr -> Byte]
    PROVE  /\ \A a \in Asked(call) : call.op # "read" => bt_new(a) \in Byte
           /\ \A a \in Addr :
                 /\ call.op # "read" /\ a \in Asked(call) => Wanted[a] = bt_new(a)
                 /\ call.op = "read" \/ a \notin Asked(call) => Wanted[a] = before[a]
<1>1. ASSUME NEW a \in Asked(call), call.op # "read" PROVE bt_new(a) \in Byte
  <2>1. CASE call.op = "write"
    <3>1. a - call.addr + 1 \in 1 .. call.len
      BY <1>1 DEF CallOK, Asked
    <3> QED BY <2>1, <3>1 DEF CallOK, bt_new
  <2>2. CASE call.op # "write"
    BY <2>2 DEF bt_new, CLEAN, Byte
  <2> QED BY <2>1, <2>2
<1>2. \A a \in Addr : Wanted[a] = IF call.op # "read" /\ a \in Asked(call)
                                  THEN bt_new(a) ELSE before[a]
  BY DEF Wanted
<1> QED BY <1>1, <1>2

\* Finishing the piece changes what should be there exactly in the piece; in
\* its page, everything else should be as it was before the call.
LEMMA PieceEffect ==
    ASSUME CallOK, PieceOK, before \in [Addr -> Byte]
    PROVE  /\ \A a \in Piece : bt_new(a) \in Byte /\ Upto(at + piece_len, a) = bt_new(a)
           /\ \A a \in Addr : a \notin Piece => Upto(at + piece_len, a) = Upto(at, a)
           /\ Page[dev] > 0 => \A a \in PageArea :
                 /\ before[a] = Upto(at, a)
                 /\ Target(a) \in Byte /\ Target(a) = Upto(at + piece_len, a)
<1> DEFINE n == piece_len
<1>1. at \in Nat /\ at >= call.addr /\ n \in Nat \ {0} /\ at + n <= call.addr + call.len
      /\ Piece \subseteq Asked(call) /\ Piece \subseteq Addr
  BY PieceFacts
<1>2. Addr \subseteq Nat /\ call.op # "read" /\ call.addr \in Nat /\ call.len \in Nat
  BY AddrsAreNaturals DEF PieceOK, CallOK
<1>3. Piece = at .. at + n - 1
  BY DEF Piece
<1> HIDE DEF n
<1>4. ASSUME NEW a \in Piece PROVE bt_new(a) \in Byte /\ Upto(at + n, a) = bt_new(a)
  <2>1. a < at + n /\ a \in Asked(call) /\ a \in Addr
    BY <1>1, <1>3
  <2> QED BY <1>2, <2>1, WantedFacts DEF Upto
<1>5. ASSUME NEW a \in Addr, a \notin Piece PROVE Upto(at + n, a) = Upto(at, a)
  <2>1. a \in Nat
    BY <1>2
  <2>2. a < at + n <=> a < at
    BY <1>1, <1>3, <1>5, <2>1
  <2> QED BY <2>2 DEF Upto
<1>6. ASSUME Page[dev] > 0, NEW a \in PageArea
      PROVE  /\ before[a] = Upto(at, a)
             /\ Target(a) \in Byte /\ Target(a) = Upto(at + n, a)
  <2>1. a \in Addr /\ a \in Nat
    BY <1>2, <1>6, PieceFacts
  <2>2. before[a] = Upto(at, a)
    <3>1. CASE a < at
      <4>1. a < call.addr
        <5>1. CASE done = 0
          BY <1>2, <3>1, <5>1 DEF at
        <5>2. CASE page_offset = 0
          <6>1. page_start = at /\ a >= page_start
            BY <1>1, <1>6, <2>1, <5>2, PieceFacts DEF PageArea
          <6> QED BY <1>1, <2>1, <3>1, <6>1
        <5> QED BY <1>6, <5>1, <5>2 DEF PieceOK
      <4>2. a \notin Asked(call)
        BY <1>2, <2>1, <4>1 DEF Asked
      <4> QED BY <2>1, <3>1, <4>2, WantedFacts DEF Upto
    <3>2. CASE ~(a < at)
      BY <3>2 DEF Upto
    <3> QED BY <3>1, <3>2
  <2>3. CASE a \in Piece
    BY <1>4, <2>2, <2>3 DEF Target
  <2>4. CASE a \notin Piece
    BY <1>5, <2>1, <2>2, <2>4 DEF Target
  <2> QED BY <2>2, <2>3, <2>4
<1> QED BY <1>4, <1>5, <1>6 DEF n

\* Every address the call has not reached the end of: nothing wanted there.
LEMMA UptoEnd ==
    ASSUME CallOK, before \in [Addr -> Byte], mem \in [Addr -> Byte],
           NEW x \in Nat, x >= call.addr + call.len,
           NEW m, m \in [Addr -> Byte], \A a \in Addr : m[a] = Upto(x, a)
    PROVE  m = Wanted
<1>1. Wanted = [a \in Addr |-> Wanted[a]]
  BY DEF Wanted
<1>2. ASSUME NEW a \in Addr PROVE m[a] = Wanted[a]
  <2>1. CASE a < x
    BY <2>1 DEF Upto
  <2>2. CASE ~(a < x)
    <3>1. a \notin Asked(call)
      BY <2>2, AddrsAreNaturals DEF CallOK, Asked
    <3> QED BY <2>2, <3>1, WantedFacts DEF Upto
  <2> QED BY <2>1, <2>2
<1> QED BY <1>1, <1>2

\* The derived quantities are functions of call, dev, done and before.
LEMMA Frozen ==
    ASSUME UNCHANGED <<call, dev, before>>
    PROVE  /\ CallOK <=> CallOK'
           /\ Wanted' = Wanted
           /\ \A x, a : Upto(x, a)' = Upto(x, a)
           /\ \A a : bt_new(a)' = bt_new(a)
           /\ done' = done =>
                 /\ at' = at /\ piece_len' = piece_len /\ page_offset' = page_offset
                 /\ page_start' = page_start /\ Piece' = Piece /\ PageArea' = PageArea
                 /\ WorkArea' = WorkArea /\ (PieceOK <=> PieceOK')
                 /\ \A a : Target(a)' = Target(a)
<1>1. CallOK <=> CallOK'
  BY DEF CallOK
<1>2. \A a : bt_new(a)' = bt_new(a)
  BY DEF bt_new
<1>3. Wanted' = Wanted
  BY <1>2 DEF Wanted, Asked
<1>4. \A x, a : Upto(x, a)' = Upto(x, a)
  BY <1>3 DEF Upto
<1>5. ASSUME done' = done
      PROVE  /\ at' = at /\ piece_len' = piece_len /\ page_offset' = page_offset
             /\ page_start' = page_start /\ Piece' = Piece /\ PageArea' = PageArea
             /\ WorkArea' = WorkArea /\ (PieceOK <=> PieceOK')
             /\ \A a : Target(a)' = Target(a)
  <2>1. at' = at
    BY <1>5 DEF at
  <2>2. page_offset' = page_offset
    BY <2>1 DEF page_offset
  <2>3. page_start' = page_start /\ piece_len' = piece_len
    BY <1>5, <2>1, <2>2 DEF page_start, piece_len
  <2>4. Piece' = Piece /\ PageArea' = PageArea
    BY <2>1, <2>3 DEF Piece, PageArea
  <2>5. WorkArea' = WorkArea /\ (PieceOK <=> PieceOK') /\ \A a : Target(a)' = Target(a)
    BY <1>2, <1>5, <2>2, <2>4 DEF WorkArea, PieceOK, Target
  <2> QED BY <2>1, <2>2, <2>3, <2>4, <2>5
<1> QED BY <1>1, <1>2, <1>3, <1>4, <1>5

-----------------------------------------------------------------------------
(* One step at a time. *)

\* A piece is finished and the devices hold what they should up to its end:
\* the next piece starts with the same promise, or the call has completed.
LEMMA AdvanceKeeps ==
    ASSUME StoreInv, Working, mem' \in [Addr -> Byte],
           \A a \in Addr : mem'[a] = Upto(at + piece_len, a),
           advance, UNCHANGED <<storage_device, call, dev, before>>
    PROVE  StoreInv'
<1>1. CallOK /\ PieceOK /\ before \in [Addr -> Byte] /\ storage_device \in Seq(Devices)
  BY DEF StoreInv, Working, Busy, PagePcs
<1>2. call.addr \in Nat /\ call.len \in Nat /\ done \in Nat /\ at = call.addr + done
      /\ piece_len \in Nat \ {0} /\ dev \in Devices
  BY <1>1, PieceFacts DEF CallOK, PieceOK, at
<1>3. CallOK' /\ Wanted' = Wanted /\ (\A x, a : Upto(x, a)' = Upto(x, a)) /\ call' = call
  BY <1>1, Frozen
<1>4. done' = done + piece_len /\ done' \in Nat
  BY <1>2 DEF advance
<1>5. at' = at + piece_len
  <2>1. at' = call.addr + done'
    BY DEF at
  <2>2. PICK n \in Nat : n = piece_len
    BY <1>2
  <2> QED BY <1>2, <1>4, <2>1, <2>2
<1>6. \A a \in Addr : mem'[a] = Upto(at, a)'
  BY <1>3, <1>5 DEF Upto
<1>7. CASE done' < call.len
  <2>1. pc' = (IF Page[dev] > 0 THEN "page" ELSE "write") /\ result' = "none"
    BY <1>7 DEF advance
  <2>2. PieceOK'
    <3>1. done' \in 0 .. call'.len - 1 /\ call'.op # "read"
      BY <1>1, <1>2, <1>3, <1>4, <1>7 DEF PieceOK
    <3>2. ASSUME Page[dev] > 0 PROVE page_offset' = 0
      <4>1. at + piece_len # call.addr + call.len
        BY <1>2, <1>4, <1>7
      <4>2. (at + piece_len) % Page[dev] = 0
        BY <1>1, <3>2, <4>1, PieceFacts
      <4> QED BY <1>5, <4>2 DEF page_offset
    <3> QED BY <3>1, <3>2 DEF PieceOK
  <2>3. pc' \in PagePcs => Page[dev] > 0
    BY <2>1 DEF PagePcs
  <2>4. Contents'
    BY <1>6, <2>1 DEF Contents
  <2>5. Outcome'
    BY <2>1 DEF Outcome
  <2> QED BY <1>1, <1>3, <2>1, <2>2, <2>3, <2>4, <2>5 DEF StoreInv, PagePcs
<1>8. CASE ~(done' < call.len)
  <2>1. pc' = "returned" /\ result' = "0"
    BY <1>8 DEF advance
  <2>2. mem' = Wanted'
    <3>1. at + piece_len \in Nat /\ at + piece_len >= call.addr + call.len
      BY <1>2, <1>4, <1>8
    <3>2. mem \in [Addr -> Byte]
      BY DEF StoreInv
    <3> QED BY <1>1, <1>3, <3>1, <3>2, UptoEnd
  <2>3. Contents' /\ Outcome'
    BY <2>1, <2>2 DEF Contents, Outcome, Busy
  <2> QED BY <1>1, <2>1, <2>3 DEF StoreInv, Busy, Working, PagePcs
<1> QED BY <1>7, <1>8

\* A step within a piece that leaves the devices and the call alone.
LEMMA WithinKeeps ==
    ASSUME StoreInv, Working, pc' \in PagePcs \cup {"write"}, pc' # "restore",
           pc' \in PagePcs => Page[dev] > 0,
           pc \in {"page", "head", "tail", "erase", "write"},
           pc' = "write" /\ Page[dev] > 0 => no_erase,
           pc' = "tail" => Buffered(page_offset + piece_len)',
           pc' = "erase" => Buffered(Page[dev])',
           UNCHANGED <<storage_device, mem, call, dev, done, result, before>>
    PROVE  StoreInv'
<1>1. CallOK /\ PieceOK /\ result = "none"
  BY DEF StoreInv, Working, Busy, PagePcs, Outcome
<1>2. CallOK' /\ PieceOK' /\ at' = at /\ Piece' = Piece /\ (\A x, a : Upto(x, a)' = Upto(x, a))
      /\ \A a : bt_new(a)' = bt_new(a)
  BY <1>1, Frozen
<1>3. \A a \in Addr : mem'[a] = Upto(at, a)'
  BY <1>2 DEF StoreInv, Contents, Upto
<1>4. pc' = "write" /\ Page[dev] > 0 => no_erase'
  BY <1>2 DEF no_erase
<1>5. Contents'
  BY <1>3, <1>4 DEF Contents, PagePcs
<1>6. Outcome'
  BY <1>1 DEF Outcome
<1> QED BY <1>1, <1>2, <1>5, <1>6 DEF StoreInv, PagePcs

\* In the middle of a piece: what StoreInv gives the lemmas below.
LEMMA InPiece ==
    ASSUME StoreInv, Working
    PROVE  /\ CallOK /\ PieceOK /\ dev \in Devices /\ Page[dev] \in Nat
           /\ mem \in [Addr -> Byte] /\ before \in [Addr -> Byte]
           /\ pc \in PagePcs => Page[dev] > 0
<1>1. CallOK /\ PieceOK /\ mem \in [Addr -> Byte] /\ before \in [Addr -> Byte]
      /\ (pc \in PagePcs => Page[dev] > 0)
  BY DEF StoreInv, Working, Busy, PagePcs
<1> QED BY <1>1, DeviceTypes DEF CallOK

\* A piece that holds its data already, and a clean one that is to be erased.
LEMMA SkipKeeps == StoreInv /\ PageSkip => StoreInv'
<1> SUFFICES ASSUME StoreInv, PageSkip PROVE StoreInv'
  OBVIOUS
<1>1. pc = "page" /\ Working
  BY DEF PageSkip, Working, PagePcs
<1>2. CallOK /\ PieceOK /\ mem \in [Addr -> Byte] /\ before \in [Addr -> Byte]
  BY <1>1, InPiece
<1>3. \A a \in Addr : mem[a] = Upto(at, a)
  BY <1>1 DEF StoreInv, Contents
<1>4. \A a \in Piece : mem[a] = bt_new(a)
  <2>1. CASE same_data
    BY <2>1 DEF same_data
  <2>2. CASE no_erase /\ call.op = "erase"
    <3> SUFFICES ASSUME NEW a \in Piece PROVE mem[a] = bt_new(a)
      OBVIOUS
    <3>1. mem[a] \in SUBSET Bits
      BY <1>2, PieceFacts DEF Byte
    <3>2. bt_new(a) = Bits /\ bt_new(a) \subseteq mem[a]
      BY <2>2 DEF bt_new, no_erase, CLEAN
    <3> QED BY <3>1, <3>2
  <2> QED BY <2>1, <2>2 DEF PageSkip
<1>5. \A a \in Addr : mem[a] = Upto(at + piece_len, a)
  BY <1>2, <1>3, <1>4, PieceEffect
<1> QED BY <1>1, <1>2, <1>5, AdvanceKeeps DEF PageSkip

LEMMA ProgramKeeps == StoreInv /\ PageProgram => StoreInv'
<1> SUFFICES ASSUME StoreInv, PageProgram PROVE StoreInv'
  OBVIOUS
<1>1. pc = "page" /\ pc' = "write" /\ no_erase /\ Working
      /\ UNCHANGED <<storage_device, mem, call, dev, done, result, before>>
  BY DEF PageProgram, Working, PagePcs
<1> QED BY <1>1, WithinKeeps DEF PagePcs

LEMMA RewriteKeeps == StoreInv /\ PageRewrite => StoreInv'
<1> SUFFICES ASSUME StoreInv, PageRewrite PROVE StoreInv'
  OBVIOUS
<1>1. pc = "page" /\ pc' = "head" /\ Working
      /\ UNCHANGED <<storage_device, mem, call, dev, done, result, before>>
  BY DEF PageRewrite, Working, PagePcs
<1>2. Page[dev] > 0
  BY <1>1, InPiece DEF PagePcs
<1> QED BY <1>1, <1>2, WithinKeeps DEF PagePcs

\* The head of the page and the new piece are in the buffer.
LEMMA HeadKeeps == StoreInv /\ HeadRead => StoreInv'
<1> SUFFICES ASSUME StoreInv, HeadRead PROVE StoreInv'
  OBVIOUS
<1>1. pc = "head" /\ pc' = "tail" /\ Working
      /\ UNCHANGED <<storage_device, mem, call, dev, done, result, before>>
  BY DEF HeadRead, Working, PagePcs
<1>2. CallOK /\ PieceOK /\ Page[dev] > 0 /\ Page[dev] \in Nat /\ before \in [Addr -> Byte]
  BY <1>1, InPiece DEF PagePcs
<1>3. PICK P \in Nat, o \in Nat, ps \in Nat, n \in Nat :
          /\ P = Page[dev] /\ o = page_offset /\ ps = page_start /\ n = piece_len
          /\ ps + o = at /\ o + n <= P /\ at \in Nat
  BY <1>2, PieceFacts
<1>4. buffer' = [i \in 0 .. P - 1 |->
                    IF i < o THEN mem[ps + i]
                    ELSE IF ps + i \in Piece THEN bt_new(ps + i) ELSE buffer[i]]
  BY <1>3 DEF HeadRead, head_saved
<1>5. Piece = at .. at + n - 1 /\ PageArea = ps .. ps + P - 1
  BY <1>3 DEF Piece, PageArea
<1>6. ASSUME NEW i \in 0 .. o + n - 1 PROVE buffer'[i] = Target(ps + i)
  <2>1. i \in 0 .. P - 1 /\ ps + i \in PageArea
    BY <1>3, <1>5
  <2>2. CASE i < o
    <3>1. ps + i \notin Piece
      BY <1>3, <1>5, <2>2
    <3>2. ps + i \in Addr
      BY <1>2, <2>1, PieceFacts
    <3>3. mem[ps + i] = Upto(at, ps + i)
      BY <1>1, <3>2 DEF StoreInv, Contents
    <3>4. before[ps + i] = Upto(at, ps + i)
      BY <1>2, <2>1, PieceEffect
    <3> QED BY <1>4, <2>1, <2>2, <3>1, <3>3, <3>4 DEF Target
  <2>3. CASE ~(i < o)
    <3>1. ps + i \in Piece
      BY <1>3, <1>5, <2>3
    <3> QED BY <1>4, <2>1, <2>3, <3>1 DEF Target
  <2> QED BY <2>2, <2>3
<1>7. Buffered(page_offset + piece_len)'
  <2>1. page_offset' = o /\ piece_len' = n /\ page_start' = ps /\ \A a : Target(a)' = Target(a)
    BY <1>1, <1>3, Frozen
  <2> QED BY <1>6, <2>1 DEF Buffered
<1> QED BY <1>1, <1>2, <1>7, WithinKeeps DEF PagePcs

\* With its tail the buffer holds the whole page as it should become.
LEMMA TailKeeps == StoreInv /\ TailRead => StoreInv'
<1> SUFFICES ASSUME StoreInv, TailRead PROVE StoreInv'
  OBVIOUS
<1>1. pc = "tail" /\ pc' = "erase" /\ Working
      /\ UNCHANGED <<storage_device, mem, call, dev, done, result, before>>
  BY DEF TailRead, Working, PagePcs
<1>2. CallOK /\ PieceOK /\ Page[dev] > 0 /\ Page[dev] \in Nat /\ before \in [Addr -> Byte]
  BY <1>1, InPiece DEF PagePcs
<1>3. PICK P \in Nat, o \in Nat, ps \in Nat, n \in Nat :
          /\ P = Page[dev] /\ o = page_offset /\ ps = page_start /\ n = piece_len
          /\ ps + o = at /\ o + n <= P /\ at \in Nat
  BY <1>2, PieceFacts
<1>4. buffer' = [i \in 0 .. P - 1 |-> IF i >= o + n THEN mem[ps + i] ELSE buffer[i]]
  BY <1>3 DEF TailRead
<1>5. Piece = at .. at + n - 1 /\ PageArea = ps .. ps + P - 1
  BY <1>3 DEF Piece, PageArea
<1>6. ASSUME NEW i \in 0 .. P - 1 PROVE buffer'[i] = Target(ps + i)
  <2>1. ps + i \in PageArea
    BY <1>3, <1>5
  <2>2. CASE i >= o + n
    <3>1. ps + i \notin Piece
      BY <1>3, <1>5, <2>2
    <3>2. ps + i \in Addr
      BY <1>2, <2>1, PieceFacts
    <3>3. mem[ps + i] = Upto(at, ps + i)
      BY <1>1, <3>2 DEF StoreInv, Contents
    <3>4. before[ps + i] = Upto(at, ps + i)
      BY <1>2, <2>1, PieceEffect
    <3> QED BY <1>4, <2>2, <3>1, <3>3, <3>4 DEF Target
  <2>3. CASE ~(i >= o + n)
    <3>1. i \in 0 .. (o + n) - 1
      BY <1>3, <2>3
    <3>2. buffer[i] = Target(ps + i)
      BY <1>1, <1>3, <3>1 DEF StoreInv, Contents, Buffered
    <3> QED BY <1>4, <2>3, <3>2
  <2> QED BY <2>2, <2>3
<1>7. Buffered(Page[dev])'
  <2>1. page_start' = ps /\ \A a : Target(a)' = Target(a)
    BY <1>1, <1>3, Frozen
  <2> QED BY <1>1, <1>3, <1>6, <2>1 DEF Buffered
<1> QED BY <1>1, <1>2, <1>7, WithinKeeps DEF PagePcs

\* The page is erased: if nothing of it is to be written back it is finished,
\* else the buffer has all of it.
LEMMA EraseKeeps == StoreInv /\ Erase => StoreInv'
<1> SUFFICES ASSUME StoreInv, Erase PROVE StoreInv'
  OBVIOUS
<1>1. pc = "erase" /\ Working /\ UNCHANGED <<storage_device, call, dev, buffer, before>>
      /\ mem' = [a \in Addr |-> IF a \in PageArea THEN CLEAN ELSE mem[a]]
  BY DEF Erase, Working, PagePcs
<1>2. CallOK /\ PieceOK /\ Page[dev] > 0 /\ Page[dev] \in Nat /\ before \in [Addr -> Byte]
      /\ mem \in [Addr -> Byte]
  BY <1>1, InPiece DEF PagePcs
<1>3. mem' \in [Addr -> Byte]
  BY <1>1, <1>2 DEF CLEAN, Byte
<1>4. (\A a \in Addr : mem[a] = Upto(at, a)) /\ Buffered(Page[dev])
  BY <1>1 DEF StoreInv, Contents
<1>5. CASE dirty = {}
  <2>1. ASSUME NEW a \in PageArea PROVE CLEAN = Upto(at + piece_len, a)
    <3>1. PICK P \in Nat, ps \in Nat : P = Page[dev] /\ ps = page_start
      BY <1>2, PieceFacts
    <3>2. a - ps \in 0 .. P - 1 /\ ps + (a - ps) = a
      BY <2>1, <3>1 DEF PageArea
    <3>3. buffer[a - ps] = CLEAN
      BY <1>5, <3>1, <3>2 DEF dirty
    <3>4. buffer[a - ps] = Target(ps + (a - ps))
      BY <1>4, <3>1, <3>2 DEF Buffered
    <3> QED BY <1>2, <3>2, <3>3, <3>4, PieceEffect
  <2>2. ASSUME NEW a \in Addr, a \notin PageArea PROVE mem[a] = Upto(at + piece_len, a)
    BY <1>2, <1>4, <2>2, PieceFacts, PieceEffect
  <2>3. \A a \in Addr : mem'[a] = Upto(at + piece_len, a)
    BY <1>1, <2>1, <2>2
  <2>4. advance
    BY <1>5 DEF Erase
  <2> QED BY <1>1, <1>3, <2>3, <2>4, AdvanceKeeps
<1>6. CASE dirty # {}
  <2>1. pc' = "restore" /\ done' = done /\ result' = result
    BY <1>6 DEF Erase
  <2>2. CallOK' /\ PieceOK' /\ at' = at /\ PageArea' = PageArea /\ page_start' = page_start
        /\ (\A x, a : Upto(x, a)' = Upto(x, a)) /\ (\A a : Target(a)' = Target(a))
    BY <1>1, <1>2, <2>1, Frozen
  <2>3. Buffered(Page[dev])'
    BY <1>1, <1>4, <2>2 DEF Buffered
  <2>4. \A a \in Addr : mem'[a] = (IF a \in PageArea THEN CLEAN ELSE Upto(at, a))'
    BY <1>1, <1>4, <2>2 DEF Upto, CLEAN
  <2>5. Contents'
    <3>1. dirty' = dirty
      BY <1>1 DEF dirty, CLEAN
    <3> QED BY <1>6, <2>1, <2>3, <2>4, <3>1 DEF Contents
  <2>6. result = "none"
    BY <1>1 DEF StoreInv, Outcome, Busy
  <2>7. Outcome'
    BY <2>1, <2>6 DEF Outcome
  <2> QED BY <1>1, <1>2, <1>3, <2>1, <2>2, <2>5, <2>7 DEF StoreInv, PagePcs
<1> QED BY <1>5, <1>6

\* What is written back covers every byte of the page that is not clean.
LEMMA WrittenBack ==
    ASSUME StoreInv, pc = "restore"
    PROVE  /\ DOMAIN written \subseteq PageArea
           /\ \A a \in DOMAIN written : written[a] = buffer[a - page_start]
           /\ \A a \in PageArea : a \notin DOMAIN written => buffer[a - page_start] = CLEAN
<1>1. CallOK /\ PieceOK /\ Page[dev] > 0 /\ Page[dev] \in Nat
  BY InPiece DEF Working, PagePcs
<1>2. PICK P \in Nat \ {0}, ps \in Nat : P = Page[dev] /\ ps = page_start
  BY <1>1, PieceFacts
<1>3. dirty = {i \in 0 .. P - 1 : buffer[i] # CLEAN} /\ PageArea = ps .. ps + P - 1
  BY <1>2 DEF dirty, PageArea
<1>4. written = [a \in ps + Min(dirty) .. ps + Max(dirty) |-> buffer[a - ps]]
  BY <1>2 DEF written
<1>5. dirty # {}
  BY DEF StoreInv, Contents
<1>6. dirty \subseteq 0 .. P - 1 /\ dirty \subseteq Nat /\ P - 1 \in Nat
  BY <1>3
<1>7. PICK lo \in 0 .. P - 1, hi \in 0 .. P - 1 :
          /\ lo = Min(dirty) /\ hi = Max(dirty)
          /\ \A i \in dirty : lo <= i /\ i <= hi
  BY <1>5, <1>6, LeastElement, GreatestElement
<1>8. DOMAIN written = ps + lo .. ps + hi
  BY <1>4, <1>7
<1>9. DOMAIN written \subseteq PageArea
  BY <1>3, <1>8
<1>10. ASSUME NEW a \in PageArea, a \notin DOMAIN written PROVE buffer[a - ps] = CLEAN
  <2>1. a - ps \in 0 .. P - 1 /\ ~(lo <= a - ps /\ a - ps <= hi)
    BY <1>3, <1>8, <1>10
  <2>2. a - ps \notin dirty
    BY <1>7, <2>1
  <2> QED BY <1>3, <2>1, <2>2
<1> QED BY <1>2, <1>4, <1>9, <1>10

\* dev->write(): the piece, or what the erased page should hold.
LEMMA WriteKeeps == StoreInv /\ Write => StoreInv'
<1> SUFFICES ASSUME StoreInv, Write PROVE StoreInv'
  OBVIOUS
<1>1. pc \in {"write", "restore"} /\ Working /\ advance
      /\ UNCHANGED <<storage_device, call, dev, buffer, before>>
      /\ mem' = [a \in Addr |->
                    IF a \notin DOMAIN written THEN mem[a]
                    ELSE IF Page[dev] > 0 THEN mem[a] \cap written[a] ELSE written[a]]
  BY DEF Write, Working, PagePcs
<1>2. CallOK /\ PieceOK /\ before \in [Addr -> Byte] /\ mem \in [Addr -> Byte]
      /\ Page[dev] \in Nat /\ Piece \subseteq Addr
  BY <1>1, InPiece, PieceFacts
<1>3. ASSUME NEW a \in Addr
      PROVE  mem'[a] \in Byte /\ mem'[a] = Upto(at + piece_len, a)
  <2>1. CASE pc = "write"
    <3>1. written = [b \in Piece |-> bt_new(b)] /\ mem[a] = Upto(at, a)
      BY <2>1 DEF written, StoreInv, Contents
    <3>2. CASE a \notin Piece
      <4>1. mem'[a] = mem[a]
        BY <1>1, <3>1, <3>2
      <4> QED BY <1>2, <3>1, <3>2, <4>1, PieceEffect
    <3>3. CASE a \in Piece
      <4>1. bt_new(a) \in Byte /\ Upto(at + piece_len, a) = bt_new(a)
        BY <1>2, <3>3, PieceEffect
      <4>2. CASE Page[dev] > 0
        <5>1. bt_new(a) \subseteq mem[a]
          BY <2>1, <3>3, <4>2 DEF StoreInv, Contents, no_erase
        <5>2. mem'[a] = mem[a] \cap bt_new(a)
          BY <1>1, <3>1, <3>3, <4>2
        <5> QED BY <4>1, <5>1, <5>2
      <4>3. CASE ~(Page[dev] > 0)
        <5>1. mem'[a] = bt_new(a)
          BY <1>1, <3>1, <3>3, <4>3
        <5> QED BY <4>1, <5>1
      <4> QED BY <4>2, <4>3
    <3> QED BY <3>2, <3>3
  <2>2. CASE pc = "restore"
    <3>1. Page[dev] > 0 /\ Buffered(Page[dev])
          /\ mem[a] = IF a \in PageArea THEN CLEAN ELSE Upto(at, a)
      BY <2>2 DEF StoreInv, Contents, PagePcs
    <3>2. CASE a \notin PageArea
      <4>1. a \notin Piece /\ a \notin DOMAIN written
        BY <1>2, <2>2, <3>1, <3>2, PieceFacts, WrittenBack
      <4>2. mem'[a] = mem[a] /\ mem[a] = Upto(at, a)
        BY <1>1, <3>1, <3>2, <4>1
      <4> QED BY <1>2, <4>1, <4>2, PieceEffect
    <3>3. CASE a \in PageArea
      <4>1. Target(a) \in Byte /\ Target(a) = Upto(at + piece_len, a)
        BY <1>2, <3>1, <3>3, PieceEffect
      <4>2. buffer[a - page_start] = Target(a)
        <5>1. PICK P \in Nat, ps \in Nat : P = Page[dev] /\ ps = page_start
          BY <1>2, <3>1, PieceFacts
        <5>2. a - ps \in 0 .. P - 1 /\ ps + (a - ps) = a
          BY <3>3, <5>1 DEF PageArea
        <5> QED BY <3>1, <5>1, <5>2 DEF Buffered
      <4>3. mem'[a] = Target(a)
        <5>1. CASE a \in DOMAIN written
          <6>1. mem'[a] = CLEAN \cap Target(a)
            BY <1>1, <2>2, <3>1, <3>3, <4>2, <5>1, WrittenBack
          <6> QED BY <4>1, <6>1 DEF CLEAN, Byte
        <5>2. CASE a \notin DOMAIN written
          <6>1. mem'[a] = CLEAN /\ buffer[a - page_start] = CLEAN
            BY <1>1, <2>2, <3>1, <3>3, <5>2, WrittenBack
          <6> QED BY <4>2, <6>1
        <5> QED BY <5>1, <5>2
      <4> QED BY <4>1, <4>3
    <3> QED BY <3>2, <3>3
  <2> QED BY <1>1, <2>1, <2>2
<1>4. mem' \in [Addr -> Byte]
  BY <1>1, <1>3
<1> QED BY <1>1, <1>3, <1>4, AdvanceKeeps

LEMMA ReadKeeps == StoreInv /\ Read => StoreInv'
<1> SUFFICES ASSUME StoreInv, Read PROVE StoreInv'
  OBVIOUS
<1>1. pc = "read" /\ pc' = "returned" /\ result' = "0"
      /\ UNCHANGED <<storage_device, mem, call, dev, before>>
  BY DEF Read
<1>2. CallOK /\ call.op = "read" /\ mem = before /\ before \in [Addr -> Byte]
  BY <1>1 DEF StoreInv, Busy, Contents
<1>3. Wanted' = before
  <2>1. Wanted' = [a \in Addr |-> before[a]]
    BY <1>1, <1>2 DEF Wanted
  <2> QED BY <1>2, <2>1
<1>4. Contents' /\ Outcome'
  BY <1>1, <1>2, <1>3 DEF Contents, Outcome, Busy
<1> QED BY <1>1, <1>4 DEF StoreInv, Busy, Working, PagePcs

\* A device found holds the whole range.
LEMMA FoundHolds ==
    ASSUME StoreInv, NEW a \in Nat, NEW n \in Nat, find_device(a, n) # NoDevice
    PROVE  /\ find_device(a, n) \in Devices
           /\ Base[find_device(a, n)] <= a
           /\ a + n <= Base[find_device(a, n)] + Size[find_device(a, n)]
<1> DEFINE fits == {i \in 1 .. Len(storage_device) :
                       LET d == storage_device[i]
                       IN  a >= Base[d] /\ a + n <= Base[d] + Size[d]}
<1>1. storage_device \in Seq(Devices)
  BY DEF StoreInv
<1>2. fits # {} /\ find_device(a, n) = storage_device[Min(fits)]
  BY DEF find_device
<1>3. fits \subseteq Nat /\ fits \subseteq 1 .. Len(storage_device)
  BY <1>1
<1>4. PICK i \in 1 .. Len(storage_device) : i = Min(fits) /\ i \in fits
  <2> HIDE DEF fits
  <2> QED BY <1>2, <1>3, LeastElement
<1>5. storage_device[i] \in Devices
  BY <1>1
<1>6. Base[storage_device[i]] \in Nat
  BY <1>5, DeviceTypes
<1> QED BY <1>2, <1>4, <1>5, <1>6

\* A call begins: it is refused, or accepted with the device that holds it.
LEMMA BeginKeeps ==
    ASSUME StoreInv, NEW c \in Calls, Begin(c)
    PROVE  StoreInv'
<1>1. /\ pc = "idle" /\ call' = c /\ done' = 0 /\ before' = mem /\ result' = refusal(c)
      /\ dev' = find_device(c.addr, c.len)
      /\ pc' = (IF result' = "none" THEN first_step(c, dev') ELSE "returned")
      /\ UNCHANGED <<storage_device, mem, buffer>>
  BY DEF Begin
<1>2. /\ c.op \in {"read", "erase", "write"} /\ c.addr \in Addr /\ c.len \in Lens
      /\ c.op = "write" /\ c.buf # <<>> => c.buf \in [1 .. c.len -> Byte]
  BY DEF Calls, Call
<1>3. c.addr \in Nat /\ c.len \in Nat
  BY <1>2, AddrsAreNaturals, SizesAssumption
<1>4. mem \in [Addr -> Byte] /\ storage_device \in Seq(Devices)
  BY DEF StoreInv
<1>5. CASE refusal(c) = "none"
  <2>1. c.len # 0 /\ dev' # NoDevice /\ (c.op = "write" => c.buf # <<>>)
    BY <1>1, <1>5 DEF refusal
  <2>2. CallOK'
    <3>1. dev' \in Devices /\ Base[dev'] <= c.addr /\ c.addr + c.len <= Base[dev'] + Size[dev']
      BY <1>1, <1>3, <2>1, FoundHolds
    <3> QED BY <1>1, <1>2, <1>3, <2>1, <3>1 DEF CallOK
  <2>3. Page[dev'] \in Nat
    BY <2>2, DeviceTypes DEF CallOK
  <2>4. pc' \in {"read", "write", "page"} /\ result' = "none"
        /\ (pc' = "read" <=> c.op = "read") /\ (pc' = "page" => Page[dev'] > 0)
        /\ (pc' = "write" => Page[dev'] = 0)
    BY <1>1, <1>5, <2>3 DEF first_step
  <2>5. Working' => PieceOK'
    <3> SUFFICES ASSUME Working' PROVE PieceOK'
      OBVIOUS
    <3>1. call'.op # "read"
      BY <1>1, <2>4 DEF Working, PagePcs
    <3>2. done' \in 0 .. call'.len - 1
      BY <1>1, <1>3, <2>1
    <3> QED BY <1>1, <3>1, <3>2 DEF PieceOK
  <2>6. ASSUME NEW a \in Addr, Working' PROVE mem'[a] = Upto(at, a)'
    <3>1. at' = c.addr
      BY <1>1, <1>3 DEF at
    <3>2. CASE a < c.addr
      <4>1. a \notin Asked(c)
        BY <1>3, <3>2, AddrsAreNaturals DEF Asked
      <4> QED BY <1>1, <3>1, <3>2, <4>1 DEF Upto, Wanted
    <3>3. CASE ~(a < c.addr)
      BY <1>1, <3>1, <3>3 DEF Upto
    <3> QED BY <3>2, <3>3
  <2>7. Contents'
    BY <1>1, <2>4, <2>6 DEF Contents, Working, PagePcs
  <2>8. Outcome'
    BY <2>4 DEF Outcome
  <2> QED BY <1>1, <1>4, <2>2, <2>4, <2>5, <2>7, <2>8 DEF StoreInv, PagePcs
<1>6. CASE refusal(c) # "none"
  <2>1. pc' = "returned" /\ result' \in {"-EINVAL", "-ENODEV", "-ENOSYS"}
    BY <1>1, <1>6 DEF refusal
  <2>2. Contents' /\ Outcome'
    BY <2>1 DEF Contents, Outcome, Busy
  <2> QED BY <1>1, <1>4, <2>1, <2>2 DEF StoreInv, Busy, Working, PagePcs
<1> QED BY <1>5, <1>6

\* Outside the page (or piece) the call is at, everything is as it should be.
LEMMA OutsideIntact ==
    ASSUME StoreInv, Busy
    PROVE  \A a \in Addr \ WorkArea : mem[a] = Upto(at, a)
<1>1. CASE pc = "read"
  <2>1. mem = before /\ call.op = "read" /\ CallOK /\ before \in [Addr -> Byte]
    BY <1>1 DEF StoreInv, Contents
  <2> QED BY <2>1, WantedFacts DEF Upto
<1>2. CASE pc = "restore"
  <2>1. WorkArea = PageArea
    BY <1>2 DEF WorkArea, StoreInv, PagePcs
  <2> QED BY <1>2, <2>1 DEF StoreInv, Contents
<1>3. CASE pc \in {"page", "head", "tail", "erase", "write"}
  BY <1>3 DEF StoreInv, Contents
<1> QED BY <1>1, <1>2, <1>3 DEF StoreInv, Busy, PagePcs

\* A device call cut short touches nothing outside the area being worked on.
LEMMA FailureKeeps ==
    ASSUME StoreInv, Busy, Torn, pc' \in {"returned", "off"}, result' \in {"-EIO", "lost"},
           UNCHANGED <<storage_device, call, dev, buffer, done, before>>
    PROVE  StoreInv'
<1>1. PICK junk \in [span -> Byte] :
          mem' = [a \in Addr |-> IF a \in span THEN junk[a] ELSE mem[a]]
  BY DEF Torn
<1>2. mem \in [Addr -> Byte] /\ before \in [Addr -> Byte] /\ CallOK
      /\ storage_device \in Seq(Devices)
  BY DEF StoreInv
<1>3. mem' \in [Addr -> Byte]
  BY <1>1, <1>2
<1>4. span \subseteq WorkArea
  <2>1. CASE pc = "erase"
    BY <2>1 DEF span, WorkArea, StoreInv, PagePcs
  <2>2. CASE pc = "write"
    <3>1. span = Piece
      BY <2>2 DEF span, written
    <3>2. Page[dev] > 0 => Piece \subseteq PageArea
      BY <2>2, InPiece, PieceFacts DEF Working
    <3> QED BY <3>1, <3>2 DEF WorkArea
  <2>3. CASE pc = "restore"
    <3>1. span \subseteq PageArea
      BY <2>3, WrittenBack DEF span
    <3>2. Page[dev] > 0
      BY <2>3 DEF StoreInv, PagePcs
    <3> QED BY <3>1, <3>2 DEF WorkArea
  <2>4. CASE pc \notin {"erase", "write", "restore"}
    BY <2>4 DEF span
  <2> QED BY <2>1, <2>2, <2>3, <2>4
<1>5. \A a \in Addr \ WorkArea : mem[a] = Upto(at, a)
  BY OutsideIntact
<1>6. \A a \in Addr \ WorkArea' : mem'[a] = Upto(at, a)'
  <2>1. WorkArea' = WorkArea /\ at' = at /\ \A x, a : Upto(x, a)' = Upto(x, a)
    BY Frozen
  <2>2. \A a \in Addr \ WorkArea : mem'[a] = mem[a]
    BY <1>1, <1>4
  <2> QED BY <1>5, <2>1, <2>2 DEF Upto
<1>7. Contents' /\ Outcome'
  BY <1>6 DEF Contents, Outcome, Busy
<1> QED BY <1>2, <1>3, <1>7 DEF StoreInv, Busy, Working, PagePcs

\* Between calls: registering devices, resuming, restarting.
LEMMA RestKeeps ==
    ASSUME StoreInv, pc' \in {"boot", "idle"}, result' = "none",
           storage_device' \in Seq(Devices), mem' = mem, before' \in [Addr -> Byte]
    PROVE  StoreInv'
<1>1. Contents' /\ Outcome'
  BY DEF Contents, Outcome, Busy
<1> QED BY <1>1 DEF StoreInv, Busy, Working, PagePcs

LEMMA NextKeeps == StoreInv /\ [Next]_vars => StoreInv'
<1> SUFFICES ASSUME StoreInv, [Next]_vars PROVE StoreInv'
  OBVIOUS
<1>1. mem \in [Addr -> Byte] /\ before \in [Addr -> Byte] /\ storage_device \in Seq(Devices)
  BY DEF StoreInv
<1>2. CASE \E d \in Devices : add_device(d) \/ remove_device(d)
  <2>1. PICK d \in Devices : add_device(d) \/ remove_device(d)
    BY <1>2
  <2>2. storage_device' \in Seq(Devices)
    <3>1. CASE add_device(d)
      BY <1>1, <3>1 DEF add_device
    <3>2. CASE remove_device(d)
      <4>1. PICK i \in 1 .. Len(storage_device) :
                storage_device' = SubSeq(storage_device, 1, i - 1)
                                  \o SubSeq(storage_device, i + 1, Len(storage_device))
        BY <3>2 DEF remove_device
      <4>2. Len(storage_device) \in Nat
        BY <1>1
      <4>3. SubSeq(storage_device, 1, i - 1) \in Seq(Devices)
        BY <1>1, <4>2
      <4>4. SubSeq(storage_device, i + 1, Len(storage_device)) \in Seq(Devices)
        BY <1>1, <4>2
      <4> QED BY <4>1, <4>3, <4>4
    <3> QED BY <2>1, <3>1, <3>2
  <2>3. pc = "boot" /\ UNCHANGED <<pc, result, mem, before>>
    BY <2>1 DEF add_device, remove_device
  <2> QED BY <1>1, <2>2, <2>3, RestKeeps DEF StoreInv, Outcome
<1>3. CASE Started
  <2>1. pc = "boot" /\ pc' = "idle" /\ UNCHANGED <<result, mem, before, storage_device>>
    BY <1>3 DEF Started
  <2> QED BY <1>1, <2>1, RestKeeps DEF StoreInv, Outcome
<1>4. CASE Resume
  BY <1>1, <1>4, RestKeeps DEF Resume, Forget
<1>5. CASE Restart
  BY <1>1, <1>5, RestKeeps DEF Restart, Forget
<1>6. CASE DeviceError \/ PowerLoss
  BY <1>6, FailureKeeps DEF DeviceError, PowerLoss
<1>7. CASE Step
  BY <1>7, ReadKeeps, SkipKeeps, ProgramKeeps, RewriteKeeps, HeadKeeps, TailKeeps,
     EraseKeeps, WriteKeeps DEF Step
<1>8. CASE \E c \in Calls : Begin(c)
  BY <1>8, BeginKeeps
<1>9. CASE UNCHANGED vars
  <2>1. at' = at /\ piece_len' = piece_len /\ page_offset' = page_offset
        /\ page_start' = page_start /\ Piece' = Piece /\ PageArea' = PageArea
        /\ WorkArea' = WorkArea /\ (PieceOK <=> PieceOK') /\ (CallOK <=> CallOK')
        /\ (\A a : Target(a)' = Target(a)) /\ (\A a : bt_new(a)' = bt_new(a))
        /\ Wanted' = Wanted /\ (\A x, a : Upto(x, a)' = Upto(x, a))
    BY <1>9, Frozen DEF vars
  <2>2. dirty' = dirty /\ (no_erase <=> no_erase')
    BY <1>9, <2>1 DEF vars, dirty, no_erase
  <2>3. \A n : Buffered(n)' <=> Buffered(n)
    BY <1>9, <2>1 DEF vars, Buffered
  <2>4. Contents'
    BY <1>9, <2>1, <2>2, <2>3 DEF vars, StoreInv, Contents, Upto, Buffered
  <2>5. Outcome'
    BY <1>9, <2>1 DEF vars, StoreInv, Outcome, Busy, Upto
  <2> QED BY <1>9, <2>1, <2>4, <2>5 DEF vars, StoreInv, Busy, Working
<1> QED BY <1>2, <1>3, <1>4, <1>5, <1>6, <1>7, <1>8, <1>9 DEF Next

LEMMA InitHolds == Init => StoreInv
<1> SUFFICES ASSUME Init PROVE StoreInv
  OBVIOUS
<1>1. pc = "boot" /\ result = "none" /\ storage_device = <<>> /\ before = mem
      /\ mem \in [Addr -> Byte]
  BY DEF Init
<1>2. Contents /\ Outcome
  BY <1>1 DEF Contents, Outcome, Busy
<1> QED BY <1>1, <1>2 DEF StoreInv, Busy, Working, PagePcs

-----------------------------------------------------------------------------
(* What the invariant gives at every instant. *)

LEMMA InvConfines == StoreInv => Confined
<1> SUFFICES ASSUME StoreInv, Busy \/ result \in {"-EIO", "lost"}
             PROVE  /\ \A a \in Addr \ WorkArea : mem[a] = Upto(at, a)
                    /\ pc \in {"page", "head", "tail", "erase"} =>
                          \A a \in PageArea : mem[a] = before[a]
                    /\ pc = "restore" =>
                          \A a \in PageArea : buffer[a - page_start] = Target(a)
  BY DEF Confined, Upto, Target
<1>1. \A a \in Addr \ WorkArea : mem[a] = Upto(at, a)
  BY OutsideIntact DEF StoreInv, Outcome
<1>2. ASSUME pc \in PagePcs
      PROVE  CallOK /\ PieceOK /\ Page[dev] > 0 /\ before \in [Addr -> Byte]
  BY <1>2 DEF StoreInv, PagePcs, Busy, Working
<1>3. ASSUME pc \in {"page", "head", "tail", "erase"}, NEW a \in PageArea
      PROVE  mem[a] = before[a]
  <2>1. CallOK /\ PieceOK /\ Page[dev] > 0 /\ before \in [Addr -> Byte]
    BY <1>2, <1>3 DEF PagePcs
  <2>2. a \in Addr /\ before[a] = Upto(at, a)
    BY <2>1, PieceFacts, PieceEffect
  <2> QED BY <1>3, <2>2 DEF StoreInv, Contents
<1>4. ASSUME pc = "restore", NEW a \in PageArea
      PROVE  buffer[a - page_start] = Target(a)
  <2>1. CallOK /\ PieceOK /\ Page[dev] > 0
    BY <1>2, <1>4 DEF PagePcs
  <2>2. page_start \in Nat /\ Page[dev] \in Nat
    BY <2>1, PieceFacts, DeviceTypes DEF CallOK
  <2>3. PICK s \in Nat : s = page_start
    BY <2>2
  <2>4. a \in s .. s + Page[dev] - 1
    BY <2>3 DEF PageArea
  <2>5. a - s \in 0 .. Page[dev] - 1 /\ s + (a - s) = a
    BY <2>2, <2>4
  <2>6. Buffered(Page[dev])
    BY <1>4 DEF StoreInv, Contents
  <2> QED BY <2>3, <2>5, <2>6 DEF Buffered
<1> QED BY <1>1, <1>3, <1>4

-----------------------------------------------------------------------------
(***************************************************************************)
(* tlk_storage_write and tlk_storage_erase, whatever the devices, their    *)
(* page sizes, the range asked for and what the flash held: a call that    *)
(* returns 0 left the new bytes in its range and every other byte, those   *)
(* read out of a page and written back around an erase included, as it     *)
(* was.                                                                    *)
(***************************************************************************)
THEOREM CallsComplete == Spec => []Completed
<1>1. StoreInv => Completed
  BY DEF StoreInv, Outcome, Completed
<1> QED BY <1>1, InitHolds, NextKeeps, PTL DEF Spec

(***************************************************************************)
(* tlk_storage_modify_pages, at every instant and after a device error or  *)
(* a power loss at any of its steps: only the page it is at can be damaged,*)
(* that page is untouched up to its erase, and from the erase on until the *)
(* write back the RAM buffer holds all that the page must get.             *)
(***************************************************************************)
THEOREM DamageConfined == Spec => []Confined
BY InvConfines, InitHolds, NextKeeps, PTL DEF Spec
=============================================================================
