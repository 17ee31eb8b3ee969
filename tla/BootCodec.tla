------------------------------ MODULE BootCodec ------------------------------
(***************************************************************************)
(* The codecs of the bootloader port, base64.c and crc16.c, on characters  *)
(* and bytes as numbers.  MCUboot's serial recovery (external) frames a    *)
(* packet as its data and two CRC bytes, sends it encoded, sizes the       *)
(* buffer for a received line with base64_decode_len() and fills it with   *)
(* base64_decode().                                                        *)
(***************************************************************************)
EXTENDS Integers, SequencesExt

CONSTANTS
    ByteSet,     \* bound: byte values
    CharSet,     \* bound: characters of a line from the host
    MaxData,     \* bound: the bytes of a packet
    MaxQuads     \* bound: the groups of four characters of a line

VARIABLE input   \* what the codec is called with

-----------------------------------------------------------------------------
(* base64.c *)

PAD == 61        \* '='
bits(v, from, width) == (v \div 2^from) % 2^width

\* Entry i of b64_alphabet: the letters, the digits, '+' and '/'.
b64_alphabet(i) ==
    CASE i < 26 -> 65 + i [] i < 52 -> 97 + i - 26 [] i < 62 -> 48 + i - 52
      [] i = 62 -> 43 [] i = 63 -> 47

\* b64_val()
b64_val(c) ==
    CASE c \in 65 .. 90 -> c - 65 [] c \in 97 .. 122 -> c - 97 + 26 [] c \in 48 .. 57 -> c - 48 + 52
      [] c = 43 -> 62 [] c = 47 -> 63 [] OTHER -> -1

byte(s, i) == IF i \in DOMAIN s THEN s[i] ELSE 0

\* The four characters of the group that begins at byte i; the ones without
\* data are padding.
\* Planted fault: a group with one byte missing is padded with two.
Bug_group(src, i) ==
    LET v == byte(src, i) * 65536 + byte(src, i + 1) * 256 + byte(src, i + 2)
        n == IF Len(src) - i + 1 >= 3 THEN 4 ELSE 2
    IN  [k \in 1 .. 4 |-> IF k <= n THEN b64_alphabet(bits(v, 24 - 6 * k, 6)) ELSE PAD]
group(src, i) ==
    LET v == byte(src, i) * 65536 + byte(src, i + 1) * 256 + byte(src, i + 2)
        n == IF Len(src) - i + 1 >= 3 THEN 4 ELSE Len(src) - i + 2
    IN  [k \in 1 .. 4 |-> IF k <= n THEN b64_alphabet(bits(v, 24 - 6 * k, 6)) ELSE PAD]

base64_encode(src) ==
    FlattenSeq([g \in 1 .. (Len(src) + 2) \div 3 |-> group(src, 3 * g - 2)])

malformed(in) == Len(in) = 0 \/ Len(in) % 4 # 0

pads(in) == (IF in[Len(in)] = PAD THEN 1 ELSE 0) + (IF in[Len(in) - 1] = PAD THEN 1 ELSE 0)

base64_decode_len(in) == IF malformed(in) THEN -1 ELSE (Len(in) \div 4) * 3 - pads(in)

\* The bytes of the group at character i, and whether its characters are valid.
valid(in, i) ==
    /\ b64_val(in[i]) >= 0 /\ b64_val(in[i + 1]) >= 0
    /\ \A k \in 2 .. 3 : in[i + k] = PAD \/ b64_val(in[i + k]) >= 0
decoded(in, i) ==
    LET val(k) == IF k >= 2 /\ in[i + k] = PAD THEN 0 ELSE b64_val(in[i + k])
        triple == val(0) * 262144 + val(1) * 4096 + val(2) * 64 + val(3)
    IN  <<bits(triple, 16, 8)>>
        \o (IF in[i + 2] = PAD THEN <<>> ELSE <<bits(triple, 8, 8)>>)
        \o (IF in[i + 3] = PAD THEN <<>> ELSE <<bits(triple, 0, 8)>>)

ERROR == <<-1>>
base64_decode(in) ==
    LET starts == [g \in 1 .. Len(in) \div 4 |-> 4 * g - 3]
    IN  IF malformed(in) \/ \E g \in DOMAIN starts : ~valid(in, starts[g]) THEN ERROR
        ELSE FlattenSeq([g \in DOMAIN starts |-> decoded(in, starts[g])])

-----------------------------------------------------------------------------
(* crc16.c *)

POLY == 4129     \* 0x1021

\* The C operator ^ on uint16_t, bit by bit.
xor(a, b) ==
    LET low[n \in 0 .. 16] ==
            IF n = 0 THEN 0
            ELSE low[n - 1] + 2^(n - 1) * ((bits(a, n - 1, 1) + bits(b, n - 1, 1)) % 2)
    IN  low[16]

shift(crc) == IF crc >= 32768 THEN xor((crc * 2) % 65536, POLY) ELSE crc * 2

crc_byte(crc, b) == FoldLeft(LAMBDA c, i : shift(c), xor(crc, b * 256), [i \in 1 .. 8 |-> i])
crc16_ccitt(crc, buf) == FoldLeft(crc_byte, crc, buf)

\* A packet with its CRC behind it, as MCUboot's recovery sends it.
framed(data) == LET c == crc16_ccitt(0, data) IN data \o <<c \div 256, c % 256>>

-----------------------------------------------------------------------------
Packets == UNION {[1 .. n -> ByteSet] : n \in 1 .. MaxData}
Lines == UNION {[1 .. 4 * q -> CharSet] : q \in 0 .. MaxQuads} \cup [1 .. 3 -> CharSet]

Init == input = [kind |-> "none"]
Encode == input.kind = "none" /\ \E d \in Packets : input' = [kind |-> "packet", data |-> d]
Decode == input.kind = "none" /\ \E l \in Lines : input' = [kind |-> "line", chars |-> l]
Again == input.kind # "none" /\ input' = [kind |-> "none"]
Next == Encode \/ Decode \/ Again

-----------------------------------------------------------------------------
(***************************************************************************)
(* What one side encodes the other decodes: base64_decode undoes           *)
(* base64_encode, base64_decode_len says how many bytes come out, the CRC  *)
(* over a packet and its own CRC bytes is zero, and no single flipped bit  *)
(* of a frame passes that test.                                            *)
(***************************************************************************)
FrameRoundTrip ==
    input.kind = "packet" =>
        LET f == framed(input.data)
            line == base64_encode(f)
        IN  /\ base64_decode(line) = f
            /\ base64_decode_len(line) = Len(f)
            /\ crc16_ccitt(0, f) = 0
            /\ \A i \in DOMAIN f, b \in 0 .. 7 :
                  crc16_ccitt(0, [f EXCEPT ![i] = xor(@, 2^b)]) # 0

(***************************************************************************)
(* No line from the host, padded anywhere or not base64 at all, decodes to *)
(* more bytes than base64_decode_len made room for, and both refuse the    *)
(* same lengths.                                                           *)
(***************************************************************************)
DecodeFits ==
    input.kind = "line" =>
        LET out == base64_decode(input.chars)
            room == base64_decode_len(input.chars)
        IN  /\ out # ERROR => Len(out) <= room
            /\ room = -1 => out = ERROR
=============================================================================
