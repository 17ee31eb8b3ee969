----------------------------- MODULE BitFields -----------------------------
(***************************************************************************)
(* The register helpers of common/include/tlk_bit.h: masks, tests of a     *)
(* mask, the search for the lowest and the highest bit, and TLK_MASK_VAL,  *)
(* which puts values into the fields of a register.  A driver writes the   *)
(* fields of one register with them.  A word is a number below 2^WIDTH; a  *)
(* bitwise operation works on the set of its 1 bits.                       *)
(***************************************************************************)
EXTENDS Integers, Sequences, FiniteSets, FiniteSetsExt, SequencesExt

CONSTANT WIDTH    \* bound: 32, the bits of a register

VARIABLES
    layout,       \* the fields the driver writes: <<first bit, last bit>>
    reg,
    written       \* ghost: the value each field, the reserved one too, should have

fvars == <<layout, reg, written>>

Word == 0 .. 2 ^ WIDTH - 1
Places == 0 .. WIDTH - 1
bits(x) == {i \in Places : (x \div 2 ^ i) % 2 = 1}
word(s) == MapThenSumSet(LAMBDA i : 2 ^ i, s)

-----------------------------------------------------------------------------
TLK_BIT(n) == 2 ^ n
TLK_BIT_MASK_LEN(len) == TLK_BIT(len) - 1
TLK_BIT_RNG(s, e) == TLK_BIT_MASK_LEN(e - s + 1) * 2 ^ s

TLK_BM_SET(x, mask) == word(bits(x) \cup bits(mask))
TLK_BM_CLR(x, mask) == word(bits(x) \ bits(mask))
TLK_BM_FLIP(x, mask) == word((bits(x) \ bits(mask)) \cup (bits(mask) \ bits(x)))
TLK_BM_IS_SET(x, mask) == bits(x) \cap bits(mask) # {}
TLK_BM_IS_CLR(x, mask) == (Places \ bits(x)) \cap bits(mask) # {}

\* The chains that ask for one bit after the other; WIDTH when none is set.
\* (The GNU build takes __builtin_ctz for the lowest bit, which agrees with
\* its chain on every word but 0.)
chain(y, order) ==
    LET hits == SelectSeq(order, LAMBDA i : i \in bits(y))
    IN  IF hits = <<>> THEN WIDTH ELSE hits[1]
TLK_BIT_LOW_BIT(y) == chain(y, [i \in 1 .. WIDTH |-> i - 1])
TLK_BIT_HIGH_BIT(y) == chain(y, [i \in 1 .. WIDTH |-> WIDTH - i])

\* Planted fault: a value that is too large spills into the next field.
Bug_TLK_MV(m, v) == v * 2 ^ TLK_BIT_LOW_BIT(m) % 2 ^ WIDTH
TLK_MV(m, v) == word(bits(v * 2 ^ TLK_BIT_LOW_BIT(m)) \cap bits(m))

\* The twenty-first of the arguments followed by 20, 19, ..., 0.
TLK_COUNT_ARGS(args) == (args \o [i \in 1 .. 21 |-> 21 - i])[21]

\* TLK_MASK_VAL2 ... TLK_MASK_VAL16: the number of arguments tells how many
\* pairs of mask and value are joined.
mask_val(count, args) ==
    word(UNION {bits(TLK_MV(args[2 * i - 1], args[2 * i])) : i \in 1 .. count \div 2})
TLK_MASK_VAL(args) == mask_val(TLK_COUNT_ARGS(args), args)

-----------------------------------------------------------------------------
(* The driver of the register. *)

reserved == <<WIDTH - 1, WIDTH - 1>>
all_fields == layout \cup {reserved}
mask_of(f) == TLK_BIT_RNG(f[1], f[2])
max_of(f) == TLK_BIT_MASK_LEN(f[2] - f[1] + 1)

\* Some fields get new values, in one go; a value may be too large for its field.
WriteFields ==
    \E fs \in SUBSET layout \ {{}} : \E val \in [fs -> Word] :
       LET order == SetToSeq(fs)
           args == FlattenSeq([i \in 1 .. Len(order) |-> <<mask_of(order[i]), val[order[i]]>>])
           masks == word(UNION {bits(mask_of(f)) : f \in fs})
       IN  /\ reg' = TLK_BM_SET(TLK_BM_CLR(reg, masks), TLK_MASK_VAL(args))
           /\ written' = [f \in all_fields |-> IF f \in fs THEN val[f] % (max_of(f) + 1) ELSE written[f]]
           /\ UNCHANGED layout

FlipField(f) ==
    /\ reg' = TLK_BM_FLIP(reg, mask_of(f))
    /\ written' = [written EXCEPT ![f] = max_of(f) - @]
    /\ UNCHANGED layout

\* Bound: two fields side by side, and a reserved bit above them.
Init ==
    /\ \E cut \in 1 .. WIDTH - 2 : layout = {<<0, cut - 1>>, <<cut, WIDTH - 2>>}
    /\ \E v \in {0, 1} :
          /\ reg = v * mask_of(reserved)
          /\ written = [f \in all_fields |-> IF f = reserved THEN v ELSE 0]

Next == WriteFields \/ \E f \in layout : FlipField(f)
Spec == Init /\ [][Next]_fvars

-----------------------------------------------------------------------------
(***************************************************************************)
(* The fields of a register stay apart: after any sequence of writes and   *)
(* flips each field reads back as what was last put into it, cut to its    *)
(* size, the reserved bit is as it was, the tests of a mask tell whether   *)
(* the field has a 1 or a 0, and the searches find the outermost bits.     *)
(***************************************************************************)
FieldsApart ==
    /\ \A f \in all_fields :
          /\ (reg \div 2 ^ f[1]) % (max_of(f) + 1) = written[f]
          /\ TLK_BM_IS_SET(reg, mask_of(f)) = (written[f] # 0)
          /\ TLK_BM_IS_CLR(reg, mask_of(f)) = (written[f] # max_of(f))
    /\ reg # 0 => /\ reg % 2 ^ (TLK_BIT_LOW_BIT(reg) + 1) = 2 ^ TLK_BIT_LOW_BIT(reg)
                  /\ reg \div 2 ^ TLK_BIT_HIGH_BIT(reg) = 1
=============================================================================
