----------------------------- MODULE SexpCodec -----------------------------
(***************************************************************************)
(* The varint and zigzag codec of pg_sexp.h: the encoding of INTEGER       *)
(* elements, symbol indices, string lengths and small-list payload sizes.  *)
(*                                                                         *)
(* The code works on uint64 and int64.  Here the width is the constant     *)
(* IntBits, and every shift, cast and OR is taken modulo 2^IntBits, so the *)
(* wrap-around of the code happens at the model's width: (v << 1) drops    *)
(* the top bit, (v >> 63) is the arithmetic shift that gives 0 or all     *)
(* ones, and the overflow guard of decode_varint stops once the running    *)
(* shift reaches the width.  A byte is an integer in 0..255.               *)
(***************************************************************************)
EXTENDS Integers, Sequences

CONSTANT IntBits      \* the width of int64/uint64 (64 in the code)

ASSUME IntBits \in 8..16

UMod     == 2^IntBits
IntMax   == 2^(IntBits - 1) - 1       \* INT64_MAX
IntMin   == -(2^(IntBits - 1))        \* INT64_MIN
AllOnes  == UMod - 1                  \* ~0, and (v >> 63) for v < 0

\* (int64) of a uint64: two's complement.
ToSigned(u) == IF u > IntMax THEN u - UMod ELSE u

\* zigzag_encode: (uint64)((value << 1) ^ (value >> 63)).  XOR with 0 is the
\* identity and XOR with all ones is the complement.
ZigzagEncode(v) ==
    LET shifted == (2 * v) % UMod
    IN  IF v < 0 THEN AllOnes - shifted ELSE shifted

\* zigzag_decode: (int64)((value >> 1) ^ -(int64)(value & 1)).
ZigzagDecode(u) ==
    LET half == u \div 2
    IN  ToSigned(IF u % 2 = 1 THEN AllOnes - half ELSE half)

\* varint_size: the number of 7-bit groups, at least one.
RECURSIVE VarintSize(_)
VarintSize(u) == IF u >= 128 THEN 1 + VarintSize(u \div 128) ELSE 1

RECURSIVE EncodeVarint(_), EncodeVarintLate(_)

\* Mutation: the loop of encode_varint tested with > instead of >=.
EncodeVarintLate(u) ==
    IF u > 128 THEN <<(u % 128) + 128>> \o EncodeVarintLate(u \div 128) ELSE <<u % 256>>

\* encode_varint: low 7-bit group first, the high bit set on every byte but
\* the last; the last byte is (uint8)value.
EncodeVarint(u) ==
    IF u >= 128 THEN <<(u % 128) + 128>> \o EncodeVarint(u \div 128) ELSE <<u % 256>>

RECURSIVE DecodeVarintLoop(_, _, _, _), DecodeVarintLoopUnguarded(_, _, _, _)

\* Mutation: the loop reads its byte before testing p < end.
DecodeVarintLoopUnguarded(bs, p, result, shift) ==
    IF p > Len(bs) THEN [val |-> result, next |-> p + 1]
    ELSE LET r == result + (((bs[p] % 128) * 2^shift) % UMod)
         IN  CASE bs[p] < 128               -> [val |-> r, next |-> p + 1]
               [] shift + 7 >= IntBits      -> [val |-> r, next |-> p + 1]
               [] OTHER                     -> DecodeVarintLoopUnguarded(bs, p + 1, r, shift + 7)

\* The multi-byte loop of decode_varint from byte p with the running result
\* and shift: OR in the group (shifted out past the width), stop at a byte
\* without the high bit, or once the shift reaches the width, or at the end
\* of the data, returning what has been read.
DecodeVarintLoop(bs, p, result, shift) ==
    IF p > Len(bs) THEN [val |-> result, next |-> p]
    ELSE LET r == result + (((bs[p] % 128) * 2^shift) % UMod)
         IN  CASE bs[p] < 128               -> [val |-> r, next |-> p + 1]
               [] shift + 7 >= IntBits      -> [val |-> r, next |-> p + 1]
               [] OTHER                     -> DecodeVarintLoop(bs, p + 1, r, shift + 7)

\* decode_varint on the bytes bs from position p: 0 with the position
\* unchanged at the end of the data, the one-byte fast path, or the loop.
DecodeVarint(bs, p) ==
    CASE p > Len(bs)  -> [val |-> 0, next |-> p]
      [] bs[p] < 128  -> [val |-> bs[p], next |-> p + 1]
      [] OTHER        -> DecodeVarintLoop(bs, p + 1, bs[p] % 128, 7)

\* write_signed_varint: zigzag, then varint.
SignedVarint(v) == EncodeVarint(ZigzagEncode(v))

\* What output_element reads back from an INTEGER element the parser wrote
\* for v: decode_varint, then zigzag_decode.
ReadSignedVarint(v) == ZigzagDecode(DecodeVarint(SignedVarint(v), 1).val)

=============================================================================
