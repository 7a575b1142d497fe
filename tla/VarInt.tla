-------------------------------- MODULE VarInt --------------------------------
(***************************************************************************)
(* The variable-length integers of the format (utils.cpp).  The number of  *)
(* leading zeros of the first byte says how many bytes follow; a signed    *)
(* one has its sign in the highest bit that is left.                       *)
(*                                                                         *)
(* The width of a byte is a parameter (8 in the code).  A byte has one bit *)
(* of the length and ByteBits - 1 of data, and there are at most ByteBits  *)
(* bytes.  Bit operations are written as arithmetic.                       *)
(***************************************************************************)
EXTENDS Integers, Sequences, SequencesExt

CONSTANTS ByteBits  \* bits of a byte

ASSUME ByteBitsAssumption == ByteBits \in Nat /\ ByteBits > 1

Byte == 0 .. (2^ByteBits - 1)
DataBits == ByteBits - 1

MaxVarUInt == 2^(DataBits * ByteBits) - 1
MaxVarInt == 2^(DataBits * ByteBits - 1) - 1

(* Byte i of value, the lowest one being byte 0.                           *)
ByteOf(value, i) == (value \div 2^(ByteBits * i)) % 2^ByteBits

(* The value of a sequence of bytes, the highest one first.                *)
Value(bytes) == FoldLeft(LAMBDA high, b : high * 2^ByteBits + b, 0, bytes)

(* Undefined for 0 in the code, which makes no difference: the encoding of *)
(* 0 does not depend on the number of bytes.                               *)
significant_bits(value) ==
    CHOOSE n \in 0..(ByteBits * ByteBits) :
        value < 2^n /\ (n = 0 \/ value >= 2^(n - 1))

-----------------------------------------------------------------------------
(* Writing.                                                                *)

BytecountPlusOne(value) == (significant_bits(value) + DataBits) \div DataBits
bytecount_from_varuint(value) == (significant_bits(value) + DataBits - 1) \div DataBits

(* One byte too many: a value above MaxVarUInt leaves no bit for the       *)
(* length, the shifted marker is 0, and so is the mask for the data where  *)
(* a shift by the width of the type, which C++ leaves undefined, is one by *)
(* that modulo the width.                                                  *)
Leading(buf, bytecount) ==
    IF bytecount > ByteBits THEN 0
    ELSE 2^(ByteBits - bytecount)
         + (ByteOf(buf, bytecount - 1) % 2^(ByteBits - bytecount))

write_varbuf_ex(buf, bytecount) ==
    IF buf = 0 THEN <<2^(ByteBits - 1)>>
    ELSE <<Leading(buf, bytecount)>>
         \o [i \in 1..(bytecount - 1) |-> ByteOf(buf, bytecount - 1 - i)]

write_varuint(value) == write_varbuf_ex(value, bytecount_from_varuint(value))

(* One bit more than the value needs, for the sign.                        *)
SignedBytecount(value) == (significant_bits(value) + DataBits) \div DataBits

write_varint(value) ==
    LET enc == IF value < 0 THEN -value ELSE value
        n == SignedBytecount(enc)
    IN  write_varbuf_ex(IF value < 0 THEN enc + 2^(n * DataBits - 1) ELSE enc, n)

-----------------------------------------------------------------------------
(* Reading from the front of `input': the value and how many bytes it      *)
(* took, or why there is none.                                             *)

Failed(why) == [error |-> why, value |-> 0, count |-> 0]

read_varuint_ex(input) ==
    IF input = <<>> THEN Failed("eof")
    ELSE LET leading == Head(input)
             count == ByteBits - significant_bits(leading)
         IN  IF leading = 0 THEN Failed("invalid")
             ELSE IF Len(input) <= count THEN Failed("eof")
             ELSE [error |-> "none", count |-> count + 1,
                   value |-> Value(<<leading % 2^(ByteBits - count - 1)>>
                                   \o SubSeq(input, 2, count + 1))]

read_varint(input) ==
    LET raw == read_varuint_ex(input)
        mask == 2^(DataBits * raw.count - 1)
    IN  IF raw.error = "none" /\ raw.value >= mask
        THEN [raw EXCEPT !.value = mask - @]
        ELSE raw
=============================================================================
