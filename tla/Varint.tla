------------------------------- MODULE Varint -------------------------------
(***************************************************************************)
(* QUIC variable-length integers, as both crates encode and decode them    *)
(* (webtransport/src/varint.rs, moq-protocol/src/varint.rs).               *)
(*                                                                         *)
(* A byte is a digit of base Base, 256 in the program: `v >> 8' is the     *)
(* division by Base and `v as u8' the remainder.  The two top bits of the  *)
(* first byte tell a quarter of the digits from another, so every limit of *)
(* the code is a quarter of a power of Base: 63 is Base \div 4 - 1, 16383   *)
(* is Base^2 \div 4 - 1, and so on.                                        *)
(***************************************************************************)
EXTENDS Integers, Sequences

CONSTANT Base

ASSUME BaseAssumption == Base \in Nat /\ Base >= 8 /\ Base % 4 = 0

Byte == 0 .. Base - 1

Quarter == Base \div 4

\* The least values that need 2, 4 and 8 bytes, and the least that has no varint.
Limit1 == Quarter
Limit2 == Limit1 * Base
Limit4 == Limit2 * Base * Base
Limit8 == Limit4 * Base * Base * Base * Base

MAX_VARINT == Limit8 - 1

\* u64::MAX.
U64_MAX == 4 * Limit8 - 1

varint_len(v) ==
  IF v < Limit1 THEN 1 ELSE IF v < Limit2 THEN 2 ELSE IF v < Limit4 THEN 4 ELSE 8

---------------------------------------------------------------------------

Down(v) == v \div Base
Low(v) == v % Base
Up(v, byte) == v * Base + byte

\* The varint of `v', which is at most MAX_VARINT.
VarintBytes(v) ==
  LET v2 == Down(v)     v3 == Down(v2)   v4 == Down(v3)   v5 == Down(v4)
      v6 == Down(v5)    v7 == Down(v6)   v8 == Down(v7)
  IN CASE varint_len(v) = 1 -> <<v>>
       [] varint_len(v) = 2 -> <<Quarter + v2, Low(v)>>
       [] varint_len(v) = 4 -> <<2 * Quarter + v4, Low(v3), Low(v2), Low(v)>>
       [] varint_len(v) = 8 -> <<3 * Quarter + v8, Low(v7), Low(v6), Low(v5),
                                 Low(v4), Low(v3), Low(v2), Low(v)>>

\* The length that the first byte announces.
PrefixLen(first) ==
  CASE first \div Quarter = 0 -> 1
    [] first \div Quarter = 1 -> 2
    [] first \div Quarter = 2 -> 4
    [] OTHER -> 8

\* The value of the first `n' bytes of `s', a varint of that length.
VarintValue(s, n) ==
  LET v1 == s[1] % Quarter
      v4 == Up(Up(Up(v1, s[2]), s[3]), s[4])
  IN CASE n = 1 -> v1
       [] n = 2 -> Up(v1, s[2])
       [] n = 4 -> v4
       [] n = 8 -> Up(Up(Up(Up(v4, s[5]), s[6]), s[7]), s[8])

\* Results of encoding: the bytes, or an error.
Bytes(s) == [err |-> "None", bytes |-> s]
EncodeError(e) == [err |-> e, bytes |-> <<>>]

EncodeVarint(v) ==
  IF v > MAX_VARINT THEN EncodeError("VarintOverflow") ELSE Bytes(VarintBytes(v))

\* Results of decoding: a value and the position after it, or an error.
Value(v, pos) == [err |-> "None", val |-> v, pos |-> pos]
DecodeError(e, pos) == [err |-> e, val |-> <<>>, pos |-> pos]

\* Decodes the varint at the start of `s'; `pos' counts the bytes consumed.
DecodeVarint(s) ==
  IF s = <<>> \/ Len(s) < PrefixLen(s[1]) THEN DecodeError("BufferTooShort", 0)
  ELSE Value(VarintValue(s, PrefixLen(s[1])), PrefixLen(s[1]))

=============================================================================
