------------------------------- MODULE Codec -------------------------------
(***************************************************************************)
(* Encoders and decoders.  An encoder is the bytes it appends or an error; *)
(* a decoder reads from a Cursor, which is a buffer and a position, and    *)
(* gives a value with the position after it, or an error.  A string of the *)
(* program is a sequence of bytes.                                         *)
(***************************************************************************)
EXTENDS Varint, SequencesExt

\* The byte strings that are valid UTF-8.
CONSTANT Utf8

\* The largest value of a u16.
U16_MAX == Base * Base - 1

Failed(result) == result.err # "None"

---------------------------------------------------------------------------
(* Writing (moq-protocol/src/codec.rs).                                    *)

\* One encoder after the other, up to the first error.
EncodeAll(results) ==
  IF \E i \in DOMAIN results : Failed(results[i])
  THEN results[SelectInSeq(results, Failed)]
  ELSE Bytes(FlattenSeq([i \in DOMAIN results |-> results[i].bytes]))

\* encode_varint of this crate.
write_varint(v) == EncodeVarint(v)

\* Big-endian; `n' is at most U16_MAX.
write_u16(n) == Bytes(<<Down(n), Low(n)>>)

write_prefixed_bytes(bytes) == EncodeAll(<<write_varint(Len(bytes)), Bytes(bytes)>>)

---------------------------------------------------------------------------
(* Reading: the Cursor of codec.rs.  `pos' bytes of `buf' are consumed.    *)

remaining(buf, pos) == Len(buf) - pos

\* Goes on with what was read; an error ends the whole decoder.
Then(result, Op(_)) == IF Failed(result) THEN result ELSE Op(result)

\* Reads with Op while More, at most `limit' times, and collects what was read;
\* `acc' is what was read so far.
Repeat(Op(_), More(_), limit, pos) ==
  LET read[n \in 0 .. limit] ==
        IF n = 0 THEN Value(<<>>, pos)
        ELSE LET acc == read[n - 1]
             IN IF Failed(acc) \/ ~More(acc) THEN acc
                ELSE Then(Op(acc), LAMBDA r : Value(Append(acc.val, r.val), r.pos))
  IN read[limit]

read_bytes(buf, pos, n) ==
  IF remaining(buf, pos) < n THEN DecodeError("BufferTooShort", pos)
  ELSE Value(SubSeq(buf, pos + 1, pos + n), pos + n)

read_u8(buf, pos) == Then(read_bytes(buf, pos, 1), LAMBDA r : Value(r.val[1], r.pos))

read_u16(buf, pos) ==
  Then(read_bytes(buf, pos, 2), LAMBDA r : Value(Up(r.val[1], r.val[2]), r.pos))

\* decode_varint of this crate, on the unread part of the buffer.
read_varint(buf, pos) ==
  LET r == DecodeVarint(SubSeq(buf, pos + 1, Len(buf))) IN [r EXCEPT !.pos = @ + pos]

read_prefixed_bytes(buf, pos) ==
  Then(read_varint(buf, pos), LAMBDA n : read_bytes(buf, n.pos, n.val))

\* A string whose length may not exceed `max' (types.rs, session_control.rs).
ReadLimited(buf, pos, max) ==
  Then(read_varint(buf, pos), LAMBDA n :
    IF n.val > max THEN DecodeError("ProtocolViolation", n.pos)
    ELSE read_bytes(buf, n.pos, n.val))

=============================================================================
