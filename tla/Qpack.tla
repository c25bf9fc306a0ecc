-------------------------------- MODULE Qpack --------------------------------
(***************************************************************************)
(* Header blocks (webtransport/src/h3/qpack.rs): lists of names and values *)
(* that travel in a HEADERS frame.  Bytes are below 256 here, whatever     *)
(* Base is: the bits of a first byte are fields of it.  A prefix integer   *)
(* of n bits is said by its size, 2^n.                                     *)
(***************************************************************************)
EXTENDS Codec

CONSTANTS
  STATIC_TABLE,        \* the entries, from index 1 here: <<name, value>>; 99 in the program
  HUFFMAN_ENCODE,      \* byte -> the bits of its code
  HeaderUtf8,          \* the strings of bytes below 256 that are valid UTF-8
  MAX_CONTINUATIONS,   \* bytes of an integer after the first; 10 in the program
  OverflowChecks       \* arithmetic that overflows panics, as in a debug build

\* The shift of the last byte is the last one below the width of a u64.
ASSUME ContinuationsAssumption ==
  /\ MAX_CONTINUATIONS \in Nat \ {0}
  /\ 128^(MAX_CONTINUATIONS - 1) <= U64_MAX /\ U64_MAX < 128^MAX_CONTINUATIONS

QpackError == DecodeError("QpackError", 0)

---------------------------------------------------------------------------
(* Prefix integers.                                                        *)

\* Seven bits to a continuation byte, the least first; the last byte is below 128.
Continuation(rest) ==
  LET n == CHOOSE k \in 1 .. 4 : rest < 128^k /\ (k = 1 \/ rest >= 128^(k - 1))
  IN [i \in 1 .. n |-> (IF i < n THEN 128 ELSE 0) + ((rest \div 128^(i - 1)) % 128)]

encode_prefix_int(value, size, mask) ==
  IF value < size - 1 THEN <<mask + value>>
  ELSE <<mask + size - 1>> \o Continuation(value - (size - 1))

\* The sum in `acc' and the bits of the next byte that a u64 keeps of it.
AddBits(acc, bits) ==
  Then(acc, LAMBDA a :
    LET sum == a.val + (bits % (U64_MAX + 1))
    IN IF sum > U64_MAX /\ OverflowChecks THEN DecodeError("Panic", a.pos)
       ELSE Value(sum % (U64_MAX + 1), a.pos + 1))

\* Bytes are added up to the last one, or to where the loop gives up.
decode_prefix_int(data, pos, size) ==
  LET first == data[pos + 1] % size
      most == Min({MAX_CONTINUATIONS, Len(data) - pos - 1})
      last == {k \in 1 .. most : data[pos + 1 + k] < 128}
      sum == FoldLeft(LAMBDA acc, k : AddBits(acc, (data[pos + 1 + k] % 128) * 128^(k - 1)),
                      Value(first, pos + 1),
                      [k \in 1 .. (IF last = {} THEN most ELSE Min(last)) |-> k])
  IN IF pos >= Len(data) THEN QpackError
     ELSE IF first < size - 1 THEN Value(first, pos + 1)
     ELSE IF last = {} /\ ~Failed(sum) THEN QpackError
     ELSE sum

---------------------------------------------------------------------------
(* Strings.                                                                *)

Bits(byte) == [i \in 1 .. 8 |-> (byte \div 2^(8 - i)) % 2]

\* One step down the tree that build_huffman_tree makes of the codes: `walk.code'
\* is the path from the root, and a symbol is a path that is a whole code.
Descend(walk, bit) ==
  LET code == Append(walk.code, bit)
      symbols == {b \in DOMAIN HUFFMAN_ENCODE : HUFFMAN_ENCODE[b] = code}
      onPath == \E b \in DOMAIN HUFFMAN_ENCODE : IsPrefix(code, HUFFMAN_ENCODE[b])
  IN CASE walk.invalid \/ ~onPath -> [walk EXCEPT !.invalid = TRUE]
       [] symbols # {}            -> [walk EXCEPT !.code = <<>>,
                                                  !.result = @ \o SetToSeq(symbols)]
       [] OTHER                   -> [walk EXCEPT !.code = code]

\* The bits that are left are not looked at.
huffman_decode(data) ==
  LET walk == FoldLeft(Descend, [code |-> <<>>, result |-> <<>>, invalid |-> FALSE],
                       FlattenSeq([i \in DOMAIN data |-> Bits(data[i])]))
  IN IF walk.invalid THEN QpackError ELSE Value(walk.result, 0)

\* The bit above the prefix says whether the string is Huffman coded.  The end of the
\* string is a usize, of 64 bits: a sum that is too large panics, and one that wraps
\* is before its beginning, where slicing panics.
decode_string(data, pos, size) ==
  Then(decode_prefix_int(data, pos, size), LAMBDA length :
    LET raw == SubSeq(data, length.pos + 1, length.pos + length.val)
        huffman == (data[pos + 1] \div size) % 2 = 1
    IN IF length.pos - pos + length.val > U64_MAX THEN DecodeError("Panic", length.pos)
       ELSE IF Len(data) < length.pos + length.val THEN QpackError
       ELSE Then(IF huffman THEN huffman_decode(raw) ELSE Value(raw, 0), LAMBDA s :
              IF s.val \in HeaderUtf8 THEN Value(s.val, length.pos + length.val)
              ELSE QpackError))

---------------------------------------------------------------------------
(* Field lines and blocks.                                                 *)

EncodeLiteral(header) ==
  encode_prefix_int(Len(header[1]), 8, 32) \o header[1] \o
  encode_prefix_int(Len(header[2]), 128, 0) \o header[2]

encode_header_block(headers) ==
  <<0, 0>> \o FlattenSeq([i \in DOMAIN headers |-> EncodeLiteral(headers[i])])

\* The entry a line refers to; the dynamic table is not supported.
TableEntry(index, isStatic) ==
  IF isStatic /\ index.val + 1 \in DOMAIN STATIC_TABLE
  THEN Value(STATIC_TABLE[index.val + 1], index.pos) ELSE QpackError

IndexedLine(data, pos) ==
  Then(decode_prefix_int(data, pos, 64), LAMBDA index :
    TableEntry(index, (data[pos + 1] \div 64) % 2 = 1))

NameReferenceLine(data, pos) ==
  Then(decode_prefix_int(data, pos, 16), LAMBDA index :
    Then(TableEntry(index, (data[pos + 1] \div 16) % 2 = 1), LAMBDA entry :
      Then(decode_string(data, entry.pos, 128), LAMBDA v :
        Value(<<entry.val[1], v.val>>, v.pos))))

LiteralLine(data, pos) ==
  Then(decode_string(data, pos, 8), LAMBDA name :
    Then(decode_string(data, name.pos, 128), LAMBDA v : Value(<<name.val, v.val>>, v.pos)))

FieldLine(data, pos) ==
  CASE data[pos + 1] >= 128       -> IndexedLine(data, pos)
    [] data[pos + 1] \in 64 .. 127 -> NameReferenceLine(data, pos)
    [] data[pos + 1] \in 32 .. 63  -> LiteralLine(data, pos)
    [] OTHER                       -> QpackError

\* The lines to the end of the block; each takes a byte at least.
DecodeLines(data, pos) ==
  Repeat(LAMBDA acc : FieldLine(data, acc.pos), LAMBDA acc : remaining(data, acc.pos) > 0,
         Len(data), pos)

\* The Required Insert Count and the Delta Base are read and not used.
decode_header_block(data) ==
  IF Len(data) < 2 THEN QpackError
  ELSE Then(decode_prefix_int(data, 0, 256), LAMBDA ric :
         Then(decode_prefix_int(data, ric.pos, 128), LAMBDA base :
           DecodeLines(data, base.pos)))

=============================================================================
