------------------------------ MODULE MoqTypes ------------------------------
(***************************************************************************)
(* The wire types of moq-protocol: what Encode appends to a buffer and     *)
(* what Decode reads from a Cursor.                                        *)
(***************************************************************************)
EXTENDS Codec

CONSTANTS
  MAX_TRACK_NAMESPACE_FIELDS,   \* 32 in the program
  MAX_FULL_TRACK_NAME_BYTES,    \* 4096
  MAX_REASON_PHRASE_BYTES,      \* 1024
  MAX_GOAWAY_URI_BYTES,         \* 8192
  MAX_PAIRS_CAPACITY            \* the largest capacity a Vec of pairs can be made with

ASSUME LimitsAreNaturals ==
  {MAX_TRACK_NAMESPACE_FIELDS, MAX_FULL_TRACK_NAME_BYTES,
   MAX_REASON_PHRASE_BYTES, MAX_GOAWAY_URI_BYTES, MAX_PAIRS_CAPACITY} \subseteq Nat \ {0}

\* The largest length of the value of a key-value pair.
MAX_KV_VALUE_BYTES == Base * Base - 1

---------------------------------------------------------------------------
(* types.rs.                                                               *)

Locations == [group : Nat, object : Nat]

EncodeLocation(loc) == EncodeAll(<<write_varint(loc.group), write_varint(loc.object)>>)

DecodeLocation(buf, pos) ==
  Then(read_varint(buf, pos), LAMBDA g :
    Then(read_varint(buf, g.pos), LAMBDA o :
      Value([group |-> g.val, object |-> o.val], o.pos)))

TotalBytes(fields) ==
  LET total[n \in 0 .. Len(fields)] == IF n = 0 THEN 0 ELSE total[n - 1] + Len(fields[n])
  IN total[Len(fields)]

\* TrackNamespace::new accepts the fields.
IsTrackNamespace(fields) ==
  /\ Len(fields) \in 1 .. MAX_TRACK_NAMESPACE_FIELDS
  /\ \A i \in DOMAIN fields : fields[i] # <<>>
  /\ TotalBytes(fields) <= MAX_FULL_TRACK_NAME_BYTES

\* Encode of TrackNamespace and of TrackNamespacePrefix: any fields are written.
EncodeNamespace(fields) ==
  EncodeAll(<<write_varint(Len(fields))>> \o
            [i \in DOMAIN fields |-> write_prefixed_bytes(fields[i])])

\* Mutant: the total length is checked before the field is added to it.
ReadFieldLate(buf, acc) ==
  Then(read_prefixed_bytes(buf, acc.pos), LAMBDA f :
    IF f.val = <<>> \/ TotalBytes(acc.val) > MAX_FULL_TRACK_NAME_BYTES
    THEN DecodeError("ProtocolViolation", f.pos) ELSE f)

ReadField(buf, acc) ==
  Then(read_prefixed_bytes(buf, acc.pos), LAMBDA f :
    IF f.val = <<>> \/ TotalBytes(acc.val) + Len(f.val) > MAX_FULL_TRACK_NAME_BYTES
    THEN DecodeError("ProtocolViolation", f.pos) ELSE f)

DecodeFields(buf, pos, least) ==
  Then(read_varint(buf, pos), LAMBDA count :
    IF count.val \notin least .. MAX_TRACK_NAMESPACE_FIELDS
    THEN DecodeError("ProtocolViolation", count.pos)
    ELSE Repeat(LAMBDA acc : ReadField(buf, acc), LAMBDA acc : TRUE, count.val, count.pos))

DecodeTrackNamespace(buf, pos) == DecodeFields(buf, pos, 1)

\* An empty prefix matches every namespace.
DecodeTrackNamespacePrefix(buf, pos) == DecodeFields(buf, pos, 0)

EncodeReasonPhrase(s) ==
  IF Len(s) > MAX_REASON_PHRASE_BYTES THEN EncodeError("ReasonPhraseTooLong")
  ELSE write_prefixed_bytes(s)

DecodeReasonPhrase(buf, pos) ==
  Then(ReadLimited(buf, pos, MAX_REASON_PHRASE_BYTES), LAMBDA s :
    IF s.val \in Utf8 THEN s ELSE DecodeError("ProtocolViolation", s.pos))

\* SubscriptionFilter: its type and the numbers the type calls for, in order: the
\* start group, the start object, the end group.
FilterNumbers == <<0, 0, 2, 3>>

Filters == [type : Nat, numbers : Seq(Nat)]

EncodeFilter(filter) ==
  EncodeAll(<<write_varint(filter.type)>> \o
            [i \in DOMAIN filter.numbers |-> write_varint(filter.numbers[i])])

DecodeFilter(buf, pos) ==
  Then(read_varint(buf, pos), LAMBDA type :
    IF type.val \notin DOMAIN FilterNumbers
    THEN DecodeError("InvalidFilterType", type.pos)
    ELSE Then(Repeat(LAMBDA acc : read_varint(buf, acc.pos), LAMBDA acc : TRUE,
                     FilterNumbers[type.val], type.pos),
              LAMBDA ns : Value([type |-> type.val, numbers |-> ns.val], ns.pos)))

\* A SubscribeOption travels as its number.
SubscribeOptions == 0 .. 2

DecodeSubscribeOption(buf, pos) ==
  Then(read_varint(buf, pos), LAMBDA v :
    IF v.val \in SubscribeOptions THEN v ELSE DecodeError("InvalidValue", v.pos))

---------------------------------------------------------------------------
(* Key-value pairs (types.rs).  The value of an even key is a number, held *)
(* as the one element of `val'; that of an odd key is the byte string      *)
(* `val'.  A pair carries the kind of its value, which the program does    *)
(* not tie to the key until it encodes it.                                 *)

Number(key, v) == [key |-> key, kind |-> "Varint", val |-> <<v>>]
String(key, s) == [key |-> key, kind |-> "Bytes", val |-> s]

\* What a KeyValuePair can be; Varint is one number.
Pairs ==
  {p \in [key : Nat, kind : {"Varint", "Bytes"}, val : Seq(Nat)] :
     p.kind = "Varint" => Len(p.val) = 1}

EncodePair(prev, pair) ==
  IF pair.key < prev THEN EncodeError("KeyValueFormattingError")
  ELSE EncodeAll(<<write_varint(pair.key - prev),
         IF pair.kind = "Varint"
         THEN IF pair.key % 2 # 0 THEN EncodeError("KeyValueFormattingError")
              ELSE write_varint(pair.val[1])
         ELSE IF pair.key % 2 # 1 \/ Len(pair.val) > MAX_KV_VALUE_BYTES
              THEN EncodeError("KeyValueFormattingError")
              ELSE write_prefixed_bytes(pair.val)>>)

\* Mutant: keys are written as they are, not as differences.
EncodePairsAbsolute(pairs) ==
  EncodeAll([i \in DOMAIN pairs |-> EncodePair(0, pairs[i])])

\* encode_key_value_pairs, and encode_extensions.
EncodePairs(pairs) ==
  EncodeAll([i \in DOMAIN pairs |->
               EncodePair(IF i = 1 THEN 0 ELSE pairs[i - 1].key, pairs[i])])

\* The pair after those in `acc'.
DecodePair(buf, acc) ==
  LET prev == IF acc.val = <<>> THEN 0 ELSE Last(acc.val).key
  IN Then(read_varint(buf, acc.pos), LAMBDA delta :
       LET key == prev + delta.val
       IN IF key > U64_MAX THEN DecodeError("ProtocolViolation", delta.pos)
          ELSE IF key % 2 = 0
          THEN Then(read_varint(buf, delta.pos), LAMBDA v : Value(Number(key, v.val), v.pos))
          ELSE Then(ReadLimited(buf, delta.pos, MAX_KV_VALUE_BYTES), LAMBDA s :
                 Value(String(key, s.val), s.pos)))

\* decode_key_value_pairs.  Vec::with_capacity panics, or aborts, on a count that is
\* too large for it; a smaller one that does not fit the buffer ends in an error within
\* the pairs that do, of two bytes at least.
DecodePairs(buf, pos, count) ==
  IF count > MAX_PAIRS_CAPACITY THEN DecodeError("Panic", pos)
  ELSE Repeat(LAMBDA acc : DecodePair(buf, acc), LAMBDA acc : Len(acc.val) < count,
              (remaining(buf, pos) \div 2) + 1, pos)

decode_extensions_from_remaining(buf, pos) ==
  Repeat(LAMBDA acc : DecodePair(buf, acc), LAMBDA acc : remaining(buf, acc.pos) > 0,
         (remaining(buf, pos) \div 2) + 1, pos)

---------------------------------------------------------------------------
(* Parameters (params.rs).                                                 *)

PARAM_DELIVERY_TIMEOUT == 2
PARAM_EXPIRES == 8
PARAM_LARGEST_OBJECT == 9
PARAM_FORWARD == 16
PARAM_SUBSCRIBER_PRIORITY == 32
PARAM_SUBSCRIPTION_FILTER == 33

\* A pair goes after those that are sorted and whose key is not greater.
InsertByKey(sorted, pair) ==
  InsertAt(sorted, Cardinality({i \in DOMAIN sorted : sorted[i].key <= pair.key}) + 1, pair)

\* Stable, so pairs with one key keep their order.
SortedByKey(pairs) ==
  LET sorted[n \in 0 .. Len(pairs)] ==
        IF n = 0 THEN <<>> ELSE InsertByKey(sorted[n - 1], pairs[n])
  IN sorted[Len(pairs)]

EncodeParameters(params) ==
  EncodeAll(<<write_varint(Len(params)), EncodePairs(SortedByKey(params))>>)

DecodeParameters(buf, pos) ==
  Then(read_varint(buf, pos), LAMBDA count : DecodePairs(buf, count.pos, count.val))

\* Mutant: a parameter that is set again is added again.
SetPairAgain(params, pair) == Append(params, pair)

\* The setters drop the pairs with the key and add the new one at the end.
SetPair(params, pair) ==
  LET retained[n \in 0 .. Len(params)] ==
        IF n = 0 THEN <<>>
        ELSE retained[n - 1] \o (IF params[n].key # pair.key THEN <<params[n]>> ELSE <<>>)
  IN Append(retained[Len(params)], pair)

\* The getters take the first pair with the key and the kind of value they expect.
GetPair(params, key, kind) ==
  LET found == {i \in DOMAIN params : params[i].key = key /\ params[i].kind = kind}
  IN IF found = {} THEN {} ELSE {params[Min(found)].val}

GetNumber(params, key) == {v[1] : v \in GetPair(params, key, "Varint")}

get_forward(params) == {v # 0 : v \in GetNumber(params, PARAM_FORWARD)}
set_forward(params, b) == SetPair(params, Number(PARAM_FORWARD, IF b THEN 1 ELSE 0))

\* `v as u8'.
get_subscriber_priority(params) == {Low(v) : v \in GetNumber(params, PARAM_SUBSCRIBER_PRIORITY)}
set_subscriber_priority(params, n) == SetPair(params, Number(PARAM_SUBSCRIBER_PRIORITY, n))

get_delivery_timeout(params) == GetNumber(params, PARAM_DELIVERY_TIMEOUT)
set_delivery_timeout(params, n) == SetPair(params, Number(PARAM_DELIVERY_TIMEOUT, n))

get_expires(params) == GetNumber(params, PARAM_EXPIRES)
set_expires(params, n) == SetPair(params, Number(PARAM_EXPIRES, n))

\* The results of decoding the value; bytes after it are ignored.
get_subscription_filter(params) ==
  {DecodeFilter(s, 0) : s \in GetPair(params, PARAM_SUBSCRIPTION_FILTER, "Bytes")}
set_subscription_filter(params, filter) ==
  LET encoded == EncodeFilter(filter)
  IN IF Failed(encoded) THEN params
     ELSE SetPair(params, String(PARAM_SUBSCRIPTION_FILTER, encoded.bytes))

get_largest_object(params) ==
  {DecodeLocation(s, 0) : s \in GetPair(params, PARAM_LARGEST_OBJECT, "Bytes")}
set_largest_object(params, loc) ==
  LET encoded == EncodeLocation(loc)
  IN IF Failed(encoded) THEN params
     ELSE SetPair(params, String(PARAM_LARGEST_OBJECT, encoded.bytes))

=============================================================================
