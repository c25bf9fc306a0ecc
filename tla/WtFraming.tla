------------------------------ MODULE WtFraming ------------------------------
(***************************************************************************)
(* What the webtransport crate writes on QUIC streams and reads from them: *)
(* stream headers, HTTP/3 frames, settings and capsules.  The code points  *)
(* are constants; the program takes them from frame.rs.                    *)
(***************************************************************************)
EXTENDS Codec

CONSTANTS
  SIGNAL,                  \* stream type -> the number its header starts with
  FRAME_TYPE,              \* DATA, HEADERS, SETTINGS, GOAWAY -> number
  CAPSULE_TYPE,            \* name -> number
  SETTING_ID,              \* name -> number
  MAX_CLOSE_MESSAGE_LEN    \* 1024 in the program

Injective(f) == \A x, y \in DOMAIN f : f[x] = f[y] => x = y

ASSUME CodePoints ==
  /\ SIGNAL \in [{"Uni", "Bidi"} -> 0 .. MAX_VARINT]
  /\ FRAME_TYPE \in [{"DATA", "HEADERS", "SETTINGS", "GOAWAY"} -> 0 .. MAX_VARINT]
  /\ CAPSULE_TYPE \in [{"CLOSE_SESSION", "DRAIN_SESSION", "MAX_STREAMS_BIDI", "MAX_STREAMS_UNI",
                        "STREAMS_BLOCKED_BIDI", "STREAMS_BLOCKED_UNI", "MAX_DATA", "DATA_BLOCKED"}
                         -> 0 .. MAX_VARINT]
  /\ SETTING_ID \in [{"WT_MAX_SESSIONS", "ENABLE_CONNECT_PROTOCOL", "QPACK_MAX_TABLE_CAPACITY",
                      "QPACK_BLOCKED_STREAMS", "H3_DATAGRAM", "WT_INITIAL_MAX_STREAMS_UNI",
                      "WT_INITIAL_MAX_STREAMS_BIDI", "WT_INITIAL_MAX_DATA"} -> 0 .. MAX_VARINT]

ASSUME CodePointsDistinct ==
  Injective(SIGNAL) /\ Injective(FRAME_TYPE) /\ Injective(CAPSULE_TYPE) /\ Injective(SETTING_ID)

---------------------------------------------------------------------------
(* VarintDecoder (varint.rs).                                              *)

FreshDecoder == [value |-> 0, expected_len |-> 0, consumed |-> 0]

\* Mutant: the length prefix stays in the value.
FeedByteUnmasked(d, byte) ==
  IF d.consumed = 0 THEN [value |-> byte, expected_len |-> PrefixLen(byte), consumed |-> 1]
  ELSE [d EXCEPT !.value = Up(@, byte), !.consumed = @ + 1]

FeedByte(d, byte) ==
  IF d.consumed = 0
  THEN [value |-> byte % Quarter, expected_len |-> PrefixLen(byte), consumed |-> 1]
  ELSE [d EXCEPT !.value = Up(@, byte), !.consumed = @ + 1]

\* Of a decoder that was fed.
IsComplete(d) == d.consumed = d.expected_len

---------------------------------------------------------------------------
(* Stream headers: the signal and the session id (stream.rs).              *)

NewIncoming(type) ==
  [stream_type |-> type, session_id |-> 0, header_len |-> 0,
   header_state |-> "AwaitingSignal", signal |-> FreshDecoder, id |-> FreshDecoder]

\* The record of a stream of our own says nothing of the header written to it.
NewOutgoing(type) == [NewIncoming(type) EXCEPT !.header_state = "Done"]

\* A parse: the stream, the bytes consumed of the data, and the error.
Parsed(stream, consumed, err) == [stream |-> stream, consumed |-> consumed, err |-> err]

SignalByte(parse, byte) ==
  LET d == FeedByte(parse.stream.signal, byte)
      fed == [parse.stream EXCEPT !.signal = d]
  IN IF ~IsComplete(d) THEN Parsed(fed, parse.consumed + 1, "None")
     ELSE IF d.value # SIGNAL[fed.stream_type]
     THEN Parsed(fed, parse.consumed, "ProtocolViolation")
     ELSE Parsed([fed EXCEPT !.header_len = d.consumed, !.header_state = "AwaitingSessionId"],
                parse.consumed + 1, "None")

SessionIdByte(parse, byte) ==
  LET d == FeedByte(parse.stream.id, byte)
      fed == [parse.stream EXCEPT !.id = d]
  IN Parsed(IF ~IsComplete(d) THEN fed
           ELSE [fed EXCEPT !.session_id = d.value, !.header_len = @ + d.consumed,
                            !.header_state = "Done"],
           parse.consumed + 1, "None")

HeaderByte(parse, byte) ==
  CASE Failed(parse) \/ parse.stream.header_state = "Done" -> parse
    [] parse.stream.header_state = "AwaitingSignal"        -> SignalByte(parse, byte)
    [] parse.stream.header_state = "AwaitingSessionId"     -> SessionIdByte(parse, byte)

parse_header(stream, data) ==
  LET parse[n \in 0 .. Len(data)] ==
        IF n = 0 THEN Parsed(stream, 0, "None") ELSE HeaderByte(parse[n - 1], data[n])
  IN parse[Len(data)]

\* The signal was read when the stream was classified.
parse_session_id_only(stream, data) ==
  parse_header([stream EXCEPT !.header_state = IF @ = "AwaitingSignal"
                                               THEN "AwaitingSessionId" ELSE @], data)

encode_stream_header(session_id, type) ==
  EncodeAll(<<EncodeVarint(SIGNAL[type]), EncodeVarint(session_id)>>)

---------------------------------------------------------------------------
(* HTTP/3 frames (h3/frame.rs).                                            *)

EncodeH3Frame(frame) ==
  EncodeAll(<<EncodeVarint(frame.frame_type), EncodeVarint(Len(frame.payload)),
              Bytes(frame.payload)>>)

\* A type, a length and that many bytes.
DecodeTypeAndPayload(buf) ==
  Then(read_varint(buf, 0), LAMBDA type :
    Then(read_varint(buf, type.pos), LAMBDA len :
      Then(read_bytes(buf, len.pos, len.val), LAMBDA payload :
        Value([frame_type |-> type.val, payload |-> payload.val], payload.pos))))

DecodeH3Frame(buf) == DecodeTypeAndPayload(buf)

DataFrame(data) == EncodeH3Frame([frame_type |-> FRAME_TYPE.DATA, payload |-> data])

encode_settings(settings) ==
  LET payload == EncodeAll([i \in 1 .. 2 * Len(settings) |->
                              EncodeVarint(settings[(i + 1) \div 2][IF i % 2 = 1 THEN 1 ELSE 2])])
  IN IF Failed(payload) THEN payload
     ELSE EncodeH3Frame([frame_type |-> FRAME_TYPE.SETTINGS, payload |-> payload.bytes])

decode_settings(payload) ==
  Repeat(LAMBDA acc : Then(read_varint(payload, acc.pos), LAMBDA id :
                        Then(read_varint(payload, id.pos), LAMBDA v :
                          Value(<<id.val, v.val>>, v.pos))),
         LAMBDA acc : remaining(payload, acc.pos) > 0, Len(payload), 0)

encode_goaway(stream_id) ==
  Then(EncodeVarint(stream_id), LAMBDA id :
    EncodeH3Frame([frame_type |-> FRAME_TYPE.GOAWAY, payload |-> id.bytes]))

\* The numbers of a Config that its settings carry.
ConfigValues ==
  [max_sessions : Nat, enable_datagrams : BOOLEAN, initial_max_streams_uni : Nat,
   initial_max_streams_bidi : Nat, initial_max_data : Nat]

\* Config::h3_settings: what an endpoint says it supports.
h3_settings(config) ==
  LET Optional(name, v) == IF v > 0 THEN <<<<SETTING_ID[name], v>>>> ELSE <<>>
  IN <<<<SETTING_ID.WT_MAX_SESSIONS, config.max_sessions>>,
       <<SETTING_ID.ENABLE_CONNECT_PROTOCOL, 1>>,
       <<SETTING_ID.QPACK_MAX_TABLE_CAPACITY, 0>>,
       <<SETTING_ID.QPACK_BLOCKED_STREAMS, 0>>>>
     \o Optional("H3_DATAGRAM", IF config.enable_datagrams THEN 1 ELSE 0)
     \o Optional("WT_INITIAL_MAX_STREAMS_UNI", config.initial_max_streams_uni)
     \o Optional("WT_INITIAL_MAX_STREAMS_BIDI", config.initial_max_streams_bidi)
     \o Optional("WT_INITIAL_MAX_DATA", config.initial_max_data)

\* PeerSettings::apply on the default: the last setting with an id counts, an
\* absent one is zero.
Setting(settings, name) ==
  LET given == {i \in DOMAIN settings : settings[i][1] = SETTING_ID[name]}
  IN IF given = {} THEN 0 ELSE settings[Max(given)][2]

\* What the peer's configuration looks like from its settings.
PeerConfig(settings) ==
  [max_sessions             |-> Setting(settings, "WT_MAX_SESSIONS"),
   enable_datagrams         |-> Setting(settings, "H3_DATAGRAM") = 1,
   initial_max_streams_uni  |-> Setting(settings, "WT_INITIAL_MAX_STREAMS_UNI"),
   initial_max_streams_bidi |-> Setting(settings, "WT_INITIAL_MAX_STREAMS_BIDI"),
   initial_max_data         |-> Setting(settings, "WT_INITIAL_MAX_DATA")]

---------------------------------------------------------------------------
(* Capsules (capsule.rs).  The arguments of CLOSE_SESSION are the error    *)
(* code, a u32, and the message; DRAIN_SESSION has none; the others have   *)
(* one number.                                                             *)

CapsuleNames == DOMAIN CAPSULE_TYPE

IsCapsule(capsule) ==
  /\ capsule.type \in CapsuleNames
  /\ capsule.type # "DRAIN_SESSION" => capsule.args[1] \in Nat
  /\ capsule.type = "CLOSE_SESSION" => capsule.args[2] \in Seq(Nat)

\* Big-endian.
write_u32(n) == <<Down(Down(Down(n))), Low(Down(Down(n))), Low(Down(n)), Low(n)>>
ReadU32(s) == Up(Up(Up(s[1], s[2]), s[3]), s[4])

EncodeCapsulePayload(capsule) ==
  CASE capsule.type = "CLOSE_SESSION" ->
         IF Len(capsule.args[2]) > MAX_CLOSE_MESSAGE_LEN THEN EncodeError("CloseMessageTooLong")
         ELSE Bytes(write_u32(capsule.args[1]) \o capsule.args[2])
    [] capsule.type = "DRAIN_SESSION" -> Bytes(<<>>)
    [] OTHER -> EncodeVarint(capsule.args[1])

EncodeCapsule(capsule) ==
  Then(EncodeCapsulePayload(capsule), LAMBDA payload :
    EncodeH3Frame([frame_type |-> CAPSULE_TYPE[capsule.type], payload |-> payload.bytes]))

\* The arguments in `payload'.  Bytes after the number of a capsule are ignored.
DecodeCapsuleArgs(name, payload) ==
  CASE name = "CLOSE_SESSION" ->
         LET message == SubSeq(payload, 5, Len(payload))
         IN IF Len(payload) < 4 THEN DecodeError("CapsuleError", 0)
            ELSE IF Len(message) > MAX_CLOSE_MESSAGE_LEN THEN DecodeError("CloseMessageTooLong", 0)
            ELSE IF message \notin Utf8 THEN DecodeError("CapsuleError", 0)
            ELSE Value(<<ReadU32(payload), message>>, 0)
    [] name = "DRAIN_SESSION" ->
         IF payload # <<>> THEN DecodeError("CapsuleError", 0) ELSE Value(<<>>, 0)
    [] OTHER -> Then(DecodeVarint(payload), LAMBDA v : Value(<<v.val>>, 0))

DecodeCapsule(buf) ==
  Then(DecodeTypeAndPayload(buf), LAMBDA r :
    LET names == {c \in CapsuleNames : CAPSULE_TYPE[c] = r.val.frame_type}
        name == CHOOSE c \in names : TRUE
    IN IF names = {} THEN DecodeError("CapsuleError", 0)
       ELSE Then(DecodeCapsuleArgs(name, r.val.payload), LAMBDA args :
              Value([type |-> name, args |-> args.val], r.pos)))

=============================================================================
