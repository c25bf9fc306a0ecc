---------------------------- MODULE MoqMessages ----------------------------
(***************************************************************************)
(* The control messages of moq-protocol: the fields each message writes    *)
(* and the fields it reads, and the frame around them, which is the type,  *)
(* a 16-bit length and the payload.                                        *)
(*                                                                         *)
(* A message is [type |-> name, fields |-> values in the order of Encode]. *)
(***************************************************************************)
EXTENDS MoqTypes

---------------------------------------------------------------------------
(* The fields of each message, by source file: those its Encode writes and *)
(* those its Decode reads, by kind.                                        *)

Fields(written, read) == [written |-> written, read |-> read]

SetupMessages ==
  [CLIENT_SETUP |-> Fields(<<"params">>, <<"params">>),
   SERVER_SETUP |-> Fields(<<"params">>, <<"params">>)]

\* The length of the URI is checked by the reader only.
SessionControlMessages ==
  [GOAWAY           |-> Fields(<<"bytes">>, <<"uri">>),
   MAX_REQUEST_ID   |-> Fields(<<"varint">>, <<"varint">>),
   REQUESTS_BLOCKED |-> Fields(<<"varint">>, <<"varint">>),
   UNSUBSCRIBE      |-> Fields(<<"varint">>, <<"varint">>)]

RequestMessages ==
  [REQUEST_OK     |-> Fields(<<"varint", "params">>, <<"varint", "params">>),
   REQUEST_ERROR  |-> Fields(<<"varint", "varint", "varint", "reason">>,
                             <<"varint", "varint", "varint", "reason">>),
   REQUEST_UPDATE |-> Fields(<<"varint", "varint", "params">>,
                             <<"varint", "varint", "params">>)]

SubscribeMessages ==
  [SUBSCRIBE    |-> Fields(<<"varint", "namespace", "bytes", "params">>,
                           <<"varint", "namespace", "bytes", "params">>),
   SUBSCRIBE_OK |-> Fields(<<"varint", "varint", "params", "extensions">>,
                           <<"varint", "varint", "params", "extensions">>)]

PublishMessages ==
  [PUBLISH      |-> Fields(<<"varint", "namespace", "bytes", "varint", "params", "extensions">>,
                           <<"varint", "namespace", "bytes", "varint", "params", "extensions">>),
   PUBLISH_OK   |-> Fields(<<"varint", "params">>, <<"varint", "params">>),
   PUBLISH_DONE |-> Fields(<<"varint", "varint", "varint", "reason">>,
                           <<"varint", "varint", "varint", "reason">>)]

FetchMessages ==
  [FETCH        |-> Fields(<<"varint", "fetch", "params">>, <<"varint", "fetch", "params">>),
   FETCH_OK     |-> Fields(<<"varint", "flag", "location", "params", "extensions">>,
                           <<"varint", "flag", "location", "params", "extensions">>),
   FETCH_CANCEL |-> Fields(<<"varint">>, <<"varint">>),
   TRACK_STATUS |-> Fields(<<"varint", "namespace", "bytes", "params">>,
                           <<"varint", "namespace", "bytes", "params">>)]

NamespaceMessages ==
  [PUBLISH_NAMESPACE        |-> Fields(<<"varint", "namespace", "params">>,
                                       <<"varint", "namespace", "params">>),
   NAMESPACE                |-> Fields(<<"prefix">>, <<"prefix">>),
   PUBLISH_NAMESPACE_DONE   |-> Fields(<<"varint">>, <<"varint">>),
   NAMESPACE_DONE           |-> Fields(<<"prefix">>, <<"prefix">>),
   PUBLISH_NAMESPACE_CANCEL |-> Fields(<<"varint", "varint", "reason">>,
                                       <<"varint", "varint", "reason">>),
   SUBSCRIBE_NAMESPACE      |-> Fields(<<"varint", "prefix", "option", "params">>,
                                       <<"varint", "prefix", "option", "params">>)]

\* message_type().
TypeCode ==
  [CLIENT_SETUP |-> 32, SERVER_SETUP |-> 33, GOAWAY |-> 16, MAX_REQUEST_ID |-> 21,
   REQUESTS_BLOCKED |-> 26, REQUEST_OK |-> 7, REQUEST_ERROR |-> 5, SUBSCRIBE |-> 3,
   SUBSCRIBE_OK |-> 4, REQUEST_UPDATE |-> 2, UNSUBSCRIBE |-> 10, PUBLISH |-> 29,
   PUBLISH_OK |-> 30, PUBLISH_DONE |-> 11, FETCH |-> 22, FETCH_OK |-> 24,
   FETCH_CANCEL |-> 23, TRACK_STATUS |-> 13, PUBLISH_NAMESPACE |-> 6, NAMESPACE |-> 8,
   PUBLISH_NAMESPACE_DONE |-> 9, NAMESPACE_DONE |-> 14, PUBLISH_NAMESPACE_CANCEL |-> 12,
   SUBSCRIBE_NAMESPACE |-> 17]

MessageTypes == DOMAIN TypeCode

FieldsOf(type) ==
  CASE type \in DOMAIN SetupMessages          -> SetupMessages[type]
    [] type \in DOMAIN SessionControlMessages -> SessionControlMessages[type]
    [] type \in DOMAIN RequestMessages        -> RequestMessages[type]
    [] type \in DOMAIN SubscribeMessages      -> SubscribeMessages[type]
    [] type \in DOMAIN PublishMessages        -> PublishMessages[type]
    [] type \in DOMAIN FetchMessages          -> FetchMessages[type]
    [] type \in DOMAIN NamespaceMessages      -> NamespaceMessages[type]

\* The fields that follow the type of a FETCH: standalone, relative joining,
\* absolute joining.
FetchFields ==
  <<<<"namespace", "bytes", "location", "location">>, <<"varint", "varint">>,
    <<"varint", "varint">>>>

\* What the types of the program let a field be.
FieldValues(kind) ==
  CASE kind \in {"varint", "option"}      -> Nat
    [] kind = "flag"                      -> BOOLEAN
    [] kind \in {"bytes", "reason"}       -> Seq(Nat)
    [] kind \in {"namespace", "prefix"}   -> Seq(Seq(Nat))
    [] kind = "location"                  -> Locations
    [] kind \in {"params", "extensions"}  -> Seq(Pairs)

IsFetch(fetch) ==
  /\ fetch.type \in DOMAIN FetchFields
  /\ \A i \in DOMAIN FetchFields[fetch.type] :
       fetch.fields[i] \in FieldValues(FetchFields[fetch.type][i])

IsMessage(msg) ==
  /\ msg.type \in MessageTypes
  /\ \A i \in DOMAIN FieldsOf(msg.type).written :
       LET kind == FieldsOf(msg.type).written[i]
       IN IF kind = "fetch" THEN IsFetch(msg.fields[i]) ELSE msg.fields[i] \in FieldValues(kind)

---------------------------------------------------------------------------
(* Encode and Decode of fields.  A FETCH is a field that has plain fields. *)

EncodePlain(kind, v) ==
  CASE kind \in {"varint", "option"}      -> write_varint(v)
    [] kind = "flag"                      -> Bytes(<<IF v THEN 1 ELSE 0>>)
    [] kind = "bytes"                     -> write_prefixed_bytes(v)
    [] kind \in {"namespace", "prefix"}   -> EncodeNamespace(v)
    [] kind = "reason"                    -> EncodeReasonPhrase(v)
    [] kind = "location"                  -> EncodeLocation(v)
    [] kind = "params"                    -> EncodeParameters(v)
    [] kind = "extensions"                -> EncodePairs(v)

EncodeFetch(fetch) ==
  LET kinds == FetchFields[fetch.type]
  IN EncodeAll(<<write_varint(fetch.type)>> \o
               [i \in DOMAIN kinds |-> EncodePlain(kinds[i], fetch.fields[i])])

EncodeField(kind, v) == IF kind = "fetch" THEN EncodeFetch(v) ELSE EncodePlain(kind, v)

EncodeFields(kinds, values) ==
  EncodeAll([i \in DOMAIN kinds |-> EncodeField(kinds[i], values[i])])

DecodeFlag(buf, pos) ==
  Then(read_u8(buf, pos), LAMBDA b :
    IF b.val \in {0, 1} THEN Value(b.val = 1, b.pos)
    ELSE DecodeError("ProtocolViolation", b.pos))

DecodePlain(kind, buf, pos) ==
  CASE kind = "varint"     -> read_varint(buf, pos)
    [] kind = "flag"       -> DecodeFlag(buf, pos)
    [] kind = "bytes"      -> read_prefixed_bytes(buf, pos)
    [] kind = "uri"        -> ReadLimited(buf, pos, MAX_GOAWAY_URI_BYTES)
    [] kind = "namespace"  -> DecodeTrackNamespace(buf, pos)
    [] kind = "prefix"     -> DecodeTrackNamespacePrefix(buf, pos)
    [] kind = "option"     -> DecodeSubscribeOption(buf, pos)
    [] kind = "reason"     -> DecodeReasonPhrase(buf, pos)
    [] kind = "location"   -> DecodeLocation(buf, pos)
    [] kind = "params"     -> DecodeParameters(buf, pos)
    [] kind = "extensions" -> decode_extensions_from_remaining(buf, pos)

DecodeFetch(buf, pos) ==
  Then(read_varint(buf, pos), LAMBDA code :
    IF code.val \notin DOMAIN FetchFields THEN DecodeError("ProtocolViolation", code.pos)
    ELSE LET kinds == FetchFields[code.val]
         IN Then(Repeat(LAMBDA acc : DecodePlain(kinds[Len(acc.val) + 1], buf, acc.pos),
                        LAMBDA acc : TRUE, Len(kinds), code.pos),
                 LAMBDA r : Value([type |-> code.val, fields |-> r.val], r.pos)))

DecodeField(kind, buf, pos) ==
  IF kind = "fetch" THEN DecodeFetch(buf, pos) ELSE DecodePlain(kind, buf, pos)

DecodeFieldsOf(kinds, buf, pos) ==
  Repeat(LAMBDA acc : DecodeField(kinds[Len(acc.val) + 1], buf, acc.pos), LAMBDA acc : TRUE,
         Len(kinds), pos)

---------------------------------------------------------------------------
(* Messages and their frames (message/mod.rs).                             *)

EncodePayload(msg) == EncodeFields(FieldsOf(msg.type).written, msg.fields)

DecodePayload(type, buf) == DecodeFieldsOf(FieldsOf(type).read, buf, 0)

\* The buffer after encode_control_message appended to `buf'.  A payload that
\* cannot be encoded leaves the type behind.
encode_control_message(msg, buf) ==
  LET type == write_varint(TypeCode[msg.type]).bytes
      payload == EncodePayload(msg)
      error == IF Failed(payload) THEN payload.err
               ELSE IF Len(payload.bytes) > U16_MAX THEN "MessageTooLong" ELSE "None"
  IN IF error # "None" THEN [err |-> error, bytes |-> buf \o type]
     ELSE Bytes(buf \o type \o write_u16(Len(payload.bytes)).bytes \o payload.bytes)

\* These read extensions up to the end of the payload.
HasTrailingExtensions(type) == type \in {"SUBSCRIBE_OK", "PUBLISH", "FETCH_OK"}

\* The message with this type code that fills `payload', whose frame ends at `end'.
DecodeMessage(code, payload, end) ==
  LET types == {t \in MessageTypes : TypeCode[t] = code}
      type == CHOOSE t \in types : TRUE
  IN IF types = {} THEN DecodeError("UnknownMessageType", end)
     ELSE Then(DecodePayload(type, payload), LAMBDA r :
            IF ~HasTrailingExtensions(type) /\ remaining(payload, r.pos) > 0
            THEN DecodeError("ProtocolViolation", r.pos)
            ELSE Value([type |-> type, fields |-> r.val], end))

\* Mutant: the payload is decoded as far as it has arrived.
DecodeControlMessageEager(buf) ==
  Then(read_varint(buf, 0), LAMBDA code :
    Then(read_u16(buf, code.pos), LAMBDA len :
      LET end == IF remaining(buf, len.pos) < len.val THEN Len(buf) ELSE len.pos + len.val
      IN DecodeMessage(code.val, SubSeq(buf, len.pos + 1, end), end)))

\* The message at the start of `buf' and the bytes it takes.
decode_control_message(buf) ==
  Then(read_varint(buf, 0), LAMBDA code :
    Then(read_u16(buf, code.pos), LAMBDA len :
      Then(read_bytes(buf, len.pos, len.val), LAMBDA payload :
        DecodeMessage(code.val, payload.val, payload.pos))))

\* Two messages are equal for the program: parameters compare sorted.
SameMessage(m, n) ==
  /\ m.type = n.type
  /\ \A i \in DOMAIN FieldsOf(m.type).written :
       IF FieldsOf(m.type).written[i] = "params"
       THEN SortedByKey(m.fields[i]) = SortedByKey(n.fields[i])
       ELSE m.fields[i] = n.fields[i]

=============================================================================
