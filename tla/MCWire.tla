------------------------------- MODULE MCWire -------------------------------
(***************************************************************************)
(* Values of the constants of Wire for TLC.  Bytes are digits of base 8:    *)
(* numbers below 2, 16, 1024 and 2^22 take 1, 2, 4 and 8 of them.           *)
(***************************************************************************)
EXTENDS Wire

Letter == 1
MCUtf8 == Seq(0 .. 6)
MCHeaderUtf8 == Seq(0 .. 127)

MCSignal == [Uni |-> 5, Bidi |-> 9]
MCFrameType == [DATA |-> 0, HEADERS |-> 1, SETTINGS |-> 4, GOAWAY |-> 7]
MCCapsuleType ==
  [CLOSE_SESSION |-> 20, DRAIN_SESSION |-> 1030, MAX_STREAMS_BIDI |-> 2, MAX_STREAMS_UNI |-> 3,
   STREAMS_BLOCKED_BIDI |-> 4, STREAMS_BLOCKED_UNI |-> 5, MAX_DATA |-> 1, DATA_BLOCKED |-> 6]
MCSettingId ==
  [WT_MAX_SESSIONS |-> 1040, ENABLE_CONNECT_PROTOCOL |-> 8, QPACK_MAX_TABLE_CAPACITY |-> 1,
   QPACK_BLOCKED_STREAMS |-> 7, H3_DATAGRAM |-> 12, WT_INITIAL_MAX_STREAMS_UNI |-> 20,
   WT_INITIAL_MAX_STREAMS_BIDI |-> 21, WT_INITIAL_MAX_DATA |-> 22]

---------------------------------------------------------------------------

\* Numbers on both sides of the limits of a varint.
Numbers == {0, 1, 2, 15, 16, 1023, 1024, MAX_VARINT, MAX_VARINT + 1}

Namespace == <<<<1>>, <<2, 3>>>>
Loc(g, o) == [group |-> g, object |-> o]
OnePair == <<Number(2, 9)>>
MixedPairs == <<String(5, <<4, 4>>), Number(2, 1), Number(2, 7)>>
\* The second key does not fit a varint, its difference does.
GreatKeys == <<String(MAX_VARINT, <<1>>), String(MAX_VARINT + 2, <<>>)>>

M(type, fields) == [type |-> type, fields |-> fields]

MCMessages ==
  {M("UNSUBSCRIBE", <<n>>) : n \in Numbers}
  \cup {M("SUBSCRIBE", <<1, ns, <<5>>, OnePair>>) :
          ns \in {Namespace, <<<<1>>>>, <<>>, <<<<1, 2, 3, 4>>>>}}
  \cup {M("SUBSCRIBE_OK", <<1, 2, params, ext>>) :
          params \in {<<>>, MixedPairs}, ext \in {<<>>, GreatKeys, <<Number(3, 1)>>}}
  \cup {M("REQUEST_ERROR", <<1, 20, 0, reason>>) : reason \in {<<>>, <<1, 2>>, <<1, 2, 3>>}}
  \cup {M("FETCH", <<2, f, OnePair>>) :
          f \in {[type |-> 1, fields |-> <<Namespace, <<>>, Loc(0, 1), Loc(20, 0)>>],
                 [type |-> 2, fields |-> <<1, 2>>], [type |-> 3, fields |-> <<0, 17>>]}}
  \cup {M("GOAWAY", <<<<1, 2>>>>), M("CLIENT_SETUP", <<<<>>>>), M("SERVER_SETUP", <<OnePair>>),
        M("MAX_REQUEST_ID", <<16>>), M("REQUESTS_BLOCKED", <<3>>),
        M("REQUEST_OK", <<1, OnePair>>), M("REQUEST_UPDATE", <<1, 2, <<>>>>),
        M("PUBLISH", <<1, Namespace, <<6>>, 3, <<>>, OnePair>>), M("PUBLISH_OK", <<1, <<>>>>),
        M("PUBLISH_DONE", <<1, 2, 0, <<3>>>>),
        M("FETCH_OK", <<1, TRUE, Loc(1, 2), <<>>, OnePair>>), M("FETCH_CANCEL", <<1>>),
        M("TRACK_STATUS", <<1, <<<<4>>>>, <<>>, <<>>>>),
        M("PUBLISH_NAMESPACE", <<1, Namespace, <<>>>>), M("NAMESPACE", <<<<>>>>),
        M("PUBLISH_NAMESPACE_DONE", <<1>>), M("NAMESPACE_DONE", <<Namespace>>),
        M("PUBLISH_NAMESPACE_CANCEL", <<1, 2, <<5>>>>),
        M("SUBSCRIBE_NAMESPACE", <<1, <<<<1>>>>, 2, <<>>>>)}

MCLater == {M("UNSUBSCRIBE", <<MAX_VARINT>>), M("PUBLISH", <<1, Namespace, <<6>>, 3, <<>>, OnePair>>),
            M("GOAWAY", <<<<1, 2>>>>)}

Frame(type, payload) ==
  write_varint(TypeCode[type]).bytes \o write_u16(Len(payload)).bytes \o payload

\* Short payloads of every type, and every message with one byte of its payload
\* replaced or with the last one missing.
MCRawMessages ==
  {Frame(t, p) : t \in MessageTypes, p \in UNION {[1 .. n -> 0 .. 2] : n \in 0 .. 3}}
  \cup UNION {LET p == EncodePayload(m).bytes
              IN {Frame(m.type, [p EXCEPT ![i] = b]) : i \in DOMAIN p, b \in {0, 1, 2, 7}}
                 \cup {Frame(m.type, SubSeq(p, 1, Len(p) - 1))} :
              m \in {x \in MCMessages : ~Failed(EncodePayload(x)) /\ Len(EncodePayload(x).bytes) \in 1 .. 40}}
  \cup {<<1, 0, 1, 5>>}

---------------------------------------------------------------------------

Method == <<58, 109>>
MCStaticTable == <<<<Method, <<>>>>, <<<<97>>, <<48, 49>>>>>>
\* As in RFC 7541, up to seven ones are the start of a code and no code.
MCHuffman == [b \in 97 .. 100 |-> CASE b = 97 -> <<0, 0>> [] b = 98 -> <<0, 1>>
                                    [] b = 99 -> <<1, 0, 1>>
                                    [] b = 100 -> <<1, 1, 1, 1, 1, 1, 1, 1>>]

MCOpening == <<<<Method, <<67>>>>>>
MCHeaders == {MCOpening,
              <<<<Method, <<>>>>, <<[i \in 1 .. 7 |-> 97], <<120>>>>>>}

\* Entries 1 and 0 of the static table by index, a name by reference with a value in
\* Huffman code, a literal name in Huffman code; the code is padded with ones.
MCForeignBlocks ==
  {[block |-> <<0, 0, 193, 192>>, headers |-> <<<<<<97>>, <<48, 49>>>>, <<Method, <<>>>>>>],
   [block |-> <<0, 0, 80, 129, 43>>, headers |-> <<<<Method, <<97, 99, 98>>>>>>],
   [block |-> <<0, 0, 41, 31, 1, 120>>, headers |-> <<<<<<97, 98>>, <<120>>>>>>]}

MCCapsules ==
  {[type |-> "CLOSE_SESSION", args |-> args] : args \in {<<0, <<>>>>, <<4095, <<1, 2>>>>, <<0, <<1, 2, 3>>>>}}
  \cup {[type |-> "DRAIN_SESSION", args |-> <<>>]}
  \cup {[type |-> "MAX_DATA", args |-> <<n>>] : n \in {1, 20, MAX_VARINT}}
  \cup {[type |-> t, args |-> <<3>>] : t \in {"MAX_STREAMS_BIDI", "MAX_STREAMS_UNI", "STREAMS_BLOCKED_BIDI",
                                              "STREAMS_BLOCKED_UNI", "DATA_BLOCKED"}}

MCLaterCapsules == {[type |-> "CLOSE_SESSION", args |-> <<1, <<2>>>>],
                    [type |-> "MAX_DATA", args |-> <<1>>]}

\* Unknown type; DRAIN with a payload; CLOSE without a code; CLOSE whose message is not
\* UTF-8; a number followed by a byte; a number cut short.
MCRawCapsules ==
  {<<0, 1, 5>>, write_varint(1030).bytes \o <<1, 1>>, <<2, 4, 1, 0>>,
   <<2, 4, 2, 5, 0, 0, 0, 1, 7>>, <<1, 2, 2, 1, 1>>, <<1, 1, 5>>}

\* SETTINGS cut short; GOAWAY without an id; an unknown type; header blocks that are too
\* short, whose integer is too long or larger than a u64, whose string ends beyond one.
MCRawFrames ==
  {<<FRAME_TYPE.SETTINGS, 1, 1>>, <<FRAME_TYPE.GOAWAY, 0>>, <<3, 1, 5>>, <<FRAME_TYPE.HEADERS, 1, 0>>}
  \cup {EncodeH3Frame([frame_type |-> FRAME_TYPE.HEADERS, payload |-> block]).bytes :
          block \in {<<0, 0, 255, 128, 128, 128, 128>>, <<0, 0, 39, 250, 255, 255, 7>>,
                     <<0, 0, 39, 249, 255, 255, 7>>}}

MCConfigs ==
  {[max_sessions |-> 1, enable_datagrams |-> d, initial_max_streams_uni |-> u,
    initial_max_streams_bidi |-> 3, initial_max_data |-> 1024] : d \in BOOLEAN, u \in {0, 100}}

MCAppData == {<<>>, <<7, 0>>}

MCParamValues ==
  [forward  |-> BOOLEAN, priority |-> {0, 7}, timeout |-> {5}, expires |-> {3},
   filter   |-> {[type |-> 1, numbers |-> <<>>], [type |-> 4, numbers |-> <<1, 2, 20>>]},
   largest  |-> {Loc(1, 2)}]

=============================================================================
