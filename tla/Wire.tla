-------------------------------- MODULE Wire --------------------------------
(***************************************************************************)
(* One peer writes on one stream and the other reads it.  The transport    *)
(* hands the bytes over in order and cuts them where it likes.             *)
(*                                                                         *)
(*   Control   MoQ control messages                                        *)
(*   Session   the CONNECT stream: headers, then capsules in DATA frames   *)
(*   H3Control SETTINGS and GOAWAY                                         *)
(*   Uni, Bidi a WebTransport stream: its header, then data                *)
(*                                                                         *)
(* The program reads on after an error in a frame or a capsule.  The       *)
(* reader of the control stream is not part of it: that one keeps what is  *)
(* left of the bytes, decodes messages while it can and stops at an error. *)
(***************************************************************************)
EXTENDS MoqMessages, WtFraming, Qpack, WtErrors

CONSTANTS
  Channels,      \* the kinds of stream
  Messages,      \* control messages a peer may send
  Later,         \* bound: those of them that it sends after another one
  Headers,       \* header lists
  ForeignBlocks, \* header blocks of another encoder, and the header lists they stand for
  Opening,       \* bound: the header list that capsules follow
  Capsules,
  LaterCapsules, \* bound: those that follow another capsule
  Configs,       \* configurations an endpoint announces in its SETTINGS
  StreamIds,     \* stream and session ids
  AppData,       \* what an application writes on a stream
  AppErrors,     \* application error codes
  RawMessages,   \* frames of control messages that no encoder of the program made
  RawCapsules,   \* capsules that no encoder of the program made
  RawFrames,     \* HTTP/3 frames that no encoder of the program made
  ParamValues,   \* setter -> the values it is called with
  Chunks,        \* bound: the sizes of the pieces, besides everything on the way
  MaxItems,      \* bound: items sent on the stream, besides its opening headers
  MaxSets        \* bound: calls of setters

\* What is sent is what the types of the program allow, and the other implementations
\* send bytes.
ASSUME ChannelsAssumption == Channels \subseteq {"Control", "H3Control", "Session", "Uni", "Bidi"}

ASSUME SentAssumption ==
  /\ \A m \in Messages \cup Later : IsMessage(m)
  /\ \A h \in Headers : encode_header_block(h) \in Seq(Nat)
  /\ \A c \in Capsules \cup LaterCapsules : IsCapsule(c)
  /\ Configs \subseteq ConfigValues
  /\ StreamIds \subseteq Nat /\ AppErrors \subseteq 0 .. U32_MAX
  /\ AppData \subseteq Seq(Nat)
  /\ \A b \in ForeignBlocks : b.block \in Seq(Nat)
  /\ RawMessages \cup RawCapsules \cup RawFrames \subseteq Seq(Nat)

ASSUME ParamValuesAssumption ==
  /\ DOMAIN ParamValues \subseteq {"forward", "priority", "timeout", "expires", "filter", "largest"}
  /\ \A name \in DOMAIN ParamValues : \A v \in ParamValues[name] :
         /\ name \in {"priority", "timeout", "expires"} => v \in Nat
         /\ name = "filter" => v \in Filters
         /\ name = "largest" => v \in Locations

ASSUME BoundsAssumption == MaxItems \in Nat \ {0}

VARIABLES
  channel,     \* the kind of this stream
  sent,        \* the items sent on it: their kind and value
  draft,       \* the Parameters under construction, and the last value set of each
  body,        \* Session: bytes of capsules not yet in a DATA frame
  wire,        \* the bytes on the way
  delivered,   \* the bytes handed over
  rx,          \* the reader
  got          \* what the reader made of them: results with a kind

vars == <<channel, sent, draft, body, wire, delivered, rx, got>>

Item(kind, val) == [kind |-> kind, val |-> val]
Result(kind, r) == [kind |-> kind, err |-> r.err, val |-> r.val]

---------------------------------------------------------------------------
(* Parsers: everything that can be decoded is taken off the buffer, up to  *)
(* an error, which stays in it (FrameParser::feed, CapsuleParser::feed).   *)

DecodeNext(kind, buf) ==
  CASE kind = "message" -> decode_control_message(buf)
    [] kind = "frame"   -> DecodeH3Frame(buf)
    [] kind = "capsule" -> DecodeCapsule(buf)

\* The next item `r' is taken off `buf', and `parse' goes on with the rest.
Taken(r, buf, parse) ==
  LET rest == parse[SubSeq(buf, r.pos + 1, Len(buf))]
  IN CASE r.err = "BufferTooShort" -> [buf |-> buf, results |-> <<>>]
       [] ~Failed(r) -> [buf |-> rest.buf, results |-> <<r>> \o rest.results]
       [] OTHER      -> [buf |-> buf, results |-> <<r>>]

\* What is read of `bytes' and what is left of them.
Parse(kind, bytes) ==
  LET parse[buf \in Seq(Nat)] == Taken(DecodeNext(kind, buf), buf, parse)
  IN parse[bytes]

Feed(kind, buf, data) == Parse(kind, buf \o data)

---------------------------------------------------------------------------
(* The readers: the new reader and what it got from `data'.                *)

\* The session of a CONNECT stream, which the request makes: of `limits' are the
\* capsules that set one.
NoSession == [state |-> "none", capsules |-> <<>>, limits |-> {}]
NewSession == [NoSession EXCEPT !.state = "open"]

\* `queue' holds the events of H3Connection that Connection has not taken.
NewReader(type) ==
  [buf |-> <<>>, queue |-> <<>>, session |-> NoSession, stream |-> NewIncoming(type),
   classified |-> FALSE, app |-> <<>>, failed |-> FALSE]

ReadControl(r, fed) ==
  [rx  |-> [r EXCEPT !.buf = fed.buf],
   got |-> [i \in DOMAIN fed.results |-> Result("message", fed.results[i])]]

\* H3Connection::process_frame: the event of a frame, or its error.
FrameEvent(type, frame) ==
  CASE type = "H3Control" /\ frame.frame_type = FRAME_TYPE.SETTINGS ->
         Result("settings", decode_settings(frame.payload))
    [] type = "H3Control" /\ frame.frame_type = FRAME_TYPE.GOAWAY ->
         Result("goaway", DecodeVarint(frame.payload))
    [] type = "Session" /\ frame.frame_type = FRAME_TYPE.HEADERS ->
         Result("headers", decode_header_block(frame.payload))
    [] type = "Session" /\ frame.frame_type = FRAME_TYPE.DATA ->
         Result("data", Value(frame.payload, 0))
    [] OTHER -> Result("none", Value(<<>>, 0))

\* The capsules among `results' that set a limit.
LimitTypes == {"MAX_DATA", "MAX_STREAMS_BIDI", "MAX_STREAMS_UNI"}

Limits(results) ==
  {c \in {results[i].val : i \in {j \in DOMAIN results : ~Failed(results[j])}} :
     c.type \in LimitTypes}

\* The i-th of `results' closes the session: an error, CLOSE_SESSION, or a limit
\* that is lower than it was.
Closing(limits, results, i) ==
  \/ Failed(results[i])
  \/ results[i].val.type = "CLOSE_SESSION"
  \/ \E c \in limits \cup Limits(SubSeq(results, 1, i - 1)) :
       c.type = results[i].val.type /\ results[i].val.args[1] < c.args[1]

\* DRAIN_SESSION makes the session Draining whatever its state was.
Ended(limits, results) ==
  \E i \in DOMAIN results :
    /\ Closing(limits, results, i)
    /\ \A j \in i + 1 .. Len(results) :
         Failed(results[j]) \/ results[j].val.type # "DRAIN_SESSION"

ReadCapsules(acc, fed) ==
  [session |-> [state    |-> IF Ended(acc.session.limits, fed.results) THEN "closed" ELSE "open",
                capsules |-> fed.buf,
                limits   |-> acc.session.limits \cup Limits(fed.results)],
   got     |-> acc.got \o [i \in DOMAIN fed.results |-> Result("capsule", fed.results[i])]]

\* Data after the session was closed.
Late == Result("data", DecodeError("ProtocolViolation", 0))

\* Connection::process_h3_events, one event: `acc' is the session and what was got.
HandleEvent(acc, e) ==
  CASE e.kind = "data" /\ acc.session.state = "closed" -> [acc EXCEPT !.got = Append(@, Late)]
    [] e.kind = "data" /\ acc.session.state = "open"   ->
         ReadCapsules(acc, Feed("capsule", acc.session.capsules, e.val))
    [] e.kind \in {"settings", "goaway"} -> [acc EXCEPT !.got = Append(@, e)]
    [] e.kind = "headers" ->
         [session |-> IF e.val = Opening THEN NewSession ELSE acc.session,
          got     |-> Append(acc.got, e)]
    [] OTHER -> acc

\* An error, the only result of this kind, drops the events that were drained with it.
HandleNext(acc, e) ==
  IF acc.got # <<>> /\ Last(acc.got).kind = "data" THEN acc ELSE HandleEvent(acc, e)

HandleEvents(session, events) ==
  LET handled[n \in 0 .. Len(events)] ==
        IF n = 0 THEN [session |-> session, got |-> <<>>]
        ELSE HandleNext(handled[n - 1], events[n])
  IN handled[Len(events)]

\* The `handled' events are taken off the queue.
Drained(r, handled) ==
  [rx |-> [r EXCEPT !.queue = <<>>, !.session = handled.session], got |-> handled.got]

\* A malformed frame ends the call: the frames of the chunk that follow it are lost,
\* and the events of those before it stay in the queue until a call that succeeds.
TakeEvents(r, events) ==
  LET bad == {i \in DOMAIN events : Failed(events[i])}
  IN IF bad = {} THEN Drained(r, HandleEvents(r.session, r.queue \o events))
     ELSE [rx  |-> [r EXCEPT !.queue = @ \o SubSeq(events, 1, Min(bad) - 1)],
           got |-> <<events[Min(bad)]>>]

ReadFrames(type, r, fed) ==
  TakeEvents([r EXCEPT !.buf = fed.buf],
             [i \in DOMAIN fed.results |-> FrameEvent(type, fed.results[i].val)])

\* Connection::classify_new_stream and process_pending_wt_stream.  A first chunk
\* without the whole signal leaves a stream of which nothing is read.  A session is
\* named by the id of its CONNECT stream, which is a multiple of 4.
ReadStream(r, data) ==
  LET signal == DecodeVarint(data)
      parse ==
        IF r.classified
        THEN IF r.stream.header_len > 0 /\ r.stream.stream_type = "Uni"
             THEN parse_session_id_only(r.stream, data) ELSE parse_header(r.stream, data)
        ELSE IF r.stream.stream_type = "Uni"
        THEN LET rest == parse_session_id_only([r.stream EXCEPT !.header_len = signal.pos],
                                               SubSeq(data, signal.pos + 1, Len(data)))
             IN [rest EXCEPT !.consumed = @ + signal.pos]
        ELSE parse_header(r.stream, data)
      err == IF ~Failed(parse) /\ parse.stream.header_state = "Done" /\ parse.stream.session_id % 4 # 0
             THEN "InvalidSessionId" ELSE parse.err
  IN IF ~r.classified /\ Failed(signal)
     THEN [rx |-> r, got |-> <<Result("stream", signal)>>]
     ELSE [rx |-> [r EXCEPT !.classified = TRUE, !.stream = parse.stream,
                            !.app = IF err = "None" /\ parse.stream.header_state = "Done"
                                    THEN @ \o SubSeq(data, parse.consumed + 1, Len(data)) ELSE @],
           got |-> IF err # "None" THEN <<Result("stream", DecodeError(err, 0))>> ELSE <<>>]

\* Nothing is read any more of a control stream or of a data stream after an error,
\* nor of any stream after a panic.
Closed(type, new) ==
  LET failed == new.got # <<>> /\ Failed(Last(new.got))
                /\ (type \in {"Control", "Uni", "Bidi"} \/ Last(new.got).err = "Panic")
  IN [new EXCEPT !.rx = [@ EXCEPT !.failed = failed]]

Read(type, r, data) ==
  Closed(type, CASE type = "Control" -> ReadControl(r, Feed("message", r.buf, data))
                 [] type \in {"H3Control", "Session"} ->
                      ReadFrames(type, r, Feed("frame", r.buf, data))
                 [] type \in {"Uni", "Bidi"} -> ReadStream(r, data))

---------------------------------------------------------------------------

NoDraft == [params |-> <<>>, set |-> [p \in DOMAIN ParamValues |-> {}], calls |-> 0]

Init ==
  /\ channel \in Channels
  /\ sent = <<>> /\ draft = NoDraft /\ body = <<>>
  /\ wire = <<>> /\ delivered = <<>> /\ got = <<>>
  /\ rx = NewReader(IF channel = "Uni" THEN "Uni" ELSE "Bidi")

\* The item goes out; one that cannot be encoded does not.
Send(item, encoded) ==
  /\ Len(sent) < MaxItems
  /\ ~Failed(encoded)
  /\ sent' = Append(sent, item)
  /\ wire' = wire \o encoded.bytes
  /\ UNCHANGED <<channel, draft, body, delivered, rx, got>>

\* Its namespace comes from TrackNamespace::new.
Constructed(msg) ==
  \A k \in DOMAIN msg.fields :
    FieldsOf(msg.type).written[k] = "namespace" => IsTrackNamespace(msg.fields[k])

\* Alone on the stream if it is the draft, to bound the run.
SendMessage(msg) ==
  /\ channel = "Control"
  /\ draft.calls = 0 \/ sent = <<>>
  /\ \A i \in DOMAIN sent : sent[i].kind # "raw"
  /\ Constructed(msg)
  /\ Send(Item("message", msg), encode_control_message(msg, <<>>))

SetParameter(name, v) ==
  /\ channel = "Control" /\ sent = <<>>
  /\ draft.calls < MaxSets
  /\ draft' = [params |-> CASE name = "forward"  -> set_forward(draft.params, v)
                            [] name = "priority" -> set_subscriber_priority(draft.params, v)
                            [] name = "timeout"  -> set_delivery_timeout(draft.params, v)
                            [] name = "expires"  -> set_expires(draft.params, v)
                            [] name = "filter"   -> set_subscription_filter(draft.params, v)
                            [] name = "largest"  -> set_largest_object(draft.params, v),
               set    |-> [draft.set EXCEPT ![name] = {v}],
               calls  |-> draft.calls + 1]
  /\ UNCHANGED <<channel, sent, body, wire, delivered, rx, got>>

\* A message with the parameters that were set.
DraftMessage == [type |-> "REQUEST_OK", fields |-> <<1, draft.params>>]

SendDraft ==
  /\ draft.calls > 0
  /\ SendMessage(DraftMessage)

SendHeaders(headers, block) ==
  /\ channel = "Session" /\ sent = <<>>
  /\ Send(Item("headers", headers),
          EncodeH3Frame([frame_type |-> FRAME_TYPE.HEADERS, payload |-> block]))

\* A capsule is written; SendBody puts it in DATA frames.
WriteCapsule(item, encoded) ==
  /\ channel = "Session" /\ Len(sent) \in 1 .. MaxItems
  /\ sent[1].val = Opening
  /\ ~Failed(encoded)
  /\ sent' = Append(sent, item)
  /\ body' = body \o encoded.bytes
  /\ UNCHANGED <<channel, draft, wire, delivered, rx, got>>

SendCapsule(capsule) == WriteCapsule(Item("capsule", capsule), EncodeCapsule(capsule))

\* The first `n' bytes of what was written; a run takes one byte or all.
SendBody(n) ==
  /\ n \in 1 .. Len(body)
  /\ wire' = wire \o DataFrame(SubSeq(body, 1, n)).bytes
  /\ body' = SubSeq(body, n + 1, Len(body))
  /\ UNCHANGED <<channel, sent, draft, delivered, rx, got>>

\* What another implementation may send.
SendRawMessage ==
  /\ channel = "Control" /\ sent = <<>> /\ draft.calls = 0
  /\ \E bytes \in RawMessages : Send(Item("raw", bytes), Bytes(bytes))

SendRawCapsule ==
  /\ channel = "Session" /\ Len(sent) = 1
  /\ \E bytes \in RawCapsules : WriteCapsule(Item("raw", bytes), Bytes(bytes))

\* Not the first of a request stream, which says what kind of stream it is.
SendRawFrame ==
  /\ channel = "H3Control" \/ (channel = "Session" /\ sent # <<>> /\ sent[1].val = Opening)
  /\ \E bytes \in RawFrames : Send(Item("frame", bytes), Bytes(bytes))

SendSettings(config) ==
  /\ channel = "H3Control" /\ sent = <<>>
  /\ Send(Item("settings", config), encode_settings(h3_settings(config)))

SendGoaway(id) ==
  /\ channel = "H3Control" /\ sent # <<>>
  /\ Send(Item("goaway", id), encode_goaway(id))

SendStream(id, data) ==
  /\ channel \in {"Uni", "Bidi"} /\ sent = <<>>
  /\ Send(Item("stream", [session_id |-> id, data |-> data]),
          EncodeAll(<<encode_stream_header(id, channel), Bytes(data)>>))

\* Connection::prepare_reset_stream: the transport delivers the stream up to the
\* header_len the sender has on record, and drops the rest that is on the way.
Reset(code) ==
  /\ channel \in {"Uni", "Bidi"} /\ sent # <<>> /\ ~rx.failed
  /\ Last(sent).kind = "stream"
  /\ sent' = Append(sent, Item("reset", code))
  /\ LET reliable == SubSeq(wire, 1, NewOutgoing(channel).header_len - Len(delivered))
         app_code == http3_to_webtransport_error(webtransport_to_http3_error(code))
     IN \E new \in {IF reliable = <<>> THEN [rx |-> rx, got |-> <<>>]
                    ELSE Closed(channel, ReadStream(rx, reliable))} :
        /\ delivered' = delivered \o reliable
        /\ rx' = [new.rx EXCEPT !.failed = TRUE]
        /\ got' = got \o new.got \o <<[kind |-> "reset", err |-> "None", val |-> app_code]>>
  /\ wire' = <<>>
  /\ UNCHANGED <<channel, draft, body>>

\* The next `n' bytes arrive.
Deliver(n) ==
  /\ ~rx.failed
  /\ n \in 1 .. Len(wire)
  /\ LET data == SubSeq(wire, 1, n)
     IN \E new \in {Read(channel, rx, data)} :
        /\ rx' = new.rx
        /\ got' = got \o new.got
        /\ delivered' = delivered \o data
  /\ wire' = SubSeq(wire, n + 1, Len(wire))
  /\ UNCHANGED <<channel, sent, draft, body>>

Next ==
  \/ draft.calls = 0 /\ \E m \in IF sent = <<>> THEN Messages ELSE Later : SendMessage(m)
  \/ \E p \in DOMAIN ParamValues : \E v \in ParamValues[p] : SetParameter(p, v)
  \/ SendDraft
  \/ \E h \in Headers : SendHeaders(h, encode_header_block(h))
  \/ \E b \in ForeignBlocks : SendHeaders(b.headers, b.block)
  \/ \E c \in IF Len(sent) = 1 THEN Capsules ELSE LaterCapsules : SendCapsule(c)
  \/ \E n \in {1, Len(body)} : SendBody(n)
  \/ SendRawMessage
  \/ SendRawCapsule
  \/ SendRawFrame
  \/ \E c \in Configs : SendSettings(c)
  \/ \E id \in StreamIds : SendGoaway(id)
  \/ \E id \in StreamIds, d \in AppData : SendStream(id, d)
  \/ \E e \in AppErrors : Reset(e)
  \/ \E n \in Chunks \cup {Len(wire)} : Deliver(n)

Spec == Init /\ [][Next]_vars

---------------------------------------------------------------------------
(* Properties.                                                             *)

\* The reader holds bytes, and a session id is one that a varint can say.
TypeOK ==
  /\ channel \in Channels
  /\ Len(sent) \in 0 .. MaxItems + 1
  /\ {wire, body, delivered, rx.buf, rx.session.capsules} \subseteq Seq(Nat)
  /\ rx.session.state \in {"none", "open", "closed"}
  /\ rx.failed \in BOOLEAN
  /\ ~rx.failed =>
       /\ rx.stream.header_state \in {"AwaitingSignal", "AwaitingSessionId", "Done"}
       /\ rx.stream.session_id \in 0 .. MAX_VARINT
       /\ rx.app \in Seq(Nat)

\* Items that are reported one by one; the data of a stream is not.
Reported(s) == SelectSeq(s, LAMBDA x : x.kind # "stream")

Same(item, result) ==
  CASE item.kind = "message"  -> SameMessage(item.val, result.val)
    [] item.kind = "settings" -> item.val = PeerConfig(result.val)
    [] item.kind = "reset"    -> TRUE
    [] OTHER                  -> item.val = result.val

\* The i-th item is a capsule that closes the session.
Ends(items, i) ==
  /\ items[i].kind = "capsule"
  /\ \/ items[i].val.type = "CLOSE_SESSION"
     \/ \E j \in 1 .. i - 1 :
          /\ items[j].kind = "capsule" /\ items[j].val.type = items[i].val.type
          /\ items[i].val.type \in LimitTypes /\ items[i].val.args[1] < items[j].val.args[1]

\* How many of the items are those of a peer that sends what the program encodes, in
\* a session that is open.
Promised(items) ==
  LET off == {i \in DOMAIN items : items[i].kind = "raw" \/ (i > 1 /\ Ends(items, i - 1))}
  IN IF \E i \in DOMAIN items : items[i].kind = "frame" THEN 0
     ELSE Min(off \cup {Len(items) + 1}) - 1

\* What the program encodes is decoded as it was, in order, without an error,
\* wherever the transport cut it; and when all of it has arrived nothing is
\* missing.  (Encode and Decode of every message, frame, capsule, header block.)
ArriveInOrder ==
  LET expected == Reported(sent)
      results == Reported(got)
      promised == Promised(expected)
  IN /\ \A i \in 1 .. Min({promised, Len(results)}) :
          ~Failed(results[i]) /\ results[i].kind = expected[i].kind /\ Same(expected[i], results[i])
     /\ Len(results) > promised => promised < Len(expected)
     /\ wire = <<>> /\ body = <<>> => Len(results) >= promised

\* There is no error in the first `n' results.
Clean(results, n) == \A i \in 1 .. n : ~Failed(results[i])

\* Two readings say the same up to the first error, and that one may hide results.
SameUntilError(results, whole) ==
  /\ Clean(results, Len(results)) \/ Clean(whole, Len(whole)) => results = whole
  /\ \A i \in DOMAIN results \cap DOMAIN whole :
       Clean(results, i) /\ Clean(whole, i) => results[i] = whole[i]

SameReading(type, results, whole) ==
  IF type = "Control" THEN results = whole ELSE SameUntilError(results, whole)

\* Where the bytes are cut makes no difference to what is read of them up to the first
\* error: what was got of the pieces is what would be got of all of them at once.  In
\* particular nothing is said of a message before the whole of it is there.  On the
\* control stream the error itself is the same, too.  On an HTTP/3 stream it is not: a
\* malformed frame hides what was read with it.  (The parsers that keep a buffer.)
SameInPieces ==
  channel \notin {"Uni", "Bidi"} =>
    SameReading(channel, got, Read(channel, NewReader("Bidi"), delivered).got)

\* The header parser takes the header and not a byte more: the application reads
\* its data from the first byte, in the session the peer named.
StreamExact ==
  (channel \in {"Uni", "Bidi"} /\ delivered # <<>> /\ ~rx.failed) =>
    LET stream == sent[1].val
    IN /\ rx.stream.header_state = "Done" =>
            rx.stream.session_id = stream.session_id /\ IsPrefix(rx.app, stream.data)
       /\ wire = <<>> => rx.stream.header_state = "Done" /\ rx.app = stream.data
       /\ Len(delivered) = rx.stream.header_len + Len(rx.app)
            \/ rx.stream.header_state # "Done"

\* A relay can forward what it accepted: whatever bytes a message was read from, it
\* can be written again and is then the same message, and its namespace is one that
\* TrackNamespace::new accepts.
Forwardable ==
  \A i \in DOMAIN got : got[i].kind = "message" /\ ~Failed(got[i]) =>
    LET msg == got[i].val
        again == encode_control_message(msg, <<>>)
    IN /\ ~Failed(again)
       /\ ~Failed(decode_control_message(again.bytes))
       /\ SameMessage(decode_control_message(again.bytes).val, msg)
       /\ Constructed(msg)

\* In whatever order the setters were called, the message can be written, and the
\* last value given to each is what the getter of the other side returns.
\* (params.rs: setters, getters, sorted.)
ParametersSurvive ==
  draft.calls > 0 =>
    /\ ~Failed(encode_control_message(DraftMessage, <<>>))
    /\ got # <<>> =>
         LET params == got[1].val.fields[2]
             Values(results) == {r.val : r \in results}
         IN [forward  |-> get_forward(params),
             priority |-> get_subscriber_priority(params),
             timeout  |-> get_delivery_timeout(params),
             expires  |-> get_expires(params),
             filter   |-> Values(get_subscription_filter(params)),
             largest  |-> Values(get_largest_object(params))] = draft.set

\* The application error code of a reset is the one the peer gave.
ResetCodesArrive ==
  \A i \in DOMAIN got : got[i].kind = "reset" => got[i].val = {Last(sent).val}

\* A reset never takes the header with it: the peer learns to which session the
\* stream belonged (connection.rs:862, draft-webtrans-h3-14, 4.4).
HeaderSurvivesReset ==
  \A i \in DOMAIN got : got[i].kind = "reset" => rx.stream.header_state = "Done"

=============================================================================
