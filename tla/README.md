# Verification of moqsansio-rs

TLA+ models of this repository: a MoQ relay (`moq-relay`,
draft-ietf-moq-transport-16), a WebTransport endpoint (`webtransport`,
draft-ietf-webtrans-http3-14), and the codecs of both (`moq-protocol`, and the framing
of `webtransport`). They are checked with TLC on small instances and proved with TLAPS
where that is possible for every instance.

All crates are libraries without I/O, threads or clocks. A driver, which is not
in the repository, feeds them events and carries out what they return. What makes
them hard is therefore not parallel execution but **order**: the messages of many
peers reach one relay in any order, a peer may disconnect between any two of them,
and the streams of one QUIC connection deliver their bytes independently of each
other, cut into chunks at any place. The tests of the repository follow a few such
orders by hand; the models follow all of them within their bounds.

## 1. Inventory

### 1.1 Relay engine: `moq-relay/src/{relay,session,route,types,events}.rs`

| part | state | operations |
|---|---|---|
| `Relay` (relay.rs:25) | `sessions`, `publishers_by_namespace`, `tracks`, `upstream_request_index`, `downstream_request_index` | `on_event` (73) with `SessionOpened`, `SessionClosed`, control messages, objects; returns output events |
| `Session` (session.rs:20) | role, setup, GOAWAY, the next request id each way and both limits, published namespaces, inbound aliases, next outbound alias | validate a peer's request id, allocate one, apply limits, bind and allocate aliases |
| `TrackRoute` (route.rs:77) | `downstream_subs`: request -> Pending/Established/Terminated; `upstream_subs`: publisher -> leg Pending/Established/Terminated | aggregate predicates |

A subscriber's SUBSCRIBE joins an established leg, fans out to every matching
publisher, or fails. Publishers answer with SUBSCRIBE_OK, REQUEST_ERROR,
PUBLISH_DONE; the relay answers the waiting subscribers, ends legs nobody wants,
and forwards objects under each subscriber's own alias. Five maps describe the
same subscriptions and every handler updates several of them by hand.

*Hard behaviour:* two publishers that answer one subscription in either order; a
disconnect of either side at any moment; late answers to cancelled requests;
request ids that run out; messages of a session the driver was told to close and
has not closed yet; HashMap order deciding who gets which id or alias.

*What makes it correct:* the indexes lead to exactly the live subscriptions and
legs; a closed session is in no route, no index of subscribers and no set of publishers,
and what `upstream_request_index` keeps of it leads to no leg; a subscriber is answered once and ended once,
with the reply its state allows, and not failed while a publisher may still say
yes; ids and aliases are never reused in a session; a leg lives only while somebody
wants it and ends only with its publisher's knowledge.

### 1.2 WebTransport endpoint: `webtransport/src`

| part | state | operations |
|---|---|---|
| `Connection` (connection.rs:44) | sessions, `wt_stream_to_session`, `pending_wt_streams`, `classified_streams`, `deferred_requests`, `previous_settings` | `connect`, `accept_session`, `reject_session`, `open_*_stream`, `register_outgoing_stream`, `check_send`/`on_data_sent`, `close_session`, `drain_session`, `set_0rtt_settings`, `process_stream_data`, `process_datagram` |
| `Session` (session.rs) | Connecting/Established/Draining/Closed, its streams, capsule parser | |
| `FlowController` (flow_control.rs) | the peer's limits and the use made of them | `can_*`, `on_*`, `apply_peer_max_*`, `set_peer_initial_limits` |
| `H3Connection` (h3/mod.rs) | peer settings, stream roles, queued events, next CONNECT stream id | `process_stream_data`, `classify_uni_stream`, `process_frame` |
| `FrameParser`, `CapsuleParser`, `WtStream` | bytes of an incomplete frame, capsule, header | `feed`, `parse` |

A call of `process_stream_data` finds the reader of the stream in three tables or
classifies it, runs every complete H3 frame of the chunk, then every H3 event, and
for DATA every complete capsule.

*Hard behaviour:* SETTINGS, CONNECT and data streams travel on different streams
and overtake each other; a stream may be cut after any byte; a call can fail half
way, with events queued or dropped; local calls cross the peer's messages; SETTINGS,
the response, `accept_session` and capsules all write the same limits.

*What makes it correct:* each stream has one reader; no session before SETTINGS and
no early request forgotten; a closing is reported once and is final; credit is never
exceeded and limits only grow; the application hears of a stream before its data.

### 1.3 Codecs and framing: `moq-protocol/src`, `webtransport/src/{varint,stream,capsule,error,config}.rs`, `webtransport/src/h3/{frame,qpack}.rs`

| part | state | operations |
|---|---|---|
| `varint.rs` (both crates) | | lengths, encode, decode, `MAX_VARINT` |
| `codec.rs` | the position of a `Cursor` | fixed integers, varints, prefixed byte strings, "too short" errors |
| `types.rs`, `params.rs` | `Parameters` as they were set | every wire type with its limit, key-value pairs with differences of keys, setters and getters |
| `message/` | | `encode_control_message`, `decode_control_message`, 24 messages |
| `FrameParser`, `CapsuleParser`, `VarintDecoder`, `WtStream` | bytes of an unfinished frame, capsule, number, header | `feed`, `parse_header` |
| `qpack.rs` | | prefix integers, strings, Huffman codes, three kinds of field line |
| `error.rs` | | application error codes to HTTP/3 codes and back, around reserved ones |

*Hard behaviour:* bytes arrive in any pieces, capsules are nested in DATA frames that
are cut themselves, limits are checked in one place on the way in and in another on the
way out, numbers sit on the edge of a length, parameters are set in any order and more
than once, and other implementations send what this one never would.

*What makes it correct:* what is written is read, once, in order, wherever it was cut; a
message that was accepted can be forwarded as it is; a data stream's header takes no byte
of its data; a reset keeps its code and its session.

### 1.4 Not modelled

* **`src/main.rs`** prints a greeting. No driver joins the crates.
* `GroupOrder` and the authorization token types of `moq-protocol/src/types.rs`: no
  message has a field of these types.
* The 99 static entries and 256 Huffman codes of `qpack.rs`, and the numbers of the code
  points: constants of the models, small tables in the runs.
* Queries of `Connection` that change nothing and read nothing that matters to another
  operation (`session_stream_ids`, `peer_settings`).

## 2. Modules

| module | what it is |
|---|---|
| `Maps` | the HashMap operations as operators on functions |
| `Relay` | the relay engine: one action per handler; types, invariants, action properties |
| `Subscription` | the abstract promise about one subscription request |
| `RelayRefinement` | the mapping under which every request of `Relay` is a `Subscription` |
| `RelayLimits`, `MCRelayLimits` | `Relay` with a record of the limits its peers really announced |
| `MCRelay` | values for TLC |
| `RelayIndex`, `RelaySessions` | proofs about `Relay`: types, indices, sessions |
| `RelayPromise` | proofs that `Relay` implements `Subscription` under that mapping, and about what it sends |
| `RelayNetwork`, `MCRelayNetwork` | `Relay` composed with peers that follow the draft, the transport and the driver; liveness |
| `NetworkViews` | proof about `RelayNetwork`: what each side believes, and the messages that account for the difference |
| `WtConnection` | the WebTransport endpoint over its H3 layer |
| `MCWtConnection` | values for TLC |
| `WtSafety` | proofs about `WtConnection` |
| `Varint`, `Codec`, `MoqTypes`, `MoqMessages` | `moq-protocol`, one module per layer |
| `WtFraming`, `WtErrors`, `Qpack` | stream headers, capsules and HTTP/3 frames; error codes; header blocks |
| `Wire`, `MCWire` | one stream of each kind between a writer and a reader, cut anywhere |
| `CodecTheorems` | proofs about `Varint` and `WtErrors` |
| `WireTheorems` | proofs about `Wire`: what its readers make of bytes cut anywhere |
| `Recursion` | the loop the parsers of the models are, and induction over its rounds; `WireTheorems` takes an instance for each loop it proves something of |

`RelayNetwork` extends `Relay` and uses its handlers as they are. `Wire` extends the codec
modules. `WtConnection` and `Wire` divide `webtransport` between them: the first has the
tables and the order of streams and takes a frame or capsule as one thing, the second has
the bytes of one stream.

### 2.1 Relay

The variables are the five maps of `struct Relay` under their own names, and `out`,
the output events of the last handler. `on_event` runs one handler to its end, so a
handler is one action: `OnSessionOpened`, `OnSessionClosed`, `HandleClientSetup`, ...
`OnSubscriptionObject`. An early return with `CloseSession` is `Refuse`, one without
output is `Ignore`. Where the code iterates over a HashMap and the order matters, the
order is nondeterministic: `Allocations` (which tracks get the last request ids of a
publisher) and `AliasAssignments` (which of several waiting requests of a subscriber
gets which alias).

The environment is arbitrary. `Sends[s]` says which kinds of message the peer of `s`
sends; it sends them whenever it likes, with any id and alias. This includes the
peer that the relay has asked the driver to close. A session key may be used again
after it was closed.

Left out: fields that are written and never read (`forward_current`,
`subscribed_prefixes`, `outbound_aliases`, `sent_requests_blocked_for`), parameters,
extensions, reasons, payloads. Request ids and aliases are not cut at 2^62.

`Relay` has the limit of each peer as the relay records it (`peer_max_exclusive`). The record
is not what the peer announced, so `RelayLimits` adds `announced`, a history variable that
follows all three messages which state a limit and restricts nothing: every behaviour of
`Relay` is one of `RelayLimits`, and conversely. `relay_publishers` and `relay_setup` run it.

`Subscription` is what a subscriber may rely on: Unused, Pending, Established, Ended,
with the reply each change carries. `RelayRefinement` reads the state of request
`<<s, r>>` off the index and the route, and `KeepsPromise` says that every step of
the relay is a step of `Subscription` for every request at once. It is written with
`Init` and `[][Next]_vars` under the quantifier because TLC does not take a
quantified temporal formula with variables of its own; every `Next` contains
`Elsewhere`, which is the stuttering step with no reply.

### 2.2 RelayNetwork

`Relay` lets a peer send anything, which is right for what must hold whoever connects. What
a subscriber is owed, and whether a peer that did nothing wrong is closed, depends on peers
that follow the draft. Here they do: `Announce`, `Subscribe`, `Unsubscribe`, `Accept`,
`Reject`, `Done`, `Publish` with the guards of draft-16, and `Learn`, what a peer makes of a
message. `peer[s]` is what it knows. Control messages travel in order in `toRelay[s]` and
`toPeer[s]`; objects travel on streams of their own and are a set, so they overtake. A peer
may be closed (`closing`) some time before the session ends (`lost`), and what had arrived is
still handed over.

`CarryOut` is the driver: it puts what a handler returned into the queues. The outputs of one
handler to one peer come in HashMap order, so `Outgoing` allows all orders, except that
REQUEST_OK precedes the SUBSCRIBEs of the same handler. The peers and the driver are not in
the repository; they are modelled from the draft and from what `relay.rs` expects of them.

### 2.3 WtConnection

The variables are the fields of `Connection` and `H3Connection` under their names.
`call`, `peer` and `events` are additions: a call handles any number of frames, so it
is one step per frame, H3 event and capsule. `call` says what is left of it
(`idle`, `parsing`, `dispatching`, `capsules`), and every other action waits for
`idle`, because the code holds `&mut self` all along. `peer` remembers which streams
delivered their HEADERS and FIN, `events` what the application is told in the step.
The order within a call is the code's: all frames first (`SettingsFrame`,
`HeadersFrame`, ...), their events in a queue, then the queue (`HandleSettings`, ...),
within `HandleData` the capsules. `MalformedFrame` ends the call before the queue is
read, an event that fails drops the rest of it (`Fails`), a failing capsule only ends
the capsules (`BadCapsule`): these are the three error paths of the code.

The header of a data stream is complete in the first chunk (`NewDataStream`), complete
later (`NewPendingStream`, `PendingStreamCompletes`), or never looked at
(`NewUnreadableStream`, the early returns of `classify_new_stream`).

`Orderly` chooses the environment. With FALSE the peer sends any frame on any stream
at any moment, malformed ones included. With TRUE it follows RFC 9114: one SETTINGS
frame, first on the control stream, HEADERS once and before DATA. Data streams and
capsules are arbitrary in both.

Left out: header fields except what decides a branch, protocol negotiation, error
codes and reasons, payloads (a unit of data stands for a chunk), the counters of what
the peer opened and sent (never read). A capsule or frame that spans chunks counts
when its last byte arrives.

### 2.4 Codecs and Wire

A byte is a digit of base `Base`; the code's base is 256, the runs take 8. A varint then has 1,
2, 4 or 8 digits with the quarter of the range in the first, the limits sit at 2, 16, 1024
and 2^22, and everything about lengths, prefixes and shifts happens at small numbers.
`VarintRoundTrip` is proved for every base divisible by four. The limits of the types
(`MAX_REASON_PHRASE_BYTES`, ...) and the code points are constants.

Decoders return the error or the value, and the position: `Value`, `DecodeError`. `Then` and
`EncodeAll` are the `?` of the code. The payload of a message is described by its fields
(`FieldsOf`): what `encode` writes and what `decode` reads are two columns, because they are two functions
in the code and need not agree: the limit on the URI of a GOAWAY is checked by the reader
alone.

`Wire` has one stream, of one of five kinds: `Control` (MoQ messages), `Session` (headers, then
capsules in DATA frames), `H3Control` (SETTINGS, GOAWAY), `Uni` and `Bidi` (a data stream). The
writer sends items with the program's encoders, `SetParameter` builds the parameters of a
message with the program's setters, and `SendRawMessage`, `SendRawCapsule`, `SendRawFrame` and `ForeignBlocks` are
bytes no encoder of the program makes: truncated fields, lengths that lie, limits exceeded,
unknown types, keys whose sum overflows, counts and lengths too large for the machine. `Deliver(n)` hands over the
next `n` bytes and runs the program's parsers on them; `Reset` delivers what `prepare_reset_stream` calls reliable.

The reader `rx` is what `connection.rs` and `h3/mod.rs` keep for the stream: the buffer of the frame parser, the
queue of events that `H3Connection` has and `Connection` has not taken, the session with its capsule parser and
limits, and the two-step classification of a data stream. A call reads all frames of the chunk and then all events
(`ReadFrames`, `TakeEvents`, `HandleEvents`). A malformed frame ends the call (h3/mod.rs:270, connection.rs:416):
the frames behind it are lost, the events of those before it wait in the queue for a call that succeeds. An error in
a capsule closes the session but not the stream. The reader goes on with the next bytes in all these cases, as the
program does. It stops (`Closed`) on a data stream whose header is refused, a session id that is no multiple of four
included (connection.rs:520), and after a panic: a count of pairs that cannot be allocated (types.rs:380), a prefix
integer that overflows where the build checks (qpack.rs:136), a string that ends beyond a `usize` (qpack.rs:160),
taken to have 64 bits. A panic is a result of its own, `"Panic"`.

The reader of the control stream is not in the repository: `ReadControl` keeps the
rest of the bytes, decodes while it can, as the other parsers do, and stops at an error.

The loops of the parsers are recursive functions over the rounds, so that theorems can be stated of
them. What the constants may be is assumed where they are declared: messages, capsules and settings
are what the types of the program allow (`SentAssumption`, `ParamValuesAssumption`), other
implementations send bytes, limits are naturals, and code points that a reader has to tell apart
are different (`CodePointsDistinct`).

## 3. Runs

| run | configuration | states about | question |
|---|---|---|---|
| `relay_publishers` | 2 publishers, 2 subscribers, 1 track | 34 000 (symmetric) | do the maps agree, is every reply justified, is each request answered and ended once |
| `relay_setup` | 1 peer that publishes and subscribes, both roles, every message, 2 tracks under nested namespaces, ids running out | 29 000 | nothing before setup, namespace index, aliases, legs released, request ids and limits |
| `relay_network` | 1 publisher, 2 subscribers, messages in flight, one may leave | 54 000 | do both sides agree when all is quiet, is everybody answered, is nobody served in vain |
| `wt_sessions` | 2 request streams, data streams of both kinds, any peer, no flow control | 680 000 | one reader per stream, SETTINGS first, closings reported once |
| `wt_limits` | 1 session, both roles, flow control, 0-RTT, RFC 9114 peer | 980 000 | credit, growing limits, deferred requests |
| `wire` | five kinds of stream, 2 items, cut anywhere | 268 000 | is what was written read back, and what was read fit to be written |
| `relay_unanswered`, `relay_crossing`, `relay_stale_id`, `wt_revived`, `wt_cut`, `wire_reset` | 1 to 3 peers or streams | | the disagreements of section 5 |

### 3.1 Properties

*Relay.* `DownstreamIndexExact`, `LiveLegsIndexed`, `ClosedSessionsForgotten`, `NamespaceIndexExact` relate the maps
to each other and are what each handler could break by forgetting one of them. `ClosedSessionsForgotten` and
`RoutingAfterSetup` say of `upstream_request_index` what the code achieves, which is less than of the other maps:
its entries may outlive their session, but then lead to a route without a leg of that session.
`OutboundAliasesDistinct` relates the subscriptions of different tracks. `RoutingAfterSetup` spans all handlers,
each of which repeats the setup check. `LiveLegsWanted` holds with one publisher per track and fails with two
(section 5). `LimitOverrunBounded` compares the ids sent upstream with what the publisher announced: they exceed it
by one at most, or stay within the configured default (section 5 says why not by none). Action properties:
`RequestIdsFresh` (those ids are new, of the right parity and below the limit the relay has on record, also after
SERVER_SETUP lowered it; about the publisher's own limit it says nothing), `NoErrorWhileHope`, `SubscribeOkBacked`,
`UnsubscribeEndsUnwanted`, `StrandedByDoneOnly` (for any number of publishers, only PUBLISH_DONE leaves live legs
without a subscriber, and it tells every subscriber), and the refinement `KeepsPromise`.

*Network.* `ViewsAgree` compares, whenever nothing is in flight, the relay's maps with what the
peers believe: the waiting and established subscriptions, and the live legs with their ids and
aliases. It is what the index properties are for, and no handler can be blamed for it alone.
`Answered` and `Released` are liveness: a SUBSCRIBE is answered, a publisher is not left serving a
track nobody wants. Both excuse sessions that end (`lost`); section 5 says why they must.

*WebTransport.* `OneOwner`, `StreamsBelong` (the tables agree), `SessionsAfterSettings`,
`DeferredReleased` (SETTINGS and CONNECT in either order), `CreditRespected`, and the action
properties `CloseReported`, `LimitsGrow`.

*Wire.* `ArriveInOrder` (what the program writes is read as it was, in order, and completely when all bytes are
there), `SameInPieces` (the cuts make no difference to what is read up to the first error; on the control stream not
to the error either, on an HTTP/3 stream the error hides what was read with it, so nothing is said beyond it),
`StreamExact` (the header parser takes the header and nothing else), `Forwardable` (whatever bytes a message was
read from, it can be encoded, decoded and is the same), `ParametersSurvive` (setters in any order, last value wins
on the other side), `ResetCodesArrive`.

Every property is also run against a **mutant**, a changed form of one definition such as
a forgotten map or an inclusive limit, defined beside the original and marked "Mutant";
TLC finds each of them.

### 3.2 Bounds, and why they are enough

* *Peers.* Routes relate a subscriber's request to a publisher's leg. Two of each are
  enough for every pair of roles to be different sessions or the same kind: two
  publishers racing, one subscriber leaving while the other stays.
* *Ids.* `InitialLocalMax` bounds the requests of a peer per session, `InitialPeerMax` and
  `PeerMaxValues` those of the relay; both are real parameters of the code, and reaching
  them is a case of its own (`TooManyRequests`, skipped publishers). A peer that
  reconnects starts afresh, so the number of requests over a behaviour is unbounded.
  In `relay_setup` the record of the peer's limit takes the values 1, 2, 4 and 5: configured (2), lowered and
  raised by SERVER_SETUP (1, 4), raised by MAX_REQUEST_ID (4 + 1). With both roles the relay's ids are odd or
  even, so each limit is the next id in one of them, and an inclusive comparison hands it out.
* *Tracks and namespaces.* `<<"live">>` and `<<"live","cam">>` with a track in each: a
  publisher of the outer namespace serves both, one of the inner serves one.
* *Aliases.* One or two inbound aliases, so that duplicates happen.
* *Streams.* 0 and 4 are request or bidirectional data streams of a client, 1 of a
  server, 2 and 3 unidirectional ones of either side. With `AppStreams` the numbers the
  application opens; one more stream of each kind adds no new pair of tables.
* `MaxFrames`, `MaxDeferred`, `MaxUsed` (bounds of the model alone): frames queued at
  once, deferred requests, credit used. Two queued frames give every pair of events in
  one call, and a queue left over by an error.
* *Network.* One publisher and two subscribers with one SUBSCRIBE each: cancellation, answer
  and PUBLISH_DONE cross in every order, the second subscriber joins, waits or comes late, and one
  of them may disconnect. Two aliases, one object on the way.
* *Bytes.* `Base = 8` is the smallest base with room for a quarter of prefix and for the types
  of messages and frames in one and in two digits. Limits (`MAX_TRACK_NAMESPACE_FIELDS = 2`, ...) are
  scaled down so that values below, at and above each of them are among the inputs; `Numbers` has both
  sides of every varint length and `MAX_VARINT + 1`.
* *Cuts.* `Chunks = {1, 4}` and all that is on the way: single bytes reach every position of every
  item, larger pieces join the end of one item to the start of the next. `MaxItems = 2` items (and
  opening headers), because a parser's buffer relates an item to the next and to nothing else.
  `MaxSets = 3` calls of setters: two parameters, one of them set twice.
* *Machine integers.* `OverflowChecks` says whether an overflow panics, as in a debug build, or wraps; the run has
  TRUE, the theorems hold for both. The width of a `u64` is the eight digits of the longest varint;
  `MAX_PAIRS_CAPACITY` is the largest count of pairs that can be allocated, and the raw messages have larger ones.
* *Foreign bytes.* `RawMessages`, `RawCapsules` and `RawFrames` have bytes for the error paths of the decoders;
  `StreamIds` has 17, which is no id of a CONNECT stream.
* `ConnectIds` bounds the sessions a client asks for.

`SYMMETRY` permutes publishers among themselves and subscribers among themselves: a peer's
key is compared and never ordered, and all of a part send the same kinds. `VIEW` hides
`out` and `events`: no action reads them, and TLC evaluates an action property on each
step it generates, before it looks whether the state is new.

`CHECK_DEADLOCK FALSE`: the bounds on ids and credit let the model come to rest, and so does
the program, which only reacts.

Fairness. `Relay`, `WtConnection` and `Wire` have none: a library does nothing by itself and every
handler ends in the step it starts in, so their properties are about safety. `RelayNetwork` has weak
fairness of `RelayReceives` and `SessionEnds`, because a sans-IO library is made for a driver that hands
over what arrived and carries out what it is told; of `PeerReceives`, because the transport is reliable and
a peer reads its control stream; and of `Answers`, because draft-16 obliges a publisher to answer a
SUBSCRIBE. Nobody is obliged to subscribe, cancel, publish, finish or leave.

## 4. Proofs

| theorem | module | statement |
|---|---|---|
| `TypeCorrect` | `RelayIndex` | `Spec => []TypeOK` |
| `DownstreamIndexCorrect` | `RelayIndex` | `Spec => []DownstreamIndexExact` |
| `ClosedForgotten` | `RelaySessions` | `Spec => []ClosedSessionsForgotten` |
| `SetupFirst` | `RelaySessions` | `Spec => []RoutingAfterSetup` |
| `NamespaceIndexCorrect` | `RelaySessions` | `Spec => []NamespaceIndexExact` |
| `LiveLegsFound` | `RelaySessions` | `Spec => []LiveLegsIndexed` |
| `AliasesCorrect` | `RelaySessions` | `Spec => []OutboundAliasesDistinct` |
| `RelayKeepsPromise` | `RelayPromise` | `Spec => KeepsPromise`: every request of every session is a `Subscription` |
| `RequestIdsCorrect` | `RelayPromise` | `Spec => RequestIdsFresh` |
| `ErrorsFinal` | `RelayPromise` | `Spec => NoErrorWhileHope` |
| `AcceptedWhenBacked` | `RelayPromise` | `Spec => SubscribeOkBacked` |
| `UnsubscribesFit` | `RelayPromise` | `Spec => UnsubscribeEndsUnwanted` |
| `StrandedKnowingly` | `RelayPromise` | `Spec => StrandedByDoneOnly` |
| `LegsWanted` | `RelayPromise` | `Spec => []LiveLegsWanted` if at most one session may announce namespaces |
| `NetworkAgrees` | `NetworkViews` | `NetworkSpec => []ViewsAgree` |
| `WtTypeCorrect` | `WtSafety` | `Spec => []TypeOK` |
| `SettingsFirst` | `WtSafety` | `Spec => []SessionsAfterSettings` |
| `OwnersCorrect` | `WtSafety` | `Spec => []OneOwner` if `AppStreams` and `ConnectIds` are disjoint |
| `BelongCorrect` | `WtSafety` | `Spec => []StreamsBelong` under the same condition |
| `CloseCorrect` | `WtSafety` | `Spec => CloseReported` |
| `DeferredCorrect` | `WtSafety` | `Spec => []DeferredReleased` if the peer follows RFC 9114 (`Orderly`) |
| `CreditCorrect` | `WtSafety` | `Spec => []CreditRespected` under the same condition |
| `LimitsCorrect` | `WtSafety` | `Spec => LimitsGrow` under the same condition |
| `VarintRoundTrip` | `CodecTheorems` | decoding after encoding is the identity and takes `varint_len` bytes, for every value and whatever follows |
| `ErrorCodesReturn` | `CodecTheorems` | every application error code comes back from its HTTP/3 code |
| `WireTypeCorrect` | `WireTheorems` | `Spec => []TypeOK`: readers hold bytes, session ids are numbers a varint can say |
| `PiecesCorrect` | `WireTheorems` | `Spec => []SameInPieces`, for any bytes another implementation sends, up to the first error on HTTP/3 streams |
| `StreamExactCorrect` | `WireTheorems` | `Spec => []StreamExact` |
| `ResetCodesCorrect` | `WireTheorems` | `Spec => []ResetCodesArrive` |

They hold for any number of peers, tracks, namespaces, streams and any limits, under the
assumptions the modules state: finite sets of sessions and tracks, ids and limits that are
naturals, namespaces with at least one field, CONNECT streams divisible by four. Those about `Wire` hold for
any base, messages, capsules, settings, data, bounds and cuts that fit the types of the program, and whatever
bytes another implementation sends. That the header blocks of this side are bytes is among the assumptions: the
prefix integers of QPACK are powers of 128, which the provers do not handle.

**TypeCorrect** is inductive as it stands. What needs work is finiteness: the alias count
of `SubscribeOkForwarded` is a cardinality, so `RouteOK` carries that a route has finitely
many subscriptions.

**DownstreamIndexCorrect.** The index alone is not inductive: a new SUBSCRIBE could meet an
entry with its own id. `DownstreamInv` adds `DownstreamIdsSpent`, that every id in a route is
below the next id its session is expected to use, which is why a request that passes
`validate_peer_new_request_id` is new to all routes (`FreshRequest`). Handlers then fall in
two kinds, those that end subscriptions (`EndingKeepsIndex`) and those that add one
(`AddingKeepsIndex`); session close is a case of its own.

**ClosedForgotten, SetupFirst, NamespaceIndexCorrect** need one another, so they share the invariant `SessionsInv`.
`PartiesReady` says that the namespace index and the routes name only `Ready` sessions, open and set up. A session
that opens again under an old key would break it if any of these still named the key, and it is what the first two
theorems read off. `upstream_request_index` does name old keys, so of it they say that such an entry leads to no leg
of its session (`UnreadyWithoutLeg`). A session that closes is taken out of the namespace index by way of its own
list of namespaces, which is complete because `NamespaceIndexExact` holds. `DownstreamInv` gives the subscriber
index, whose entries are subscriptions of routes. Each handler is then one lemma: it names the acting session, which
passed the setup check, or publishers of the index, which are ready by the invariant.

**LiveLegsFound, AliasesCorrect** are about two counters of a session, `local_next` and
`next_outbound`. `HandedOutInv` adds to `SessionsInv` that the id of every live leg and the alias of
every established subscription is below its session's counter; what is handed out next is then new. Most
handlers hand out nothing (`NothingHandedOut`): their routes only lose subscriptions and legs. Three do:
PUBLISH_NAMESPACE serves tracks in an order the code leaves to a HashMap, so `AllocationsFresh` counts
the ids without it; SUBSCRIBE hands out an alias or fans out ids; SUBSCRIBE_OK gives each waiting
subscription an alias, again in any order. `PartiesReady` is needed here too: a session that opens again
starts both counters anew, and must not meet old ids.

**RelayKeepsPromise.** `PromiseInv` is `SessionsInv` with `RequestsOfPeers`, that every indexed request id
has the parity of its peer. Under the mapping a request in the index has the state of its subscription, one that
is not but has the right parity and is below the next expected id is Ended, any other Unused. There is one
lemma per handler. Requests the handler does not name keep their state (`Untouched`); the one it accepts was
Unused because its id is the expected one, and those it ends leave the index in the step that sends the
reply. Parity is needed so that accepting `r` does not turn `r + 1` from Unused to Ended.

**RequestIdsCorrect, ErrorsFinal, AcceptedWhenBacked, UnsubscribesFit** each speak of one kind of message.
`RequestIdsCorrect` is about the relay's own record of the limit; how that relates to what the publisher announced
is model-checked (`LimitOverrunBounded`). `Tellers` says which handlers may send it, and one lemma for each of these
shows that the message fits the state. `ToldInv` puts the invariants above together and adds `LocalParity`, that a
session's next id has the parity of the relay's side.

**StrandedKnowingly, LegsWanted.** A route is stranded when legs are live and no subscription is active.
`StepWanted` has a case for each handler that stores a route: those that end subscriptions end the legs of a
route nobody wants in the same step, those that add legs do so for a waiting subscription, and
`handle_publish_done` alone ends subscriptions while other legs live. `LegsWanted` adds that only sessions that
may announce are ever asked (`AskedAnnounce`), so with one of them the leg that ended was the only one. Its
hypothesis is what separates `relay_setup` from `relay_publishers`: without it the property is false
(section 5).

**NetworkAgrees.** `ViewsAgree` speaks of moments when nothing is under way and is as far from inductive as can be.
The invariant says what the messages under way mean. `SubscriberView(s, r)` relates, for one request, the
subscriber's record, the relay's status (the one `RelayRefinement` reads off index and route) and both queues: which
kinds of message about `r` must be there, which cannot, how often and in which order. A subscription the subscriber
counts as Pending while the relay has it Established has a SUBSCRIBE_OK on its way down, and so on; with empty
queues only agreement is left. `PublisherView(p, r)` does the same for a request of the relay, whose status is read
off `upstream_request_index` and the leg. The relay's half of each step is a relation between the old and the new
status and what is said, one disjunct per kind of step: `SubscriptionStep` follows from the lemmas of
`RelayPromise`, `LegStep` is shown handler by handler (`...Upstream`). Two lemmas per view then take such a step
through the queues, whatever the order in which `CarryOut` puts the messages of one handler; this uses that no
handler sends one message twice. The peer's half is one lemma per action, and one for each message it reads. The
invariant is `Calm => Settled`, where `Calm` says that no session ended and none is about to: a session that ends
takes its queues with it, and `on_session_closed` leaves entries in `upstream_request_index` that no leg backs, so
`UpstreamIndexExact`, on which `LegStep` rests, holds only until then. `ViewsAgree` claims nothing after that
either. `NetworkAssumption` says that peers may take the client's side and that every id below the initial limits is
one the model knows.

**VarintRoundTrip** splits by length. The digits of a number are its quotients and remainders by
powers of the base, and the prefix is what the first digit has above a quarter of the base; each length has
a lemma. **ErrorCodesReturn** is arithmetic on the gaps of 30 codes: the image of `n` is never
reserved and the inverse subtracts as many gaps as the mapping added.

**WtTypeCorrect** and **SettingsFirst.** `SettingsInv` adds to `SessionsAfterSettings` what
a queued SETTINGS event implies, that the frame was parsed: `HandleSettings` creates the
deferred sessions on the strength of that event alone.

**OwnersCorrect.** `OneOwner` is not inductive: nothing in it keeps `connect` from taking a
stream id that is already in use. `StreamOrigins` adds who may put a stream where: only the
peer's streams are classified, H3 streams of this side are CONNECT streams below the next id,
data streams of this side are the application's. The hypothesis that the application never
numbers a data stream like a CONNECT stream is needed and is not something the API enforces:
`H3Connection` counts its streams by itself (h3/mod.rs:401).

**BelongCorrect** uses it: a stream whose header is complete is in no table of data streams yet, hence
in no session. **CloseCorrect** needs the types alone: closing and its report are in one step in every
handler that closes.

**DeferredCorrect.** A call handles what its stream queued before it returns, so with a peer that sends
no malformed frame the queue never mixes control and request streams (`OneStream`). An error while
handling DATA drops the rest of the queue, and SETTINGS cannot be in it; one while handling SETTINGS means
that the promise was broken. A malformed frame leaves events behind for a later call, which is why the
hypothesis is needed: then an error of another stream can drop SETTINGS.

**CreditCorrect, LimitsCorrect.** Four handlers replace limits and only the capsules compare. The others
are harmless because they come first: `SettingsOnce` says that no session exists while SETTINGS is queued,
`SessionsHadHeaders` that a session whose HEADERS wait is not established and has opened nothing,
`SessionsStartUnspent` the same of one that waits for `accept_session`. Each step changes sessions as `Tame`
allows, or establishes one, or makes a new one. A second response, which `Orderly` excludes, would lower the
limits of a session in use.

**Induction.** The parsers of `Wire` run over buffers of any length. The library's induction theorems take an
operator as a parameter, which no prover here can instantiate; `Recursion` proves induction for a *set* of
naturals instead, from the finiteness of intervals: if some number were missing, those missing up to it would map
one to one into a smaller set. On it rest the equations of a loop, `LoopZero` and `LoopNext`, which
`WireTheorems` instantiates for each loop: the rounds of a parser, the frames of a chunk, the bytes of a header,
the sorting and setting of parameters. An induction over a buffer is one over its length.

**PiecesCorrect, WireTypeCorrect, ResetCodesCorrect** share the invariant `ReadInv`: what is on the way and
delivered is bytes (`Typed`), the reader of the control stream is as if it had been fed everything delivered at once
(`ControlRead`), that of an HTTP/3 stream is related to such a one by `FramedRead`, a data stream reports only what
ended it (`StreamGot`), and nothing but its header and data was sent on it before (`StreamSent`). `SameInPieces`
alone is not inductive because it does not say what is in the buffers. A decoder of one item either says that it
needs more bytes or has decided, and then no bytes after the item change its mind (`NextRead`, from one lemma per
decoder: varints, prefixed bytes, every field, all 24 messages, frames, capsules). Hence what a parser reads of `a
\o b` is what it reads of `a`, then of what that left with `b` added (`ParseConcat`, by induction over the length of
the buffer), and for the control stream that is the step (`ControlInPieces`). An HTTP/3 reader has a queue and a
session besides its buffer. Its events are handled one by one, so handling `es \o fs` is handling `es` and then `fs`
in the session that left (`HandleConcat`, by induction over the events), unless an error dropped the rest. As long
as nothing was malformed (`NothingLost`), the reader of the pieces has the session and the results that all events
of the bytes give, and its queue is empty; after an error the invariant (`FramedSoFar`) keeps only that there was
one and that the results before the first agree, which is what `SameInPieces` says. What the readers are fed must be
bytes, so every encoder is shown to give bytes, the parameters of a message sorted by key included. `TypeOK` speaks
of data streams too, so `WireTypeCorrect` takes `StreamOn`, below, with it. `ResetCodesCorrect` adds
`ErrorCodesReturn`, and that a stream opened by this side has a recorded header length of 0, so that a reset
delivers nothing else (what that costs is in section 5).

**StreamExactCorrect.** A data stream keeps no buffer but two decoders of varints, so it needs another invariant.
`StreamOn`: what was delivered and what is on the way are together the header and the data; the reader is where it
would be after so many bytes of the header read one at a time (`StreamAt`, on `Fed`, the state of a
`VarintDecoder` after `n` bytes of a number); the application has what follows the header. `ByteOf` and `FedNext`
say that the bytes shifted in add up to the number encoded; `HeaderRead` is the loop of `parse_header`;
`FirstParsed` is the first chunk, whose signal `classify_new_stream` reads, for a unidirectional stream in place of
the header parser, and `StreamReads` the later ones. A first chunk cut inside the signal
leaves the reader failed, of which `StreamExact` says nothing and `wt_cut` everything. The invariant also says that
`body` is empty: `SendBody` asks only for bytes to send, not for the kind of stream.

Model-checked only:

* `LimitOverrunBounded`: `RequestIdsCorrect` is the half of it that is proved.
* `Answered` and `Released` of `RelayNetwork`: liveness is out of the prover's reach.
* `ArriveInOrder`, `Forwardable`: they need that each field of each of the 24 messages, each capsule and each
  header block decodes to what was encoded, the differences of sorted keys included; `ArriveInOrder` selects
  items with `SelectSeq`, of which the provers know nothing. `VarintRoundTrip` and `PiecesCorrect` are the two
  parts of it that do not depend on the message.
* `ParametersSurvive`: whether a value can be written depends on the values set.

## 5. Where code and documents disagree

| run | property | what happens |
|---|---|---|
| `relay_stale_id` | `LegsEndKnowingly` | When the last subscriber disconnects, `on_session_closed` ends the legs but leaves their ids in `upstream_request_index`. `handle_request_error` and `handle_publish_done` look the leg up by publisher, so a late answer to the old request ends a newer leg, whose publisher goes on sending. |
| `relay_unanswered` | `AnsweredThoughOthersLeave` | The legs that `on_session_closed` ended stay in the route. `handle_subscribe` skips every publisher that has a leg in any state, so the next subscriber of the track is Pending with nothing to wait for. |
| `relay_crossing` | `ConformingPeersStay` | An UNSUBSCRIBE that crosses the relay's REQUEST_ERROR or PUBLISH_DONE names a request the relay no longer knows, and the relay closes a session that did nothing wrong. |
| `wt_revived` | `ClosedIsFinal` | A 2xx response that crosses `close_session` makes the closed session Established again. |
| `wt_cut` | `BidiStreamsOwned` | A stream whose first chunk ends inside its two-byte signal is classified as nothing, and all its bytes are ignored. |
| `wire_reset` | `HeaderSurvivesReset` | `prepare_reset_stream` takes the header length of a stream this side opened, which is recorded as 0: the reset may drop the header, and the peer cannot tell which session lost a stream. |

The lines on both sides are in the findings of `PROJECT.json`. What the models also show, without
a run of its own:

* PUBLISH_DONE of one of two publishers ends all established subscribers (relay.rs:1059); the other
  publisher's leg stays live for nobody. `LiveLegsWanted` holds with one publisher only, and `Released`
  excuses this case.
* When the only publisher disconnects, a Pending subscription stays Pending (relay.rs:145): nothing
  upstream can answer it and nobody is told. `Answered` excuses sessions that end.
* A publisher whose SUBSCRIBE_OK crosses the relay's UNSUBSCRIBE is closed (relay.rs:757), and so is one
  that gives a track its former alias again after the subscription ended (session.rs:119).
  `RelayCrossing.cfg` reaches both with `ReuseAliases = TRUE` once the shorter counterexample is excluded.
* A data stream that comes before its session is mapped and forgotten (connection.rs:544), where
  webtransport/README.md:94 speaks of buffering.
* The relay may send a publisher a request id that it must refuse. `handle_client_setup` ignores the parameters of
  CLIENT_SETUP (relay.rs:331), so a publisher that announced no limit, which is a limit of 0 (draft-16.txt:2815), is
  sent ids up to the configured one. `handle_max_request_id` adds 1 (relay.rs:399) to a value that draft-16.txt:2946
  defines as the highest id plus 1, where `handle_server_setup` (relay.rs:389) takes it as it is.
  `LimitOverrunBounded` says that it gets no worse than this.
* A complete control message with a field cut short is reported as `BufferTooShort`
  (message/mod.rs:163), like one that has not arrived yet, and the tests assert the same error for both
  (moq-protocol/tests/edge_cases.rs:473 and 508). A reader that waits for more bytes, as both parsers of the
  repository do, never refuses it, where draft-16.txt:2271-2273 asks for PROTOCOL_VIOLATION.
* What an HTTP/3 stream reports before a malformed frame depends on where the transport cut it: events of frames
  in the same chunk stay queued (connection.rs:416), those of an earlier chunk were reported.
* A count of pairs near 2^62 panics in `Vec::with_capacity` (types.rs:380); a prefix integer or a string length
  near 2^64 overflows in qpack.rs:136 and 160, which panics, or wraps in a build without overflow checks.

## 6. Running

```
tlc -workers 2 -config RelayPublishers.cfg MCRelayLimits
tlc -workers 2 -config RelaySetup.cfg MCRelayLimits
tlc -workers 2 -config RelayNetwork.cfg MCRelayNetwork
tlc -workers 2 -config WtSessions.cfg MCWtConnection
tlc -workers 2 -config Wire.cfg MCWire
tlapm RelaySessions.tla
tlapm NetworkViews.tla        # nine minutes
tlapm WireTheorems.tla        # twelve minutes
```

## 7. What is left

* *Models.* A driver for `WtConnection`, to see what a caller that closes a connection on every error
  loses when capsules cross `close_session` (connection.rs:717). `RelayNetwork` with a second publisher; with
  two, `Released` needs its excuse at once.
* *Proofs.* `LimitOverrunBounded`, from `RequestIdsCorrect` and an invariant on the record. `ArriveInOrder`, from a
  round trip of each message and `PiecesCorrect`. `ViewsAgree` with sessions that end: the peers that stay should
  still agree with the relay, up to the index entries of section 5.
