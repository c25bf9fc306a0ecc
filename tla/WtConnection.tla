---------------------------- MODULE WtConnection ----------------------------
(***************************************************************************)
(* The sans-IO WebTransport endpoint of webtransport/src: one value of     *)
(* type Connection over its H3Connection, driven by the application's      *)
(* calls and by process_stream_data with whatever bytes the peer's streams *)
(* deliver.                                                                *)
(*                                                                         *)
(* A call has `&mut self' and runs to its end before the next one starts.  *)
(* process_stream_data can handle any number of H3 frames and capsules; it *)
(* is one step per frame, H3 event and capsule, `call' holds what is left  *)
(* of the running call, and every other action waits until it is idle.     *)
(* A call that returns an error without changing the state is a stuttering *)
(* step and has no action.                                                 *)
(*                                                                         *)
(* Abstracted data: header fields except the method and the status class,  *)
(* error codes, reasons, payload bytes (a unit of data stands for a chunk) *)
(* and the bytes returned for sending.  connect_stream_to_session has the  *)
(* same keys as `sessions' and maps each to itself; the counters of what   *)
(* the peer opened and sent are never read.                                *)
(***************************************************************************)
EXTENDS Integers, Sequences, FiniteSets, Maps

CONSTANTS
  Roles,             \* values of is_server
  Streams,           \* QUIC streams the peers open
  AppStreams,        \* QUIC streams the application opens for WebTransport data
  ConnectIds,        \* CONNECT streams the client may allocate, 0, 4, 8, ...
  HeaderSessionIds,  \* session ids that occur in stream headers and datagrams
  SettingsFrames,    \* SETTINGS frames the peer may send
  PreviousSettings,  \* remembered settings of a 0-RTT connection
  ConfigLimits,      \* Config.initial_max_streams_bidi, _uni, initial_max_data
  CapsuleLimits,     \* limits in the peer's flow control capsules
  Capsules,          \* kinds of capsule the peer sends
  Orderly,           \* the peer follows RFC 9114: one SETTINGS frame, one HEADERS
                     \* frame before the DATA of a request stream, none malformed
  MaxFrames,         \* bound: frames of one call
  MaxDeferred,       \* bound: deferred requests
  MaxUsed            \* bound: streams opened and data sent in a session

Kinds == {"bidi", "uni", "data"}
Absent == -1

ASSUME WtAssumption ==
  /\ Roles \subseteq BOOLEAN
  /\ Streams \cup AppStreams \cup ConnectIds \cup HeaderSessionIds \subseteq Nat
  /\ \A q \in ConnectIds : q % 4 = 0
  /\ ConfigLimits \in [Kinds -> Nat]
  /\ CapsuleLimits \subseteq Nat
  /\ Orderly \in BOOLEAN

ASSUME SettingsAssumption ==
  LET Values == Nat \cup {Absent}
  IN /\ SettingsFrames \subseteq [max_sessions : Values, limits : [Kinds -> Values]]
     /\ PreviousSettings \subseteq [max_sessions : Values, limits : [Kinds -> Nat]]

VARIABLES
  is_server,
  settings_received,     \* H3Connection::settings_received
  peer_settings,         \* H3Connection::peer_settings
  h3_streams,            \* H3Connection::streams: stream -> role
  h3_events,             \* H3Connection::pending_events
  next_bidi_stream_id,   \* H3Connection::next_bidi_stream_id of a client
  sessions,              \* session id -> Session
  wt_stream_to_session,  \* data stream -> session id
  pending_wt_streams,    \* streams whose header is incomplete
  classified_streams,
  deferred_requests,     \* CONNECT requests that came before SETTINGS
  previous_settings,
  call,                  \* what is left of the running process_stream_data
  peer,                  \* streams on which HEADERS and FIN were delivered
  events                 \* events of the last step

h3Vars == <<settings_received, peer_settings, h3_streams, h3_events, next_bidi_stream_id>>
streamVars == <<wt_stream_to_session, pending_wt_streams, classified_streams>>
connVars == <<is_server, h3Vars, sessions, streamVars, deferred_requests,
              previous_settings, call, peer>>
vars == <<connVars, events>>

---------------------------------------------------------------------------
(* Events for the application.                                             *)

SessionRequest(s) == [kind |-> "SessionRequest", session |-> s]
SessionEstablished(s) == [kind |-> "SessionEstablished", session |-> s]
SessionClosed(s) == [kind |-> "SessionClosed", session |-> s]
SessionDraining(s) == [kind |-> "SessionDraining", session |-> s]
StreamReceived(s, q) == [kind |-> "StreamReceived", session |-> s, stream |-> q]
StreamData(q) == [kind |-> "StreamData", stream |-> q]
StreamFinished(q) == [kind |-> "StreamFinished", stream |-> q]
Datagram(s) == [kind |-> "Datagram", session |-> s]
GoAway == [kind |-> "GoAway"]

---------------------------------------------------------------------------
(* Flow control of a session (flow_control.rs): the peer's limits and what *)
(* this side has used of them.                                             *)

NoLimits == [k \in Kinds |-> 0]

\* Mutant: the limit itself may be exceeded by one.
HasCreditInclusive(sess, k) == ~sess.enabled \/ sess.used[k] <= sess.max[k]

\* can_open_bidi, can_open_uni, can_send for one unit.
HasCredit(sess, k) == ~sess.enabled \/ sess.used[k] < sess.max[k]

Spend(sess, k) == [sess EXCEPT !.used[k] = @ + 1]

\* Mutant: a lower limit is accepted.
LowersNothing(sess, k, v) == FALSE

\* apply_peer_max_* refuses the value.
LowersLimit(sess, k, v) == sess.enabled /\ v < sess.max[k]

SetPeerInitialLimits(sess, settings) == [sess EXCEPT !.max = settings.limits]

---------------------------------------------------------------------------
(* Sessions and settings.                                                  *)

NewSession ==
  [state |-> "Connecting", streams |-> {}, parser |-> "Open",
   enabled |-> \E k \in Kinds : ConfigLimits[k] > 0,
   max |-> NoLimits, used |-> NoLimits]

IsClosed(s) == sessions[s].state = "Closed"

WithState(s, state) == [sessions EXCEPT ![s].state = state]

\* Mutant: a closed session is reported again.
AlwaysReportClose(s) == {SessionClosed(s)}

\* The event of handle_session_close, which leaves a closed session alone.
ReportClose(s) == IF IsClosed(s) THEN {} ELSE {SessionClosed(s)}

DefaultSettings == [max_sessions |-> Absent, limits |-> NoLimits]

\* Mutant: a setting the frame does not carry is reset.
ApplyAll(settings, frame) == frame

\* PeerSettings::apply: a setting the frame does not carry keeps its value.
Apply(settings, frame) ==
  [max_sessions |-> IF frame.max_sessions = Absent THEN settings.max_sessions
                    ELSE frame.max_sessions,
   limits |-> [k \in Kinds |-> IF frame.limits[k] = Absent THEN settings.limits[k]
                               ELSE frame.limits[k]]]

EnablesFlowControl(settings) == \E k \in Kinds : settings.limits[k] > 0

\* The peer lowers a limit it gave for 0-RTT.
Reduces(settings, previous) ==
  \/ /\ settings.max_sessions # Absent
     /\ previous.max_sessions # Absent
     /\ settings.max_sessions < previous.max_sessions
  \/ \E k \in Kinds : settings.limits[k] < previous.limits[k]

---------------------------------------------------------------------------

Init ==
  /\ is_server \in Roles
  /\ settings_received = FALSE
  /\ peer_settings = DefaultSettings
  /\ h3_streams = EmptyMap
  /\ h3_events = <<>>
  /\ next_bidi_stream_id = 0
  /\ sessions = EmptyMap
  /\ wt_stream_to_session = EmptyMap
  /\ pending_wt_streams = {}
  /\ classified_streams = {}
  /\ deferred_requests = <<>>
  /\ previous_settings = DefaultSettings
  /\ call = [phase |-> "idle", on |-> Absent]
  /\ peer = [headers |-> {}, finished |-> {}]
  /\ events = {}

Idle == call.phase = "idle"

Returns == call' = [phase |-> "idle", on |-> Absent]

Continues(phase, on) == call' = [phase |-> phase, on |-> on]

IsBidi(q) == q % 4 < 2

PeerOpens(q) == q \in Streams /\ (is_server <=> q % 2 = 0)

\* process_stream_data is called with bytes of `q', the last ones if `fin'.
Arrives(q, fin) ==
  /\ Idle
  /\ q \notin peer.finished
  /\ \/ PeerOpens(q)
     \/ IsBidi(q) /\ q \in DOMAIN h3_streams \cup DOMAIN wt_stream_to_session
  /\ peer' = [peer EXCEPT !.finished = IF fin THEN @ \cup {q} ELSE @]

---------------------------------------------------------------------------
(* Calls of the application.                                               *)

ActiveSessions == {s \in DOMAIN sessions : ~IsClosed(s)}

\* The client's limits of connect.
MayConnect ==
  /\ settings_received
  /\ peer_settings.max_sessions # Absent =>
       Cardinality(ActiveSessions) < peer_settings.max_sessions
  /\ EnablesFlowControl(peer_settings) \/ ActiveSessions = {}

Connect ==
  /\ Idle /\ ~is_server
  /\ next_bidi_stream_id \in ConnectIds
  /\ MayConnect
  /\ h3_streams' = Put(h3_streams, next_bidi_stream_id, "Request")
  /\ sessions' = Put(sessions, next_bidi_stream_id, NewSession)
  /\ next_bidi_stream_id' = next_bidi_stream_id + 4
  /\ events' = {}
  /\ UNCHANGED <<is_server, settings_received, peer_settings, h3_events, streamVars,
                 deferred_requests, previous_settings, call, peer>>

\* Only `sessions' changes in the calls below.
OnlySessions ==
  UNCHANGED <<is_server, h3Vars, streamVars, deferred_requests, previous_settings,
              call, peer>>

\* The settings replace whatever limits capsules have raised meanwhile.
AcceptSession(s) ==
  /\ Idle /\ is_server
  /\ s \in DOMAIN sessions /\ sessions[s].state = "Connecting"
  /\ sessions' = [sessions EXCEPT ![s] =
       IF settings_received
       THEN [SetPeerInitialLimits(@, peer_settings) EXCEPT
               !.state = "Established",
               !.enabled = \/ EnablesFlowControl(peer_settings)
                           \/ peer_settings.max_sessions > 1]
       ELSE [@ EXCEPT !.state = "Established"]]
  /\ events' = {}
  /\ OnlySessions

RejectSession(s) ==
  /\ Idle /\ is_server
  /\ s \in DOMAIN sessions
  /\ sessions' = WithState(s, "Closed")
  /\ events' = {}
  /\ OnlySessions

OpenStream(s, k) ==
  /\ Idle
  /\ s \in DOMAIN sessions /\ sessions[s].state = "Established"
  /\ HasCredit(sessions[s], k)
  /\ sessions[s].used[k] < MaxUsed
  /\ sessions' = [sessions EXCEPT ![s] = Spend(@, k)]
  /\ events' = {}
  /\ OnlySessions

\* register_outgoing_stream, which the application calls for a stream it opened
\* after open_uni_stream or open_bidi_stream agreed.
RegisterOutgoingStream(q, s) ==
  LET k == IF IsBidi(q) THEN "bidi" ELSE "uni"
      ours == {r \in sessions[s].streams : r \in AppStreams /\ IsBidi(r) = IsBidi(q)}
  IN /\ Idle
     /\ q \in AppStreams \ (DOMAIN wt_stream_to_session \cup DOMAIN h3_streams)
     /\ is_server <=> q % 2 = 1
     /\ s \in DOMAIN sessions /\ Cardinality(ours) < sessions[s].used[k]
     /\ wt_stream_to_session' = Put(wt_stream_to_session, q, s)
     /\ sessions' = [sessions EXCEPT ![s].streams = @ \cup {q}]
     /\ events' = {}
     /\ UNCHANGED <<is_server, h3Vars, pending_wt_streams, classified_streams,
                    deferred_requests, previous_settings, call, peer>>

\* check_send agreed, and on_data_sent.
SendData(q) ==
  /\ Idle
  /\ q \in DOMAIN wt_stream_to_session
  /\ LET s == wt_stream_to_session[q]
     IN /\ s \in DOMAIN sessions
        /\ HasCredit(sessions[s], "data")
        /\ sessions[s].used["data"] < MaxUsed
        /\ sessions' = [sessions EXCEPT ![s] = Spend(@, "data")]
  /\ events' = {}
  /\ OnlySessions

\* A reason that is too long is refused after the session was closed.
CloseSession(s) ==
  /\ Idle
  /\ s \in DOMAIN sessions
  /\ sessions' = WithState(s, "Closed")
  /\ events' = {}
  /\ OnlySessions

DrainSession(s) ==
  /\ Idle
  /\ s \in DOMAIN sessions
  /\ sessions' = WithState(s, "Draining")
  /\ events' = {}
  /\ OnlySessions

Set0rttSettings(settings) ==
  /\ Idle /\ ~settings_received
  /\ previous_settings' = settings
  /\ events' = {}
  /\ UNCHANGED <<is_server, h3Vars, sessions, streamVars, deferred_requests, call, peer>>

ReceiveDatagram(s) ==
  /\ Idle
  /\ s \in DOMAIN sessions
  /\ events' = {Datagram(s)}
  /\ UNCHANGED connVars

---------------------------------------------------------------------------
(* process_stream_data on WebTransport data streams.                       *)

DataEvents(q, data, fin) ==
  (IF data THEN {StreamData(q)} ELSE {}) \cup (IF fin THEN {StreamFinished(q)} ELSE {})

\* Neither the connection nor any session changes but for the streams' tables.
OnlyStreams ==
  UNCHANGED <<is_server, h3Vars, deferred_requests, previous_settings, call>>

\* Mutant: the session knows the stream and the connection does not.
AssociateUnmapped(q, s, data, fin) ==
  /\ UNCHANGED wt_stream_to_session
  /\ IF s % 4 = 0 /\ s \in DOMAIN sessions
     THEN /\ sessions' = [sessions EXCEPT ![s].streams = @ \cup {q}]
          /\ events' = {StreamReceived(s, q)}
     ELSE events' = {} /\ UNCHANGED sessions

\* associate_incoming_stream and the bytes behind the header.  A stream of an
\* unknown session is mapped to it and forgotten: nothing is buffered.
Associate(q, s, data, fin) ==
  IF s % 4 # 0
  THEN /\ events' = {}
       /\ UNCHANGED <<sessions, wt_stream_to_session>>
  ELSE /\ wt_stream_to_session' = Put(wt_stream_to_session, q, s)
       /\ IF s \in DOMAIN sessions
          THEN /\ sessions' = [sessions EXCEPT ![s].streams = @ \cup {q}]
               /\ events' = {StreamReceived(s, q)} \cup DataEvents(q, data, fin)
          ELSE events' = {} /\ UNCHANGED sessions

IsKnown(q) ==
  q \in DOMAIN wt_stream_to_session \cup pending_wt_streams \cup DOMAIN h3_streams

\* classify_new_stream is called.
IsNew(q) == ~IsKnown(q) /\ q \notin classified_streams

KnownStreamData(q, data, fin) ==
  /\ q \in DOMAIN wt_stream_to_session
  /\ Arrives(q, fin)
  /\ events' = IF wt_stream_to_session[q] \in DOMAIN sessions
               THEN DataEvents(q, data, fin) ELSE {}
  /\ UNCHANGED <<sessions, streamVars>>
  /\ OnlyStreams

\* The header is complete in the first bytes.
NewDataStream(q, s, data, fin) ==
  /\ IsNew(q)
  /\ Arrives(q, fin)
  /\ classified_streams' = classified_streams \cup {q}
  /\ Associate(q, s, data, fin)
  /\ UNCHANGED pending_wt_streams
  /\ OnlyStreams

\* The signal is complete and the session id is not.
NewPendingStream(q, fin) ==
  /\ IsNew(q)
  /\ Arrives(q, fin)
  /\ classified_streams' = classified_streams \cup {q}
  /\ pending_wt_streams' = pending_wt_streams \cup {q}
  /\ events' = {}
  /\ UNCHANGED <<sessions, wt_stream_to_session>>
  /\ OnlyStreams

\* No bytes, or fewer than the signal has: the stream is classified, as nothing,
\* and no later byte of it is looked at.
NewUnreadableStream(q, fin) ==
  /\ IsNew(q)
  /\ Arrives(q, fin)
  /\ classified_streams' = classified_streams \cup {q}
  /\ events' = {}
  /\ UNCHANGED <<sessions, wt_stream_to_session, pending_wt_streams>>
  /\ OnlyStreams

\* Mutant: the stream stays in the table of incomplete headers.
StillPending(q) == pending_wt_streams

NoLongerPending(q) == pending_wt_streams \ {q}

PendingStreamCompletes(q, s, data, fin) ==
  /\ q \in pending_wt_streams \ DOMAIN wt_stream_to_session
  /\ Arrives(q, fin)
  /\ pending_wt_streams' = NoLongerPending(q)
  /\ Associate(q, s, data, fin)
  /\ UNCHANGED classified_streams
  /\ OnlyStreams

\* Bytes of which nothing follows: of a header still incomplete, or of a stream
\* in no table.
IgnoredBytes(q, fin) ==
  /\ \/ q \in pending_wt_streams \ DOMAIN wt_stream_to_session
     \/ ~IsKnown(q) /\ q \in classified_streams
  /\ Arrives(q, fin)
  /\ events' = {}
  /\ UNCHANGED <<sessions, streamVars>>
  /\ OnlyStreams

---------------------------------------------------------------------------
(* process_stream_data on H3 streams: first every frame, then every event. *)

\* Only the H3 streams and the running call change.
OnlyH3Streams ==
  UNCHANGED <<is_server, settings_received, peer_settings, h3_events,
              next_bidi_stream_id, sessions, wt_stream_to_session,
              pending_wt_streams, deferred_requests, previous_settings>>

H3StreamData(q) ==
  /\ q \in DOMAIN h3_streams \ (DOMAIN wt_stream_to_session \cup pending_wt_streams)
  /\ Arrives(q, FALSE)
  /\ Continues("parsing", q)
  /\ events' = {}
  /\ UNCHANGED <<h3_streams, classified_streams>>
  /\ OnlyH3Streams

\* classify_uni_stream finds the control stream, or a second one, which is an
\* error; classify_new_stream finds a request stream.
NewH3Stream(q) ==
  /\ IsNew(q)
  /\ Arrives(q, FALSE)
  /\ classified_streams' = classified_streams \cup {q}
  /\ IF ~IsBidi(q) /\ \E c \in DOMAIN h3_streams : h3_streams[c] = "Control"
     THEN UNCHANGED <<h3_streams, call>>
     ELSE /\ h3_streams' = Put(h3_streams, q, IF IsBidi(q) THEN "Request" ELSE "Control")
          /\ Continues("parsing", q)
  /\ events' = {}
  /\ OnlyH3Streams

\* A QPACK stream, or a type that is not known and not kept.  Either way the
\* events left by an earlier error are processed.
NewOtherUniStream(q, role) ==
  /\ ~IsBidi(q)
  /\ IsNew(q)
  /\ Arrives(q, FALSE)
  /\ classified_streams' = classified_streams \cup {q}
  /\ h3_streams' = IF role = "Unknown" THEN h3_streams ELSE Put(h3_streams, q, role)
  /\ Continues("dispatching", q)
  /\ events' = {}
  /\ OnlyH3Streams

\* The next frame of the chunk is on stream `q' with this role.
Parsing(q, role) ==
  /\ call = [phase |-> "parsing", on |-> q]
  /\ h3_streams[q] = role
  /\ Len(h3_events) < MaxFrames

Queued(event) == h3_events' = Append(h3_events, event)

\* What process_frame leaves alone in all its arms.
FrameUnchanged ==
  UNCHANGED <<is_server, h3_streams, next_bidi_stream_id, sessions, streamVars,
              deferred_requests, previous_settings>>

SettingsFrame(q, frame) ==
  /\ Parsing(q, "Control")
  /\ Orderly => ~settings_received
  /\ peer_settings' = Apply(peer_settings, frame)
  /\ settings_received' = TRUE
  /\ Queued([kind |-> "SettingsReceived", settings |-> Apply(peer_settings, frame)])
  /\ events' = {}
  /\ UNCHANGED <<call, peer>>
  /\ FrameUnchanged

GoawayFrame(q) ==
  /\ Parsing(q, "Control")
  /\ Orderly => settings_received
  /\ Queued([kind |-> "GoAway"])
  /\ events' = {}
  /\ UNCHANGED <<settings_received, peer_settings, call, peer>>
  /\ FrameUnchanged

\* A client's request ("webtransport" for an extended CONNECT) or a server's
\* response ("accepted" for a status of 200 to 299).
HeaderKinds == IF is_server THEN {"webtransport", "other"} ELSE {"accepted", "refused"}

HeadersFrame(q, headers) ==
  /\ Parsing(q, "Request")
  /\ headers \in HeaderKinds
  /\ Orderly => q \notin peer.headers
  /\ peer' = [peer EXCEPT !.headers = IF Orderly THEN @ \cup {q} ELSE @]
  /\ Queued([kind |-> "HeadersReceived", stream |-> q, headers |-> headers])
  /\ events' = {}
  /\ UNCHANGED <<settings_received, peer_settings, call>>
  /\ FrameUnchanged

DataFrame(q) ==
  /\ Parsing(q, "Request")
  /\ Orderly => q \in peer.headers
  /\ Queued([kind |-> "DataReceived", stream |-> q])
  /\ events' = {}
  /\ UNCHANGED <<settings_received, peer_settings, call, peer>>
  /\ FrameUnchanged

\* A payload that does not decode.  The call fails before it looks at events:
\* those of the frames before stay queued for a later call, and a FIN is lost.
MalformedFrame(q, fin) ==
  /\ call = [phase |-> "parsing", on |-> q]
  /\ h3_streams[q] \in {"Control", "Request"}
  /\ ~Orderly
  /\ peer' = [peer EXCEPT !.finished = IF fin THEN @ \cup {q} ELSE @]
  /\ Returns
  /\ events' = {}
  /\ UNCHANGED <<settings_received, peer_settings, h3_events>>
  /\ FrameUnchanged

\* No complete frame is left.
EndOfChunk(q, fin) ==
  /\ call = [phase |-> "parsing", on |-> q]
  /\ peer' = [peer EXCEPT !.finished = IF fin THEN @ \cup {q} ELSE @]
  /\ IF fin /\ h3_streams[q] = "Request"
     THEN Queued([kind |-> "StreamFinished", stream |-> q])
     ELSE UNCHANGED h3_events
  /\ Continues("dispatching", q)
  /\ events' = {}
  /\ UNCHANGED <<settings_received, peer_settings>>
  /\ FrameUnchanged

---------------------------------------------------------------------------
(* process_h3_events.                                                      *)

\* The next event is of this kind.
Dispatching(kind) ==
  /\ call.phase = "dispatching"
  /\ h3_events # <<>>
  /\ Head(h3_events).kind = kind

NextEvent == h3_events' = Tail(h3_events) /\ UNCHANGED call

\* An error drops the events that were drained and not handled.
Fails == h3_events' = <<>> /\ Returns

\* What no event changes.
EventUnchanged ==
  UNCHANGED <<is_server, settings_received, peer_settings, h3_streams,
              next_bidi_stream_id, streamVars, previous_settings, peer>>

\* create_session_from_connect for several streams: a session that exists is
\* replaced.
Create(map, ids) == Merge(map, [s \in ids |-> NewSession])

\* Mutant: the requests are copied and not taken.
DeferredKept == deferred_requests

DeferredTaken == <<>>

HandleSettings ==
  /\ Dispatching("SettingsReceived")
  /\ LET settings == Head(h3_events).settings
         deferred == {deferred_requests[i] : i \in DOMAIN deferred_requests}
         limited == [s \in DOMAIN sessions |-> SetPeerInitialLimits(sessions[s], settings)]
     IN IF Reduces(settings, previous_settings)
        THEN /\ Fails
             /\ events' = {}
             /\ UNCHANGED <<sessions, deferred_requests>>
        ELSE /\ NextEvent
             /\ sessions' = Create(limited, deferred)
             /\ deferred_requests' = DeferredTaken
             /\ events' = {SessionRequest(s) : s \in deferred}
  /\ EventUnchanged

\* Mutant: a CONNECT is processed at once.
NeverDefer == FALSE

\* No session before the peer's SETTINGS (draft-webtrans-h3-14, 7.1).
MustDefer == ~settings_received

HandleRequest(q) ==
  IF MustDefer
  THEN /\ Len(deferred_requests) < MaxDeferred
       /\ deferred_requests' = Append(deferred_requests, q)
       /\ events' = {}
       /\ UNCHANGED sessions
  ELSE /\ sessions' = Create(sessions, {q})
       /\ events' = {SessionRequest(q)}
       /\ UNCHANGED deferred_requests

\* A client's session is established by the response whatever its state is.
HandleResponse(q, headers) ==
  /\ IF q \notin DOMAIN sessions
     THEN events' = {} /\ UNCHANGED sessions
     ELSE IF headers = "accepted"
     THEN /\ sessions' = [sessions EXCEPT ![q] =
               [(IF settings_received THEN SetPeerInitialLimits(@, peer_settings) ELSE @)
                  EXCEPT !.state = "Established"]]
          /\ events' = {SessionEstablished(q)}
     ELSE /\ sessions' = WithState(q, "Closed")
          /\ events' = ReportClose(q)
  /\ UNCHANGED deferred_requests

HandleHeaders ==
  /\ Dispatching("HeadersReceived")
  /\ LET e == Head(h3_events)
     IN IF ~is_server THEN HandleResponse(e.stream, e.headers)
        ELSE IF e.headers = "webtransport" THEN HandleRequest(e.stream)
        ELSE events' = {} /\ UNCHANGED <<sessions, deferred_requests>>
  /\ NextEvent
  /\ EventUnchanged

\* process_connect_stream_data up to the capsule parser.
HandleData ==
  /\ Dispatching("DataReceived")
  /\ LET q == Head(h3_events).stream
     IN IF q \notin DOMAIN sessions THEN NextEvent
        ELSE IF IsClosed(q) THEN Fails
        ELSE h3_events' = Tail(h3_events) /\ Continues("capsules", q)
  /\ events' = {}
  /\ UNCHANGED <<sessions, deferred_requests>>
  /\ EventUnchanged

HandleGoAway ==
  /\ Dispatching("GoAway")
  /\ NextEvent
  /\ events' = {GoAway}
  /\ UNCHANGED <<sessions, deferred_requests>>
  /\ EventUnchanged

HandleFinished ==
  /\ Dispatching("StreamFinished")
  /\ LET q == Head(h3_events).stream
     IN IF q \in DOMAIN sessions
        THEN sessions' = WithState(q, "Closed") /\ events' = ReportClose(q)
        ELSE events' = {} /\ UNCHANGED sessions
  /\ NextEvent
  /\ UNCHANGED deferred_requests
  /\ EventUnchanged

EndOfEvents ==
  /\ call.phase = "dispatching" /\ h3_events = <<>>
  /\ Returns
  /\ events' = {}
  /\ UNCHANGED <<h3_events, sessions, deferred_requests>>
  /\ EventUnchanged

---------------------------------------------------------------------------
(* Capsules of one DATA frame.                                             *)

\* CapsuleParser::feed yields another result for session `s'.
Parser(s, state) ==
  /\ call = [phase |-> "capsules", on |-> s]
  /\ sessions[s].parser = state

CapsuleUnchanged ==
  /\ UNCHANGED <<h3_events, deferred_requests>>
  /\ EventUnchanged

CloseCapsule(s) ==
  /\ Parser(s, "Open") /\ "Close" \in Capsules
  /\ sessions' = WithState(s, "Closed")
  /\ events' = ReportClose(s)
  /\ UNCHANGED call
  /\ CapsuleUnchanged

DrainCapsule(s) ==
  /\ Parser(s, "Open") /\ "Drain" \in Capsules
  /\ sessions' = WithState(s, "Draining")
  /\ events' = {SessionDraining(s)}
  /\ UNCHANGED call
  /\ CapsuleUnchanged

MaxCapsule(s, k, v) ==
  /\ Parser(s, "Open") /\ "Max" \in Capsules
  /\ IF LowersLimit(sessions[s], k, v)
     THEN sessions' = WithState(s, "Closed") /\ events' = ReportClose(s)
     ELSE sessions' = [sessions EXCEPT ![s].max[k] = v] /\ events' = {}
  /\ UNCHANGED call
  /\ CapsuleUnchanged

\* An error ends the loop and leaves the bytes in the parser's buffer, so that
\* the next feed fails again.
BadCapsule(s) ==
  /\ call = [phase |-> "capsules", on |-> s]
  /\ \/ sessions[s].parser = "Open" /\ "Bad" \in Capsules
     \/ sessions[s].parser = "Failed"
  /\ sessions' = [sessions EXCEPT ![s].state = "Closed", ![s].parser = "Failed"]
  /\ events' = ReportClose(s)
  /\ Continues("dispatching", s)
  /\ CapsuleUnchanged

\* A complete capsule whose value is cut short looks like one that is still
\* arriving: it stays at the head of the buffer for good.
TruncatedCapsule(s) ==
  /\ Parser(s, "Open") /\ "Truncated" \in Capsules
  /\ sessions' = [sessions EXCEPT ![s].parser = "Stalled"]
  /\ events' = {}
  /\ Continues("dispatching", s)
  /\ CapsuleUnchanged

EndOfCapsules(s) ==
  /\ call = [phase |-> "capsules", on |-> s]
  /\ sessions[s].parser # "Failed"
  /\ Continues("dispatching", s)
  /\ events' = {}
  /\ UNCHANGED sessions
  /\ CapsuleUnchanged

---------------------------------------------------------------------------

AppCall ==
  \/ Connect
  \/ \E s \in DOMAIN sessions :
       \/ AcceptSession(s)
       \/ RejectSession(s)
       \/ \E k \in {"bidi", "uni"} : OpenStream(s, k)
       \/ \E q \in AppStreams : RegisterOutgoingStream(q, s)
       \/ CloseSession(s)
       \/ DrainSession(s)
  \/ \E q \in DOMAIN wt_stream_to_session : SendData(q)
  \/ \E settings \in PreviousSettings : Set0rttSettings(settings)

DataStreamBytes(q, fin) ==
  \/ \E data \in BOOLEAN : KnownStreamData(q, data, fin)
  \/ \E s \in HeaderSessionIds, data \in BOOLEAN :
       \/ NewDataStream(q, s, data, fin)
       \/ PendingStreamCompletes(q, s, data, fin)
  \/ NewPendingStream(q, fin)
  \/ NewUnreadableStream(q, fin)
  \/ IgnoredBytes(q, fin)

H3Bytes(q) ==
  \/ H3StreamData(q)
  \/ NewH3Stream(q)
  \/ \E role \in {"Qpack", "Unknown"} : NewOtherUniStream(q, role)

Frame(q) ==
  \/ \E frame \in SettingsFrames : SettingsFrame(q, frame)
  \/ GoawayFrame(q)
  \/ \E headers \in HeaderKinds : HeadersFrame(q, headers)
  \/ DataFrame(q)
  \/ \E fin \in BOOLEAN : MalformedFrame(q, fin) \/ EndOfChunk(q, fin)

H3Event ==
  \/ HandleSettings
  \/ HandleHeaders
  \/ HandleData
  \/ HandleGoAway
  \/ HandleFinished
  \/ EndOfEvents

Capsule(s) ==
  \/ CloseCapsule(s)
  \/ DrainCapsule(s)
  \/ \E k \in Kinds, v \in CapsuleLimits : MaxCapsule(s, k, v)
  \/ BadCapsule(s)
  \/ TruncatedCapsule(s)
  \/ EndOfCapsules(s)

AllStreams == Streams \cup AppStreams \cup ConnectIds

Next ==
  \/ AppCall
  \/ \E q \in AllStreams :
       \/ \E fin \in BOOLEAN : DataStreamBytes(q, fin)
       \/ H3Bytes(q)
       \/ Frame(q)
  \/ \E s \in HeaderSessionIds : ReceiveDatagram(s)
  \/ H3Event
  \/ \E s \in DOMAIN sessions : Capsule(s)

Spec == Init /\ [][Next]_vars

---------------------------------------------------------------------------
(* Types.                                                                  *)

PeerSettings == [max_sessions : Nat \cup {Absent}, limits : [Kinds -> Nat]]

Session ==
  [state : {"Connecting", "Established", "Draining", "Closed"},
   streams : SUBSET AllStreams, parser : {"Open", "Stalled", "Failed"},
   enabled : BOOLEAN, max : [Kinds -> Nat], used : [Kinds -> Nat]]

H3Events ==
  [kind : {"SettingsReceived"}, settings : PeerSettings]
    \cup [kind : {"HeadersReceived"}, stream : AllStreams,
          headers : {"webtransport", "other", "accepted", "refused"}]
    \cup [kind : {"DataReceived", "StreamFinished"}, stream : AllStreams]
    \cup [kind : {"GoAway"}]

\* Type invariant of the connection.
TypeOK ==
  /\ is_server \in BOOLEAN
  /\ settings_received \in BOOLEAN
  /\ peer_settings \in PeerSettings
  /\ IsMap(h3_streams, AllStreams, {"Control", "Request", "Qpack"})
  /\ h3_events \in Seq(H3Events)
  /\ next_bidi_stream_id \in Nat
  /\ IsMap(sessions, AllStreams, Session)
  /\ IsMap(wt_stream_to_session, AllStreams, Nat)
  /\ pending_wt_streams \subseteq AllStreams
  /\ classified_streams \subseteq AllStreams
  /\ deferred_requests \in Seq(AllStreams)
  /\ previous_settings \in PeerSettings
  /\ call \in [phase : {"idle", "parsing", "dispatching", "capsules"},
               on : AllStreams \cup {Absent}]
  /\ peer \in [headers : SUBSET AllStreams, finished : SUBSET AllStreams]

---------------------------------------------------------------------------
(* Safety.                                                                 *)

\* process_stream_data (connection.rs:396) asks three tables in turn who reads a
\* stream.  No stream is in two of them, so the order of the questions does not
\* matter, and none that the peer opened got there without being classified.
\* The two allocators of client streams, this connection's for CONNECT and the
\* application's for data, must not meet: AppStreams and ConnectIds are disjoint.
OneOwner ==
  /\ DOMAIN h3_streams \cap DOMAIN wt_stream_to_session = {}
  /\ pending_wt_streams \cap DOMAIN h3_streams = {}
  /\ pending_wt_streams \cap DOMAIN wt_stream_to_session = {}
  /\ \A q \in AllStreams : PeerOpens(q) /\ IsKnown(q) => q \in classified_streams

\* The streams a session would reset when it closes (connection.rs:345) are its
\* own: wt_stream_to_session agrees, so none is in two sessions.
StreamsBelong ==
  \A s \in DOMAIN sessions : \A q \in sessions[s].streams :
    q \in DOMAIN wt_stream_to_session /\ wt_stream_to_session[q] = s

\* No session exists before the peer's SETTINGS (connection.rs:70, 116, 672),
\* in either role and however the frames of different streams are interleaved.
SessionsAfterSettings == DOMAIN sessions # {} => settings_received

\* A CONNECT that came before SETTINGS is not forgotten (connection.rs:635): once
\* SETTINGS was parsed it is waiting only while that event is still queued, or
\* when the settings broke the promise made for 0-RTT.
DeferredReleased ==
  deferred_requests # <<>> /\ settings_received =>
    \/ \E i \in DOMAIN h3_events : h3_events[i].kind = "SettingsReceived"
    \/ Reduces(peer_settings, previous_settings)

\* A session never has more streams open than the peer's limit in force, although
\* SETTINGS, the response, accept_session and capsules all replace that limit.
CreditRespected ==
  \A s \in DOMAIN sessions : \A k \in {"bidi", "uni"} :
    sessions[s].enabled => sessions[s].used[k] <= sessions[s].max[k]

---------------------------------------------------------------------------
(* What a step may never do.                                               *)

\* The application hears of each closing once, when it happens: handle_session_close
\* (connection.rs:817) reports a session that was not closed, and whatever the
\* peer does to close one is reported.
CloseReported ==
  [][\A s \in DOMAIN sessions :
       /\ SessionClosed(s) \in events' => ~IsClosed(s) /\ IsClosed(s)'
       /\ ~Idle /\ ~IsClosed(s) /\ IsClosed(s)' => SessionClosed(s) \in events']_vars

\* The limits of an established session with flow control only grow: "values
\* must be monotonically increasing" (flow_control.rs:93, 110).
LimitsGrow ==
  [][\A s \in DOMAIN sessions : \A k \in Kinds :
       sessions[s].state = "Established" /\ sessions[s].enabled =>
         sessions[s].max[k] <= sessions'[s].max[k]]_vars

\* Nothing the peer sends revives a session that was terminated, by a
\* CLOSE_SESSION capsule "either sent or received" (draft-webtrans-h3-14, 6).
ClosedIsFinal ==
  [][\A s \in DOMAIN sessions : ~Idle /\ IsClosed(s) => IsClosed(s)']_vars

\* A bidirectional stream is either a request or a WebTransport stream, however
\* its first bytes are cut into chunks.
BidiStreamsOwned ==
  \A q \in classified_streams : IsBidi(q) => IsKnown(q)

=============================================================================
