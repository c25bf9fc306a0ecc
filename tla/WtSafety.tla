------------------------------ MODULE WtSafety ------------------------------
(***************************************************************************)
(* Safety of a WebTransport connection for any number of streams and       *)
(* sessions, any limits and any application.                               *)
(*                                                                         *)
(* For any peer: every variable stays well typed (TypeOK), no session      *)
(* exists before SETTINGS (SessionsAfterSettings), every stream has one    *)
(* reader (OneOwner), a session's streams are its own (StreamsBelong) and  *)
(* every closing is told once (CloseReported).  For a peer that follows    *)
(* RFC 9114: deferred requests become sessions (DeferredReleased), no      *)
(* session opens more streams than it may (CreditRespected) and limits in  *)
(* use only grow (LimitsGrow).                                             *)
(***************************************************************************)
EXTENDS WtConnection, TLAPS

---------------------------------------------------------------------------
(* What the operators of Maps do to the types of keys and values.          *)

\* Inserting a well-typed entry keeps a map well typed (HashMap::insert).
LEMMA PutType ==
  ASSUME NEW K, NEW V, NEW f, IsMap(f, K, V), NEW k \in K, NEW v \in V
  PROVE  IsMap(Put(f, k, v), K, V)
BY DEF IsMap, Put

\* Inserting several well-typed entries keeps a map well typed.
LEMMA MergeType ==
  ASSUME NEW K, NEW V, NEW f, NEW g, IsMap(f, K, V), IsMap(g, K, V)
  PROVE  IsMap(Merge(f, g), K, V)
BY DEF IsMap, Merge

\* Replacing the value of a key (HashMap::get_mut).
LEMMA ReplaceType ==
  ASSUME NEW K, NEW V, NEW f, IsMap(f, K, V), NEW k \in DOMAIN f, NEW v \in V
  PROVE  IsMap([f EXCEPT ![k] = v], K, V)
BY DEF IsMap

\* A new map is well typed.
LEMMA EmptyMapType ==
  ASSUME NEW K, NEW V
  PROVE  IsMap(EmptyMap, K, V)
BY DEF IsMap, EmptyMap

---------------------------------------------------------------------------
(* Parts of the state.                                                     *)

H3OK ==
  /\ settings_received \in BOOLEAN
  /\ peer_settings \in PeerSettings
  /\ IsMap(h3_streams, AllStreams, {"Control", "Request", "Qpack"})
  /\ h3_events \in Seq(H3Events)
  /\ next_bidi_stream_id \in Nat

StreamsOK ==
  /\ IsMap(wt_stream_to_session, AllStreams, Nat)
  /\ pending_wt_streams \subseteq AllStreams
  /\ classified_streams \subseteq AllStreams

SessionsOK == IsMap(sessions, AllStreams, Session)

RestOK ==
  /\ is_server \in BOOLEAN
  /\ deferred_requests \in Seq(AllStreams)
  /\ previous_settings \in PeerSettings

CallOK ==
  /\ call \in [phase : {"idle", "parsing", "dispatching", "capsules"},
               on : AllStreams \cup {Absent}]
  /\ peer \in [headers : SUBSET AllStreams, finished : SUBSET AllStreams]

LEMMA TypeParts ==
  /\ TypeOK <=> H3OK /\ StreamsOK /\ SessionsOK /\ RestOK /\ CallOK
  /\ TypeOK' <=> H3OK' /\ StreamsOK' /\ SessionsOK' /\ RestOK' /\ CallOK'
BY DEF TypeOK, H3OK, StreamsOK, SessionsOK, RestOK, CallOK

\* Parts a step leaves alone stay well typed.
LEMMA UnchangedParts ==
  /\ H3OK /\ UNCHANGED h3Vars => H3OK'
  /\ StreamsOK /\ UNCHANGED streamVars => StreamsOK'
  /\ SessionsOK /\ UNCHANGED sessions => SessionsOK'
  /\ RestOK /\ UNCHANGED <<is_server, deferred_requests, previous_settings>> => RestOK'
  /\ CallOK /\ UNCHANGED <<call, peer>> => CallOK'
BY DEF H3OK, StreamsOK, SessionsOK, RestOK, CallOK, h3Vars, streamVars, IsMap

---------------------------------------------------------------------------
(* Sessions and settings.                                                  *)

LEMMA NewSessionType == NewSession \in Session
BY DEF NewSession, Session, NoLimits

LEMMA SessionOf ==
  ASSUME SessionsOK, NEW s \in DOMAIN sessions
  PROVE  sessions[s] \in Session /\ s \in AllStreams
BY DEF SessionsOK, IsMap

\* Changing the state of a session, its limits, or its use of them.
LEMMA ChangedSessionType ==
  ASSUME NEW sess \in Session
  PROVE  /\ \A state \in {"Connecting", "Established", "Draining", "Closed"} :
              [sess EXCEPT !.state = state] \in Session
         /\ \A settings \in PeerSettings : SetPeerInitialLimits(sess, settings) \in Session
         /\ \A k \in Kinds, v \in Nat : [sess EXCEPT !.max[k] = v] \in Session
         /\ \A k \in Kinds : Spend(sess, k) \in Session
         /\ \A q \in AllStreams : [sess EXCEPT !.streams = @ \cup {q}] \in Session
         /\ \A parser \in {"Open", "Stalled", "Failed"} :
              [sess EXCEPT !.parser = parser] \in Session
         /\ \A enabled \in BOOLEAN : [sess EXCEPT !.enabled = enabled] \in Session
<1>1. \A k \in Kinds, v \in Nat : [sess EXCEPT !.max[k] = v] \in Session
  BY DEF Session
<1>2. \A k \in Kinds : Spend(sess, k) \in Session
  BY DEF Session, Spend
<1>3. \A settings \in PeerSettings : SetPeerInitialLimits(sess, settings) \in Session
  BY DEF Session, SetPeerInitialLimits, PeerSettings
<1>4. \A q \in AllStreams : [sess EXCEPT !.streams = @ \cup {q}] \in Session
  BY DEF Session
<1>5. /\ \A state \in {"Connecting", "Established", "Draining", "Closed"} :
           [sess EXCEPT !.state = state] \in Session
      /\ \A parser \in {"Open", "Stalled", "Failed"} :
           [sess EXCEPT !.parser = parser] \in Session
      /\ \A enabled \in BOOLEAN : [sess EXCEPT !.enabled = enabled] \in Session
  BY DEF Session
<1> QED BY <1>1, <1>2, <1>3, <1>4, <1>5

LEMMA WithStateType ==
  ASSUME SessionsOK, NEW s \in DOMAIN sessions,
         NEW state \in {"Connecting", "Established", "Draining", "Closed"}
  PROVE  IsMap(WithState(s, state), AllStreams, Session)
<1>1. [sessions[s] EXCEPT !.state = state] \in Session
  BY SessionOf, ChangedSessionType
<1> QED BY <1>1, ReplaceType DEF WithState, SessionsOK

\* A frame changes only the settings it carries.
LEMMA ApplyType ==
  ASSUME NEW settings \in PeerSettings, NEW frame \in SettingsFrames
  PROVE  Apply(settings, frame) \in PeerSettings
<1>1. /\ frame.max_sessions \in Nat \cup {Absent}
      /\ \A k \in Kinds : frame.limits[k] \in Nat \cup {Absent}
  BY SettingsAssumption
<1> QED BY <1>1 DEF Apply, PeerSettings

LEMMA PreviousType == PreviousSettings \subseteq PeerSettings
BY SettingsAssumption DEF PeerSettings

---------------------------------------------------------------------------
(* Calls of the application.                                               *)

LEMMA AppCallType ==
  ASSUME TypeOK, AppCall
  PROVE  TypeOK'
<1> USE TypeParts
<1>1. CASE Connect
  <2>1. next_bidi_stream_id \in AllStreams /\ next_bidi_stream_id + 4 \in Nat
    BY <1>1, WtAssumption DEF Connect, AllStreams
  <2>2. IsMap(h3_streams', AllStreams, {"Control", "Request", "Qpack"})
    BY <1>1, <2>1, PutType DEF Connect, H3OK
  <2>3. SessionsOK'
    BY <1>1, <2>1, PutType, NewSessionType DEF Connect, SessionsOK
  <2>4. H3OK'
    BY <1>1, <2>1, <2>2 DEF Connect, H3OK
  <2> QED BY <1>1, <2>3, <2>4, UnchangedParts DEF Connect
<1>2. ASSUME SessionsOK', OnlySessions
      PROVE  TypeOK'
  BY <1>2, UnchangedParts DEF OnlySessions
<1>3. ASSUME NEW s \in DOMAIN sessions, NEW sess \in Session,
             sessions' = [sessions EXCEPT ![s] = sess]
      PROVE  SessionsOK'
  BY <1>3, ReplaceType DEF SessionsOK
<1>4. ASSUME NEW s \in DOMAIN sessions, AcceptSession(s)
      PROVE  TypeOK'
  <2> DEFINE limited == SetPeerInitialLimits(sessions[s], peer_settings)
             accepted == [limited EXCEPT !.state = "Established"]
             flow == \/ EnablesFlowControl(peer_settings)
                     \/ peer_settings.max_sessions > 1
  <2>1. accepted \in Session
    <3>1. limited \in Session
      BY SessionOf, ChangedSessionType DEF H3OK
    <3> QED BY <3>1, ChangedSessionType
  <2>2. [accepted EXCEPT !.enabled = flow] \in Session
    BY <2>1, ChangedSessionType DEF EnablesFlowControl
  <2>3. [limited EXCEPT !.state = "Established", !.enabled = flow]
          = [accepted EXCEPT !.enabled = flow]
    OBVIOUS
  <2>4. [sessions[s] EXCEPT !.state = "Established"] \in Session
    BY SessionOf, ChangedSessionType
  <2>5. CASE settings_received
    <3>1. sessions' = [sessions EXCEPT ![s] = [accepted EXCEPT !.enabled = flow]]
      BY <1>4, <2>3, <2>5 DEF AcceptSession
    <3> HIDE DEF limited, accepted, flow
    <3> QED BY <1>2, <1>3, <1>4, <2>2, <3>1 DEF AcceptSession
  <2>6. CASE ~settings_received
    <3>1. sessions' = [sessions EXCEPT ![s] = [sessions[s] EXCEPT !.state = "Established"]]
      BY <1>4, <2>6 DEF AcceptSession
    <3> QED BY <1>2, <1>3, <1>4, <2>4, <3>1 DEF AcceptSession
  <2> QED BY <2>5, <2>6
<1>5. ASSUME NEW s \in DOMAIN sessions,
             RejectSession(s) \/ CloseSession(s) \/ DrainSession(s)
      PROVE  TypeOK'
  BY <1>2, <1>5, WithStateType DEF RejectSession, CloseSession, DrainSession, SessionsOK
<1>6. ASSUME NEW s \in DOMAIN sessions, NEW k \in Kinds,
             sessions' = [sessions EXCEPT ![s] = Spend(@, k)], OnlySessions
      PROVE  TypeOK'
  <2>1. Spend(sessions[s], k) \in Session
    BY SessionOf, ChangedSessionType
  <2> QED BY <1>2, <1>3, <1>6, <2>1
<1>7. ASSUME NEW s \in DOMAIN sessions, NEW k \in {"bidi", "uni"}, OpenStream(s, k)
      PROVE  TypeOK'
  BY <1>6, <1>7 DEF OpenStream, Kinds
<1>8. ASSUME NEW q \in DOMAIN wt_stream_to_session, SendData(q)
      PROVE  TypeOK'
  <2>1. wt_stream_to_session[q] \in DOMAIN sessions
    BY <1>8 DEF SendData
  <2> QED BY <1>6, <1>8, <2>1 DEF SendData, Kinds
<1>9. ASSUME NEW q \in AppStreams, NEW s \in DOMAIN sessions, RegisterOutgoingStream(q, s)
      PROVE  TypeOK'
  <2>1. q \in AllStreams /\ s \in Nat
    BY SessionOf, WtAssumption DEF AllStreams
  <2>2. [sessions[s] EXCEPT !.streams = @ \cup {q}] \in Session
    BY <2>1, SessionOf, ChangedSessionType
  <2>3. SessionsOK'
    BY <1>3, <1>9, <2>2 DEF RegisterOutgoingStream
  <2>4. StreamsOK'
    BY <1>9, <2>1, PutType DEF RegisterOutgoingStream, StreamsOK
  <2> QED BY <1>9, <2>3, <2>4, UnchangedParts DEF RegisterOutgoingStream
<1>10. ASSUME NEW settings \in PreviousSettings, Set0rttSettings(settings)
       PROVE  TypeOK'
  <2>1. RestOK'
    BY <1>10, PreviousType DEF RestOK, Set0rttSettings
  <2> QED BY <1>10, <2>1, UnchangedParts DEF Set0rttSettings
<1> QED BY <1>1, <1>4, <1>5, <1>7, <1>8, <1>9, <1>10 DEF AppCall

---------------------------------------------------------------------------
(* process_stream_data.                                                    *)

LEMMA ArrivesType ==
  ASSUME CallOK, NEW q \in AllStreams, NEW fin, Arrives(q, fin)
  PROVE  peer' \in [headers : SUBSET AllStreams, finished : SUBSET AllStreams]
BY DEF CallOK, Arrives

LEMMA AssociateType ==
  ASSUME StreamsOK, SessionsOK, NEW q \in AllStreams, NEW s \in HeaderSessionIds,
         NEW data, NEW fin, Associate(q, s, data, fin)
  PROVE  SessionsOK' /\ IsMap(wt_stream_to_session', AllStreams, Nat)
<1>1. s \in Nat
  BY WtAssumption
<1>2. CASE s % 4 # 0
  BY <1>2 DEF Associate, StreamsOK, SessionsOK
<1>3. CASE s % 4 = 0
  <2>1. IsMap(wt_stream_to_session', AllStreams, Nat)
    BY <1>1, <1>3, PutType DEF Associate, StreamsOK
  <2>2. CASE s \in DOMAIN sessions
    <3>1. [sessions[s] EXCEPT !.streams = @ \cup {q}] \in Session
      BY <2>2, SessionOf, ChangedSessionType
    <3>2. sessions' = [sessions EXCEPT ![s] = [sessions[s] EXCEPT !.streams = @ \cup {q}]]
      BY <1>3, <2>2 DEF Associate
    <3> QED BY <2>1, <2>2, <3>1, <3>2, ReplaceType DEF SessionsOK
  <2>3. CASE s \notin DOMAIN sessions
    BY <1>3, <2>1, <2>3 DEF Associate, SessionsOK
  <2> QED BY <2>2, <2>3
<1> QED BY <1>2, <1>3

LEMMA DataStreamType ==
  ASSUME TypeOK, NEW q \in AllStreams, NEW fin \in BOOLEAN, DataStreamBytes(q, fin)
  PROVE  TypeOK'
<1> USE TypeParts
<1>1. ASSUME StreamsOK', SessionsOK', Arrives(q, fin), OnlyStreams
      PROVE  TypeOK'
  <2>1. CallOK'
    BY <1>1, ArrivesType DEF OnlyStreams, CallOK
  <2> QED BY <1>1, <2>1, UnchangedParts DEF OnlyStreams
<1>2. ASSUME NEW s \in HeaderSessionIds, NEW data \in BOOLEAN,
             NewDataStream(q, s, data, fin) \/ PendingStreamCompletes(q, s, data, fin)
      PROVE  TypeOK'
  <2>1. SessionsOK' /\ IsMap(wt_stream_to_session', AllStreams, Nat)
    BY <1>2, AssociateType DEF NewDataStream, PendingStreamCompletes
  <2>2. pending_wt_streams' \subseteq AllStreams /\ classified_streams' \subseteq AllStreams
    BY <1>2 DEF NewDataStream, PendingStreamCompletes, NoLongerPending, StreamsOK
  <2> QED BY <1>1, <1>2, <2>1, <2>2 DEF NewDataStream, PendingStreamCompletes, StreamsOK
<1>3. ASSUME NewPendingStream(q, fin) \/ NewUnreadableStream(q, fin)
      PROVE  TypeOK'
  <2>1. StreamsOK'
    BY <1>3 DEF NewPendingStream, NewUnreadableStream, StreamsOK
  <2> QED BY <1>1, <1>3, <2>1, UnchangedParts DEF NewPendingStream, NewUnreadableStream
<1>4. ASSUME IgnoredBytes(q, fin) \/ \E data \in BOOLEAN : KnownStreamData(q, data, fin)
      PROVE  TypeOK'
  BY <1>1, <1>4, UnchangedParts DEF IgnoredBytes, KnownStreamData
<1> QED BY <1>2, <1>3, <1>4 DEF DataStreamBytes

LEMMA ContinuesType ==
  ASSUME NEW phase \in {"idle", "parsing", "dispatching", "capsules"},
         NEW on \in AllStreams \cup {Absent}, Continues(phase, on)
  PROVE  call' \in [phase : {"idle", "parsing", "dispatching", "capsules"},
                    on : AllStreams \cup {Absent}]
BY DEF Continues

LEMMA H3BytesType ==
  ASSUME TypeOK, NEW q \in AllStreams, H3Bytes(q)
  PROVE  TypeOK'
<1> USE TypeParts
<1>1. ASSUME Arrives(q, FALSE), OnlyH3Streams,
             Continues("parsing", q) \/ Continues("dispatching", q) \/ UNCHANGED call,
             h3_streams' = h3_streams
               \/ \E role \in {"Control", "Request", "Qpack"} : h3_streams' = Put(h3_streams, q, role),
             classified_streams' \in {classified_streams, classified_streams \cup {q}}
      PROVE  TypeOK'
  <2>1. CallOK'
    BY <1>1, ArrivesType, ContinuesType DEF CallOK
  <2>2. IsMap(h3_streams', AllStreams, {"Control", "Request", "Qpack"})
    BY <1>1, PutType DEF H3OK
  <2>3. H3OK'
    BY <1>1, <2>2 DEF H3OK, OnlyH3Streams
  <2>4. StreamsOK'
    BY <1>1 DEF StreamsOK, OnlyH3Streams
  <2> QED BY <1>1, <2>1, <2>3, <2>4, UnchangedParts DEF OnlyH3Streams
<1>2. CASE H3StreamData(q)
  BY <1>1, <1>2 DEF H3StreamData
<1>3. CASE NewH3Stream(q)
  BY <1>1, <1>3 DEF NewH3Stream
<1>4. ASSUME NEW role \in {"Qpack", "Unknown"}, NewOtherUniStream(q, role)
      PROVE  TypeOK'
  BY <1>1, <1>4 DEF NewOtherUniStream
<1> QED BY <1>2, <1>3, <1>4 DEF H3Bytes

---------------------------------------------------------------------------
(* Frames.                                                                 *)

\* A queued event is well typed.
LEMMA QueuedType ==
  ASSUME H3OK, NEW event \in H3Events, Queued(event)
  PROVE  h3_events' \in Seq(H3Events)
BY DEF H3OK, Queued

LEMMA FrameType ==
  ASSUME TypeOK, NEW q \in AllStreams, Frame(q)
  PROVE  TypeOK'
<1> USE TypeParts
<1>1. ASSUME FrameUnchanged, settings_received' \in BOOLEAN, peer_settings' \in PeerSettings,
             h3_events' \in Seq(H3Events), CallOK'
      PROVE  TypeOK'
  <2>1. H3OK'
    BY <1>1 DEF H3OK, FrameUnchanged
  <2> QED BY <1>1, <2>1, UnchangedParts DEF FrameUnchanged, streamVars
<1>2. ASSUME NEW frame \in SettingsFrames, SettingsFrame(q, frame)
      PROVE  TypeOK'
  <2> DEFINE event == [kind |-> "SettingsReceived", settings |-> Apply(peer_settings, frame)]
  <2>1. Apply(peer_settings, frame) \in PeerSettings
    BY ApplyType DEF H3OK
  <2>2. event \in H3Events
    BY <2>1 DEF H3Events
  <2>3. h3_events' \in Seq(H3Events)
    BY <1>2, <2>2, QueuedType DEF SettingsFrame
  <2> QED BY <1>1, <1>2, <2>1, <2>3, UnchangedParts DEF SettingsFrame
<1>3. CASE GoawayFrame(q)
  <2>1. [kind |-> "GoAway"] \in H3Events
    BY DEF H3Events
  <2>2. h3_events' \in Seq(H3Events)
    BY <1>3, <2>1, QueuedType DEF GoawayFrame
  <2> QED BY <1>1, <1>3, <2>2, UnchangedParts DEF GoawayFrame, H3OK
<1>4. ASSUME NEW headers \in HeaderKinds, HeadersFrame(q, headers)
      PROVE  TypeOK'
  <2>1. [kind |-> "HeadersReceived", stream |-> q, headers |-> headers] \in H3Events
    BY DEF H3Events, HeaderKinds
  <2>2. h3_events' \in Seq(H3Events)
    BY <1>4, <2>1, QueuedType DEF HeadersFrame
  <2>3. CallOK'
    BY <1>4 DEF HeadersFrame, CallOK
  <2> QED BY <1>1, <1>4, <2>2, <2>3 DEF HeadersFrame, H3OK
<1>5. CASE DataFrame(q)
  <2>1. [kind |-> "DataReceived", stream |-> q] \in H3Events
    BY DEF H3Events
  <2>2. h3_events' \in Seq(H3Events)
    BY <1>5, <2>1, QueuedType DEF DataFrame
  <2> QED BY <1>1, <1>5, <2>2, UnchangedParts DEF DataFrame, H3OK
<1>6. ASSUME NEW fin \in BOOLEAN, MalformedFrame(q, fin)
      PROVE  TypeOK'
  <2>1. CallOK'
    BY <1>6 DEF MalformedFrame, Returns, CallOK
  <2> QED BY <1>1, <1>6, <2>1 DEF MalformedFrame, H3OK
<1>7. ASSUME NEW fin \in BOOLEAN, EndOfChunk(q, fin)
      PROVE  TypeOK'
  <2>1. [kind |-> "StreamFinished", stream |-> q] \in H3Events
    BY DEF H3Events
  <2>2. h3_events' \in Seq(H3Events)
    BY <1>7, <2>1, QueuedType DEF EndOfChunk, H3OK
  <2>3. CallOK'
    BY <1>7 DEF EndOfChunk, Continues, CallOK
  <2> QED BY <1>1, <1>7, <2>2, <2>3 DEF EndOfChunk, H3OK
<1> QED BY <1>2, <1>3, <1>4, <1>5, <1>6, <1>7 DEF Frame

---------------------------------------------------------------------------
(* H3 events and capsules.                                                 *)

\* The next event and what it carries.
LEMMA HeadType ==
  ASSUME H3OK, h3_events # <<>>
  PROVE  /\ Head(h3_events) \in H3Events
         /\ Tail(h3_events) \in Seq(H3Events)
BY DEF H3OK

LEMMA EventFields ==
  ASSUME NEW e \in H3Events
  PROVE  /\ e.kind = "SettingsReceived" => e.settings \in PeerSettings
         /\ e.kind \in {"HeadersReceived", "DataReceived", "StreamFinished"}
              => e.stream \in AllStreams
BY DEF H3Events

LEMMA CreateType ==
  ASSUME NEW map, IsMap(map, AllStreams, Session), NEW ids, ids \subseteq AllStreams
  PROVE  IsMap(Create(map, ids), AllStreams, Session)
<1>1. IsMap([s \in ids |-> NewSession], AllStreams, Session)
  BY NewSessionType DEF IsMap
<1> QED BY <1>1, MergeType DEF Create

\* What is left to show of a step that handles one event.
LEMMA EventStepType ==
  ASSUME TypeOK, EventUnchanged, SessionsOK', deferred_requests' \in Seq(AllStreams),
         h3_events' \in Seq(H3Events),
         call' \in [phase : {"idle", "parsing", "dispatching", "capsules"},
                    on : AllStreams \cup {Absent}]
  PROVE  TypeOK'
<1> USE TypeParts
<1>1. H3OK'
  BY DEF H3OK, EventUnchanged
<1>2. CallOK' /\ RestOK'
  BY DEF CallOK, RestOK, EventUnchanged
<1> QED BY <1>1, <1>2, UnchangedParts DEF EventUnchanged

LEMMA H3EventType ==
  ASSUME TypeOK, H3Event
  PROVE  TypeOK'
<1> USE TypeParts
<1> DEFINE calls == [phase : {"idle", "parsing", "dispatching", "capsules"},
                     on : AllStreams \cup {Absent}]
<1>1. call \in calls /\ deferred_requests \in Seq(AllStreams)
  BY DEF CallOK, RestOK
<1>2. NextEvent /\ h3_events # <<>> => h3_events' \in Seq(H3Events) /\ call' \in calls
  BY <1>1, HeadType DEF NextEvent
<1>3. Fails => h3_events' \in Seq(H3Events) /\ call' \in calls
  BY DEF Fails, Returns
<1>4. CASE HandleSettings
  <2> DEFINE settings == Head(h3_events).settings
             deferred == {deferred_requests[i] : i \in DOMAIN deferred_requests}
             limited == [s \in DOMAIN sessions |-> SetPeerInitialLimits(sessions[s], settings)]
  <2>1. settings \in PeerSettings
    BY <1>4, HeadType, EventFields DEF HandleSettings, Dispatching
  <2>2. deferred \subseteq AllStreams
    BY <1>1
  <2>3. IsMap(limited, AllStreams, Session)
    BY <2>1, SessionOf, ChangedSessionType DEF SessionsOK, IsMap
  <2>4. IsMap(Create(limited, deferred), AllStreams, Session)
    BY <2>2, <2>3, CreateType
  <2>5. SessionsOK'
    <3> HIDE DEF limited, deferred
    <3>1. sessions' \in {sessions, Create(limited, deferred)}
      BY <1>4 DEF HandleSettings, limited, deferred
    <3> QED BY <2>4, <3>1 DEF SessionsOK
  <2>6. deferred_requests' \in Seq(AllStreams)
    <3>1. deferred_requests' \in {deferred_requests, <<>>}
      BY <1>4 DEF HandleSettings, DeferredTaken
    <3>2. <<>> \in Seq(AllStreams)
      OBVIOUS
    <3> QED BY <1>1, <3>1, <3>2
  <2> QED BY <1>2, <1>3, <1>4, <2>5, <2>6, EventStepType DEF HandleSettings, Dispatching
<1>5. CASE HandleHeaders
  <2> DEFINE q == Head(h3_events).stream
             headers == Head(h3_events).headers
  <2>1. q \in AllStreams /\ h3_events # <<>>
    BY <1>5, HeadType, EventFields DEF HandleHeaders, Dispatching
  <2>2. ASSUME HandleResponse(q, headers)
        PROVE  SessionsOK' /\ UNCHANGED deferred_requests
    <3> DEFINE sess == IF settings_received
                       THEN SetPeerInitialLimits(sessions[q], peer_settings) ELSE sessions[q]
    <3>1. CASE q \notin DOMAIN sessions
      BY <2>2, <3>1, UnchangedParts DEF HandleResponse
    <3>2. CASE q \in DOMAIN sessions /\ headers = "accepted"
      <4>1. sess \in Session
        BY <3>2, SessionOf, ChangedSessionType DEF H3OK
      <4>2. [sess EXCEPT !.state = "Established"] \in Session
        BY <4>1, ChangedSessionType
      <4>3. sessions' = [sessions EXCEPT ![q] = [sess EXCEPT !.state = "Established"]]
        BY <2>2, <3>2 DEF HandleResponse
      <4> HIDE DEF sess
      <4> QED BY <2>2, <3>2, <4>2, <4>3, ReplaceType DEF HandleResponse, SessionsOK
    <3>3. CASE q \in DOMAIN sessions /\ headers # "accepted"
      BY <2>2, <3>3, WithStateType DEF HandleResponse, SessionsOK
    <3> QED BY <3>1, <3>2, <3>3
  <2>3. ASSUME HandleRequest(q)
        PROVE  SessionsOK' /\ deferred_requests' \in Seq(AllStreams)
    <3>1. SessionsOK'
      BY <2>1, <2>3, CreateType DEF HandleRequest, SessionsOK
    <3> QED BY <1>1, <2>1, <2>3, <3>1 DEF HandleRequest
  <2>4. SessionsOK' /\ deferred_requests' \in Seq(AllStreams)
    BY <1>1, <1>5, <2>2, <2>3, UnchangedParts DEF HandleHeaders
  <2> QED BY <1>2, <1>5, <2>1, <2>4, EventStepType DEF HandleHeaders
<1>6. CASE HandleData
  <2>1. Head(h3_events).stream \in AllStreams /\ h3_events # <<>>
    BY <1>6, HeadType, EventFields DEF HandleData, Dispatching
  <2>2. h3_events' \in Seq(H3Events) /\ call' \in calls
    BY <1>2, <1>3, <1>6, <2>1, HeadType, ContinuesType DEF HandleData
  <2> QED BY <1>1, <1>6, <2>2, UnchangedParts, EventStepType DEF HandleData
<1>7. CASE HandleGoAway
  BY <1>1, <1>2, <1>7, UnchangedParts, EventStepType DEF HandleGoAway, Dispatching
<1>8. CASE HandleFinished
  <2>1. SessionsOK'
    BY <1>8, WithStateType, UnchangedParts DEF HandleFinished, SessionsOK
  <2> QED BY <1>1, <1>2, <1>8, <2>1, EventStepType DEF HandleFinished, Dispatching
<1>9. CASE EndOfEvents
  <2>1. call' \in calls
    BY <1>9 DEF EndOfEvents, Returns
  <2> QED BY <1>1, <1>9, <2>1, UnchangedParts, EventStepType DEF EndOfEvents, H3OK
<1> QED BY <1>4, <1>5, <1>6, <1>7, <1>8, <1>9 DEF H3Event

LEMMA CapsuleType ==
  ASSUME TypeOK, NEW s \in DOMAIN sessions, Capsule(s)
  PROVE  TypeOK'
<1> USE TypeParts
<1>1. ASSUME CapsuleUnchanged, SessionsOK', UNCHANGED call \/ Continues("dispatching", s)
      PROVE  TypeOK'
  <2>1. s \in AllStreams
    BY SessionOf
  <2>2. call' \in [phase : {"idle", "parsing", "dispatching", "capsules"},
                   on : AllStreams \cup {Absent}]
    BY <1>1, <2>1, ContinuesType DEF CallOK
  <2> QED BY <1>1, <2>2, EventStepType DEF CapsuleUnchanged, RestOK, H3OK
<1>2. ASSUME NEW sess \in Session, sessions' = [sessions EXCEPT ![s] = sess]
      PROVE  SessionsOK'
  BY <1>2, ReplaceType DEF SessionsOK
<1>3. CASE CloseCapsule(s) \/ DrainCapsule(s)
  BY <1>1, <1>3, WithStateType DEF CloseCapsule, DrainCapsule, SessionsOK
<1>4. ASSUME NEW k \in Kinds, NEW v \in CapsuleLimits, MaxCapsule(s, k, v)
      PROVE  TypeOK'
  <2>1. [sessions[s] EXCEPT !.max[k] = v] \in Session
    BY SessionOf, ChangedSessionType, WtAssumption
  <2>2. sessions' \in {WithState(s, "Closed"),
                       [sessions EXCEPT ![s] = [sessions[s] EXCEPT !.max[k] = v]]}
    BY <1>4 DEF MaxCapsule
  <2>3. SessionsOK'
    BY <1>2, <2>1, <2>2, WithStateType DEF SessionsOK
  <2> QED BY <1>1, <1>4, <2>3 DEF MaxCapsule
<1>5. CASE BadCapsule(s)
  <2> DEFINE closed == [sessions[s] EXCEPT !.state = "Closed"]
  <2>1. [closed EXCEPT !.parser = "Failed"] \in Session
    <3>1. closed \in Session
      BY SessionOf, ChangedSessionType
    <3> QED BY <3>1, ChangedSessionType
  <2>2. sessions' = [sessions EXCEPT ![s] = [closed EXCEPT !.parser = "Failed"]]
    BY <1>5, SessionOf DEF BadCapsule, SessionsOK, IsMap, Session
  <2> HIDE DEF closed
  <2> QED BY <1>1, <1>2, <1>5, <2>1, <2>2 DEF BadCapsule
<1>6. CASE TruncatedCapsule(s)
  <2>1. [sessions[s] EXCEPT !.parser = "Stalled"] \in Session
    BY SessionOf, ChangedSessionType
  <2> QED BY <1>1, <1>2, <1>6, <2>1 DEF TruncatedCapsule
<1>7. CASE EndOfCapsules(s)
  BY <1>1, <1>7, UnchangedParts DEF EndOfCapsules
<1> QED BY <1>3, <1>4, <1>5, <1>6, <1>7 DEF Capsule

---------------------------------------------------------------------------

LEMMA InitType == Init => TypeOK
<1>1. /\ NoLimits \in [Kinds -> Nat]
      /\ DefaultSettings \in PeerSettings
  BY DEF NoLimits, DefaultSettings, PeerSettings
<1>2. /\ IsMap(EmptyMap, AllStreams, {"Control", "Request", "Qpack"})
      /\ IsMap(EmptyMap, AllStreams, Session)
      /\ IsMap(EmptyMap, AllStreams, Nat)
  BY EmptyMapType
<1> SUFFICES ASSUME Init PROVE TypeOK
  OBVIOUS
<1>3. is_server \in BOOLEAN /\ next_bidi_stream_id \in Nat
  BY WtAssumption DEF Init
<1>4. h3_events \in Seq(H3Events) /\ deferred_requests \in Seq(AllStreams)
  BY DEF Init
<1> QED BY <1>1, <1>2, <1>3, <1>4 DEF Init, TypeOK

LEMMA NextType == TypeOK /\ [Next]_vars => TypeOK'
<1> SUFFICES ASSUME TypeOK, [Next]_vars PROVE TypeOK'
  OBVIOUS
<1>1. CASE UNCHANGED connVars
  BY <1>1, TypeParts, UnchangedParts DEF connVars
<1>2. ASSUME NEW s \in HeaderSessionIds, ReceiveDatagram(s)
      PROVE  TypeOK'
  BY <1>1, <1>2 DEF ReceiveDatagram
<1> QED BY <1>1, <1>2, AppCallType, DataStreamType, H3BytesType, FrameType, H3EventType,
     CapsuleType DEF Next, vars

\* The maps, queues and tables of a connection stay well typed whatever the peer
\* and the application do.
THEOREM WtTypeCorrect == Spec => []TypeOK
BY InitType, NextType, PTL DEF Spec

---------------------------------------------------------------------------
(* SETTINGS first.                                                         *)

\* The event that lets deferred requests become sessions is only queued by the
\* frame that sets settings_received.
SettingsQueued ==
  \A i \in DOMAIN h3_events :
    h3_events[i].kind = "SettingsReceived" => settings_received

SettingsInv == TypeOK /\ SessionsAfterSettings /\ SettingsQueued

LEMMA SettingsStep == SettingsInv /\ [Next]_vars => SettingsInv'
<1> SUFFICES ASSUME SettingsInv, [Next]_vars PROVE SettingsInv'
  OBVIOUS
<1>1. TypeOK'
  BY NextType DEF SettingsInv
<1>2. h3_events \in Seq(H3Events)
  BY DEF SettingsInv, TypeOK
<1>3. ASSUME UNCHANGED <<settings_received, h3_events>>,
             DOMAIN sessions' = DOMAIN sessions \/ settings_received
      PROVE  SettingsInv'
  BY <1>1, <1>3 DEF SettingsInv, SessionsAfterSettings, SettingsQueued
<1>4. CASE AppCall
  BY <1>3, <1>4 DEF AppCall, Connect, MayConnect, AcceptSession, RejectSession, OpenStream,
       RegisterOutgoingStream, CloseSession, DrainSession, SendData, Set0rttSettings,
       OnlySessions, WithState, h3Vars
<1>5. ASSUME NEW q \in AllStreams, NEW fin \in BOOLEAN, DataStreamBytes(q, fin)
      PROVE  SettingsInv'
  BY <1>3, <1>5 DEF DataStreamBytes, KnownStreamData, NewDataStream, NewPendingStream,
       NewUnreadableStream, PendingStreamCompletes, IgnoredBytes, Associate, OnlyStreams, h3Vars
<1>6. ASSUME NEW q \in AllStreams, H3Bytes(q)
      PROVE  SettingsInv'
  BY <1>3, <1>6 DEF H3Bytes, H3StreamData, NewH3Stream, NewOtherUniStream, OnlyH3Streams
<1>7. ASSUME NEW q \in AllStreams, Frame(q)
      PROVE  SettingsInv'
  <2>1. ASSUME NEW event, Queued(event), FrameUnchanged,
               settings_received \/ event.kind = "SettingsReceived" => settings_received'
        PROVE  SettingsInv'
    <3>1. SessionsAfterSettings'
      BY <2>1 DEF SettingsInv, SessionsAfterSettings, FrameUnchanged
    <3>2. SettingsQueued'
      BY <1>2, <2>1 DEF SettingsInv, SettingsQueued, Queued
    <3> QED BY <1>1, <3>1, <3>2 DEF SettingsInv
  <2>2. CASE \E frame \in SettingsFrames : SettingsFrame(q, frame)
    BY <2>1, <2>2 DEF SettingsFrame
  <2>3. CASE \/ GoawayFrame(q)
             \/ \E headers \in HeaderKinds : HeadersFrame(q, headers)
             \/ DataFrame(q)
    <3>1. CASE GoawayFrame(q)
      BY <2>1, <3>1 DEF GoawayFrame
    <3>2. ASSUME NEW headers \in HeaderKinds, HeadersFrame(q, headers)
          PROVE  SettingsInv'
      BY <2>1, <3>2 DEF HeadersFrame
    <3>3. CASE DataFrame(q)
      BY <2>1, <3>3 DEF DataFrame
    <3> QED BY <2>3, <3>1, <3>2, <3>3
  <2>4. ASSUME NEW fin \in BOOLEAN, MalformedFrame(q, fin)
        PROVE  SettingsInv'
    BY <1>3, <2>4 DEF MalformedFrame, FrameUnchanged
  <2>5. ASSUME NEW fin \in BOOLEAN, EndOfChunk(q, fin)
        PROVE  SettingsInv'
    BY <1>3, <2>1, <2>5 DEF EndOfChunk, FrameUnchanged
  <2> QED BY <1>7, <2>2, <2>3, <2>4, <2>5 DEF Frame
<1>8. CASE H3Event
  <2>1. settings_received' = settings_received
    BY <1>8 DEF H3Event, HandleSettings, HandleHeaders, HandleData, HandleGoAway,
         HandleFinished, EndOfEvents, EventUnchanged
  <2>2. h3_events' \in {h3_events, <<>>} \/ (h3_events # <<>> /\ h3_events' = Tail(h3_events))
    BY <1>8 DEF H3Event, HandleSettings, HandleHeaders, HandleData, HandleGoAway,
         HandleFinished, EndOfEvents, Dispatching, NextEvent, Fails
  <2>3. SettingsQueued'
    <3>1. ASSUME h3_events # <<>>, NEW i \in DOMAIN Tail(h3_events)
          PROVE  Tail(h3_events)[i] = h3_events[i + 1] /\ i + 1 \in DOMAIN h3_events
      BY <1>2, <3>1
    <3> QED BY <2>1, <2>2, <3>1 DEF SettingsInv, SettingsQueued
  <2>4. DOMAIN sessions' = DOMAIN sessions \/ settings_received
    <3>1. CASE HandleSettings
      <4>1. 1 \in DOMAIN h3_events /\ h3_events[1].kind = "SettingsReceived"
        BY <1>2, <3>1 DEF HandleSettings, Dispatching
      <4> QED BY <4>1 DEF SettingsInv, SettingsQueued
    <3>2. CASE HandleHeaders
      BY <3>2 DEF HandleHeaders, HandleResponse, HandleRequest, MustDefer, WithState
    <3>3. CASE HandleData \/ HandleGoAway \/ HandleFinished \/ EndOfEvents
      BY <3>3 DEF HandleData, HandleGoAway, HandleFinished, EndOfEvents, WithState
    <3> QED BY <1>8, <3>1, <3>2, <3>3 DEF H3Event
  <2> QED BY <1>1, <2>1, <2>3, <2>4 DEF SettingsInv, SessionsAfterSettings
<1>9. ASSUME NEW s \in DOMAIN sessions, Capsule(s)
      PROVE  SettingsInv'
  BY <1>3, <1>9 DEF Capsule, CloseCapsule, DrainCapsule, MaxCapsule, BadCapsule,
       TruncatedCapsule, EndOfCapsules, WithState, CapsuleUnchanged, EventUnchanged
<1>10. CASE UNCHANGED connVars
  BY <1>3, <1>10 DEF connVars, h3Vars
<1> QED BY <1>4, <1>5, <1>6, <1>7, <1>8, <1>9, <1>10 DEF Next, vars, ReceiveDatagram

LEMMA SettingsInit == Init => SettingsInv
BY InitType DEF Init, SettingsInv, SessionsAfterSettings, SettingsQueued, EmptyMap

\* No session exists before the peer's SETTINGS, whichever order the frames of
\* different streams arrive in.
THEOREM SettingsFirst == Spec => []SessionsAfterSettings
<1>1. SettingsInv => SessionsAfterSettings
  BY DEF SettingsInv
<1> QED BY <1>1, SettingsInit, SettingsStep, PTL DEF Spec

---------------------------------------------------------------------------
(* Who reads a stream.                                                     *)

\* OneOwner is not inductive.  What it rests on is who may put a stream where:
\* only a stream of the peer is ever classified or waits for its header, the H3
\* layer's own streams are CONNECT streams below the next id, and a data stream
\* of this side is one the application opened.
StreamOrigins ==
  /\ \A q \in classified_streams \cup pending_wt_streams : PeerOpens(q)
  /\ \A q \in DOMAIN h3_streams :
       PeerOpens(q) \/ (q \in ConnectIds /\ q < next_bidi_stream_id)
  /\ \A q \in DOMAIN wt_stream_to_session : PeerOpens(q) \/ q \in AppStreams
  /\ next_bidi_stream_id \in Nat

OwnersInv == OneOwner /\ StreamOrigins

\* A step that leaves the tables alone keeps them disjoint.
LEMMA OwnersUnchanged ==
  ASSUME OwnersInv,
         UNCHANGED <<is_server, h3_streams, next_bidi_stream_id, streamVars>>
  PROVE  OwnersInv'
BY DEF OwnersInv, OneOwner, StreamOrigins, streamVars, PeerOpens, IsKnown

\* The bytes of a stream in no table come from the peer: this side hears only of
\* streams it has in a table.
LEMMA NewFromPeer ==
  ASSUME NEW q, ~IsKnown(q), NEW fin, Arrives(q, fin)
  PROVE  PeerOpens(q)
BY DEF IsKnown, Arrives

\* A stream in no table becomes a data stream.
LEMMA OwnersNewData ==
  ASSUME OwnersInv, NEW q, PeerOpens(q),
         q \notin DOMAIN wt_stream_to_session \cup DOMAIN h3_streams,
         UNCHANGED <<is_server, h3_streams, next_bidi_stream_id>>,
         DOMAIN wt_stream_to_session' \in
           {DOMAIN wt_stream_to_session, DOMAIN wt_stream_to_session \cup {q}},
         pending_wt_streams' = pending_wt_streams \ {q},
         classified_streams' = classified_streams \cup {q}
  PROVE  OwnersInv'
BY DEF OwnersInv, OneOwner, StreamOrigins, PeerOpens, IsKnown

\* associate_incoming_stream adds at most this stream to the index.
LEMMA AssociateDomain ==
  ASSUME NEW q, NEW s, NEW data, NEW fin, Associate(q, s, data, fin)
  PROVE  DOMAIN wt_stream_to_session' \in
           {DOMAIN wt_stream_to_session, DOMAIN wt_stream_to_session \cup {q}}
BY DEF Associate, Put

---------------------------------------------------------------------------

LEMMA OwnersAppCall ==
  ASSUME OwnersInv, AppStreams \cap ConnectIds = {}, AppCall
  PROVE  OwnersInv'
<1>1. CASE Connect
  <2> DEFINE n == next_bidi_stream_id
  <2>1. n \in ConnectIds /\ n \in Nat /\ n % 4 = 0 /\ ~is_server
    BY <1>1, WtAssumption DEF Connect
  <2>2. ~PeerOpens(n)
    BY <2>1 DEF PeerOpens
  <2>3. n \notin DOMAIN h3_streams
    BY <2>1, <2>2 DEF OwnersInv, StreamOrigins
  <2>4. n \notin DOMAIN wt_stream_to_session /\ n \notin pending_wt_streams
    BY <2>1, <2>2 DEF OwnersInv, StreamOrigins
  <2>5. /\ DOMAIN h3_streams' = DOMAIN h3_streams \cup {n}
        /\ next_bidi_stream_id' = n + 4
        /\ UNCHANGED <<is_server, streamVars>>
    BY <1>1 DEF Connect, Put
  <2>6. OneOwner'
    BY <2>2, <2>4, <2>5 DEF OwnersInv, OneOwner, streamVars, PeerOpens, IsKnown
  <2>7. StreamOrigins'
    <3>1. \A q \in DOMAIN h3_streams' : PeerOpens(q)' \/ (q \in ConnectIds /\ q < n + 4)
      BY <2>1, <2>5, WtAssumption DEF OwnersInv, StreamOrigins, PeerOpens
    <3> QED BY <2>1, <2>5, <3>1 DEF OwnersInv, StreamOrigins, streamVars, PeerOpens
  <2> QED BY <2>6, <2>7 DEF OwnersInv
<1>2. ASSUME NEW q \in AppStreams, NEW s \in DOMAIN sessions, RegisterOutgoingStream(q, s)
      PROVE  OwnersInv'
  <2>1. /\ q \in Nat /\ q \notin DOMAIN wt_stream_to_session \cup DOMAIN h3_streams
        /\ is_server <=> q % 2 = 1
    BY <1>2, WtAssumption DEF RegisterOutgoingStream
  <2>2. ~PeerOpens(q)
    BY <2>1 DEF PeerOpens
  <2>3. /\ DOMAIN wt_stream_to_session' = DOMAIN wt_stream_to_session \cup {q}
        /\ UNCHANGED <<is_server, h3Vars, pending_wt_streams, classified_streams>>
    BY <1>2 DEF RegisterOutgoingStream, Put
  <2>4. q \notin pending_wt_streams
    BY <2>2 DEF OwnersInv, StreamOrigins
  <2>5. OneOwner'
    BY <2>1, <2>2, <2>3, <2>4 DEF OwnersInv, OneOwner, h3Vars, PeerOpens, IsKnown
  <2>6. StreamOrigins'
    BY <2>3 DEF OwnersInv, StreamOrigins, h3Vars, PeerOpens
  <2> QED BY <2>5, <2>6 DEF OwnersInv
<1>3. ASSUME ~Connect, \A q \in AppStreams : \A s \in DOMAIN sessions : ~RegisterOutgoingStream(q, s)
      PROVE  OwnersInv'
  BY <1>3, OwnersUnchanged
  DEF AppCall, AcceptSession, RejectSession, OpenStream, CloseSession, DrainSession, SendData,
      Set0rttSettings, OnlySessions, h3Vars
<1> QED BY <1>1, <1>2, <1>3

LEMMA OwnersDataStream ==
  ASSUME OwnersInv, NEW q \in AllStreams, NEW fin \in BOOLEAN, DataStreamBytes(q, fin)
  PROVE  OwnersInv'
<1>1. ASSUME NEW data \in BOOLEAN, KnownStreamData(q, data, fin)
      PROVE  OwnersInv'
  BY <1>1, OwnersUnchanged DEF KnownStreamData, OnlyStreams, h3Vars
<1>2. ASSUME NEW s \in HeaderSessionIds, NEW data \in BOOLEAN, NewDataStream(q, s, data, fin)
      PROVE  OwnersInv'
  <2>1. ~IsKnown(q) /\ PeerOpens(q)
    BY <1>2, NewFromPeer DEF NewDataStream, IsNew
  <2>2. pending_wt_streams' = pending_wt_streams \ {q}
    BY <1>2, <2>1 DEF NewDataStream, IsKnown
  <2> QED BY <1>2, <2>1, <2>2, AssociateDomain, OwnersNewData
       DEF NewDataStream, OnlyStreams, h3Vars, IsKnown
<1>3. ASSUME NEW s \in HeaderSessionIds, NEW data \in BOOLEAN,
             PendingStreamCompletes(q, s, data, fin)
      PROVE  OwnersInv'
  <2>1. q \in pending_wt_streams /\ PeerOpens(q)
    BY <1>3 DEF PendingStreamCompletes, OwnersInv, StreamOrigins
  <2>2. q \notin DOMAIN wt_stream_to_session \cup DOMAIN h3_streams /\ q \in classified_streams
    BY <2>1 DEF OwnersInv, OneOwner, IsKnown
  <2>3. classified_streams' = classified_streams \cup {q}
    BY <1>3, <2>2 DEF PendingStreamCompletes
  <2> QED BY <1>3, <2>1, <2>2, <2>3, AssociateDomain, OwnersNewData
       DEF PendingStreamCompletes, NoLongerPending, OnlyStreams, h3Vars
<1>4. ASSUME NewPendingStream(q, fin) \/ NewUnreadableStream(q, fin)
      PROVE  OwnersInv'
  <2>1. ~IsKnown(q) /\ PeerOpens(q)
    BY <1>4, NewFromPeer DEF NewPendingStream, NewUnreadableStream, IsNew
  <2>2. /\ classified_streams' = classified_streams \cup {q}
        /\ pending_wt_streams' \in {pending_wt_streams, pending_wt_streams \cup {q}}
        /\ UNCHANGED <<is_server, h3Vars, wt_stream_to_session>>
    BY <1>4 DEF NewPendingStream, NewUnreadableStream, OnlyStreams
  <2>3. OneOwner'
    BY <2>1, <2>2 DEF OwnersInv, OneOwner, h3Vars, PeerOpens, IsKnown
  <2>4. StreamOrigins'
    BY <2>1, <2>2 DEF OwnersInv, StreamOrigins, h3Vars, PeerOpens
  <2> QED BY <2>3, <2>4 DEF OwnersInv
<1>5. CASE IgnoredBytes(q, fin)
  BY <1>5, OwnersUnchanged DEF IgnoredBytes, OnlyStreams, h3Vars
<1> QED BY <1>1, <1>2, <1>3, <1>4, <1>5 DEF DataStreamBytes

LEMMA OwnersH3Bytes ==
  ASSUME OwnersInv, NEW q \in AllStreams, H3Bytes(q)
  PROVE  OwnersInv'
<1>1. CASE H3StreamData(q)
  BY <1>1, OwnersUnchanged DEF H3StreamData, OnlyH3Streams, streamVars
<1>2. ASSUME NewH3Stream(q) \/ \E role \in {"Qpack", "Unknown"} : NewOtherUniStream(q, role)
      PROVE  OwnersInv'
  <2>1. ~IsKnown(q) /\ PeerOpens(q)
    BY <1>2, NewFromPeer DEF NewH3Stream, NewOtherUniStream, IsNew
  <2>2. /\ classified_streams' = classified_streams \cup {q}
        /\ DOMAIN h3_streams' \in {DOMAIN h3_streams, DOMAIN h3_streams \cup {q}}
        /\ UNCHANGED <<is_server, next_bidi_stream_id, wt_stream_to_session,
                       pending_wt_streams>>
    BY <1>2 DEF NewH3Stream, NewOtherUniStream, OnlyH3Streams, Put
  <2>3. OneOwner'
    BY <2>1, <2>2 DEF OwnersInv, OneOwner, PeerOpens, IsKnown
  <2>4. StreamOrigins'
    BY <2>1, <2>2 DEF OwnersInv, StreamOrigins, PeerOpens
  <2> QED BY <2>3, <2>4 DEF OwnersInv
<1> QED BY <1>1, <1>2 DEF H3Bytes

\* Frames, H3 events and capsules never touch the tables.
LEMMA OwnersRestOfCall ==
  ASSUME OwnersInv,
         \/ \E q \in AllStreams : Frame(q)
         \/ H3Event
         \/ \E s \in DOMAIN sessions : Capsule(s)
  PROVE  OwnersInv'
<1>1. ASSUME NEW q \in AllStreams, Frame(q)
      PROVE  OwnersInv'
  BY <1>1, OwnersUnchanged
  DEF Frame, SettingsFrame, GoawayFrame, HeadersFrame, DataFrame, MalformedFrame, EndOfChunk,
      FrameUnchanged
<1>2. CASE H3Event
  BY <1>2, OwnersUnchanged
  DEF H3Event, HandleSettings, HandleHeaders, HandleData, HandleGoAway, HandleFinished,
      EndOfEvents, EventUnchanged
<1>3. ASSUME NEW s \in DOMAIN sessions, Capsule(s)
      PROVE  OwnersInv'
  BY <1>3, OwnersUnchanged
  DEF Capsule, CloseCapsule, DrainCapsule, MaxCapsule, BadCapsule, TruncatedCapsule,
      EndOfCapsules, CapsuleUnchanged, EventUnchanged
<1> QED BY <1>1, <1>2, <1>3

LEMMA OwnersInit == Init => OwnersInv
BY DEF Init, OwnersInv, OneOwner, StreamOrigins, EmptyMap, IsKnown

LEMMA OwnersStep ==
  ASSUME AppStreams \cap ConnectIds = {}, OwnersInv, [Next]_vars
  PROVE  OwnersInv'
<1>1. CASE AppCall
  BY <1>1, OwnersAppCall
<1>2. ASSUME NEW q \in AllStreams, NEW fin \in BOOLEAN, DataStreamBytes(q, fin)
      PROVE  OwnersInv'
  BY <1>2, OwnersDataStream
<1>3. ASSUME NEW q \in AllStreams, H3Bytes(q)
      PROVE  OwnersInv'
  BY <1>3, OwnersH3Bytes
<1>4. ASSUME \/ \E q \in AllStreams : Frame(q)
             \/ H3Event
             \/ \E s \in DOMAIN sessions : Capsule(s)
      PROVE  OwnersInv'
  BY <1>4, OwnersRestOfCall
<1>5. ASSUME NEW s \in HeaderSessionIds, ReceiveDatagram(s)
      PROVE  OwnersInv'
  BY <1>5, OwnersUnchanged DEF ReceiveDatagram, connVars, h3Vars
<1>6. CASE UNCHANGED vars
  BY <1>6, OwnersUnchanged DEF vars, connVars, h3Vars
<1> QED BY <1>1, <1>2, <1>3, <1>4, <1>5, <1>6 DEF Next

\* Whoever the peer is and whatever the application does, a stream is read by one
\* layer: the H3 layer, the header parser or the WebTransport sessions.
THEOREM OwnersCorrect ==
  ASSUME AppStreams \cap ConnectIds = {}
  PROVE  Spec => []OneOwner
<1>1. OwnersInv => OneOwner
  BY DEF OwnersInv
<1> QED BY <1>1, OwnersInit, OwnersStep, PTL DEF Spec

---------------------------------------------------------------------------
(* The streams of a session.                                               *)

\* A step that maps no stream keeps StreamsBelong if sessions keep their streams
\* or start without any.
LEMMA BelongKept ==
  ASSUME StreamsBelong, UNCHANGED wt_stream_to_session,
         \A s \in DOMAIN sessions' :
           \/ sessions'[s].streams = {}
           \/ s \in DOMAIN sessions /\ sessions'[s].streams = sessions[s].streams
  PROVE  StreamsBelong'
BY DEF StreamsBelong

\* A stream that is in no session is mapped to one, which may learn of it.
LEMMA BelongAdded ==
  ASSUME StreamsBelong, NEW q, NEW s, q \notin DOMAIN wt_stream_to_session,
         wt_stream_to_session' = Put(wt_stream_to_session, q, s),
         DOMAIN sessions' = DOMAIN sessions,
         \A r \in DOMAIN sessions : sessions'[r].streams \in
           {sessions[r].streams, IF r = s THEN sessions[r].streams \cup {q} ELSE sessions[r].streams}
  PROVE  StreamsBelong'
<1> SUFFICES ASSUME NEW r \in DOMAIN sessions, NEW p \in sessions'[r].streams
             PROVE  /\ p \in DOMAIN wt_stream_to_session'
                    /\ wt_stream_to_session'[p] = r
  BY DEF StreamsBelong
<1>1. CASE p \in sessions[r].streams
  BY <1>1 DEF StreamsBelong, Put
<1>2. CASE p \notin sessions[r].streams
  <2>1. p = q /\ r = s
    BY <1>2
  <2> QED BY <2>1 DEF Put
<1> QED BY <1>1, <1>2

\* What the operators on sessions leave alone.
LEMMA WithStateFacts ==
  ASSUME SessionsOK, NEW s \in DOMAIN sessions,
         NEW state \in {"Connecting", "Established", "Draining", "Closed"}
  PROVE  /\ DOMAIN WithState(s, state) = DOMAIN sessions
         /\ \A r \in DOMAIN sessions : \A f \in {"streams", "parser", "enabled", "max", "used"} :
              WithState(s, state)[r][f] = sessions[r][f]
         /\ \A r \in DOMAIN sessions \ {s} : WithState(s, state)[r] = sessions[r]
         /\ WithState(s, state)[s].state = state
<1>1. \A r \in DOMAIN sessions : sessions[r] \in Session
  BY SessionOf
<1> QED BY <1>1 DEF WithState, Session

\* What is replaced is one session.
LEMMA ReplaceFacts ==
  ASSUME NEW s \in DOMAIN sessions, NEW sess
  PROVE  LET replaced == [sessions EXCEPT ![s] = sess]
         IN /\ DOMAIN replaced = DOMAIN sessions
            /\ replaced[s] = sess
            /\ \A r \in DOMAIN sessions \ {s} : replaced[r] = sessions[r]
OBVIOUS

\* accept_session and a 2xx response establish a session and, after SETTINGS,
\* give it the limits of SETTINGS.
EstablishedFrom(new, old) ==
  /\ new.state = "Established"
  /\ new.streams = old.streams
  /\ new.used = old.used
  /\ \/ settings_received /\ new.max = peer_settings.limits
     \/ new.max = old.max /\ new.enabled = old.enabled

LEMMA AcceptFacts ==
  ASSUME SessionsOK, NEW s \in DOMAIN sessions, AcceptSession(s)
  PROVE  /\ DOMAIN sessions' = DOMAIN sessions
         /\ \A r \in DOMAIN sessions \ {s} : sessions'[r] = sessions[r]
         /\ sessions[s].state = "Connecting"
         /\ EstablishedFrom(sessions'[s], sessions[s])
<1> DEFINE limited == SetPeerInitialLimits(sessions[s], peer_settings)
           flow == \/ EnablesFlowControl(peer_settings)
                   \/ peer_settings.max_sessions > 1
           new == IF settings_received
                  THEN [limited EXCEPT !.state = "Established", !.enabled = flow]
                  ELSE [sessions[s] EXCEPT !.state = "Established"]
<1>1. sessions' = [sessions EXCEPT ![s] = new] /\ sessions[s].state = "Connecting"
  BY DEF AcceptSession
<1>2. EstablishedFrom(new, sessions[s])
  <2>1. sessions[s] \in Session
    BY SessionOf
  <2> QED BY <2>1 DEF EstablishedFrom, Session, SetPeerInitialLimits
<1> HIDE DEF new
<1> QED BY <1>1, <1>2, ReplaceFacts

LEMMA ResponseFacts ==
  ASSUME SessionsOK, NEW s \in DOMAIN sessions, HandleResponse(s, "accepted")
  PROVE  /\ DOMAIN sessions' = DOMAIN sessions
         /\ \A r \in DOMAIN sessions \ {s} : sessions'[r] = sessions[r]
         /\ EstablishedFrom(sessions'[s], sessions[s])
         /\ sessions'[s].enabled = sessions[s].enabled
<1> DEFINE limited == IF settings_received THEN SetPeerInitialLimits(sessions[s], peer_settings)
                      ELSE sessions[s]
           new == [limited EXCEPT !.state = "Established"]
<1>1. sessions' = [sessions EXCEPT ![s] = new]
  BY DEF HandleResponse
<1>2. EstablishedFrom(new, sessions[s]) /\ new.enabled = sessions[s].enabled
  <2>1. sessions[s] \in Session
    BY SessionOf
  <2> QED BY <2>1 DEF EstablishedFrom, Session, SetPeerInitialLimits
<1> HIDE DEF new
<1> QED BY <1>1, <1>2, ReplaceFacts

LEMMA CreateFacts ==
  ASSUME NEW map, NEW ids
  PROVE  /\ DOMAIN Create(map, ids) = DOMAIN map \cup ids
         /\ \A s \in ids : Create(map, ids)[s] = NewSession
         /\ \A s \in DOMAIN map \ ids : Create(map, ids)[s] = map[s]
BY DEF Create, Merge

\* In all but three actions the sessions keep their streams or start without any.
LEMMA StreamsKept ==
  ASSUME TypeOK, Next, sessions' # sessions,
         \A q \in AppStreams, s \in DOMAIN sessions : ~RegisterOutgoingStream(q, s),
         UNCHANGED wt_stream_to_session
  PROVE  \A s \in DOMAIN sessions' :
           \/ sessions'[s].streams = {}
           \/ s \in DOMAIN sessions /\ sessions'[s].streams = sessions[s].streams
<1> DEFINE Goal == \A s \in DOMAIN sessions' :
                     \/ sessions'[s].streams = {}
                     \/ s \in DOMAIN sessions /\ sessions'[s].streams = sessions[s].streams
<1>1. SessionsOK /\ \A s \in DOMAIN sessions : sessions[s] \in Session
  BY TypeParts, SessionOf
<1>2. CASE Connect
  BY <1>2 DEF Connect, Put, NewSession
<1>3. ASSUME NEW s \in DOMAIN sessions, AcceptSession(s)
      PROVE  Goal
  BY <1>1, <1>3, AcceptFacts DEF EstablishedFrom
<1>4. ASSUME NEW s \in DOMAIN sessions, NEW state \in {"Connecting", "Established", "Draining", "Closed"},
             sessions' = WithState(s, state)
      PROVE  Goal
  BY <1>1, <1>4, WithStateFacts
<1>5. ASSUME NEW s \in DOMAIN sessions, NEW k \in Kinds, sessions' = [sessions EXCEPT ![s] = Spend(@, k)]
      PROVE  Goal
  BY <1>1, <1>5 DEF Session, Spend
<1>6. CASE AppCall
  <2>1. CASE \E s \in DOMAIN sessions : RejectSession(s) \/ CloseSession(s) \/ DrainSession(s)
    BY <1>4, <2>1 DEF RejectSession, CloseSession, DrainSession
  <2>2. CASE \E s \in DOMAIN sessions, k \in {"bidi", "uni"} : OpenStream(s, k)
    BY <1>5, <2>2 DEF OpenStream, Kinds
  <2>3. CASE \E q \in DOMAIN wt_stream_to_session : SendData(q)
    BY <1>5, <2>3 DEF SendData, Kinds
  <2>4. CASE \E settings \in PreviousSettings : Set0rttSettings(settings)
    BY <2>4 DEF Set0rttSettings
  <2> QED BY <1>2, <1>3, <1>6, <2>1, <2>2, <2>3, <2>4 DEF AppCall
<1>7. ASSUME NEW q \in AllStreams, NEW fin \in BOOLEAN, DataStreamBytes(q, fin)
      PROVE  Goal
  BY <1>7 DEF DataStreamBytes, KnownStreamData, NewDataStream, PendingStreamCompletes,
       NewPendingStream, NewUnreadableStream, IgnoredBytes, Associate, IsNew, IsKnown, Put
<1>8. ASSUME NEW q \in AllStreams, H3Bytes(q) \/ Frame(q)
      PROVE  FALSE
  BY <1>8 DEF H3Bytes, H3StreamData, NewH3Stream, NewOtherUniStream, OnlyH3Streams, Frame,
       SettingsFrame, GoawayFrame, HeadersFrame, DataFrame, MalformedFrame, EndOfChunk, FrameUnchanged
<1>9. CASE H3Event
  <2>1. ASSUME NEW map, NEW ids, sessions' = Create(map, ids), DOMAIN map = DOMAIN sessions,
               \A s \in DOMAIN sessions : map[s].streams = sessions[s].streams
        PROVE  Goal
    <3>1. NewSession.streams = {}
      BY DEF NewSession
    <3>2. /\ DOMAIN sessions' = DOMAIN sessions \cup ids
          /\ \A s \in ids : sessions'[s] = NewSession
          /\ \A s \in DOMAIN sessions \ ids : sessions'[s] = map[s]
      <4>1. /\ DOMAIN Create(map, ids) = DOMAIN map \cup ids
            /\ \A s \in ids : Create(map, ids)[s] = NewSession
            /\ \A s \in DOMAIN map \ ids : Create(map, ids)[s] = map[s]
        BY CreateFacts
      <4> QED BY <2>1, <4>1
    <3> QED BY <2>1, <3>1, <3>2
  <2>2. CASE HandleSettings
    <3> DEFINE settings == Head(h3_events).settings
               deferred == {deferred_requests[i] : i \in DOMAIN deferred_requests}
               limited == [s \in DOMAIN sessions |-> SetPeerInitialLimits(sessions[s], settings)]
    <3>1. sessions' = Create(limited, deferred)
      BY <2>2 DEF HandleSettings
    <3>2. \A s \in DOMAIN sessions : limited[s].streams = sessions[s].streams
      BY <1>1 DEF SetPeerInitialLimits, Session
    <3> HIDE DEF limited, deferred
    <3>3. DOMAIN limited = DOMAIN sessions
      BY DEF limited
    <3> QED BY <2>1, <3>1, <3>2, <3>3
  <2>3. ASSUME NEW q, NEW headers, HandleResponse(q, headers)
        PROVE  Goal
    <3>1. CASE q \in DOMAIN sessions /\ headers = "accepted"
      BY <1>1, <2>3, <3>1, ResponseFacts DEF EstablishedFrom
    <3>2. CASE ~(q \in DOMAIN sessions /\ headers = "accepted")
      BY <1>4, <2>3, <3>2 DEF HandleResponse
    <3> QED BY <3>1, <3>2
  <2>4. CASE HandleHeaders
    BY <2>1, <2>3, <2>4 DEF HandleHeaders, HandleRequest
  <2>5. CASE HandleData \/ HandleGoAway \/ HandleFinished \/ EndOfEvents
    <3>1. CASE HandleFinished
      BY <1>4, <3>1 DEF HandleFinished
    <3>2. CASE HandleData \/ HandleGoAway \/ EndOfEvents
      BY <3>2 DEF HandleData, HandleGoAway, EndOfEvents
    <3> QED BY <2>5, <3>1, <3>2
  <2> QED BY <1>9, <2>2, <2>4, <2>5 DEF H3Event
<1>10. ASSUME NEW s \in DOMAIN sessions, Capsule(s)
       PROVE  Goal
  <2>1. CASE CloseCapsule(s) \/ DrainCapsule(s) \/ EndOfCapsules(s)
    BY <1>4, <2>1 DEF CloseCapsule, DrainCapsule, EndOfCapsules
  <2>2. ASSUME NEW k \in Kinds, NEW v \in CapsuleLimits, MaxCapsule(s, k, v)
        PROVE  Goal
    BY <1>1, <1>4, <2>2 DEF MaxCapsule, Session
  <2>3. CASE BadCapsule(s)
    BY <1>1, <2>3 DEF BadCapsule, Session
  <2>4. CASE TruncatedCapsule(s)
    BY <1>1, <2>4 DEF TruncatedCapsule, Session
  <2> QED BY <1>10, <2>1, <2>2, <2>3, <2>4 DEF Capsule
<1> QED BY <1>6, <1>7, <1>8, <1>9, <1>10 DEF Next, ReceiveDatagram, connVars

\* Three actions map a stream, one that no session has: the header of a stream of
\* the peer is complete, at once or later, or the application registers a stream.
LEMMA MappedStream ==
  ASSUME TypeOK, OwnersInv, StreamsBelong, NEW q \in AllStreams, NEW s,
         \/ RegisterOutgoingStream(q, s) /\ s \in DOMAIN sessions
         \/ \E fin, data : NewDataStream(q, s, data, fin) \/ PendingStreamCompletes(q, s, data, fin)
  PROVE  StreamsBelong'
<1>1. \A r \in DOMAIN sessions : sessions[r] \in Session
  BY TypeParts, SessionOf
<1>2. ASSUME wt_stream_to_session' = Put(wt_stream_to_session, q, s), s \in DOMAIN sessions,
             q \notin DOMAIN wt_stream_to_session,
             sessions' = [sessions EXCEPT ![s].streams = @ \cup {q}]
      PROVE  StreamsBelong'
  <2>1. DOMAIN sessions' = DOMAIN sessions
    BY <1>2
  <2>2. \A r \in DOMAIN sessions : sessions'[r].streams \in
          {sessions[r].streams, IF r = s THEN sessions[r].streams \cup {q} ELSE sessions[r].streams}
    BY <1>1, <1>2 DEF Session
  <2> QED BY <1>2, <2>1, <2>2, BelongAdded
<1>3. CASE RegisterOutgoingStream(q, s) /\ s \in DOMAIN sessions
  BY <1>2, <1>3 DEF RegisterOutgoingStream
<1>4. ASSUME NEW fin, NEW data, NewDataStream(q, s, data, fin) \/ PendingStreamCompletes(q, s, data, fin)
      PROVE  StreamsBelong'
  <2>1. Associate(q, s, data, fin) /\ q \notin DOMAIN wt_stream_to_session
    BY <1>4 DEF NewDataStream, PendingStreamCompletes, IsNew, IsKnown
  <2>2. CASE UNCHANGED <<sessions, wt_stream_to_session>>
    BY <2>2, BelongKept
  <2>3. CASE s \in DOMAIN sessions /\ s % 4 = 0
    BY <1>2, <2>1, <2>3 DEF Associate
  <2>4. CASE s \notin DOMAIN sessions /\ s % 4 = 0
    BY <2>1, <2>4, BelongAdded DEF Associate
  <2> QED BY <2>1, <2>2, <2>3, <2>4 DEF Associate
<1> QED BY <1>3, <1>4

LEMMA BelongStep ==
  ASSUME TypeOK, OwnersInv, StreamsBelong, [Next]_vars
  PROVE  StreamsBelong'
<1>1. CASE UNCHANGED <<sessions, wt_stream_to_session>>
  BY <1>1, BelongKept
<1>2. ASSUME NEW q \in AppStreams, NEW s \in DOMAIN sessions, RegisterOutgoingStream(q, s)
      PROVE  StreamsBelong'
  BY <1>2, MappedStream DEF AllStreams
<1>3. ASSUME NEW q \in AllStreams, NEW fin \in BOOLEAN, DataStreamBytes(q, fin)
      PROVE  StreamsBelong'
  <2>1. ASSUME NEW s \in HeaderSessionIds, NEW data \in BOOLEAN,
               NewDataStream(q, s, data, fin) \/ PendingStreamCompletes(q, s, data, fin)
        PROVE  StreamsBelong'
    BY <2>1, MappedStream
  <2>2. CASE UNCHANGED <<sessions, wt_stream_to_session>>
    BY <2>2, BelongKept
  <2> QED BY <1>3, <2>1, <2>2
       DEF DataStreamBytes, KnownStreamData, NewPendingStream, NewUnreadableStream, IgnoredBytes,
           streamVars
<1>4. ASSUME Next, sessions' # sessions \/ wt_stream_to_session' # wt_stream_to_session,
             \A q \in AppStreams, s \in DOMAIN sessions : ~RegisterOutgoingStream(q, s),
             \A q \in AllStreams, fin \in BOOLEAN : ~DataStreamBytes(q, fin)
      PROVE  StreamsBelong'
  <2>1. UNCHANGED wt_stream_to_session
    <3>1. CASE AppCall
      BY <1>4, <3>1 DEF AppCall, Connect, AcceptSession, RejectSession, OpenStream, CloseSession,
           DrainSession, SendData, Set0rttSettings, OnlySessions, streamVars
    <3>2. ASSUME NEW q \in AllStreams, H3Bytes(q) \/ Frame(q)
          PROVE  UNCHANGED wt_stream_to_session
      BY <3>2 DEF H3Bytes, H3StreamData, NewH3Stream, NewOtherUniStream, OnlyH3Streams, Frame,
           SettingsFrame, GoawayFrame, HeadersFrame, DataFrame, MalformedFrame, EndOfChunk,
           FrameUnchanged, streamVars
    <3>3. CASE H3Event
      BY <3>3 DEF H3Event, HandleSettings, HandleHeaders, HandleData, HandleGoAway, HandleFinished,
           EndOfEvents, EventUnchanged, streamVars
    <3>4. ASSUME NEW s \in DOMAIN sessions, Capsule(s)
          PROVE  UNCHANGED wt_stream_to_session
      BY <3>4 DEF Capsule, CloseCapsule, DrainCapsule, MaxCapsule, BadCapsule, TruncatedCapsule,
           EndOfCapsules, CapsuleUnchanged, EventUnchanged, streamVars
    <3>5. ASSUME NEW s, ReceiveDatagram(s)
          PROVE  UNCHANGED wt_stream_to_session
      BY <3>5 DEF ReceiveDatagram, connVars, streamVars
    <3> QED BY <1>4, <3>1, <3>2, <3>3, <3>4, <3>5 DEF Next
  <2>2. sessions' # sessions
    BY <1>4, <2>1
  <2> QED BY <1>4, <2>1, <2>2, StreamsKept, BelongKept
<1> QED BY <1>1, <1>2, <1>3, <1>4 DEF vars, connVars, streamVars

\* Whatever a session would reset when it closes is mapped to it, so no stream is
\* in two sessions.
THEOREM BelongCorrect ==
  ASSUME AppStreams \cap ConnectIds = {}
  PROVE  Spec => []StreamsBelong
<1> DEFINE BelongInv == TypeOK /\ OwnersInv /\ StreamsBelong
<1>1. Init => BelongInv
  BY InitType, OwnersInit DEF Init, StreamsBelong, EmptyMap
<1>2. BelongInv /\ [Next]_vars => BelongInv'
  BY NextType, OwnersStep, BelongStep
<1>3. BelongInv => StreamsBelong
  OBVIOUS
<1> QED BY <1>1, <1>2, <1>3, PTL DEF Spec

---------------------------------------------------------------------------
(* A peer that follows RFC 9114.  A call reads one stream and handles what *)
(* it queued before it returns, so the queue never mixes the control       *)
(* stream with a request, and SETTINGS is in it at most once.              *)

\* The event comes from a control stream.
OfControl(event) == event.kind \in {"SettingsReceived", "GoAway"}

IsSettings(i) == h3_events[i].kind = "SettingsReceived"

OneStream ==
  /\ Idle => h3_events = <<>>
  /\ \A i, j \in DOMAIN h3_events : OfControl(h3_events[i]) <=> OfControl(h3_events[j])
  /\ call.phase = "parsing" =>
       \A i \in DOMAIN h3_events : OfControl(h3_events[i]) <=> h3_streams[call.on] = "Control"

\* While SETTINGS is queued there is no session its limits could undo.
SettingsOnce ==
  /\ \A i \in DOMAIN h3_events : IsSettings(i) =>
       /\ h3_events[i].settings = peer_settings
       /\ DOMAIN sessions = {}
  /\ \A i, j \in DOMAIN h3_events : IsSettings(i) /\ IsSettings(j) => i = j

QueueParts == OneStream /\ SettingsOnce /\ DeferredReleased

QueueInv == SettingsInv /\ QueueParts

\* The queue is empty and stays so.
LEMMA QueueQuiet ==
  ASSUME QueueInv, h3_events = <<>>,
         UNCHANGED <<h3_events, settings_received, peer_settings, deferred_requests>>,
         previous_settings' = previous_settings \/ ~settings_received
  PROVE  QueueParts'
<1>1. h3_events' = <<>>
  OBVIOUS
<1>2. OneStream' /\ SettingsOnce'
  BY <1>1 DEF OneStream, SettingsOnce, IsSettings
<1>3. DeferredReleased'
  BY <1>1 DEF QueueInv, QueueParts, DeferredReleased, Reduces
<1> QED BY <1>2, <1>3 DEF QueueParts

LEMMA IdleQueue ==
  ASSUME QueueInv, Next, Idle
  PROVE  QueueParts'
<1> h3_events = <<>>
  BY DEF QueueInv, QueueParts, OneStream
<1>1. CASE AppCall
  BY <1>1, QueueQuiet
  DEF AppCall, Connect, AcceptSession, RejectSession, OpenStream, RegisterOutgoingStream,
      CloseSession, DrainSession, SendData, Set0rttSettings, OnlySessions, h3Vars
<1>2. ASSUME NEW q \in AllStreams, NEW fin \in BOOLEAN, DataStreamBytes(q, fin)
      PROVE  QueueParts'
  BY <1>2, QueueQuiet
  DEF DataStreamBytes, KnownStreamData, NewDataStream, PendingStreamCompletes, NewPendingStream,
      NewUnreadableStream, IgnoredBytes, OnlyStreams, h3Vars
<1>3. ASSUME NEW q \in AllStreams, H3Bytes(q)
      PROVE  QueueParts'
  BY <1>3, QueueQuiet DEF H3Bytes, H3StreamData, NewH3Stream, NewOtherUniStream, OnlyH3Streams
<1>4. ASSUME NEW s, ReceiveDatagram(s)
      PROVE  QueueParts'
  BY <1>4, QueueQuiet DEF ReceiveDatagram, connVars, h3Vars
<1>5. ASSUME NEW q \in AllStreams, Frame(q)
      PROVE  FALSE
  <2>1. call # [phase |-> "parsing", on |-> q]
    BY DEF Idle
  <2> QED BY <1>5, <2>1 DEF Frame, SettingsFrame, GoawayFrame, HeadersFrame, DataFrame,
                            MalformedFrame, EndOfChunk, Parsing
<1>6. ~H3Event
  BY DEF Idle, H3Event, HandleSettings, HandleHeaders, HandleData, HandleGoAway, HandleFinished,
     EndOfEvents, Dispatching
<1>7. ASSUME NEW s \in DOMAIN sessions, Capsule(s)
      PROVE  FALSE
  <2>1. call # [phase |-> "capsules", on |-> s]
    BY DEF Idle
  <2> QED BY <1>7, <2>1 DEF Capsule, CloseCapsule, DrainCapsule, MaxCapsule, BadCapsule,
                            TruncatedCapsule, EndOfCapsules, Parser
<1> QED BY <1>1, <1>2, <1>3, <1>4, <1>5, <1>6, <1>7 DEF Next

\* Where the elements of a longer or shorter queue come from.
LEMMA QueueElements ==
  ASSUME NEW S, NEW queue \in Seq(S), NEW e
  PROVE  /\ DOMAIN Append(queue, e) = DOMAIN queue \cup {Len(queue) + 1}
         /\ Append(queue, e)[Len(queue) + 1] = e
         /\ Len(queue) + 1 \notin DOMAIN queue
         /\ \A i \in DOMAIN queue : Append(queue, e)[i] = queue[i]
         /\ queue # <<>> =>
              /\ 1 \in DOMAIN queue /\ Head(queue) = queue[1]
              /\ \A i \in DOMAIN Tail(queue) :
                   i + 1 \in DOMAIN queue /\ Tail(queue)[i] = queue[i + 1] /\ i \in Nat
              /\ \A i \in DOMAIN queue : i # 1 => i - 1 \in DOMAIN Tail(queue)
OBVIOUS

LEMMA QueueGrows ==
  ASSUME QueueInv, NEW e, call.phase = "parsing",
         h3_events' = Append(h3_events, e),
         OfControl(e) <=> h3_streams[call.on] = "Control",
         UNCHANGED <<h3_streams, sessions, deferred_requests, previous_settings>>,
         call' = call \/ call'.phase = "dispatching",
         \/ /\ e.kind = "SettingsReceived" /\ e.settings = peer_settings'
            /\ ~settings_received
         \/ /\ e.kind # "SettingsReceived"
            /\ UNCHANGED <<settings_received, peer_settings>>
  PROVE  QueueParts'
<1> DEFINE n == Len(h3_events) + 1
<1>1. h3_events \in Seq(H3Events)
  BY DEF QueueInv, SettingsInv, TypeOK
<1>2. /\ DOMAIN h3_events' = DOMAIN h3_events \cup {n} /\ n \notin DOMAIN h3_events
      /\ h3_events'[n] = e
      /\ \A i \in DOMAIN h3_events : h3_events'[i] = h3_events[i]
  BY <1>1, QueueElements
<1> HIDE DEF n
<1>3. OneStream'
  BY <1>2 DEF QueueInv, QueueParts, OneStream, Idle
<1>4. CASE e.kind = "SettingsReceived" /\ ~settings_received
  <2>1. \A i \in DOMAIN h3_events : ~IsSettings(i)
    BY <1>4 DEF QueueInv, SettingsInv, SettingsQueued, IsSettings
  <2>2. DOMAIN sessions = {}
    BY <1>4 DEF QueueInv, SettingsInv, SessionsAfterSettings
  <2>3. SettingsOnce'
    BY <1>2, <1>4, <2>1, <2>2 DEF SettingsOnce, IsSettings
  <2>4. DeferredReleased'
    BY <1>2, <1>4 DEF DeferredReleased
  <2> QED BY <1>3, <2>3, <2>4 DEF QueueParts
<1>5. CASE e.kind # "SettingsReceived"
  <2>1. SettingsOnce'
    BY <1>2, <1>5 DEF QueueInv, QueueParts, SettingsOnce, IsSettings
  <2>2. DeferredReleased'
    BY <1>2, <1>5 DEF QueueInv, QueueParts, DeferredReleased, Reduces
  <2> QED BY <1>3, <2>1, <2>2 DEF QueueParts
<1> QED BY <1>4, <1>5

LEMMA FrameQueue ==
  ASSUME Orderly, QueueInv, NEW q \in AllStreams, Frame(q)
  PROVE  QueueParts'
<1> USE DEF Queued, FrameUnchanged
<1>1. ASSUME call = [phase |-> "parsing", on |-> q]
      PROVE  call.phase = "parsing" /\ call.on = q
  BY <1>1
<1>2. ASSUME NEW frame \in SettingsFrames, SettingsFrame(q, frame)
      PROVE  QueueParts'
  <2> DEFINE e == [kind |-> "SettingsReceived", settings |-> Apply(peer_settings, frame)]
  <2>1. /\ h3_events' = Append(h3_events, e) /\ OfControl(e)
        /\ e.kind = "SettingsReceived" /\ e.settings = peer_settings'
    BY <1>2 DEF SettingsFrame, OfControl
  <2> HIDE DEF e
  <2> QED BY <1>1, <1>2, <2>1, QueueGrows DEF SettingsFrame, Parsing
<1>3. ASSUME GoawayFrame(q) \/ DataFrame(q) \/ \E headers \in HeaderKinds : HeadersFrame(q, headers)
      PROVE  QueueParts'
  <2>1. ASSUME NEW e, h3_events' = Append(h3_events, e), e.kind # "SettingsReceived",
               OfControl(e) <=> h3_streams[q] = "Control"
        PROVE  QueueParts'
    BY <1>1, <1>3, <2>1, QueueGrows DEF GoawayFrame, DataFrame, HeadersFrame, Parsing
  <2>2. CASE GoawayFrame(q)
    BY <2>1, <2>2 DEF GoawayFrame, Parsing, OfControl
  <2>3. CASE DataFrame(q)
    BY <2>1, <2>3 DEF DataFrame, Parsing, OfControl
  <2>4. ASSUME NEW headers \in HeaderKinds, HeadersFrame(q, headers)
        PROVE  QueueParts'
    BY <2>1, <2>4 DEF HeadersFrame, Parsing, OfControl
  <2> QED BY <1>3, <2>2, <2>3, <2>4
<1>4. ASSUME NEW fin \in BOOLEAN, EndOfChunk(q, fin)
      PROVE  QueueParts'
  <2>1. call.phase = "parsing" /\ call.on = q /\ call'.phase = "dispatching"
    BY <1>1, <1>4 DEF EndOfChunk, Continues
  <2>2. CASE fin /\ h3_streams[q] = "Request"
    <3> DEFINE e == [kind |-> "StreamFinished", stream |-> q]
    <3>1. /\ h3_events' = Append(h3_events, e)
          /\ ~OfControl(e) /\ e.kind # "SettingsReceived"
      BY <1>4, <2>2 DEF EndOfChunk, OfControl
    <3> HIDE DEF e
    <3> QED BY <1>4, <2>1, <2>2, <3>1, QueueGrows DEF EndOfChunk
  <2>3. CASE ~(fin /\ h3_streams[q] = "Request")
    BY <1>4, <2>1, <2>3
    DEF EndOfChunk, QueueInv, QueueParts, OneStream, Idle, SettingsOnce, IsSettings,
        DeferredReleased, Reduces
  <2> QED BY <2>2, <2>3
<1>5. ASSUME NEW fin, MalformedFrame(q, fin)
      PROVE  FALSE
  BY <1>5 DEF MalformedFrame
<1> QED BY <1>2, <1>3, <1>4, <1>5 DEF Frame

LEMMA QueueShrinks ==
  ASSUME QueueInv, h3_events # <<>>, h3_events' = Tail(h3_events),
         call'.phase \in {"dispatching", "capsules"},
         UNCHANGED <<settings_received, peer_settings, previous_settings>>,
         \/ DOMAIN sessions' = DOMAIN sessions
         \/ \A i \in DOMAIN h3_events : IsSettings(i) => i = 1,
         \/ ~IsSettings(1) /\ (UNCHANGED deferred_requests \/ ~settings_received)
         \/ deferred_requests' = <<>>
  PROVE  QueueParts'
<1>1. h3_events \in Seq(H3Events)
  BY DEF QueueInv, SettingsInv, TypeOK
<1>2. /\ \A i \in DOMAIN h3_events' :
           i + 1 \in DOMAIN h3_events /\ h3_events'[i] = h3_events[i + 1] /\ i \in Nat
      /\ \A i \in DOMAIN h3_events : i # 1 => i - 1 \in DOMAIN h3_events'
      /\ 1 \in DOMAIN h3_events
  BY <1>1, QueueElements
<1>3. \A i \in DOMAIN h3_events' : i + 1 # 1 /\ i \in Int /\ i >= 1
  BY <1>1
<1>4. OneStream'
  BY <1>2 DEF QueueInv, QueueParts, OneStream, Idle
<1>5. SettingsOnce'
  BY <1>2, <1>3 DEF QueueInv, QueueParts, SettingsOnce, IsSettings
<1>6. DeferredReleased'
  <2> SUFFICES ASSUME deferred_requests' # <<>>, settings_received
               PROVE  \/ \E i \in DOMAIN h3_events' : h3_events'[i].kind = "SettingsReceived"
                      \/ Reduces(peer_settings, previous_settings)
    BY DEF DeferredReleased, Reduces
  <2>1. \/ \E i \in DOMAIN h3_events : IsSettings(i) /\ i # 1
        \/ Reduces(peer_settings, previous_settings)
    BY DEF QueueInv, QueueParts, DeferredReleased, IsSettings
  <2>2. ASSUME NEW i \in DOMAIN h3_events, IsSettings(i), i # 1
        PROVE  i - 1 \in DOMAIN h3_events' /\ h3_events'[i - 1].kind = "SettingsReceived"
    <3>1. i \in Int
      BY <1>1
    <3> QED BY <1>2, <2>2, <3>1 DEF IsSettings
  <2> QED BY <2>1, <2>2
<1> QED BY <1>4, <1>5, <1>6 DEF QueueParts

\* A queue that starts with an event of a request holds no SETTINGS.
LEMMA RequestQueue ==
  ASSUME QueueInv, h3_events # <<>>, ~OfControl(Head(h3_events))
  PROVE  \A i \in DOMAIN h3_events : ~IsSettings(i)
<1>1. h3_events \in Seq(H3Events)
  BY DEF QueueInv, SettingsInv, TypeOK
<1>2. 1 \in DOMAIN h3_events /\ Head(h3_events) = h3_events[1]
  BY <1>1, QueueElements
<1>3. \A i \in DOMAIN h3_events : ~OfControl(h3_events[i])
  BY <1>2 DEF QueueInv, QueueParts, OneStream
<1> QED BY <1>3 DEF OfControl, IsSettings

LEMMA EventQueue ==
  ASSUME QueueInv, H3Event
  PROVE  QueueParts'
<1>1. h3_events \in Seq(H3Events)
  BY DEF QueueInv, SettingsInv, TypeOK
<1>2. h3_events # <<>> => 1 \in DOMAIN h3_events /\ Head(h3_events) = h3_events[1]
  BY <1>1, QueueElements
<1>3. UNCHANGED <<settings_received, peer_settings, previous_settings>>
  BY DEF H3Event, HandleSettings, HandleHeaders, HandleData, HandleGoAway, HandleFinished,
     EndOfEvents, EventUnchanged
<1>4. ASSUME Fails, UNCHANGED deferred_requests,
             deferred_requests # <<>> /\ settings_received => Reduces(peer_settings, previous_settings)
      PROVE  QueueParts'
  <2>1. h3_events' = <<>>
    BY <1>4 DEF Fails
  <2>2. OneStream' /\ SettingsOnce'
    BY <2>1, <1>4 DEF OneStream, SettingsOnce, IsSettings, Fails, Returns
  <2>3. DeferredReleased'
    BY <1>3, <1>4, <2>1 DEF DeferredReleased, Reduces
  <2> QED BY <2>2, <2>3 DEF QueueParts
<1>5. ASSUME ~OfControl(Head(h3_events)), h3_events # <<>>, h3_events' = Tail(h3_events),
             call'.phase \in {"dispatching", "capsules"},
             UNCHANGED deferred_requests \/ ~settings_received
      PROVE  QueueParts'
  <2>1. \A i \in DOMAIN h3_events : ~IsSettings(i)
    BY <1>5, RequestQueue
  <2> QED BY <1>2, <1>3, <1>5, <2>1, QueueShrinks
<1>6. CASE HandleSettings
  <2>1. h3_events # <<>> /\ call.phase = "dispatching" /\ IsSettings(1)
    BY <1>2, <1>6 DEF HandleSettings, Dispatching, IsSettings
  <2>2. Head(h3_events).settings = peer_settings
    BY <1>2, <2>1 DEF QueueInv, QueueParts, SettingsOnce
  <2>3. CASE Reduces(Head(h3_events).settings, previous_settings)
    BY <1>4, <1>6, <2>2, <2>3 DEF HandleSettings
  <2>4. CASE ~Reduces(Head(h3_events).settings, previous_settings)
    <3>1. h3_events' = Tail(h3_events) /\ call' = call /\ deferred_requests' = <<>>
      BY <1>6, <2>4 DEF HandleSettings, NextEvent, DeferredTaken
    <3>2. \A i \in DOMAIN h3_events : IsSettings(i) => i = 1
      BY <1>2, <2>1 DEF QueueInv, QueueParts, SettingsOnce
    <3> QED BY <1>3, <2>1, <3>1, <3>2, QueueShrinks
  <2> QED BY <2>3, <2>4
<1>7. CASE HandleHeaders
  <2>1. /\ ~OfControl(Head(h3_events)) /\ h3_events # <<>> /\ h3_events' = Tail(h3_events)
        /\ call' = call /\ call.phase = "dispatching"
    BY <1>7 DEF HandleHeaders, Dispatching, NextEvent, OfControl
  <2>2. UNCHANGED deferred_requests \/ ~settings_received
    BY <1>7 DEF HandleHeaders, HandleRequest, HandleResponse, MustDefer
  <2> QED BY <1>5, <2>1, <2>2
<1>8. CASE HandleData
  <2>1. ~OfControl(Head(h3_events)) /\ h3_events # <<>> /\ call.phase = "dispatching"
    BY <1>8 DEF HandleData, Dispatching, OfControl
  <2>2. CASE Fails
    <3>1. \A i \in DOMAIN h3_events : ~IsSettings(i)
      BY <2>1, RequestQueue
    <3>2. deferred_requests # <<>> /\ settings_received => Reduces(peer_settings, previous_settings)
      BY <3>1 DEF QueueInv, QueueParts, DeferredReleased, IsSettings
    <3> QED BY <1>4, <1>8, <2>2, <3>2 DEF HandleData
  <2>3. CASE ~Fails
    <3>1. h3_events' = Tail(h3_events) /\ call'.phase \in {"dispatching", "capsules"}
      BY <1>8, <2>1, <2>3 DEF HandleData, NextEvent, Continues
    <3> QED BY <1>5, <1>8, <2>1, <3>1 DEF HandleData
  <2> QED BY <2>2, <2>3
<1>9. CASE HandleGoAway
  <2>1. /\ h3_events # <<>> /\ h3_events' = Tail(h3_events) /\ call' = call
        /\ call.phase = "dispatching" /\ ~IsSettings(1)
    BY <1>2, <1>9 DEF HandleGoAway, Dispatching, NextEvent, IsSettings
  <2> QED BY <1>3, <1>9, <2>1, QueueShrinks DEF HandleGoAway
<1>10. CASE HandleFinished
  <2>1. /\ ~OfControl(Head(h3_events)) /\ h3_events # <<>> /\ h3_events' = Tail(h3_events)
        /\ call' = call /\ call.phase = "dispatching"
    BY <1>10 DEF HandleFinished, Dispatching, NextEvent, OfControl
  <2> QED BY <1>5, <1>10, <2>1 DEF HandleFinished
<1>11. CASE EndOfEvents
  BY <1>3, <1>11, QueueQuiet DEF EndOfEvents
<1> QED BY <1>6, <1>7, <1>8, <1>9, <1>10, <1>11 DEF H3Event

LEMMA CapsuleQueue ==
  ASSUME QueueInv, NEW s \in DOMAIN sessions, Capsule(s)
  PROVE  QueueParts'
<1>1. call.phase = "capsules"
  BY DEF Capsule, CloseCapsule, DrainCapsule, MaxCapsule, BadCapsule, TruncatedCapsule,
     EndOfCapsules, Parser
<1>2. call' = call \/ call'.phase = "dispatching"
  BY DEF Capsule, CloseCapsule, DrainCapsule, MaxCapsule, BadCapsule, TruncatedCapsule,
     EndOfCapsules, Continues
<1>3. UNCHANGED <<h3_events, deferred_requests, settings_received, peer_settings, previous_settings>>
  BY DEF Capsule, CloseCapsule, DrainCapsule, MaxCapsule, BadCapsule, TruncatedCapsule,
     EndOfCapsules, CapsuleUnchanged, EventUnchanged
<1>4. DOMAIN sessions' = DOMAIN sessions
  BY DEF Capsule, CloseCapsule, DrainCapsule, MaxCapsule, BadCapsule, TruncatedCapsule,
     EndOfCapsules, WithState
<1>5. OneStream'
  BY <1>1, <1>2, <1>3 DEF QueueInv, QueueParts, OneStream, Idle
<1>6. SettingsOnce'
  BY <1>3, <1>4 DEF QueueInv, QueueParts, SettingsOnce, IsSettings
<1>7. DeferredReleased'
  BY <1>3 DEF QueueInv, QueueParts, DeferredReleased, Reduces
<1> QED BY <1>5, <1>6, <1>7 DEF QueueParts

LEMMA QueueInit == Init => QueueInv
BY SettingsInit DEF Init, QueueInv, QueueParts, OneStream, SettingsOnce, DeferredReleased

LEMMA QueueStep ==
  ASSUME Orderly, QueueInv, [Next]_vars
  PROVE  QueueInv'
<1>1. SettingsInv'
  BY SettingsStep DEF QueueInv
<1>2. QueueParts'
  <2>1. CASE UNCHANGED vars
    BY <2>1 DEF vars, connVars, h3Vars, QueueInv, QueueParts, OneStream, Idle, SettingsOnce,
                IsSettings, DeferredReleased, Reduces
  <2>2. CASE Next /\ Idle
    BY <2>2, IdleQueue
  <2>3. ASSUME Next, ~Idle
        PROVE  QueueParts'
    <3>1. ~AppCall
      BY <2>3 DEF AppCall, Connect, AcceptSession, RejectSession, OpenStream,
           RegisterOutgoingStream, CloseSession, DrainSession, SendData, Set0rttSettings
    <3>2. \A q \in AllStreams : (\A fin \in BOOLEAN : ~DataStreamBytes(q, fin)) /\ ~H3Bytes(q)
      BY <2>3 DEF DataStreamBytes, KnownStreamData, NewDataStream, PendingStreamCompletes,
           NewPendingStream, NewUnreadableStream, IgnoredBytes, H3Bytes, H3StreamData, NewH3Stream,
           NewOtherUniStream, Arrives
    <3>3. \A s \in HeaderSessionIds : ~ReceiveDatagram(s)
      BY <2>3 DEF ReceiveDatagram
    <3> QED BY <2>3, <3>1, <3>2, <3>3, FrameQueue, EventQueue, CapsuleQueue DEF Next
  <2> QED BY <2>1, <2>2, <2>3
<1> QED BY <1>1, <1>2 DEF QueueInv

\* With a peer that follows RFC 9114, a CONNECT that came before SETTINGS becomes a
\* session when SETTINGS is handled, unless the settings break what was remembered.
THEOREM DeferredCorrect ==
  ASSUME Orderly
  PROVE  Spec => []DeferredReleased
<1>1. QueueInv => DeferredReleased
  BY DEF QueueInv, QueueParts
<1> QED BY <1>1, QueueInit, QueueStep, PTL DEF Spec

---------------------------------------------------------------------------
(* Limits.  With such a peer the limits of SETTINGS, a response or         *)
(* accept_session reach a session only before it has used any.             *)

StreamKinds == {"bidi", "uni"}

IsHeaders(i, q) == h3_events[i].kind = "HeadersReceived" /\ h3_events[i].stream = q

HeadersWait(q) == \E i \in DOMAIN h3_events : IsHeaders(i, q)

Unspent(s) == \A k \in StreamKinds : sessions[s].used[k] = 0

\* A request stream has one HEADERS frame, queued at most once.
HeadersOnce ==
  \A q \in AllStreams : \A i, j \in DOMAIN h3_events :
    IsHeaders(i, q) => q \in peer.headers /\ (IsHeaders(j, q) => i = j)

\* Sessions of a server, and those of a client that were established, had theirs;
\* while it waits the session has opened nothing.
SessionsHadHeaders ==
  /\ \A i \in DOMAIN deferred_requests : is_server /\ deferred_requests[i] \in peer.headers
  /\ \A s \in DOMAIN sessions :
       is_server \/ sessions[s].state = "Established" \/ ~Unspent(s) => s \in peer.headers
  /\ \A s \in DOMAIN sessions : HeadersWait(s) =>
       ~is_server /\ sessions[s].state # "Established" /\ Unspent(s)

SessionsStartUnspent ==
  /\ \A s \in DOMAIN sessions : sessions[s].state = "Connecting" => Unspent(s)
  /\ ~is_server => \A s \in DOMAIN sessions : s < next_bidi_stream_id

CreditParts == HeadersOnce /\ SessionsHadHeaders /\ SessionsStartUnspent /\ CreditRespected

CreditInv == QueueInv /\ CreditParts

\* What LimitsGrow says of a step.
LimitsKept ==
  \A s \in DOMAIN sessions : \A k \in Kinds :
    sessions[s].state = "Established" /\ sessions[s].enabled =>
      sessions[s].max[k] <= sessions'[s].max[k]

\* A session that is not established by the step, and no limit of which is lowered.
Tame(new, old) ==
  /\ \A state \in {"Connecting", "Established"} : new.state = state => old.state = state
  /\ new.enabled = old.enabled
  /\ \A k \in StreamKinds : new.used[k] = old.used[k]
  /\ old.enabled => \A k \in Kinds : old.max[k] <= new.max[k]

LEMMA TameSelf ==
  ASSUME NEW sess \in Session
  PROVE  Tame(sess, sess)
BY DEF Tame, Session

\* Events leave the queue at its head, or others than HEADERS join it.
LEMMA HeadersFewer ==
  ASSUME HeadersOnce, UNCHANGED peer.headers, NEW d \in {0, 1},
         \A i \in DOMAIN h3_events' : h3_events'[i].kind = "HeadersReceived" =>
           i \in Nat /\ i + d \in DOMAIN h3_events /\ h3_events'[i] = h3_events[i + d]
  PROVE  /\ HeadersOnce'
         /\ \A q : HeadersWait(q)' => HeadersWait(q)
<1>1. \A q : \A i \in DOMAIN h3_events' : IsHeaders(i, q)' =>
        i \in Nat /\ i + d \in DOMAIN h3_events /\ IsHeaders(i + d, q)
  BY DEF IsHeaders
<1>2. HeadersOnce'
  <2> SUFFICES ASSUME NEW q \in AllStreams, NEW i \in DOMAIN h3_events', NEW j \in DOMAIN h3_events',
                      IsHeaders(i, q)'
               PROVE  q \in peer.headers' /\ (IsHeaders(j, q)' => i = j)
    BY DEF HeadersOnce
  <2>1. q \in peer.headers /\ (IsHeaders(j, q)' => i + d = j + d)
    BY <1>1 DEF HeadersOnce
  <2>2. IsHeaders(j, q)' => i \in Nat /\ j \in Nat
    BY <1>1
  <2> QED BY <2>1, <2>2
<1> QED BY <1>1, <1>2 DEF HeadersWait

LEMMA TameStep ==
  ASSUME CreditInv, TypeOK',
         UNCHANGED <<is_server, deferred_requests, next_bidi_stream_id, peer.headers>>,
         HeadersOnce', \A q : HeadersWait(q)' => HeadersWait(q),
         DOMAIN sessions' = DOMAIN sessions,
         \A s \in DOMAIN sessions : Tame(sessions'[s], sessions[s])
  PROVE  CreditParts' /\ LimitsKept
<1>1. \A s \in DOMAIN sessions : sessions[s] \in Session /\ sessions'[s] \in Session
  BY DEF CreditInv, QueueInv, SettingsInv, TypeOK, IsMap
<1>2. \A s \in DOMAIN sessions : Unspent(s)' <=> Unspent(s)
  BY DEF Unspent, Tame
<1>3. SessionsHadHeaders'
  BY <1>2 DEF CreditInv, CreditParts, SessionsHadHeaders, Tame
<1>4. SessionsStartUnspent'
  BY <1>2 DEF CreditInv, CreditParts, SessionsStartUnspent, Tame
<1>5. CreditRespected'
  <2> SUFFICES ASSUME NEW s \in DOMAIN sessions, NEW k \in StreamKinds, sessions'[s].enabled
               PROVE  sessions'[s].used[k] <= sessions'[s].max[k]
    BY DEF CreditRespected, StreamKinds
  <2>1. sessions[s].used[k] <= sessions[s].max[k] /\ sessions[s].max[k] <= sessions'[s].max[k]
    BY DEF CreditInv, CreditParts, CreditRespected, Tame, StreamKinds, Kinds
  <2>2. /\ sessions'[s].used[k] = sessions[s].used[k]
        /\ sessions[s].used[k] \in Nat /\ sessions[s].max[k] \in Nat /\ sessions'[s].max[k] \in Nat
    BY <1>1 DEF Tame, Session, StreamKinds, Kinds
  <2> QED BY <2>1, <2>2
<1>6. LimitsKept
  BY DEF LimitsKept, Tame
<1> QED BY <1>3, <1>4, <1>5, <1>6 DEF CreditParts

LEMMA CreditTypes ==
  ASSUME CreditInv
  PROVE  /\ TypeOK /\ SessionsOK
         /\ \A s \in DOMAIN sessions : sessions[s] \in Session /\ s \in AllStreams
         /\ Idle => h3_events = <<>> /\ \A q : ~HeadersWait(q)
<1>1. TypeOK /\ (Idle => h3_events = <<>>)
  BY DEF CreditInv, QueueInv, SettingsInv, QueueParts, OneStream
<1> QED BY <1>1, TypeParts, SessionOf DEF HeadersWait

LEMMA HeadersSame ==
  ASSUME CreditInv, UNCHANGED <<h3_events, peer.headers>>
  PROVE  HeadersOnce' /\ \A q : HeadersWait(q)' => HeadersWait(q)
BY DEF CreditInv, CreditParts, HeadersOnce, HeadersWait, IsHeaders

\* A step that reads no event and changes at most what Tame allows.
LEMMA QuietCredit ==
  ASSUME CreditInv, TypeOK',
         UNCHANGED <<is_server, deferred_requests, next_bidi_stream_id, peer.headers, h3_events>>,
         DOMAIN sessions' = DOMAIN sessions,
         \A s \in DOMAIN sessions : Tame(sessions'[s], sessions[s])
  PROVE  CreditParts' /\ LimitsKept
BY HeadersSame, TameStep

LEMMA SameSessionsCredit ==
  ASSUME CreditInv, TypeOK',
         UNCHANGED <<is_server, deferred_requests, next_bidi_stream_id, peer.headers, h3_events,
                     sessions>>
  PROVE  CreditParts' /\ LimitsKept
<1>1. \A s \in DOMAIN sessions : Tame(sessions'[s], sessions[s])
  BY CreditTypes, TameSelf
<1> QED BY <1>1, QuietCredit

\* One session is replaced by one that Tame allows.
LEMMA ReplacedTame ==
  ASSUME CreditInv, NEW s \in DOMAIN sessions, NEW sess, Tame(sess, sessions[s]),
         sessions' = [sessions EXCEPT ![s] = sess]
  PROVE  /\ DOMAIN sessions' = DOMAIN sessions
         /\ \A r \in DOMAIN sessions : Tame(sessions'[r], sessions[r])
<1>1. /\ DOMAIN sessions' = DOMAIN sessions
      /\ sessions'[s] = sess
      /\ \A r \in DOMAIN sessions \ {s} : sessions'[r] = sessions[r]
  OBVIOUS
<1> QED BY <1>1, CreditTypes, TameSelf

\* Closing or draining a session is one such change.
LEMMA EndedTame ==
  ASSUME CreditInv, NEW s \in DOMAIN sessions, NEW state \in {"Closed", "Draining"},
         sessions' = WithState(s, state)
  PROVE  /\ DOMAIN sessions' = DOMAIN sessions
         /\ \A r \in DOMAIN sessions : Tame(sessions'[r], sessions[r])
<1> DEFINE sess == [sessions[s] EXCEPT !.state = state]
<1>1. sessions[s] \in Session
  BY CreditTypes
<1>2. Tame(sess, sessions[s])
  BY <1>1 DEF Tame, Session, StreamKinds, Kinds
<1>3. sessions' = [sessions EXCEPT ![s] = sess]
  BY DEF WithState
<1> HIDE DEF sess
<1> QED BY <1>2, <1>3, ReplacedTame

LEMMA ConnectCredit ==
  ASSUME CreditInv, TypeOK', Connect
  PROVE  CreditParts' /\ LimitsKept
<1> SUFFICES ASSUME NEW n, n = next_bidi_stream_id
             PROVE  CreditParts' /\ LimitsKept
  OBVIOUS
<1>1. /\ ~is_server /\ Idle /\ sessions' = Put(sessions, n, NewSession)
      /\ next_bidi_stream_id' = n + 4 /\ n \in Nat /\ n \in AllStreams
      /\ UNCHANGED <<is_server, deferred_requests, peer, h3_events>>
  BY CreditTypes, WtAssumption DEF Connect, AllStreams, TypeOK
<1>2. n \notin DOMAIN sessions
  BY <1>1 DEF CreditInv, CreditParts, SessionsStartUnspent
<1>3. /\ DOMAIN sessions' = DOMAIN sessions \cup {n}
      /\ sessions'[n] = NewSession
      /\ \A s \in DOMAIN sessions : sessions'[s] = sessions[s]
  BY <1>1, <1>2 DEF Put
<1>4. /\ NewSession.state = "Connecting"
      /\ \A k \in Kinds : NewSession.used[k] = 0 /\ NewSession.max[k] = 0
  BY DEF NewSession, NoLimits, Kinds
<1>5. HeadersOnce' /\ \A q : ~HeadersWait(q)'
  BY <1>1, HeadersSame, CreditTypes
<1>6. Unspent(n)' /\ \A s \in DOMAIN sessions : Unspent(s)' <=> Unspent(s)
  BY <1>3, <1>4 DEF Unspent, StreamKinds, Kinds
<1>7. SessionsHadHeaders'
  <2>1. sessions'[n].state # "Established"
    BY <1>3, <1>4
  <2> QED BY <1>1, <1>3, <1>5, <1>6, <2>1 DEF CreditInv, CreditParts, SessionsHadHeaders
<1>8. SessionsStartUnspent'
  <2>1. \A s \in DOMAIN sessions : s < n /\ s \in Nat
    BY <1>1, CreditTypes, WtAssumption DEF CreditInv, CreditParts, SessionsStartUnspent, AllStreams
  <2>2. \A s \in DOMAIN sessions' : s < n + 4
    BY <1>1, <1>3, <2>1
  <2> QED BY <1>1, <1>3, <1>6, <2>2 DEF CreditInv, CreditParts, SessionsStartUnspent
<1>9. CreditRespected' /\ LimitsKept
  <2>1. CreditRespected'
    BY <1>3, <1>4 DEF CreditInv, CreditParts, CreditRespected, Kinds
  <2>2. LimitsKept
    BY <1>3, CreditTypes DEF LimitsKept, Session
  <2> QED BY <2>1, <2>2
<1> QED BY <1>5, <1>7, <1>8, <1>9 DEF CreditParts

\* accept_session and a 2xx response replace the limits of a session that has
\* opened no stream.
LEMMA EstablishedCredit ==
  ASSUME CreditInv, TypeOK', NEW s \in DOMAIN sessions,
         Unspent(s), sessions[s].state # "Established", s \in peer.headers,
         DOMAIN sessions' = DOMAIN sessions,
         \A r \in DOMAIN sessions \ {s} : sessions'[r] = sessions[r],
         EstablishedFrom(sessions'[s], sessions[s]),
         UNCHANGED <<is_server, deferred_requests, next_bidi_stream_id, peer.headers>>,
         HeadersOnce', \A q : HeadersWait(q)' => HeadersWait(q) /\ q # s
  PROVE  CreditParts' /\ LimitsKept
<1>1. \A r \in DOMAIN sessions : sessions[r] \in Session /\ sessions'[r] \in Session
  BY DEF CreditInv, QueueInv, SettingsInv, TypeOK, IsMap
<1>2. \A r \in DOMAIN sessions : Unspent(r)' <=> Unspent(r)
  BY DEF Unspent, EstablishedFrom
<1>3. SessionsHadHeaders'
  BY <1>2 DEF CreditInv, CreditParts, SessionsHadHeaders
<1>4. SessionsStartUnspent'
  BY <1>2 DEF CreditInv, CreditParts, SessionsStartUnspent, EstablishedFrom
<1>5. CreditRespected'
  <2>1. \A k \in StreamKinds : sessions'[s].used[k] = 0 /\ sessions'[s].max[k] \in Nat
    BY <1>1, <1>2 DEF Unspent, Session, StreamKinds, Kinds
  <2> QED BY <2>1 DEF CreditInv, CreditParts, CreditRespected, StreamKinds
<1>6. LimitsKept
  BY <1>1 DEF LimitsKept, Session
<1> QED BY <1>3, <1>4, <1>5, <1>6 DEF CreditParts

LEMMA OpenStreamCredit ==
  ASSUME CreditInv, TypeOK', NEW s \in DOMAIN sessions, NEW k \in StreamKinds, OpenStream(s, k)
  PROVE  CreditParts' /\ LimitsKept
<1> DEFINE sess == Spend(sessions[s], k)
<1>1. /\ Idle /\ sessions' = [sessions EXCEPT ![s] = sess]
      /\ sessions[s].state = "Established" /\ HasCredit(sessions[s], k)
      /\ UNCHANGED <<is_server, deferred_requests, next_bidi_stream_id, peer, h3_events>>
  BY DEF OpenStream, OnlySessions, h3Vars
<1>2. \A r \in DOMAIN sessions : sessions[r] \in Session
  BY CreditTypes
<1>3. /\ sess.state = "Established" /\ sess.max = sessions[s].max
      /\ sess.enabled = sessions[s].enabled
      /\ sess.used = [sessions[s].used EXCEPT ![k] = @ + 1]
  BY <1>1, <1>2 DEF Spend, Session
<1> HIDE DEF sess
<1>4. /\ DOMAIN sessions' = DOMAIN sessions /\ sessions'[s] = sess
      /\ \A r \in DOMAIN sessions \ {s} : sessions'[r] = sessions[r]
  BY <1>1, ReplaceFacts
<1>5. HeadersOnce' /\ \A q : ~HeadersWait(q)'
  BY <1>1, HeadersSame, CreditTypes
<1>6. \A r \in DOMAIN sessions \ {s} : Unspent(r)' <=> Unspent(r)
  BY <1>4 DEF Unspent
<1>7. SessionsHadHeaders'
  <2>1. s \in peer.headers
    BY <1>1 DEF CreditInv, CreditParts, SessionsHadHeaders
  <2> QED BY <1>1, <1>4, <1>5, <1>6, <2>1 DEF CreditInv, CreditParts, SessionsHadHeaders
<1>8. SessionsStartUnspent'
  BY <1>1, <1>3, <1>4, <1>6 DEF CreditInv, CreditParts, SessionsStartUnspent
<1>9. CreditRespected'
  <2>1. ASSUME NEW j \in StreamKinds, sessions[s].enabled
        PROVE  sess.used[j] <= sess.max[j]
    <3>1. sessions[s].used[j] <= sessions[s].max[j]
      BY <2>1 DEF CreditInv, CreditParts, CreditRespected, StreamKinds
    <3>2. /\ sessions[s].used \in [Kinds -> Nat] /\ sessions[s].max \in [Kinds -> Nat]
          /\ j \in Kinds /\ k \in Kinds
      BY <1>2 DEF Session, StreamKinds, Kinds
    <3>3. sessions[s].used[k] < sessions[s].max[k]
      BY <1>1, <2>1 DEF HasCredit
    <3> QED BY <1>3, <3>1, <3>2, <3>3
  <2> QED BY <1>3, <1>4, <2>1 DEF CreditInv, CreditParts, CreditRespected, StreamKinds
<1>10. LimitsKept
  BY <1>2, <1>3, <1>4 DEF LimitsKept, Session
<1> QED BY <1>5, <1>7, <1>8, <1>9, <1>10 DEF CreditParts

LEMMA AppCallCredit ==
  ASSUME CreditInv, TypeOK', AppCall
  PROVE  CreditParts' /\ LimitsKept
<1>1. CASE Connect
  BY <1>1, ConnectCredit
<1>2. ASSUME NEW s \in DOMAIN sessions, AcceptSession(s)
      PROVE  CreditParts' /\ LimitsKept
  <2>1. /\ sessions[s].state = "Connecting" /\ DOMAIN sessions' = DOMAIN sessions
        /\ \A r \in DOMAIN sessions \ {s} : sessions'[r] = sessions[r]
        /\ EstablishedFrom(sessions'[s], sessions[s])
    BY <1>2, CreditTypes, AcceptFacts
  <2>2. Unspent(s) /\ s \in peer.headers
    BY <1>2, <2>1 DEF AcceptSession, CreditInv, CreditParts, SessionsStartUnspent, SessionsHadHeaders
  <2>3. /\ Idle
        /\ UNCHANGED <<is_server, deferred_requests, next_bidi_stream_id, peer, h3_events>>
    BY <1>2 DEF AcceptSession, OnlySessions, h3Vars
  <2>4. HeadersOnce' /\ \A q : ~HeadersWait(q)'
    BY <2>3, HeadersSame, CreditTypes
  <2> QED BY <2>1, <2>2, <2>3, <2>4, EstablishedCredit
<1>3. ASSUME NEW s \in DOMAIN sessions, RejectSession(s) \/ CloseSession(s) \/ DrainSession(s)
      PROVE  CreditParts' /\ LimitsKept
  BY <1>3, EndedTame, QuietCredit DEF RejectSession, CloseSession, DrainSession, OnlySessions, h3Vars
<1>4. ASSUME NEW s \in DOMAIN sessions, NEW k \in {"bidi", "uni"}, OpenStream(s, k)
      PROVE  CreditParts' /\ LimitsKept
  BY <1>4, OpenStreamCredit DEF StreamKinds
<1>5. ASSUME NEW s \in DOMAIN sessions, NEW q \in AppStreams, RegisterOutgoingStream(q, s)
      PROVE  CreditParts' /\ LimitsKept
  <2> DEFINE sess == [sessions[s] EXCEPT !.streams = @ \cup {q}]
  <2>1. sessions' = [sessions EXCEPT ![s] = sess]
    BY <1>5 DEF RegisterOutgoingStream
  <2>2. Tame(sess, sessions[s])
    BY CreditTypes DEF Tame, Session, StreamKinds, Kinds
  <2> HIDE DEF sess
  <2> QED BY <1>5, <2>1, <2>2, ReplacedTame, QuietCredit DEF RegisterOutgoingStream, h3Vars
<1>6. ASSUME NEW q \in DOMAIN wt_stream_to_session, SendData(q)
      PROVE  CreditParts' /\ LimitsKept
  <2>1. PICK s \in DOMAIN sessions : sessions' = [sessions EXCEPT ![s] = Spend(sessions[s], "data")]
    BY <1>6 DEF SendData
  <2> DEFINE sess == Spend(sessions[s], "data")
  <2>2. Tame(sess, sessions[s])
    BY CreditTypes DEF Spend, Tame, Session, StreamKinds, Kinds
  <2>3. sessions' = [sessions EXCEPT ![s] = sess]
    BY <2>1
  <2> HIDE DEF sess
  <2> QED BY <1>6, <2>2, <2>3, ReplacedTame, QuietCredit DEF SendData, OnlySessions, h3Vars
<1>7. ASSUME NEW settings \in PreviousSettings, Set0rttSettings(settings)
      PROVE  CreditParts' /\ LimitsKept
  BY <1>7, SameSessionsCredit DEF Set0rttSettings, h3Vars
<1> QED BY <1>1, <1>2, <1>3, <1>4, <1>5, <1>6, <1>7 DEF AppCall

LEMMA ArrivalCredit ==
  ASSUME CreditInv, TypeOK', NEW q \in AllStreams,
         \/ \E fin \in BOOLEAN : DataStreamBytes(q, fin)
         \/ H3Bytes(q)
  PROVE  CreditParts' /\ LimitsKept
<1>1. \A fin : Arrives(q, fin) => UNCHANGED peer.headers
  BY CreditTypes DEF Arrives, TypeOK
<1>2. ASSUME NEW fin \in BOOLEAN, DataStreamBytes(q, fin)
      PROVE  CreditParts' /\ LimitsKept
  <2>1. Arrives(q, fin) /\ OnlyStreams
    BY <1>2 DEF DataStreamBytes, KnownStreamData, NewDataStream, PendingStreamCompletes,
         NewPendingStream, NewUnreadableStream, IgnoredBytes
  <2>2. /\ DOMAIN sessions' = DOMAIN sessions
        /\ \A r \in DOMAIN sessions : Tame(sessions'[r], sessions[r])
    <3>1. CASE UNCHANGED sessions
      BY <3>1, CreditTypes, TameSelf
    <3>2. ASSUME NEW s \in DOMAIN sessions, sessions' = [sessions EXCEPT ![s].streams = @ \cup {q}]
          PROVE  /\ DOMAIN sessions' = DOMAIN sessions
                 /\ \A r \in DOMAIN sessions : Tame(sessions'[r], sessions[r])
      <4> DEFINE sess == [sessions[s] EXCEPT !.streams = @ \cup {q}]
      <4>1. Tame(sess, sessions[s])
        BY CreditTypes DEF Tame, Session, StreamKinds, Kinds
      <4>2. sessions' = [sessions EXCEPT ![s] = sess]
        BY <3>2
      <4> HIDE DEF sess
      <4> QED BY <4>1, <4>2, ReplacedTame
    <3>3. UNCHANGED sessions
            \/ \E s \in DOMAIN sessions : sessions' = [sessions EXCEPT ![s].streams = @ \cup {q}]
      BY <1>2 DEF DataStreamBytes, KnownStreamData, NewDataStream, PendingStreamCompletes,
           NewPendingStream, NewUnreadableStream, IgnoredBytes, Associate
    <3> QED BY <3>1, <3>2, <3>3
  <2> QED BY <1>1, <2>1, <2>2, QuietCredit DEF OnlyStreams, h3Vars
<1>3. CASE H3Bytes(q)
  <2>1. Arrives(q, FALSE) /\ OnlyH3Streams
    BY <1>3 DEF H3Bytes, H3StreamData, NewH3Stream, NewOtherUniStream
  <2> QED BY <1>1, <2>1, SameSessionsCredit DEF OnlyH3Streams
<1> QED BY <1>2, <1>3

LEMMA HeadersFrameCredit ==
  ASSUME Orderly, CreditInv, NEW q \in AllStreams, NEW headers \in HeaderKinds,
         HeadersFrame(q, headers)
  PROVE  CreditParts' /\ LimitsKept
<1> DEFINE e == [kind |-> "HeadersReceived", stream |-> q, headers |-> headers]
<1>1. /\ q \notin peer.headers /\ peer' = [peer EXCEPT !.headers = @ \cup {q}]
      /\ h3_events' = Append(h3_events, e)
      /\ UNCHANGED <<is_server, deferred_requests, next_bidi_stream_id, sessions>>
  BY DEF HeadersFrame, Queued, FrameUnchanged
<1>2. e.kind = "HeadersReceived" /\ e.stream = q
  OBVIOUS
<1> HIDE DEF e
<1>3. peer'.headers = peer.headers \cup {q}
  BY <1>1, CreditTypes DEF TypeOK
<1>4. h3_events \in Seq(H3Events)
  BY CreditTypes DEF TypeOK
<1>5. PICK n : /\ DOMAIN h3_events' = DOMAIN h3_events \cup {n} /\ n \notin DOMAIN h3_events
               /\ h3_events'[n] = e
               /\ \A i \in DOMAIN h3_events : h3_events'[i] = h3_events[i]
  BY <1>1, <1>4, QueueElements
<1>6. \A i \in DOMAIN h3_events : ~IsHeaders(i, q)
  BY <1>1 DEF CreditInv, CreditParts, HeadersOnce
<1>7. \A p : \A i \in DOMAIN h3_events' :
        IsHeaders(i, p)' <=> \/ i = n /\ p = q
                             \/ i \in DOMAIN h3_events /\ IsHeaders(i, p)
  BY <1>2, <1>5 DEF IsHeaders
<1>8. HeadersOnce'
  BY <1>3, <1>5, <1>6, <1>7 DEF CreditInv, CreditParts, HeadersOnce
<1>9. \A p : HeadersWait(p)' => HeadersWait(p) \/ p = q
  BY <1>7 DEF HeadersWait
<1>10. \A s : Unspent(s)' <=> Unspent(s)
  BY <1>1 DEF Unspent
<1>11. SessionsHadHeaders'
  BY <1>1, <1>3, <1>9, <1>10 DEF CreditInv, CreditParts, SessionsHadHeaders
<1>12. SessionsStartUnspent' /\ CreditRespected'
  BY <1>1, <1>10 DEF CreditInv, CreditParts, SessionsStartUnspent, CreditRespected
<1>13. LimitsKept
  BY <1>1, CreditTypes DEF LimitsKept, Session
<1> QED BY <1>8, <1>11, <1>12, <1>13 DEF CreditParts

LEMMA FrameCredit ==
  ASSUME Orderly, CreditInv, TypeOK', NEW q \in AllStreams, Frame(q)
  PROVE  CreditParts' /\ LimitsKept
<1>1. h3_events \in Seq(H3Events)
  BY CreditTypes DEF TypeOK
<1>2. ASSUME NEW headers \in HeaderKinds, HeadersFrame(q, headers)
      PROVE  CreditParts' /\ LimitsKept
  BY <1>2, HeadersFrameCredit
<1>3. ASSUME NEW e, h3_events' = Append(h3_events, e), e.kind # "HeadersReceived",
             UNCHANGED peer.headers, FrameUnchanged
      PROVE  CreditParts' /\ LimitsKept
  <2>1. /\ DOMAIN h3_events' = DOMAIN h3_events \cup {Len(h3_events) + 1}
        /\ h3_events'[Len(h3_events) + 1] = e
        /\ \A i \in DOMAIN h3_events : h3_events'[i] = h3_events[i]
    BY <1>1, <1>3, QueueElements
  <2>2. \A i \in DOMAIN h3_events' : h3_events'[i].kind = "HeadersReceived" =>
          i \in Nat /\ i + 0 \in DOMAIN h3_events /\ h3_events'[i] = h3_events[i + 0]
    BY <1>1, <1>3, <2>1
  <2>3. HeadersOnce' /\ \A p : HeadersWait(p)' => HeadersWait(p)
    BY <1>3, <2>2, HeadersFewer DEF CreditInv, CreditParts
  <2>4. \A s \in DOMAIN sessions : Tame(sessions'[s], sessions[s])
    BY <1>3, CreditTypes, TameSelf DEF FrameUnchanged
  <2> QED BY <1>3, <2>3, <2>4, TameStep DEF FrameUnchanged
<1>4. CASE \/ \E frame \in SettingsFrames : SettingsFrame(q, frame)
           \/ GoawayFrame(q)
           \/ DataFrame(q)
  BY <1>3, <1>4 DEF SettingsFrame, GoawayFrame, DataFrame, Queued
<1>5. ASSUME NEW fin \in BOOLEAN, EndOfChunk(q, fin)
      PROVE  CreditParts' /\ LimitsKept
  <2>1. UNCHANGED peer.headers
    BY <1>5, CreditTypes DEF EndOfChunk, TypeOK
  <2>2. CASE fin /\ h3_streams[q] = "Request"
    BY <1>3, <1>5, <2>1, <2>2 DEF EndOfChunk, Queued
  <2>3. CASE ~(fin /\ h3_streams[q] = "Request")
    BY <1>5, <2>1, <2>3, SameSessionsCredit DEF EndOfChunk, FrameUnchanged
  <2> QED BY <2>2, <2>3
<1>6. \A fin \in BOOLEAN : ~MalformedFrame(q, fin)
  BY DEF MalformedFrame
<1> QED BY <1>2, <1>4, <1>5, <1>6 DEF Frame

LEMMA CapsuleCredit ==
  ASSUME CreditInv, TypeOK', NEW s \in DOMAIN sessions, Capsule(s)
  PROVE  CreditParts' /\ LimitsKept
<1>1. UNCHANGED <<is_server, deferred_requests, next_bidi_stream_id, peer, h3_events>>
  BY DEF Capsule, CloseCapsule, DrainCapsule, MaxCapsule, BadCapsule, TruncatedCapsule,
     EndOfCapsules, CapsuleUnchanged, EventUnchanged
<1>2. sessions[s] \in Session
  BY CreditTypes
<1>3. ASSUME NEW sess, Tame(sess, sessions[s]), sessions' = [sessions EXCEPT ![s] = sess]
      PROVE  CreditParts' /\ LimitsKept
  BY <1>1, <1>3, ReplacedTame, QuietCredit
<1>4. CASE sessions' = WithState(s, "Closed") \/ sessions' = WithState(s, "Draining")
  BY <1>1, <1>4, EndedTame, QuietCredit
<1>5. CASE UNCHANGED sessions
  BY <1>1, <1>5, SameSessionsCredit
<1>6. ASSUME NEW k \in Kinds, NEW v \in CapsuleLimits, MaxCapsule(s, k, v)
      PROVE  CreditParts' /\ LimitsKept
  <2>1. CASE LowersLimit(sessions[s], k, v)
    BY <1>4, <1>6, <2>1 DEF MaxCapsule
  <2>2. CASE ~LowersLimit(sessions[s], k, v)
    <3> DEFINE sess == [sessions[s] EXCEPT !.max[k] = v]
    <3>1. sessions' = [sessions EXCEPT ![s] = sess]
      BY <1>6, <2>2 DEF MaxCapsule
    <3>2. sessions[s].enabled => sessions[s].max[k] <= v
      BY <1>2, <2>2, WtAssumption DEF LowersLimit, Session
    <3>3. Tame(sess, sessions[s])
      BY <1>2, <3>2 DEF Tame, Session, StreamKinds, Kinds
    <3> HIDE DEF sess
    <3> QED BY <1>3, <3>1, <3>3
  <2> QED BY <2>1, <2>2
<1>7. CASE BadCapsule(s)
  <2> DEFINE sess == [sessions[s] EXCEPT !.state = "Closed", !.parser = "Failed"]
  <2>1. sessions' = [sessions EXCEPT ![s] = sess]
    BY <1>7 DEF BadCapsule
  <2>2. Tame(sess, sessions[s])
    BY <1>2 DEF Tame, Session, StreamKinds, Kinds
  <2> HIDE DEF sess
  <2> QED BY <1>3, <2>1, <2>2
<1>8. CASE TruncatedCapsule(s)
  <2> DEFINE sess == [sessions[s] EXCEPT !.parser = "Stalled"]
  <2>1. sessions' = [sessions EXCEPT ![s] = sess]
    BY <1>8 DEF TruncatedCapsule
  <2>2. Tame(sess, sessions[s])
    BY <1>2 DEF Tame, Session, StreamKinds, Kinds
  <2> HIDE DEF sess
  <2> QED BY <1>3, <2>1, <2>2
<1>9. CASE CloseCapsule(s) \/ DrainCapsule(s) \/ EndOfCapsules(s)
  BY <1>4, <1>5, <1>9 DEF CloseCapsule, DrainCapsule, EndOfCapsules
<1> QED BY <1>6, <1>7, <1>8, <1>9 DEF Capsule

\* The queue after an event was taken or an error dropped the rest.
LEMMA EventTaken ==
  ASSUME CreditInv, h3_events # <<>>, UNCHANGED peer,
         h3_events' = Tail(h3_events) \/ h3_events' = <<>>
  PROVE  /\ HeadersOnce'
         /\ \A q : HeadersWait(q)' => HeadersWait(q)
         /\ \A q \in AllStreams : IsHeaders(1, q) => q \in peer.headers /\ HeadersWait(q) /\ ~HeadersWait(q)'
<1>1. h3_events \in Seq(H3Events)
  BY CreditTypes DEF TypeOK
<1>2. /\ 1 \in DOMAIN h3_events
      /\ \A i \in DOMAIN Tail(h3_events) :
           i + 1 \in DOMAIN h3_events /\ Tail(h3_events)[i] = h3_events[i + 1] /\ i \in Nat
  BY <1>1, QueueElements
<1>3. \A i \in DOMAIN Tail(h3_events) : i + 1 # 1
  BY <1>1
<1>4. CASE h3_events' = Tail(h3_events)
  <2>1. HeadersOnce' /\ \A q : HeadersWait(q)' => HeadersWait(q)
    BY <1>2, <1>4, HeadersFewer DEF CreditInv, CreditParts
  <2>2. ASSUME NEW q \in AllStreams, IsHeaders(1, q)
        PROVE  q \in peer.headers /\ ~HeadersWait(q)'
    BY <1>2, <1>3, <1>4, <2>2 DEF HeadersWait, IsHeaders, CreditInv, CreditParts, HeadersOnce
  <2> QED BY <1>2, <2>1, <2>2 DEF HeadersWait
<1>5. CASE h3_events' = <<>>
  <2>1. HeadersOnce' /\ \A q : ~HeadersWait(q)'
    BY <1>5 DEF HeadersOnce, HeadersWait
  <2> QED BY <1>2, <2>1 DEF CreditInv, CreditParts, HeadersOnce, HeadersWait
<1> QED BY <1>4, <1>5

LEMMA SettingsCredit ==
  ASSUME CreditInv, TypeOK', HandleSettings,
         ~Reduces(Head(h3_events).settings, previous_settings)
  PROVE  CreditParts' /\ LimitsKept
<1> DEFINE settings == Head(h3_events).settings
           ids == {deferred_requests[i] : i \in DOMAIN deferred_requests}
           limited == [s \in DOMAIN sessions |-> SetPeerInitialLimits(sessions[s], settings)]
<1>1. /\ h3_events # <<>> /\ Head(h3_events).kind = "SettingsReceived"
      /\ h3_events' = Tail(h3_events) /\ sessions' = Create(limited, ids)
      /\ deferred_requests' = <<>>
      /\ UNCHANGED <<is_server, next_bidi_stream_id, peer>>
  BY DEF HandleSettings, Dispatching, NextEvent, DeferredTaken, EventUnchanged
<1>2. h3_events \in Seq(H3Events)
  BY CreditTypes DEF TypeOK
<1>3. 1 \in DOMAIN h3_events /\ Head(h3_events) = h3_events[1]
  BY <1>1, <1>2, QueueElements
<1>4. DOMAIN sessions = {}
  BY <1>1, <1>3 DEF CreditInv, QueueInv, QueueParts, SettingsOnce, IsSettings
<1>5. DOMAIN sessions' = ids /\ \A s \in ids : sessions'[s] = NewSession
  <2>1. DOMAIN limited = {}
    BY <1>4
  <2> HIDE DEF limited, ids
  <2> QED BY <1>1, <2>1, CreateFacts
<1>6. \A q : ~HeadersWait(q)
  BY <1>1, <1>3 DEF HeadersWait, IsHeaders, CreditInv, QueueInv, QueueParts, OneStream, OfControl
<1>7. HeadersOnce' /\ \A q : ~HeadersWait(q)'
  BY <1>1, <1>6, EventTaken
<1>8. \A s \in ids : is_server /\ s \in peer.headers
  BY DEF CreditInv, CreditParts, SessionsHadHeaders
<1>9. \A k \in Kinds : NewSession.used[k] = 0 /\ NewSession.max[k] = 0
  BY DEF NewSession, NoLimits
<1> HIDE DEF ids, limited, settings
<1>10. \A s \in ids : Unspent(s)'
  BY <1>5, <1>9 DEF Unspent, StreamKinds, Kinds
<1>11. SessionsHadHeaders'
  BY <1>1, <1>5, <1>7, <1>8 DEF SessionsHadHeaders
<1>12. SessionsStartUnspent'
  BY <1>1, <1>5, <1>8, <1>10 DEF SessionsStartUnspent
<1>13. CreditRespected'
  BY <1>5, <1>9 DEF CreditRespected, Kinds
<1>14. LimitsKept
  BY <1>4 DEF LimitsKept
<1> QED BY <1>7, <1>11, <1>12, <1>13, <1>14 DEF CreditParts

\* A server never replaces a session: its request had its HEADERS before.
LEMMA RequestCredit ==
  ASSUME CreditInv, TypeOK', is_server, NEW q \in AllStreams, h3_events # <<>>, IsHeaders(1, q),
         h3_events' = Tail(h3_events),
         UNCHANGED <<is_server, next_bidi_stream_id, peer>>,
         HandleRequest(q)
  PROVE  CreditParts' /\ LimitsKept
<1>1. /\ HeadersOnce' /\ \A p : HeadersWait(p)' => HeadersWait(p)
      /\ q \in peer.headers /\ HeadersWait(q) /\ ~HeadersWait(q)'
  BY EventTaken
<1>2. CASE MustDefer
  <2>1. /\ deferred_requests' = Append(deferred_requests, q) /\ UNCHANGED sessions
    BY <1>2 DEF HandleRequest
  <2>2. \A i \in DOMAIN deferred_requests' :
          \/ i \in DOMAIN deferred_requests /\ deferred_requests'[i] = deferred_requests[i]
          \/ deferred_requests'[i] = q
    <3>1. deferred_requests \in Seq(AllStreams)
      BY CreditTypes DEF TypeOK
    <3> QED BY <2>1, <3>1, QueueElements
  <2>3. \A s : Unspent(s)' <=> Unspent(s)
    BY <2>1 DEF Unspent
  <2>4. SessionsHadHeaders'
    BY <1>1, <2>1, <2>2, <2>3 DEF CreditInv, CreditParts, SessionsHadHeaders
  <2>5. SessionsStartUnspent' /\ CreditRespected'
    BY <2>1, <2>3 DEF CreditInv, CreditParts, SessionsStartUnspent, CreditRespected
  <2>6. LimitsKept
    BY <2>1, CreditTypes DEF LimitsKept, Session
  <2> QED BY <1>1, <2>4, <2>5, <2>6 DEF CreditParts
<1>3. CASE ~MustDefer
  <2>1. q \notin DOMAIN sessions
    BY <1>1 DEF CreditInv, CreditParts, SessionsHadHeaders
  <2>2. sessions' = Create(sessions, {q}) /\ UNCHANGED deferred_requests
    BY <1>3 DEF HandleRequest
  <2>3. /\ DOMAIN sessions' = DOMAIN sessions \cup {q} /\ sessions'[q] = NewSession
        /\ \A s \in DOMAIN sessions : sessions'[s] = sessions[s]
    <3>1. /\ DOMAIN Create(sessions, {q}) = DOMAIN sessions \cup {q}
          /\ \A s \in {q} : Create(sessions, {q})[s] = NewSession
          /\ \A s \in DOMAIN sessions \ {q} : Create(sessions, {q})[s] = sessions[s]
      BY CreateFacts
    <3> QED BY <2>1, <2>2, <3>1
  <2>4. \A k \in Kinds : NewSession.used[k] = 0 /\ NewSession.max[k] = 0
    BY DEF NewSession, NoLimits
  <2>5. Unspent(q)' /\ \A s \in DOMAIN sessions : Unspent(s)' <=> Unspent(s)
    BY <2>3, <2>4 DEF Unspent, StreamKinds, Kinds
  <2>6. SessionsHadHeaders'
    BY <1>1, <2>2, <2>3, <2>5 DEF CreditInv, CreditParts, SessionsHadHeaders
  <2>7. SessionsStartUnspent'
    BY <2>3, <2>5 DEF CreditInv, CreditParts, SessionsStartUnspent
  <2>8. CreditRespected'
    BY <2>3, <2>4 DEF CreditInv, CreditParts, CreditRespected, Kinds
  <2>9. LimitsKept
    BY <2>3, CreditTypes DEF LimitsKept, Session
  <2> QED BY <1>1, <2>6, <2>7, <2>8, <2>9 DEF CreditParts
<1> QED BY <1>2, <1>3

LEMMA EventCredit ==
  ASSUME CreditInv, TypeOK', H3Event
  PROVE  CreditParts' /\ LimitsKept
<1>1. UNCHANGED <<is_server, next_bidi_stream_id, peer>>
  BY DEF H3Event, HandleSettings, HandleHeaders, HandleData, HandleGoAway, HandleFinished,
     EndOfEvents, EventUnchanged
<1>2. ASSUME h3_events # <<>>, h3_events' = Tail(h3_events) \/ h3_events' = <<>>,
             UNCHANGED deferred_requests, DOMAIN sessions' = DOMAIN sessions,
             \A s \in DOMAIN sessions : Tame(sessions'[s], sessions[s])
      PROVE  CreditParts' /\ LimitsKept
  BY <1>1, <1>2, EventTaken, TameStep
<1>3. ASSUME UNCHANGED sessions
      PROVE  /\ DOMAIN sessions' = DOMAIN sessions
             /\ \A s \in DOMAIN sessions : Tame(sessions'[s], sessions[s])
  BY <1>3, CreditTypes, TameSelf
<1>4. CASE HandleSettings
  <2>1. CASE Reduces(Head(h3_events).settings, previous_settings)
    BY <1>2, <1>3, <1>4, <2>1 DEF HandleSettings, Dispatching, Fails
  <2>2. CASE ~Reduces(Head(h3_events).settings, previous_settings)
    BY <1>4, <2>2, SettingsCredit
  <2> QED BY <2>1, <2>2
<1>5. CASE HandleHeaders
  <2> DEFINE e == Head(h3_events)
  <2>1. /\ h3_events # <<>> /\ e.kind = "HeadersReceived" /\ h3_events' = Tail(h3_events)
    BY <1>5 DEF HandleHeaders, Dispatching, NextEvent
  <2>2. e = h3_events[1] /\ e \in H3Events
    <3>1. h3_events \in Seq(H3Events)
      BY CreditTypes DEF TypeOK
    <3> QED BY <2>1, <3>1, QueueElements
  <2>3. e.stream \in AllStreams /\ IsHeaders(1, e.stream)
    BY <2>1, <2>2 DEF H3Events, IsHeaders
  <2>4. CASE is_server /\ e.headers = "webtransport"
    BY <1>1, <1>5, <2>1, <2>3, <2>4, RequestCredit DEF HandleHeaders
  <2>5. CASE is_server /\ e.headers # "webtransport"
    BY <1>2, <1>3, <1>5, <2>1, <2>5 DEF HandleHeaders
  <2>6. CASE ~is_server
    <3> SUFFICES ASSUME NEW q \in AllStreams, NEW headers, q = e.stream, headers = e.headers
                 PROVE  CreditParts' /\ LimitsKept
      BY <2>3
    <3>1. HandleResponse(q, headers) /\ UNCHANGED deferred_requests
      BY <1>5, <2>6 DEF HandleHeaders, HandleResponse
    <3>2. CASE q \in DOMAIN sessions /\ headers = "accepted"
      <4>1. /\ DOMAIN sessions' = DOMAIN sessions
            /\ \A r \in DOMAIN sessions \ {q} : sessions'[r] = sessions[r]
            /\ EstablishedFrom(sessions'[q], sessions[q])
        BY <3>1, <3>2, CreditTypes, ResponseFacts
      <4>2. /\ HeadersOnce' /\ \A p : HeadersWait(p)' => HeadersWait(p) /\ p # q
            /\ q \in peer.headers /\ HeadersWait(q)
        BY <1>1, <2>1, <2>3, EventTaken
      <4>3. sessions[q].state # "Established" /\ Unspent(q)
        BY <3>2, <4>2 DEF CreditInv, CreditParts, SessionsHadHeaders
      <4> QED BY <1>1, <3>1, <3>2, <4>1, <4>2, <4>3, EstablishedCredit
    <3>3. CASE q \in DOMAIN sessions /\ headers # "accepted"
      BY <1>2, <2>1, <3>1, <3>3, EndedTame DEF HandleResponse
    <3>4. CASE q \notin DOMAIN sessions
      BY <1>2, <1>3, <2>1, <3>1, <3>4 DEF HandleResponse
    <3> QED BY <3>2, <3>3, <3>4
  <2> QED BY <2>4, <2>5, <2>6
<1>6. CASE HandleData \/ HandleGoAway
  <2>1. /\ h3_events # <<>> /\ UNCHANGED <<deferred_requests, sessions>>
        /\ h3_events' = Tail(h3_events) \/ h3_events' = <<>>
    BY <1>6 DEF HandleData, HandleGoAway, Dispatching, NextEvent, Fails
  <2> QED BY <1>2, <1>3, <2>1
<1>7. CASE HandleFinished
  <2>1. h3_events # <<>> /\ h3_events' = Tail(h3_events) /\ UNCHANGED deferred_requests
    BY <1>7 DEF HandleFinished, Dispatching, NextEvent
  <2>2. UNCHANGED sessions \/ \E q \in DOMAIN sessions : sessions' = WithState(q, "Closed")
    BY <1>7 DEF HandleFinished
  <2> QED BY <1>2, <1>3, <2>1, <2>2, EndedTame
<1>8. CASE EndOfEvents
  BY <1>1, <1>8, SameSessionsCredit DEF EndOfEvents
<1> QED BY <1>4, <1>5, <1>6, <1>7, <1>8 DEF H3Event

LEMMA CreditInit == Init => CreditInv
BY QueueInit DEF Init, CreditInv, CreditParts, HeadersOnce, SessionsHadHeaders,
   SessionsStartUnspent, CreditRespected, HeadersWait, EmptyMap

LEMMA CreditStep ==
  ASSUME Orderly, CreditInv, [Next]_vars
  PROVE  CreditInv' /\ LimitsKept
<1>1. QueueInv' /\ TypeOK'
  BY QueueStep DEF CreditInv, QueueInv, SettingsInv
<1>2. CreditParts' /\ LimitsKept
  <2>1. CASE UNCHANGED connVars
    BY <1>1, <2>1, SameSessionsCredit DEF connVars, h3Vars
  <2>2. CASE Next
    BY <1>1, <2>1, <2>2, AppCallCredit, ArrivalCredit, FrameCredit, EventCredit, CapsuleCredit
    DEF Next, ReceiveDatagram
  <2> QED BY <2>1, <2>2 DEF vars
<1> QED BY <1>1, <1>2 DEF CreditInv

\* With a peer that follows RFC 9114 a session never has more streams open than the
\* limit in force, whichever of four handlers replaced that limit last.
THEOREM CreditCorrect ==
  ASSUME Orderly
  PROVE  Spec => []CreditRespected
<1>1. CreditInv => CreditRespected
  BY DEF CreditInv, CreditParts
<1>2. CreditInv /\ [Next]_vars => CreditInv'
  BY CreditStep
<1> QED BY <1>1, <1>2, CreditInit, PTL DEF Spec

\* With such a peer the limits of an established session never fall: SETTINGS, a
\* response and accept_session come before it is established, capsules only raise them.
THEOREM LimitsCorrect ==
  ASSUME Orderly
  PROVE  Spec => LimitsGrow
<1>1. CreditInv /\ [Next]_vars => CreditInv'
  BY CreditStep
<1>2. CreditInv /\ [Next]_vars =>
        [\A s \in DOMAIN sessions : \A k \in Kinds :
           sessions[s].state = "Established" /\ sessions[s].enabled =>
             sessions[s].max[k] <= sessions'[s].max[k]]_vars
  BY CreditStep DEF LimitsKept
<1> QED BY <1>1, <1>2, CreditInit, PTL DEF Spec, LimitsGrow

---------------------------------------------------------------------------
(* Closing is reported once.                                               *)

\* What CloseReported says of a step.
CloseToldOnce ==
  \A s \in DOMAIN sessions :
    /\ SessionClosed(s) \in events' => ~IsClosed(s) /\ IsClosed(s)'
    /\ ~Idle /\ ~IsClosed(s) /\ IsClosed(s)' => SessionClosed(s) \in events'

\* handle_session_close.
LEMMA ClosedOnce ==
  ASSUME SessionsOK, NEW s \in DOMAIN sessions, events' = ReportClose(s),
         DOMAIN sessions' = DOMAIN sessions, sessions'[s].state = "Closed",
         \A r \in DOMAIN sessions \ {s} : sessions'[r].state = sessions[r].state
  PROVE  CloseToldOnce
BY DEF CloseToldOnce, ReportClose, SessionClosed, IsClosed

\* A step that reports no closing, of the application or one that closes nothing.
LEMMA NothingClosed ==
  ASSUME \A s \in DOMAIN sessions : SessionClosed(s) \notin events',
         \/ Idle
         \/ \A s \in DOMAIN sessions : sessions'[s].state = "Closed" => IsClosed(s)
  PROVE  CloseToldOnce
BY DEF CloseToldOnce, IsClosed

LEMMA CloseStep ==
  ASSUME TypeOK, Next
  PROVE  CloseToldOnce
<1>1. SessionsOK /\ \A s \in DOMAIN sessions : sessions[s] \in Session
  BY TypeParts, SessionOf
<1>2. ASSUME events' = {}, Idle \/ UNCHANGED sessions
      PROVE  CloseToldOnce
  BY <1>2, NothingClosed DEF IsClosed
<1>3. ASSUME NEW s \in DOMAIN sessions, sessions' = WithState(s, "Closed"), events' = ReportClose(s)
      PROVE  CloseToldOnce
  BY <1>1, <1>3, WithStateFacts, ClosedOnce
<1>4. CASE AppCall
  BY <1>2, <1>4 DEF AppCall, Connect, AcceptSession, RejectSession, OpenStream,
       RegisterOutgoingStream, CloseSession, DrainSession, SendData, Set0rttSettings
<1>5. ASSUME NEW q \in AllStreams, NEW fin \in BOOLEAN, DataStreamBytes(q, fin)
      PROVE  CloseToldOnce
  <2>1. Idle
    BY <1>5 DEF DataStreamBytes, KnownStreamData, NewDataStream, PendingStreamCompletes,
         NewPendingStream, NewUnreadableStream, IgnoredBytes, Arrives
  <2>2. \A s \in DOMAIN sessions : SessionClosed(s) \notin events'
    BY <1>5 DEF DataStreamBytes, KnownStreamData, NewDataStream, PendingStreamCompletes,
         NewPendingStream, NewUnreadableStream, IgnoredBytes, Associate, DataEvents, SessionClosed,
         StreamReceived, StreamData, StreamFinished
  <2> QED BY <2>1, <2>2, NothingClosed
<1>6. ASSUME NEW q \in AllStreams, H3Bytes(q) \/ Frame(q)
      PROVE  CloseToldOnce
  BY <1>2, <1>6
  DEF H3Bytes, H3StreamData, NewH3Stream, NewOtherUniStream, OnlyH3Streams, Frame, SettingsFrame,
      GoawayFrame, HeadersFrame, DataFrame, MalformedFrame, EndOfChunk, FrameUnchanged
<1>7. ASSUME NEW s \in HeaderSessionIds, ReceiveDatagram(s)
      PROVE  CloseToldOnce
  BY <1>7, NothingClosed DEF ReceiveDatagram, Datagram, SessionClosed
<1>8. CASE HandleSettings
  <2> DEFINE settings == Head(h3_events).settings
             ids == {deferred_requests[i] : i \in DOMAIN deferred_requests}
             limited == [s \in DOMAIN sessions |-> SetPeerInitialLimits(sessions[s], settings)]
  <2>1. CASE Reduces(settings, previous_settings)
    BY <1>2, <1>8, <2>1 DEF HandleSettings
  <2>2. CASE ~Reduces(settings, previous_settings)
    <3>1. sessions' = Create(limited, ids) /\ events' = {SessionRequest(s) : s \in ids}
      BY <1>8, <2>2 DEF HandleSettings
    <3>2. \A s \in DOMAIN sessions : limited[s].state = sessions[s].state
      BY <1>1 DEF SetPeerInitialLimits, Session
    <3>3. DOMAIN limited = DOMAIN sessions
      OBVIOUS
    <3>4. \A s \in DOMAIN sessions : SessionClosed(s) \notin events'
      BY <3>1 DEF SessionRequest, SessionClosed
    <3> HIDE DEF limited, ids
    <3>5. \A s \in DOMAIN sessions : sessions'[s].state = "Closed" => IsClosed(s)
      <4>1. NewSession.state = "Connecting"
        BY DEF NewSession
      <4>2. /\ DOMAIN Create(limited, ids) = DOMAIN limited \cup ids
            /\ \A s \in ids : Create(limited, ids)[s] = NewSession
            /\ \A s \in DOMAIN limited \ ids : Create(limited, ids)[s] = limited[s]
        BY CreateFacts
      <4> QED BY <3>1, <3>2, <3>3, <4>1, <4>2 DEF IsClosed
    <3> QED BY <3>4, <3>5, NothingClosed
  <2> QED BY <2>1, <2>2
<1>9. CASE HandleHeaders
  <2> SUFFICES ASSUME NEW q, NEW headers,
                      \/ HandleRequest(q)
                      \/ HandleResponse(q, headers)
                      \/ events' = {} /\ UNCHANGED sessions
               PROVE  CloseToldOnce
    BY <1>9 DEF HandleHeaders
  <2>1. CASE HandleRequest(q)
    <3>1. CASE MustDefer
      BY <1>2, <2>1, <3>1 DEF HandleRequest
    <3>2. CASE ~MustDefer
      <4>1. sessions' = Create(sessions, {q}) /\ events' = {SessionRequest(q)}
        BY <2>1, <3>2 DEF HandleRequest
      <4>2. NewSession.state = "Connecting"
        BY DEF NewSession
      <4>3. /\ DOMAIN Create(sessions, {q}) = DOMAIN sessions \cup {q}
            /\ \A s \in {q} : Create(sessions, {q})[s] = NewSession
            /\ \A s \in DOMAIN sessions \ {q} : Create(sessions, {q})[s] = sessions[s]
        BY CreateFacts
      <4>4. \A s \in DOMAIN sessions : sessions'[s].state = "Closed" => IsClosed(s)
        BY <4>1, <4>2, <4>3 DEF IsClosed
      <4> QED BY <4>1, <4>4, NothingClosed DEF SessionRequest, SessionClosed
    <3> QED BY <3>1, <3>2
  <2>2. CASE HandleResponse(q, headers)
    <3>1. CASE q \notin DOMAIN sessions
      BY <1>2, <2>2, <3>1 DEF HandleResponse
    <3>2. CASE q \in DOMAIN sessions /\ headers = "accepted"
      <4>1. /\ \A r \in DOMAIN sessions \ {q} : sessions'[r] = sessions[r]
            /\ sessions'[q].state = "Established"
        BY <1>1, <2>2, <3>2, ResponseFacts DEF EstablishedFrom
      <4>2. events' = {SessionEstablished(q)}
        BY <2>2, <3>2 DEF HandleResponse
      <4>3. \A s \in DOMAIN sessions : SessionClosed(s) \notin events'
        BY <4>2 DEF SessionEstablished, SessionClosed
      <4> QED BY <4>1, <4>3, NothingClosed DEF IsClosed
    <3>3. CASE q \in DOMAIN sessions /\ headers # "accepted"
      BY <1>3, <2>2, <3>3 DEF HandleResponse
    <3> QED BY <3>1, <3>2, <3>3
  <2> QED BY <1>2, <2>1, <2>2
<1>10. CASE HandleData \/ EndOfEvents
  BY <1>2, <1>10 DEF HandleData, EndOfEvents
<1>11. CASE HandleGoAway
  BY <1>11, NothingClosed DEF HandleGoAway, GoAway, SessionClosed, IsClosed
<1>12. CASE HandleFinished
  BY <1>2, <1>3, <1>12 DEF HandleFinished
<1>13. ASSUME NEW s \in DOMAIN sessions, Capsule(s)
       PROVE  CloseToldOnce
  <2>1. CASE CloseCapsule(s) \/ EndOfCapsules(s)
    BY <1>2, <1>3, <2>1 DEF CloseCapsule, EndOfCapsules
  <2>2. CASE DrainCapsule(s)
    <3>1. \A r \in DOMAIN sessions : sessions'[r].state = "Closed" => IsClosed(r)
      BY <1>1, <2>2, WithStateFacts DEF DrainCapsule, IsClosed
    <3> QED BY <2>2, <3>1, NothingClosed DEF DrainCapsule, SessionDraining, SessionClosed
  <2>3. ASSUME NEW k \in Kinds, NEW v \in CapsuleLimits, MaxCapsule(s, k, v)
        PROVE  CloseToldOnce
    <3>1. CASE LowersLimit(sessions[s], k, v)
      BY <1>3, <2>3, <3>1 DEF MaxCapsule
    <3>2. CASE ~LowersLimit(sessions[s], k, v)
      <4>1. \A r \in DOMAIN sessions : sessions'[r].state = sessions[r].state
        BY <1>1, <2>3, <3>2 DEF MaxCapsule, Session
      <4> QED BY <2>3, <3>2, <4>1, NothingClosed DEF MaxCapsule, IsClosed
    <3> QED BY <3>1, <3>2
  <2>4. CASE BadCapsule(s)
    <3> DEFINE sess == [sessions[s] EXCEPT !.state = "Closed", !.parser = "Failed"]
    <3>1. sessions' = [sessions EXCEPT ![s] = sess] /\ events' = ReportClose(s)
      BY <2>4 DEF BadCapsule
    <3>2. sess.state = "Closed"
      BY <1>1 DEF Session
    <3> HIDE DEF sess
    <3> QED BY <1>1, <3>1, <3>2, ReplaceFacts, ClosedOnce
  <2>5. CASE TruncatedCapsule(s)
    <3>1. \A r \in DOMAIN sessions : sessions'[r].state = sessions[r].state
      BY <1>1, <2>5 DEF TruncatedCapsule, Session
    <3> QED BY <2>5, <3>1, NothingClosed DEF TruncatedCapsule, IsClosed
  <2> QED BY <1>13, <2>1, <2>2, <2>3, <2>4, <2>5 DEF Capsule
<1> QED BY <1>4, <1>5, <1>6, <1>7, <1>8, <1>9, <1>10, <1>11, <1>12, <1>13 DEF Next, H3Event

\* The application hears of each closing once, when it happens, and of every one
\* the peer causes, whatever the peer sends.
THEOREM CloseCorrect == Spec => CloseReported
<1>1. TypeOK /\ [Next]_vars =>
        [\A s \in DOMAIN sessions :
           /\ SessionClosed(s) \in events' => ~IsClosed(s) /\ IsClosed(s)'
           /\ ~Idle /\ ~IsClosed(s) /\ IsClosed(s)' => SessionClosed(s) \in events']_vars
  BY CloseStep DEF CloseToldOnce
<1> QED BY <1>1, InitType, NextType, PTL DEF Spec, CloseReported

=============================================================================
