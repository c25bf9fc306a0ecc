------------------------------- MODULE Relay -------------------------------
(***************************************************************************)
(* The sans-IO MoQ relay of moq-relay/src: one value of type Relay, driven *)
(* by Relay::on_event, which handles one input event at a time and returns *)
(* the output events the driver has to carry out.  Every action below is   *)
(* one whole handler; `out' holds the events the last handler returned.    *)
(*                                                                         *)
(* The environment is arbitrary: a peer may send any message of the kinds  *)
(* it is modelled as sending (Sends) at any moment, with any request id    *)
(* and any alias.  RelayNetwork composes the relay with peers that follow  *)
(* the protocol.                                                           *)
(*                                                                         *)
(* Abstracted data: parameters, extensions, reason phrases, status codes,  *)
(* payloads and the channel a reply is written to.                         *)
(***************************************************************************)
EXTENDS Integers, Sequences, FiniteSets, Functions, Maps

CONSTANTS
  Sessions,            \* session keys the driver hands out
  Roles,               \* the relay's own role in a session: "Server", "Client"
  Sends,               \* Sends[s]: the kinds of message the peer of s may send
  Namespaces,          \* namespaces a publisher may announce (tuples of fields)
  Tracks,              \* full track names: [namespace |-> tuple, name |-> value]
  RequestIds,          \* request ids that occur in messages from peers
  InboundAliases,      \* track aliases a publisher may choose
  InitialLocalMax,     \* RelayConfig.initial_local_max_request_id_exclusive
  InitialPeerMax,      \* RelayConfig.initial_peer_max_request_id_exclusive
  PeerMaxValues        \* limits a peer may announce in SERVER_SETUP, MAX_REQUEST_ID

MessageKinds ==
  {"CLIENT_SETUP", "SERVER_SETUP", "MAX_REQUEST_ID", "REQUESTS_BLOCKED",
   "GOAWAY", "OTHER", "PUBLISH_NAMESPACE", "SUBSCRIBE", "UNSUBSCRIBE",
   "SUBSCRIBE_OK", "REQUEST_ERROR", "PUBLISH_DONE", "OBJECT"}

\* A decoded namespace has at least one field (moq-protocol/src/types.rs:88).
ASSUME NamespacesAssumption ==
  /\ \A ns \in Namespaces : Len(ns) \in Nat \ {0}
  /\ \A t \in Tracks : Len(t.namespace) \in Nat \ {0}

ASSUME FiniteAssumption ==
  /\ IsFiniteSet(Sessions)
  /\ IsFiniteSet(Tracks)

ASSUME LimitsAssumption ==
  /\ InitialLocalMax \in Nat
  /\ InitialPeerMax \in Nat
  /\ PeerMaxValues \subseteq Nat
  /\ RequestIds \subseteq Nat
  /\ InboundAliases \subseteq Nat
  /\ Roles \subseteq {"Server", "Client"}
  /\ Sends \in [Sessions -> SUBSET MessageKinds]

VARIABLES
  sessions,                  \* open sessions: key -> Session
  publishers_by_namespace,   \* namespace -> sessions that announced it
  tracks,                    \* track -> TrackRoute
  upstream_request_index,    \* <<publisher, request id>> -> track
  downstream_request_index,  \* <<subscriber, request id>> -> track
  out                        \* output events of the last handler

relayVars == <<sessions, publishers_by_namespace, tracks,
               upstream_request_index, downstream_request_index>>
vars == <<sessions, publishers_by_namespace, tracks,
          upstream_request_index, downstream_request_index, out>>

---------------------------------------------------------------------------
(* Output events.                                                          *)

SendServerSetup(s, max) == [to |-> s, kind |-> "SERVER_SETUP", max |-> max]
SendRequestOk(s, r) == [to |-> s, kind |-> "REQUEST_OK", id |-> r]
SendSubscribe(s, r, t) == [to |-> s, kind |-> "SUBSCRIBE", id |-> r, track |-> t]
SendSubscribeOk(s, r, a) == [to |-> s, kind |-> "SUBSCRIBE_OK", id |-> r, alias |-> a]
SendRequestError(s, r) == [to |-> s, kind |-> "REQUEST_ERROR", id |-> r]
SendUnsubscribe(s, r) == [to |-> s, kind |-> "UNSUBSCRIBE", id |-> r]
SendPublishDone(s, r) == [to |-> s, kind |-> "PUBLISH_DONE", id |-> r]
SendObject(s, a) == [to |-> s, kind |-> "OBJECT", alias |-> a]
CloseSession(s, error) == [to |-> s, kind |-> "CLOSE", error |-> error]

---------------------------------------------------------------------------
(* A session (session.rs).  local_max_exclusive never changes after        *)
(* Session::new and is InitialLocalMax; sent_requests_blocked_for,         *)
(* subscribed_prefixes and outbound_aliases are never read.                *)

FirstPeerId(role) == IF role = "Client" THEN 1 ELSE 0
FirstLocalId(role) == IF role = "Client" THEN 0 ELSE 1
PeerParity(role) == IF role = "Client" THEN 1 ELSE 0

\* Mutant: aliases start at 0.
FirstAliasZero == 0

FirstAlias == 1

NewSession(role) ==
  [role                 |-> role,
   setup                |-> "AwaitingPeerSetup",
   goaway_received      |-> FALSE,
   peer_next_expected   |-> FirstPeerId(role),
   local_next           |-> FirstLocalId(role),
   peer_max_exclusive   |-> InitialPeerMax,
   next_outbound        |-> FirstAlias,
   published_namespaces |-> {},
   inbound_aliases      |-> EmptyMap]

\* Mutant: an id may be used again.
PeerRequestIdUnordered(sess, r) ==
  IF r % 2 # PeerParity(sess.role) THEN "InvalidRequestId"
  ELSE IF r >= InitialLocalMax THEN "TooManyRequests"
  ELSE "Ok"

\* Session::validate_peer_new_request_id: the error, or "Ok".
PeerRequestIdVerdict(sess, r) ==
  IF r % 2 # PeerParity(sess.role) THEN "InvalidRequestId"
  ELSE IF r # sess.peer_next_expected THEN "InvalidRequestId"
  ELSE IF r >= InitialLocalMax THEN "TooManyRequests"
  ELSE "Ok"

\* Mutant: the exclusive limit is taken as inclusive.
CanAllocateInclusive(sess) == sess.local_next <= sess.peer_max_exclusive

\* Session::alloc_local_request_id returns an id, not None.
CanAllocate(sess) == sess.local_next < sess.peer_max_exclusive

---------------------------------------------------------------------------
(* A route (route.rs).  forward_current is written and never read.         *)

NoAlias == -1

NewDownstream ==
  [state |-> "Pending", forward_desired |-> TRUE, outbound_alias |-> NoAlias]

NewLeg(r) == [request_id |-> r, state |-> "Pending", inbound_alias |-> NoAlias]

NewRoute == [downstream_subs |-> EmptyMap, upstream_subs |-> EmptyMap]

RouteOf(t) == IF t \in DOMAIN tracks THEN tracks[t] ELSE NewRoute

IsLive(leg) == leg.state \in {"Pending", "Established"}

DownstreamIn(route, states) ==
  {d \in DOMAIN route.downstream_subs : route.downstream_subs[d].state \in states}

\* Mutant: one terminated leg is enough.
SomeUpstreamTerminated(route) ==
  \E p \in DOMAIN route.upstream_subs : route.upstream_subs[p].state = "Terminated"

AllUpstreamTerminated(route) ==
  /\ DOMAIN route.upstream_subs # {}
  /\ \A p \in DOMAIN route.upstream_subs : route.upstream_subs[p].state = "Terminated"

\* Mutant: established subscriptions are overlooked.
NoPendingDownstream(route) == DownstreamIn(route, {"Pending"}) = {}

NoActiveDownstream(route) == DownstreamIn(route, {"Pending", "Established"}) = {}

\* Mutant: a leg that was only requested counts as established.
HasLiveUpstream(route) ==
  \E p \in DOMAIN route.upstream_subs : IsLive(route.upstream_subs[p])

HasEstablishedUpstream(route) ==
  \E p \in DOMAIN route.upstream_subs : route.upstream_subs[p].state = "Established"

LiveLegs(route) == {p \in DOMAIN route.upstream_subs : IsLive(route.upstream_subs[p])}

TerminateDownstream(route, ds) ==
  [route EXCEPT !.downstream_subs =
     [d \in DOMAIN route.downstream_subs |->
        IF d \in ds THEN [route.downstream_subs[d] EXCEPT !.state = "Terminated"]
        ELSE route.downstream_subs[d]]]

\* Mutant: a leg keeps its state.
TerminateNoLegs(route, ps) == route

TerminateLegs(route, ps) ==
  [route EXCEPT !.upstream_subs =
     [p \in DOMAIN route.upstream_subs |->
        IF p \in ps THEN [route.upstream_subs[p] EXCEPT !.state = "Terminated"]
        ELSE route.upstream_subs[p]]]

\* Mutant: terminated legs are told again.
UnsubscribeAllLegs(route) ==
  {SendUnsubscribe(p, route.upstream_subs[p].request_id) : p \in DOMAIN route.upstream_subs}

\* Mutant: a publisher that has answered is not told.
UnsubscribePendingLegs(route) ==
  {SendUnsubscribe(p, route.upstream_subs[p].request_id) :
     p \in {q \in LiveLegs(route) : route.upstream_subs[q].state = "Pending"}}

\* The UNSUBSCRIBE messages that end every live leg of `route'.
UnsubscribeLegs(route) ==
  {SendUnsubscribe(p, route.upstream_subs[p].request_id) : p \in LiveLegs(route)}

\* Mutant: a route is only dropped when it has no legs.
StoreRouteWithLegs(t, route, empty) ==
  IF empty /\ DOMAIN route.upstream_subs = {} THEN Drop(tracks, {t})
  ELSE Put(tracks, t, route)

\* The map of routes after `t' was changed to `route', which is dropped when
\* the handler finds it `empty'.
StoreRoute(t, route, empty) ==
  IF empty THEN Drop(tracks, {t}) ELSE Put(tracks, t, route)

---------------------------------------------------------------------------
(* Namespace matching.  match_publishers_for_namespace looks up every      *)
(* prefix of a track's namespace; handle_publish_namespace compares field  *)
(* by field.                                                               *)

MatchPublishers(ns) ==
  UNION {publishers_by_namespace[p] :
           p \in {q \in DOMAIN publishers_by_namespace :
                    \E k \in 1..Len(ns) : q = SubSeq(ns, 1, k)}}

IsNamespacePrefix(pub, ns) ==
  /\ Len(pub) <= Len(ns)
  /\ \A i \in 1..Len(pub) : pub[i] = ns[i]

---------------------------------------------------------------------------
(* Handlers.                                                               *)

Init ==
  /\ sessions = EmptyMap
  /\ publishers_by_namespace = EmptyMap
  /\ tracks = EmptyMap
  /\ upstream_request_index = EmptyMap
  /\ downstream_request_index = EmptyMap
  /\ out = {}

\* The peer of the open session `s' sends a message of this kind.
Receives(s, kind) == s \in DOMAIN sessions /\ kind \in Sends[s]

\* Mutant: setup is never checked.
SetupAssumed(s) == TRUE

SetupDone(s) == sessions[s].setup = "SetupComplete"

\* The handler returns early and asks the driver to close the session.
Refuse(s, error) ==
  /\ out' = {CloseSession(s, error)}
  /\ UNCHANGED relayVars

Ignore ==
  /\ out' = {}
  /\ UNCHANGED relayVars

\* SessionOpened.  The driver uses a key that is not open.
OnSessionOpened(s, role) ==
  /\ s \notin DOMAIN sessions
  /\ sessions' = Put(sessions, s, NewSession(role))
  /\ out' = {}
  /\ UNCHANGED <<publishers_by_namespace, tracks, upstream_request_index,
                 downstream_request_index>>

\* Mutant: only the publisher's leg is removed.
RouteWithoutLeg(route, s) ==
  [downstream_subs |-> route.downstream_subs,
   upstream_subs |-> Drop(route.upstream_subs, {s})]

RouteWithout(route, s) ==
  [downstream_subs |->
     Drop(route.downstream_subs, {d \in DOMAIN route.downstream_subs : d[1] = s}),
   upstream_subs |-> Drop(route.upstream_subs, {s})]

\* Mutant: the last publisher of a namespace leaves an empty set behind.
PublishersLeft(s) ==
  [n \in DOMAIN publishers_by_namespace |->
     IF n \in sessions[s].published_namespaces
     THEN publishers_by_namespace[n] \ {s} ELSE publishers_by_namespace[n]]

\* The namespace index without the publisher `s'.
PublishersWithout(s) ==
  LET left(n) == IF n \in sessions[s].published_namespaces
                 THEN publishers_by_namespace[n] \ {s} ELSE publishers_by_namespace[n]
      gone == {n \in sessions[s].published_namespaces :
                 n \in DOMAIN publishers_by_namespace /\ left(n) = {}}
  IN [n \in DOMAIN publishers_by_namespace \ gone |-> left(n)]

\* SessionClosed.  The entries of upstream_request_index that belong to other
\* publishers stay, also those of the legs this handler terminates.
OnSessionClosed(s) ==
  /\ s \in DOMAIN sessions
  /\ LET left == [t \in DOMAIN tracks |-> RouteWithout(tracks[t], s)]
         idle == {t \in DOMAIN tracks : NoActiveDownstream(left[t])}
         empty == {t \in DOMAIN tracks : /\ DOMAIN left[t].downstream_subs = {}
                                         /\ DOMAIN left[t].upstream_subs = {}}
         lost == {d \in UNION {DOMAIN tracks[t].downstream_subs : t \in DOMAIN tracks} :
                    d[1] = s}
     IN /\ tracks' = [t \in DOMAIN tracks \ empty |->
                        IF t \in idle THEN TerminateLegs(left[t], LiveLegs(left[t]))
                        ELSE left[t]]
        /\ upstream_request_index' =
             IF \E t \in DOMAIN tracks : s \in DOMAIN tracks[t].upstream_subs
             THEN Drop(upstream_request_index,
                       {k \in DOMAIN upstream_request_index : k[1] = s})
             ELSE upstream_request_index
        /\ downstream_request_index' = Drop(downstream_request_index, lost)
        /\ out' = UNION {UnsubscribeLegs(left[t]) : t \in idle}
  /\ publishers_by_namespace' = PublishersWithout(s)
  /\ sessions' = Drop(sessions, {s})

\* on_control_message for a session the relay does not have.
MessageFromUnknownSession(s) ==
  /\ s \notin DOMAIN sessions
  /\ Refuse(s, "ProtocolViolation")

HandleClientSetup(s) ==
  /\ Receives(s, "CLIENT_SETUP")
  /\ IF sessions[s].role # "Server" \/ SetupDone(s)
     THEN Refuse(s, "ProtocolViolation")
     ELSE /\ sessions' = [sessions EXCEPT ![s].setup = "SetupComplete"]
          /\ out' = {SendServerSetup(s, InitialLocalMax)}
          /\ UNCHANGED <<publishers_by_namespace, tracks, upstream_request_index,
                         downstream_request_index>>

\* SERVER_SETUP without a MAX_REQUEST_ID parameter.
NoLimit == -1

\* The announced limit replaces the configured one, also when it is lower.
HandleServerSetup(s, max) ==
  /\ Receives(s, "SERVER_SETUP")
  /\ IF sessions[s].role # "Client" \/ SetupDone(s)
     THEN Refuse(s, "ProtocolViolation")
     ELSE /\ sessions' = [sessions EXCEPT
               ![s].setup = "SetupComplete",
               ![s].peer_max_exclusive = IF max = NoLimit THEN @ ELSE max]
          /\ out' = {}
          /\ UNCHANGED <<publishers_by_namespace, tracks, upstream_request_index,
                         downstream_request_index>>

\* Mutant: the announced limit is added to the one on record.
HandleMaxRequestIdAdded(s, max) ==
  /\ Receives(s, "MAX_REQUEST_ID")
  /\ sessions' = [sessions EXCEPT ![s].peer_max_exclusive = @ + max]
  /\ out' = {}
  /\ UNCHANGED <<publishers_by_namespace, tracks, upstream_request_index,
                 downstream_request_index>>

\* Session::on_peer_max_request_id.  Nothing that was blocked is retried.
HandleMaxRequestId(s, max) ==
  /\ Receives(s, "MAX_REQUEST_ID")
  /\ IF max + 1 <= sessions[s].peer_max_exclusive
     THEN Refuse(s, "ProtocolViolation")
     ELSE /\ sessions' = [sessions EXCEPT ![s].peer_max_exclusive = max + 1]
          /\ out' = {}
          /\ UNCHANGED <<publishers_by_namespace, tracks, upstream_request_index,
                         downstream_request_index>>

HandleGoaway(s) ==
  /\ Receives(s, "GOAWAY")
  /\ IF sessions[s].goaway_received
     THEN Refuse(s, "ProtocolViolation")
     ELSE /\ sessions' = [sessions EXCEPT ![s].goaway_received = TRUE]
          /\ out' = {}
          /\ UNCHANGED <<publishers_by_namespace, tracks, upstream_request_index,
                         downstream_request_index>>

HandleRequestsBlocked(s) == Receives(s, "REQUESTS_BLOCKED") /\ Ignore

\* Every message without a handler.
HandleOther(s) ==
  /\ Receives(s, "OTHER")
  /\ IF SetupDone(s) THEN Ignore ELSE Refuse(s, "ProtocolViolation")

---------------------------------------------------------------------------
(* PUBLISH_NAMESPACE.                                                      *)

\* Tracks that want a leg to the publisher `s' of `ns'.
TracksWanting(s, ns) ==
  {t \in DOMAIN tracks : /\ IsNamespacePrefix(ns, t.namespace)
                         /\ s \notin DOMAIN tracks[t].upstream_subs
                         /\ ~NoActiveDownstream(tracks[t])}

\* The tracks are a HashMap, visited in any order; each visited track takes the
\* publisher's next request id until none is left.  An allocation maps the
\* tracks that got an id to their ids.
Allocations(sess, wanting) ==
  LET Id(k) == sess.local_next + 2 * (k - 1)
      ids == {Id(k) : k \in {j \in 1..Cardinality(wanting) : Id(j) < sess.peer_max_exclusive}}
  IN UNION {Bijection(served, ids) : served \in SUBSET wanting}

HandlePublishNamespace(s, r, ns) ==
  /\ Receives(s, "PUBLISH_NAMESPACE")
  /\ IF ~SetupDone(s) THEN Refuse(s, "ProtocolViolation")
     ELSE IF PeerRequestIdVerdict(sessions[s], r) # "Ok"
     THEN Refuse(s, PeerRequestIdVerdict(sessions[s], r))
     ELSE \E idOf \in Allocations(sessions[s], TracksWanting(s, ns)) :
       /\ sessions' = [sessions EXCEPT
            ![s].peer_next_expected = r + 2,
            ![s].published_namespaces = @ \cup {ns},
            ![s].local_next = @ + 2 * Cardinality(DOMAIN idOf)]
       /\ publishers_by_namespace' =
            Put(publishers_by_namespace, ns,
                {s} \cup IF ns \in DOMAIN publishers_by_namespace
                         THEN publishers_by_namespace[ns] ELSE {})
       /\ tracks' = [t \in DOMAIN tracks |->
            IF t \in DOMAIN idOf
            THEN [tracks[t] EXCEPT !.upstream_subs = Put(@, s, NewLeg(idOf[t]))]
            ELSE tracks[t]]
       /\ upstream_request_index' =
            Merge(upstream_request_index,
                  [k \in {<<s, idOf[t]>> : t \in DOMAIN idOf} |->
                     CHOOSE t \in DOMAIN idOf : idOf[t] = k[2]])
       /\ out' = {SendRequestOk(s, r)} \cup
                 {SendSubscribe(s, idOf[t], t) : t \in DOMAIN idOf}
       /\ UNCHANGED downstream_request_index

---------------------------------------------------------------------------
(* SUBSCRIBE from a downstream subscriber.                                 *)

\* An upstream leg is established: answered at once.
SubscribeJoins(s, r, t) ==
  LET alias == sessions[s].next_outbound
      route == RouteOf(t)
      joined == [state |-> "Established", forward_desired |-> FALSE,
                 outbound_alias |-> alias]
  IN /\ sessions' = [sessions EXCEPT ![s].peer_next_expected = r + 2,
                                     ![s].next_outbound = @ + 1]
     /\ tracks' = Put(tracks, t, [route EXCEPT !.downstream_subs = Put(@, <<s, r>>, joined)])
     /\ downstream_request_index' = Put(downstream_request_index, <<s, r>>, t)
     /\ out' = {SendSubscribeOk(s, r, alias)}
     /\ UNCHANGED <<publishers_by_namespace, upstream_request_index>>

\* No publisher for the namespace: REQUEST_ERROR(DoesNotExist).
SubscribeFails(s, r, t) ==
  LET refused == [NewDownstream EXCEPT !.state = "Terminated"]
      route == [RouteOf(t) EXCEPT !.downstream_subs = Put(@, <<s, r>>, refused)]
      empty == NoActiveDownstream(route) /\ DOMAIN route.upstream_subs = {}
  IN /\ sessions' = [sessions EXCEPT ![s].peer_next_expected = r + 2]
     /\ tracks' = StoreRoute(t, route, empty)
     /\ downstream_request_index' = Drop(downstream_request_index, {<<s, r>>})
     /\ out' = {SendRequestError(s, r)}
     /\ UNCHANGED <<publishers_by_namespace, upstream_request_index>>

\* Publishers of the namespace that have no leg for `t', whatever the state of
\* that leg, and an id left for one; the others are skipped and not retried.
FanOutTargets(t) ==
  {p \in MatchPublishers(t.namespace) \cap DOMAIN sessions :
     p \notin DOMAIN RouteOf(t).upstream_subs /\ CanAllocate(sessions[p])}

SubscribeFansOut(s, r, t) ==
  LET targets == FanOutTargets(t)
      route == RouteOf(t)
      Id(p) == sessions[p].local_next
  IN /\ sessions' =
          [x \in DOMAIN sessions |->
             [sessions[x] EXCEPT
                !.peer_next_expected = IF x = s THEN r + 2 ELSE @,
                !.local_next = IF x \in targets THEN @ + 2 ELSE @]]
     /\ tracks' = Put(tracks, t,
          [downstream_subs |-> Put(route.downstream_subs, <<s, r>>, NewDownstream),
           upstream_subs |-> Merge(route.upstream_subs,
                                   [p \in targets |-> NewLeg(Id(p))])])
     /\ upstream_request_index' =
          Merge(upstream_request_index, [k \in {<<p, Id(p)>> : p \in targets} |-> t])
     /\ downstream_request_index' = Put(downstream_request_index, <<s, r>>, t)
     /\ out' = {SendSubscribe(p, Id(p), t) : p \in targets}
     /\ UNCHANGED publishers_by_namespace

HandleSubscribe(s, r, t) ==
  /\ Receives(s, "SUBSCRIBE")
  /\ IF ~SetupDone(s) THEN Refuse(s, "ProtocolViolation")
     ELSE IF PeerRequestIdVerdict(sessions[s], r) # "Ok"
     THEN Refuse(s, PeerRequestIdVerdict(sessions[s], r))
     ELSE IF HasEstablishedUpstream(RouteOf(t)) THEN SubscribeJoins(s, r, t)
     ELSE IF MatchPublishers(t.namespace) = {} THEN SubscribeFails(s, r, t)
     ELSE SubscribeFansOut(s, r, t)

---------------------------------------------------------------------------
(* SUBSCRIBE_OK from an upstream publisher.                                *)

\* Mutant: the alias counter is read once for all subscriptions of a session.
AliasAssignmentsShared(ds) ==
  {[d \in ds |-> sessions[d[1]].next_outbound]}

\* Aliases for the subscriptions `ds': each session hands out its next ones, in
\* whatever order the HashMap yields its subscriptions.
AliasAssignments(ds) ==
  LET Count(s) == Cardinality({d \in ds : d[1] = s})
      Free(s) == sessions[s].next_outbound .. sessions[s].next_outbound + Count(s) - 1
  IN {f \in [ds -> UNION {Free(d[1]) : d \in ds}] :
        /\ \A d \in ds : f[d] \in Free(d[1])
        /\ \A d, e \in ds : d[1] = e[1] /\ f[d] = f[e] => d = e}

\* The request id leads to a route with a pending leg of this publisher.
AwaitsSubscribeOk(p, r) ==
  /\ <<p, r>> \in DOMAIN upstream_request_index
  /\ LET t == upstream_request_index[<<p, r>>]
     IN /\ t \in DOMAIN tracks
        /\ p \in DOMAIN tracks[t].upstream_subs
        /\ tracks[t].upstream_subs[p].state = "Pending"

EstablishLeg(route, p, alias) ==
  [route EXCEPT !.upstream_subs[p].state = "Established",
                !.upstream_subs[p].inbound_alias = alias]

\* The leg is established before the alias is found to be taken.
SubscribeOkDuplicateAlias(p, t, alias) ==
  /\ tracks' = Put(tracks, t, EstablishLeg(tracks[t], p, alias))
  /\ out' = {CloseSession(p, "DuplicateTrackAlias")}
  /\ UNCHANGED <<sessions, publishers_by_namespace, upstream_request_index,
                 downstream_request_index>>

\* Mutant: established subscriptions are answered again.
AwaitingOrEstablished(t) ==
  {d \in DownstreamIn(tracks[t], {"Pending", "Established"}) : d[1] \in DOMAIN sessions}

\* Mutant: one subscription is answered, whoever else waits.
AwaitingOneSubscriber(t) ==
  LET waiting == AwaitingOrEstablished(t) \cap DownstreamIn(tracks[t], {"Pending"})
  IN {d \in waiting : d = CHOOSE e \in waiting : TRUE}

\* Pending subscriptions that still want the SUBSCRIBE_OK, of open sessions.
AwaitingSubscribers(t) ==
  {d \in DownstreamIn(tracks[t], {"Pending"}) :
     tracks[t].downstream_subs[d].forward_desired /\ d[1] \in DOMAIN sessions}

SubscribeOkForwarded(p, t, alias) ==
  LET waiting == AwaitingSubscribers(t)
      Count(s) == Cardinality({d \in waiting : d[1] = s})
  IN \E aliasOf \in AliasAssignments(waiting) :
       /\ sessions' =
            [s \in DOMAIN sessions |->
               [sessions[s] EXCEPT
                  !.inbound_aliases = IF s = p THEN Put(@, alias, t) ELSE @,
                  !.next_outbound = @ + Count(s)]]
       /\ tracks' = Put(tracks, t,
            [EstablishLeg(tracks[t], p, alias) EXCEPT !.downstream_subs =
               Merge(@, [d \in waiting |->
                           [state |-> "Established", forward_desired |-> FALSE,
                            outbound_alias |-> aliasOf[d]]])])
       /\ out' = {SendSubscribeOk(d[1], d[2], aliasOf[d]) : d \in waiting}
       /\ UNCHANGED <<publishers_by_namespace, upstream_request_index,
                      downstream_request_index>>

HandleSubscribeOk(p, r, alias) ==
  /\ Receives(p, "SUBSCRIBE_OK")
  /\ IF ~(SetupDone(p) /\ AwaitsSubscribeOk(p, r)) THEN Refuse(p, "ProtocolViolation")
     ELSE LET t == upstream_request_index[<<p, r>>]
          IN IF alias \in DOMAIN sessions[p].inbound_aliases
             THEN SubscribeOkDuplicateAlias(p, t, alias)
             ELSE SubscribeOkForwarded(p, t, alias)

---------------------------------------------------------------------------
(* REQUEST_ERROR and PUBLISH_DONE from an upstream publisher, UNSUBSCRIBE   *)
(* from a downstream subscriber.                                           *)

\* The request id leads to a route.  The leg is then looked up by publisher
\* and may be of a later request.
KnownUpstream(p, r) ==
  /\ <<p, r>> \in DOMAIN upstream_request_index
  /\ upstream_request_index[<<p, r>>] \in DOMAIN tracks

HandleRequestError(p, r) ==
  /\ Receives(p, "REQUEST_ERROR")
  /\ IF ~SetupDone(p) THEN Refuse(p, "ProtocolViolation")
     ELSE IF ~KnownUpstream(p, r) THEN Ignore
     ELSE LET t == upstream_request_index[<<p, r>>]
              route == TerminateLegs(tracks[t], {p})
              failed == IF AllUpstreamTerminated(route)
                        THEN DownstreamIn(route, {"Pending"}) ELSE {}
              left == TerminateDownstream(route, failed)
          IN /\ tracks' = StoreRoute(t, left, /\ AllUpstreamTerminated(route)
                                              /\ NoActiveDownstream(left))
             /\ upstream_request_index' = Drop(upstream_request_index, {<<p, r>>})
             /\ downstream_request_index' = Drop(downstream_request_index, failed)
             /\ out' = {SendRequestError(d[1], d[2]) : d \in failed}
             /\ UNCHANGED <<sessions, publishers_by_namespace>>

HandlePublishDone(p, r) ==
  /\ Receives(p, "PUBLISH_DONE")
  /\ IF ~SetupDone(p) THEN Refuse(p, "ProtocolViolation")
     ELSE IF ~KnownUpstream(p, r) THEN Ignore
     ELSE LET t == upstream_request_index[<<p, r>>]
              route == TerminateLegs(tracks[t], {p})
              done == DownstreamIn(route, {"Established"})
              failed == IF AllUpstreamTerminated(route)
                        THEN DownstreamIn(route, {"Pending"}) ELSE {}
              left == TerminateDownstream(route, done \cup failed)
          IN /\ tracks' = StoreRoute(t, left, /\ NoActiveDownstream(left)
                                              /\ LiveLegs(left) = {})
             /\ upstream_request_index' = Drop(upstream_request_index, {<<p, r>>})
             /\ downstream_request_index' = Drop(downstream_request_index, done \cup failed)
             /\ out' = {SendPublishDone(d[1], d[2]) : d \in done} \cup
                       {SendRequestError(d[1], d[2]) : d \in failed}
             /\ UNCHANGED <<sessions, publishers_by_namespace>>

HandleUnsubscribe(s, r) ==
  /\ Receives(s, "UNSUBSCRIBE")
  /\ IF ~SetupDone(s) \/ <<s, r>> \notin DOMAIN downstream_request_index
     THEN Refuse(s, "ProtocolViolation")
     ELSE IF downstream_request_index[<<s, r>>] \notin DOMAIN tracks THEN Ignore
     ELSE LET t == downstream_request_index[<<s, r>>]
              route == TerminateDownstream(tracks[t], {<<s, r>>})
              last == NoActiveDownstream(route)
              ended == IF last THEN LiveLegs(route) ELSE {}
              Key(p) == <<p, route.upstream_subs[p].request_id>>
          IN /\ tracks' = StoreRoute(t, route, last)
             /\ downstream_request_index' = Drop(downstream_request_index, {<<s, r>>})
             /\ upstream_request_index' =
                  Drop(upstream_request_index, {Key(p) : p \in ended})
             /\ out' = IF last THEN UnsubscribeLegs(route) ELSE {}
             /\ UNCHANGED <<sessions, publishers_by_namespace>>

---------------------------------------------------------------------------
(* Objects of a subscription.                                              *)

Receivers(t) == IF t \in DOMAIN tracks
                THEN DownstreamIn(tracks[t], {"Established"}) ELSE {}

OnSubscriptionObject(p, alias) ==
  /\ p \in DOMAIN sessions => "OBJECT" \in Sends[p]
  /\ IF p \notin DOMAIN sessions \/ alias \notin DOMAIN sessions[p].inbound_aliases
     THEN Refuse(p, "ProtocolViolation")
     ELSE LET t == sessions[p].inbound_aliases[alias]
              aliases == {<<d[1], tracks[t].downstream_subs[d].outbound_alias>> :
                            d \in Receivers(t)}
          IN /\ out' = {SendObject(x[1], x[2]) : x \in {y \in aliases : y[2] # NoAlias}}
             /\ UNCHANGED relayVars

---------------------------------------------------------------------------

SessionEvent(s) ==
  \/ \E role \in Roles : OnSessionOpened(s, role)
  \/ OnSessionClosed(s)
  \/ MessageFromUnknownSession(s)

SetupMessage(s) ==
  \/ HandleClientSetup(s)
  \/ \E max \in PeerMaxValues \cup {NoLimit} : HandleServerSetup(s, max)
  \/ \E max \in PeerMaxValues : HandleMaxRequestId(s, max)
  \/ HandleRequestsBlocked(s)
  \/ HandleGoaway(s)
  \/ HandleOther(s)

PublisherMessage(p) ==
  \E r \in RequestIds :
    \/ \E ns \in Namespaces : HandlePublishNamespace(p, r, ns)
    \/ \E alias \in InboundAliases : HandleSubscribeOk(p, r, alias)
    \/ HandleRequestError(p, r)
    \/ HandlePublishDone(p, r)

SubscriberMessage(s) ==
  \E r \in RequestIds :
    \/ \E t \in Tracks : HandleSubscribe(s, r, t)
    \/ HandleUnsubscribe(s, r)

Next ==
  \E s \in Sessions :
    \/ SessionEvent(s)
    \/ SetupMessage(s)
    \/ PublisherMessage(s)
    \/ SubscriberMessage(s)
    \/ \E alias \in InboundAliases : OnSubscriptionObject(s, alias)

Spec == Init /\ [][Next]_vars

---------------------------------------------------------------------------
(* Types.                                                                  *)

DownstreamSubscription ==
  [state : {"Pending", "Established", "Terminated"},
   forward_desired : BOOLEAN, outbound_alias : (Nat \ {0}) \cup {NoAlias}]

UpstreamSubscriptionLeg ==
  [request_id : Nat, state : {"Pending", "Established", "Terminated"},
   inbound_alias : InboundAliases \cup {NoAlias}]

\* Maps from some inbound aliases to tracks.
AliasMaps == UNION {[A -> Tracks] : A \in SUBSET InboundAliases}

Session ==
  [role : Roles, setup : {"AwaitingPeerSetup", "SetupComplete"},
   goaway_received : BOOLEAN,
   peer_next_expected : Nat, local_next : Nat, peer_max_exclusive : Nat,
   next_outbound : Nat \ {0},
   published_namespaces : SUBSET Namespaces,
   inbound_aliases : AliasMaps]

RouteOK(route) ==
  /\ route = [downstream_subs |-> route.downstream_subs,
              upstream_subs   |-> route.upstream_subs]
  /\ IsMap(route.downstream_subs, Sessions \X RequestIds, DownstreamSubscription)
  /\ IsFiniteSet(DOMAIN route.downstream_subs)
  /\ IsMap(route.upstream_subs, Sessions, UpstreamSubscriptionLeg)

RoutesOK(map) ==
  /\ DOMAIN map \subseteq Tracks
  /\ map = [t \in DOMAIN map |-> map[t]]
  /\ \A t \in DOMAIN map : RouteOK(map[t])

\* Type invariant of the relay's maps.
TypeOK ==
  /\ IsMap(sessions, Sessions, Session)
  /\ IsMap(publishers_by_namespace, Namespaces, SUBSET Sessions)
  /\ RoutesOK(tracks)
  /\ IsMap(upstream_request_index, Sessions \X Nat, Tracks)
  /\ IsMap(downstream_request_index, Sessions \X RequestIds, Tracks)

---------------------------------------------------------------------------
(* Safety.                                                                 *)

\* downstream_request_index (relay.rs:36) leads from a request to its track for
\* exactly the subscriptions that are Pending or Established: none that a
\* subscriber may still cancel is unreachable, and none is reachable after it
\* ended.
DownstreamIndexExact ==
  /\ \A k \in DOMAIN downstream_request_index :
       /\ downstream_request_index[k] \in DOMAIN tracks
       /\ k \in DownstreamIn(tracks[downstream_request_index[k]], {"Pending", "Established"})
  /\ \A t \in DOMAIN tracks :
       \A d \in DownstreamIn(tracks[t], {"Pending", "Established"}) :
         d \in DOMAIN downstream_request_index /\ downstream_request_index[d] = t

\* Every live leg is found from the publisher's answer to its request
\* (relay.rs:32), under the id the relay sent, and two live legs of one publisher
\* never share an id.
LiveLegsIndexed ==
  \A t \in DOMAIN tracks : \A p \in LiveLegs(tracks[t]) :
    LET k == <<p, tracks[t].upstream_subs[p].request_id>>
    IN k \in DOMAIN upstream_request_index /\ upstream_request_index[k] = t

\* A session key that is not open appears in no route, in no entry of the index of
\* subscribers and in no set of publishers (on_session_closed, relay.rs:122).  The
\* index of requests to publishers does keep entries of closed sessions: it is
\* cleared only of a session that still has a leg (relay.rs:147).  What is left
\* leads to no leg of that session.
ClosedSessionsForgotten ==
  /\ \A n \in DOMAIN publishers_by_namespace :
       publishers_by_namespace[n] \subseteq DOMAIN sessions
  /\ \A t \in DOMAIN tracks :
       /\ DOMAIN tracks[t].upstream_subs \subseteq DOMAIN sessions
       /\ \A d \in DOMAIN tracks[t].downstream_subs : d[1] \in DOMAIN sessions
  /\ \A k \in DOMAIN downstream_request_index : k[1] \in DOMAIN sessions
  /\ \A k \in DOMAIN upstream_request_index : k[1] \notin DOMAIN sessions =>
       k[1] \notin DOMAIN RouteOf(upstream_request_index[k]).upstream_subs

\* The global namespace index and the sets kept by the sessions say the same
\* (relay.rs:489 and 494), and no namespace is listed without a publisher, so
\* that "no publisher" and "not listed" agree in handle_subscribe.
NamespaceIndexExact ==
  /\ \A n \in Namespaces : \A s \in DOMAIN sessions :
       n \in sessions[s].published_namespaces <=>
         n \in DOMAIN publishers_by_namespace /\ s \in publishers_by_namespace[n]
  /\ \A n \in DOMAIN publishers_by_namespace : publishers_by_namespace[n] # {}

\* The relay never uses one alias for two subscriptions of a session, on the
\* same or on different tracks, so a subscriber can tell the objects apart.
OutboundAliasesDistinct ==
  \A t, u \in DOMAIN tracks :
    \A d \in DownstreamIn(tracks[t], {"Established"}),
       e \in DownstreamIn(tracks[u], {"Established"}) :
      /\ d[1] = e[1]
      /\ tracks[t].downstream_subs[d].outbound_alias =
           tracks[u].downstream_subs[e].outbound_alias
      => t = u /\ d = e

\* Only a session that finished setup takes part in routing: another is in no set of
\* publishers, in no route and in no entry of the index of subscribers.  The index of
\* requests to publishers may still name a session that was closed and opened again,
\* but the entry leads to no leg of it.
RoutingAfterSetup ==
  \A s \in DOMAIN sessions :
    sessions[s].setup # "SetupComplete" =>
      /\ \A n \in DOMAIN publishers_by_namespace : s \notin publishers_by_namespace[n]
      /\ \A t \in DOMAIN tracks : s \notin DOMAIN tracks[t].upstream_subs
      /\ \A k \in DOMAIN downstream_request_index : k[1] # s
      /\ \A k \in DOMAIN upstream_request_index : k[1] = s =>
           s \notin DOMAIN RouteOf(upstream_request_index[k]).upstream_subs

\* A leg is live only while somebody downstream wants the track: the last
\* subscriber to go releases the upstream subscription (relay.rs:981).
LiveLegsWanted ==
  \A t \in DOMAIN tracks : LiveLegs(tracks[t]) # {} => ~NoActiveDownstream(tracks[t])

---------------------------------------------------------------------------
(* What a step may never do.                                               *)

\* Events of one kind that the last handler returned.
Sent(kind) == {e \in out : e.kind = kind}

\* A SUBSCRIBE to a publisher carries an id of the relay's own parity that was
\* never used in this session and is below the limit the relay has on record for
\* the publisher (session.rs:95), whatever the order in which tracks and publishers
\* are visited and however that record was changed.  The record is not always what
\* the publisher announced: RelayLimits compares the two.
RequestIdsFresh ==
  [][\A e \in Sent("SUBSCRIBE")' :
       LET before == sessions[e.to]
       IN /\ e.id >= before.local_next
          /\ e.id < before.peer_max_exclusive
          /\ e.id < sessions'[e.to].local_next
          /\ e.id % 2 # PeerParity(before.role)]_vars

\* A waiting subscriber is told REQUEST_ERROR only when no leg of its track can
\* still succeed (relay.rs:891, 1087).
NoErrorWhileHope ==
  [][\A e \in Sent("REQUEST_ERROR")' :
       \A t \in DOMAIN tracks :
         <<e.to, e.id>> \in DownstreamIn(tracks[t], {"Pending"}) =>
           LiveLegs(RouteOf(t))' = {}]_vars

\* A subscriber is told SUBSCRIBE_OK only while some publisher has confirmed the
\* track upstream (draft-16, 8.4).
SubscribeOkBacked ==
  [][\A e \in Sent("SUBSCRIBE_OK")' :
       /\ <<e.to, e.id>> \in DOMAIN downstream_request_index'
       /\ LET legs == tracks[downstream_request_index[<<e.to, e.id>>]].upstream_subs
          IN (\E p \in DOMAIN legs : legs[p].state = "Established")']_vars

\* A live leg ends only when its publisher is told, when the publisher itself
\* ended that very request, or with the publisher's session: no publisher is left
\* sending objects the relay has forgotten.
LegsEndKnowingly ==
  [][\A t \in DOMAIN tracks : \A p \in LiveLegs(tracks[t]) :
       LET r == tracks[t].upstream_subs[p].request_id
       IN p \notin LiveLegs(RouteOf(t))' =>
            \/ p \notin DOMAIN sessions'
            \/ SendUnsubscribe(p, r) \in out'
            \/ <<p, r>> \notin DOMAIN upstream_request_index']_vars

\* An UNSUBSCRIBE names a request of that publisher that was live, ends it, and
\* is sent only when nobody downstream is left on the track.
UnsubscribeEndsUnwanted ==
  [][\A e \in Sent("UNSUBSCRIBE")' :
       \E t \in DOMAIN tracks :
         /\ e.to \in LiveLegs(tracks[t])
         /\ tracks[t].upstream_subs[e.to].request_id = e.id
         /\ e.to \notin LiveLegs(RouteOf(t))'
         /\ NoActiveDownstream(RouteOf(t))']_vars

\* Legs are live and no subscription needs them.
Stranded(route) == LiveLegs(route) # {} /\ NoActiveDownstream(route)

\* A live leg loses the last subscription of its track only in a step that told every
\* such subscription PUBLISH_DONE, because another publisher's request ended
\* (relay.rs:1059).  A subscription that is cancelled, refused or gone with its session
\* leaves no leg behind.
StrandedByDoneOnly ==
  [][\A t \in DOMAIN tracks' :
       Stranded(tracks[t])' /\ ~Stranded(RouteOf(t)) =>
         /\ ~NoActiveDownstream(RouteOf(t))
         /\ \A d \in DownstreamIn(RouteOf(t), {"Pending", "Established"}) :
              SendPublishDone(d[1], d[2]) \in out']_vars

=============================================================================
