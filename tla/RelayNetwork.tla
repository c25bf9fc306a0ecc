---------------------------- MODULE RelayNetwork ----------------------------
(***************************************************************************)
(* The relay with the peers it serves and the transport between them.  The *)
(* peers follow draft-16: they announce, subscribe, answer and cancel as it *)
(* allows, and nothing else.  Control messages of a session travel in      *)
(* order on one stream each way; objects travel on streams of their own    *)
(* and overtake them.  The driver hands every event to the relay and       *)
(* carries out what the relay returns; a CloseSession takes a while, and   *)
(* messages that are already there are still handed over.                  *)
(*                                                                         *)
(* The peers are connected and have finished setup.  One that is gone does *)
(* not come back.                                                          *)
(***************************************************************************)
EXTENDS Relay, SequencesExt

CONSTANTS
  Publishers, Subscribers,   \* who publishes and who subscribes
  Leaving,                   \* peers that may disconnect
  ReuseAliases,              \* whether a publisher gives a track its alias again
  MaxObjects                 \* bound: objects on the way to the relay

\* Peers talk to the relay as a server, and the ids that may occur include every id that
\* a limit allows.
ASSUME NetworkAssumption ==
  /\ "Server" \in Roles
  /\ 0 .. InitialLocalMax - 1 \subseteq RequestIds
  /\ 0 .. InitialPeerMax - 1 \subseteq RequestIds

VARIABLES
  toRelay,   \* toRelay[s]: control messages on the way to the relay
  toPeer,    \* toPeer[s]: control messages on the way to the peer
  objects,   \* objects on the way to the relay
  closing,   \* sessions the relay asked the driver to close
  lost,      \* sessions that ended
  peer       \* what each peer knows

networkVars == <<toRelay, toPeer, objects, closing, lost, peer>>
allVars == <<vars, networkVars>>

\* A peer: its next request id, the namespaces it announced, its own subscriptions
\* and those it serves, by request id.
NewPeer == [next |-> 0, announced |-> {}, requests |-> EmptyMap, serves |-> EmptyMap]

NetworkInit ==
  /\ sessions = [s \in Sessions |-> [NewSession("Server") EXCEPT !.setup = "SetupComplete"]]
  /\ publishers_by_namespace = EmptyMap
  /\ tracks = EmptyMap
  /\ upstream_request_index = EmptyMap
  /\ downstream_request_index = EmptyMap
  /\ out = {}
  /\ toRelay = [s \in Sessions |-> <<>>]
  /\ toPeer = [s \in Sessions |-> <<>>]
  /\ objects = {} /\ closing = {} /\ lost = {}
  /\ peer = [s \in Sessions |-> NewPeer]

---------------------------------------------------------------------------
(* The relay's side.                                                       *)

\* The orders in which the driver may find the messages to `s' among `events':
\* handlers return them in the order of a HashMap, REQUEST_OK before SUBSCRIBE.
Outgoing(events, s) ==
  LET messages == {e \in events : e.to = s /\ e.kind \notin {"OBJECT", "CLOSE"}}
  IN {q \in SetToSeqs(messages) :
        \A i, j \in DOMAIN q : q[i].kind = "REQUEST_OK" /\ q[j].kind = "SUBSCRIBE" => i < j}

\* The driver carries out what the handler returned.
CarryOut ==
  /\ \E q \in [Sessions -> UNION {Outgoing(out', s) : s \in Sessions}] :
       /\ \A s \in Sessions : q[s] \in Outgoing(out', s)
       /\ toPeer' = [s \in Sessions |-> IF s \in lost' THEN <<>> ELSE toPeer[s] \o q[s]]
  /\ closing' = (closing \cup {e.to : e \in {x \in out' : x.kind = "CLOSE"}}) \ lost'

Handle(s, m) ==
  CASE m.kind = "PUBLISH_NAMESPACE" -> HandlePublishNamespace(s, m.id, m.namespace)
    [] m.kind = "SUBSCRIBE"         -> HandleSubscribe(s, m.id, m.track)
    [] m.kind = "UNSUBSCRIBE"       -> HandleUnsubscribe(s, m.id)
    [] m.kind = "SUBSCRIBE_OK"      -> HandleSubscribeOk(s, m.id, m.alias)
    [] m.kind = "REQUEST_ERROR"     -> HandleRequestError(s, m.id)
    [] m.kind = "PUBLISH_DONE"      -> HandlePublishDone(s, m.id)

RelayReceives(s) ==
  /\ toRelay[s] # <<>>
  /\ Handle(s, Head(toRelay[s]))
  /\ toRelay' = [toRelay EXCEPT ![s] = Tail(@)]
  /\ UNCHANGED <<objects, lost, peer>>
  /\ CarryOut

RelayReceivesObject(o) ==
  /\ o \in objects
  /\ OnSubscriptionObject(o.from, o.alias)
  /\ objects' = objects \ {o}
  /\ UNCHANGED <<toRelay, lost, peer>>
  /\ CarryOut

\* The session is over: the peer left or the driver closed it.
SessionEnds(s) ==
  /\ s \in closing
  /\ OnSessionClosed(s)
  /\ toRelay' = [toRelay EXCEPT ![s] = <<>>]
  /\ objects' = {o \in objects : o.from # s}
  /\ lost' = lost \cup {s}
  /\ UNCHANGED peer
  /\ CarryOut

---------------------------------------------------------------------------
(* The peers' side.                                                        *)

Connected(s) == s \notin closing \cup lost

\* The peer `s' sends a message and is then as `new' says.
Tell(s, message, new) ==
  /\ Connected(s)
  /\ toRelay' = [toRelay EXCEPT ![s] = Append(@, message)]
  /\ peer' = [peer EXCEPT ![s] = new]
  /\ out' = {}
  /\ UNCHANGED <<relayVars, toPeer, objects, closing, lost>>

Announce(p, ns) ==
  /\ p \in Publishers /\ ns \notin peer[p].announced
  /\ peer[p].next < InitialLocalMax
  /\ Tell(p, [kind |-> "PUBLISH_NAMESPACE", id |-> peer[p].next, namespace |-> ns],
          [peer[p] EXCEPT !.next = @ + 2, !.announced = @ \cup {ns}])

Subscribe(s, t) ==
  /\ s \in Subscribers
  /\ peer[s].next < InitialLocalMax
  /\ Tell(s, [kind |-> "SUBSCRIBE", id |-> peer[s].next, track |-> t],
          [peer[s] EXCEPT !.next = @ + 2,
                          !.requests = Put(@, peer[s].next, [track |-> t, state |-> "Pending"])])

\* From Pending or Established (draft-16, 5.1).
Unsubscribe(s, r) ==
  /\ r \in DOMAIN peer[s].requests /\ IsLive(peer[s].requests[r])
  /\ Tell(s, [kind |-> "UNSUBSCRIBE", id |-> r],
          [peer[s] EXCEPT !.requests[r].state = "Ended"])

Serves(p, r, state) == r \in DOMAIN peer[p].serves /\ peer[p].serves[r].state = state

\* The aliases a publisher gives a track: the one it had before, or the least that it
\* has not used yet.
AliasesFor(p, t) ==
  LET used == [r \in DOMAIN peer[p].serves |-> peer[p].serves[r].alias]
      old == {used[r] : r \in {q \in DOMAIN used : peer[p].serves[q].track = t}} \ {NoAlias}
      new == InboundAliases \ Range(used)
  IN IF ReuseAliases /\ old # {} THEN old ELSE {a \in new : \A b \in new : a <= b}

Accept(p, r) ==
  /\ Serves(p, r, "Pending")
  /\ \E a \in AliasesFor(p, peer[p].serves[r].track) :
       Tell(p, [kind |-> "SUBSCRIBE_OK", id |-> r, alias |-> a],
            [peer[p] EXCEPT !.serves[r] = [track |-> @.track, state |-> "Established", alias |-> a]])

Reject(p, r) ==
  /\ Serves(p, r, "Pending")
  /\ Tell(p, [kind |-> "REQUEST_ERROR", id |-> r],
          [peer[p] EXCEPT !.serves[r].state = "Ended"])

Done(p, r) ==
  /\ Serves(p, r, "Established")
  /\ Tell(p, [kind |-> "PUBLISH_DONE", id |-> r],
          [peer[p] EXCEPT !.serves[r].state = "Done"])

Publish(p, r) ==
  /\ Connected(p) /\ Serves(p, r, "Established")
  /\ Cardinality(objects) < MaxObjects
  /\ objects' = objects \cup {[from |-> p, alias |-> peer[p].serves[r].alias]}
  /\ out' = {}
  /\ UNCHANGED <<relayVars, toRelay, toPeer, closing, lost, peer>>

\* The peer's record after it received `m'.  A reply to a request that the peer has
\* ended is ignored.
Learn(record, m) ==
  LET Goes(from, to) == IF m.id \in DOMAIN record.requests /\ record.requests[m.id].state \in from
                        THEN [record EXCEPT !.requests[m.id].state = to] ELSE record
  IN CASE m.kind = "SUBSCRIBE"     -> [record EXCEPT !.serves = Put(@, m.id,
                                         [track |-> m.track, state |-> "Pending", alias |-> NoAlias])]
       [] m.kind = "UNSUBSCRIBE"   -> IF IsLive(record.serves[m.id])
                                      THEN [record EXCEPT !.serves[m.id].state = "Ended"] ELSE record
       [] m.kind = "SUBSCRIBE_OK"  -> Goes({"Pending"}, "Established")
       [] m.kind = "REQUEST_ERROR" -> Goes({"Pending"}, "Ended")
       [] m.kind = "PUBLISH_DONE"  -> Goes({"Established"}, "Ended")
       [] m.kind = "REQUEST_OK"    -> record

PeerReceives(s) ==
  /\ Connected(s) /\ toPeer[s] # <<>>
  /\ peer' = [peer EXCEPT ![s] = Learn(@, Head(toPeer[s]))]
  /\ toPeer' = [toPeer EXCEPT ![s] = Tail(@)]
  /\ out' = {}
  /\ UNCHANGED <<relayVars, toRelay, objects, closing, lost>>

Leave(s) ==
  /\ s \in Leaving /\ Connected(s)
  /\ closing' = closing \cup {s}
  /\ out' = {}
  /\ UNCHANGED <<relayVars, toRelay, toPeer, objects, lost, peer>>

---------------------------------------------------------------------------

Answers(p) == \E r \in DOMAIN peer[p].serves : Accept(p, r) \/ Reject(p, r)

NetworkNext ==
  \/ \E s \in Sessions : \/ RelayReceives(s) \/ SessionEnds(s)
                         \/ PeerReceives(s) \/ Answers(s) \/ Leave(s)
  \/ \E o \in objects : RelayReceivesObject(o)
  \/ \E p \in Sessions, ns \in Namespaces : Announce(p, ns)
  \/ \E s \in Sessions, t \in Tracks : Subscribe(s, t)
  \/ \E s \in Sessions : \E r \in DOMAIN peer[s].requests : Unsubscribe(s, r)
  \/ \E p \in Sessions : \E r \in DOMAIN peer[p].serves : Done(p, r) \/ Publish(p, r)

\* The driver hands over what has arrived and carries out what it is asked to; a peer
\* reads its messages and answers a SUBSCRIBE.  Nobody has to subscribe, to cancel, to
\* publish or to leave.
Fairness ==
  /\ \A s \in Sessions : /\ WF_allVars(RelayReceives(s))
                         /\ WF_allVars(PeerReceives(s))
                         /\ WF_allVars(SessionEnds(s))
  /\ \A p \in Publishers : WF_allVars(Answers(p))

NetworkSpec == NetworkInit /\ [][NetworkNext]_allVars /\ Fairness

---------------------------------------------------------------------------
(* Properties.                                                             *)

Quiet ==
  /\ closing = {} /\ lost = {}
  /\ \A s \in Sessions : toRelay[s] = <<>> /\ toPeer[s] = <<>>

\* A subscription as its subscriber and as the relay knows it.
SubscriberHolds(s, r, t, state) ==
  r \in DOMAIN peer[s].requests /\ peer[s].requests[r] = [track |-> t, state |-> state]

RelayHolds(s, r, t, state) ==
  t \in DOMAIN tracks /\ <<s, r>> \in DownstreamIn(tracks[t], {state})

\* A request of the relay as the publisher and as the relay knows it.
PublisherServes(p, r, t, state, alias) ==
  /\ r \in DOMAIN peer[p].serves
  /\ peer[p].serves[r] = [track |-> t, state |-> state, alias |-> alias]

RelayAsked(p, r, t, state, alias) ==
  /\ t \in DOMAIN tracks /\ p \in DOMAIN tracks[t].upstream_subs
  /\ tracks[t].upstream_subs[p] = [request_id |-> r, state |-> state, inbound_alias |-> alias]

\* Once all messages have arrived the relay and its peers agree, although requests,
\* answers and cancellations cross: which subscriptions of which track wait, which are
\* established, and which of them the relay keeps upstream, under which alias.
\* (downstream_subs, upstream_subs and inbound_aliases of relay.rs against what was
\* sent.)
ViewsAgree ==
  Quiet =>
    \A s \in Sessions, r \in RequestIds, t \in Tracks, state \in {"Pending", "Established"} :
      /\ SubscriberHolds(s, r, t, state) <=> RelayHolds(s, r, t, state)
      /\ \A alias \in InboundAliases \cup {NoAlias} :
           PublisherServes(s, r, t, state, alias) <=> RelayAsked(s, r, t, state, alias)

\* The ids a subscriber may use.
SubscriberIds == {r \in RequestIds : r % 2 = 0 /\ r < InitialLocalMax}

Waits(s, r) == r \in DOMAIN peer[s].requests /\ peer[s].requests[r].state = "Pending"

\* While nobody disconnects and nobody is closed, every SUBSCRIBE is answered in the
\* end, by the relay itself or as soon as publishers have answered, whatever other
\* subscribers and publishers of the track do meanwhile (handle_subscribe,
\* handle_subscribe_ok, handle_request_error, handle_publish_done).
Answered ==
  \A s \in Subscribers, r \in SubscriberIds : Waits(s, r) ~> ~Waits(s, r) \/ lost # {}

Wanted(t) ==
  \E s \in Subscribers : \E r \in DOMAIN peer[s].requests :
    peer[s].requests[r].track = t /\ IsLive(peer[s].requests[r])

Burdened(p, t) ==
  \E r \in DOMAIN peer[p].serves : peer[p].serves[r].track = t /\ IsLive(peer[p].serves[r])

\* A publisher does not serve a track for ever that no subscriber wants any more
\* (the UNSUBSCRIBE of relay.rs:994), unless another one has ended it (relay.rs:1059).
Released ==
  \A p \in Publishers, t \in Tracks :
    Burdened(p, t) ~>
      \/ ~Burdened(p, t) \/ Wanted(t) \/ lost # {}
      \/ \E q \in Publishers : \E r \in DOMAIN peer[q].serves :
           peer[q].serves[r].track = t /\ peer[q].serves[r].state = "Done"

\* A SUBSCRIBE is answered while its own session and the publishers' last, also when
\* another subscriber disconnects.  draft-16, 5.1: "A publisher MUST send exactly one
\* SUBSCRIBE_OK or REQUEST_ERROR in response to a SUBSCRIBE."
AnsweredThoughOthersLeave ==
  \A s \in Subscribers, r \in SubscriberIds :
    Waits(s, r) ~> ~Waits(s, r) \/ lost \cap ({s} \cup Publishers) # {}

\* A peer that follows the protocol is not closed by the relay.
ConformingPeersStay == \A e \in out : e.kind # "CLOSE"

=============================================================================
