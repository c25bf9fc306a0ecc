---------------------------- MODULE RelayPromise ----------------------------
(***************************************************************************)
(* The relay implements Subscription: whatever the peers send, every step  *)
(* is, for every request of every session at once, a step a subscriber may *)
(* rely on.  The status of a request is read off the index and the route,  *)
(* so the mapping makes sense because both agree (DownstreamInv); that a   *)
(* request which leaves the index has ended, and is not taken for one that *)
(* was never made, needs the parity of its id (RequestsOfPeers).           *)
(*                                                                         *)
(* Then what the peers are told, message by message: every SUBSCRIBE,      *)
(* SUBSCRIBE_OK, REQUEST_ERROR and UNSUBSCRIBE fits the relay's state.     *)
(* Last, the legs: which steps leave one that nobody needs.                *)
(***************************************************************************)
EXTENDS RelaySessions, RelayRefinement

\* The requests in the index have ids of their peer's parity.
RequestsOfPeers ==
  \A k \in DOMAIN downstream_request_index :
    k[1] \in DOMAIN sessions => k[2] % 2 = PeerParity(sessions[k[1]].role)

PromiseInv == SessionsInv /\ RequestsOfPeers

---------------------------------------------------------------------------
(* The status of a request before and after a step.                        *)

\* What the invariant says of a request in the index.
LEMMA Indexed ==
  ASSUME PromiseInv, NEW k \in DOMAIN downstream_request_index
  PROVE  /\ k = <<k[1], k[2]>> /\ k[1] \in Sessions /\ k[2] \in RequestIds
         /\ k[1] \in DOMAIN sessions
         /\ k[2] % 2 = PeerParity(sessions[k[1]].role)
         /\ k[2] < sessions[k[1]].peer_next_expected
         /\ downstream_request_index[k] \in DOMAIN tracks
         /\ k \in Active(tracks[downstream_request_index[k]])
<1>1. k \in Sessions \X RequestIds
  BY DEF PromiseInv, SessionsInv, DownstreamInv, TypeOK, IsMap
<1>2. /\ downstream_request_index[k] \in DOMAIN tracks
      /\ k \in Active(tracks[downstream_request_index[k]])
  BY DEF PromiseInv, SessionsInv, DownstreamInv, DownstreamIndexExact, Active
<1>3. k[1] \in DOMAIN sessions /\ k[2] < sessions[k[1]].peer_next_expected
  BY <1>2 DEF PromiseInv, SessionsInv, DownstreamInv, DownstreamIdsSpent, Active, DownstreamIn
<1> QED BY <1>1, <1>2, <1>3 DEF PromiseInv, RequestsOfPeers

\* An active subscription has the status its route gives it.
LEMMA StatusOfActive ==
  ASSUME PromiseInv, NEW t \in DOMAIN tracks, NEW d \in Active(tracks[t])
  PROVE  /\ d = <<d[1], d[2]>> /\ d \in DOMAIN downstream_request_index
         /\ downstream_request_index[d] = t
         /\ StatusOf(d[1], d[2]) = tracks[t].downstream_subs[d].state
<1>1. d \in DOMAIN downstream_request_index /\ downstream_request_index[d] = t
  BY DEF PromiseInv, SessionsInv, DownstreamInv, DownstreamIndexExact, Active
<1>2. d = <<d[1], d[2]>> /\ d[1] \in DOMAIN sessions
  BY <1>1, Indexed
<1> QED BY <1>1, <1>2 DEF StatusOf

\* The index and the routes keep a request as it is.
Untouched(k) ==
  /\ k \in DOMAIN downstream_request_index' <=> k \in DOMAIN downstream_request_index
  /\ k \in DOMAIN downstream_request_index =>
       LET t == downstream_request_index[k]
       IN /\ downstream_request_index'[k] = t
          /\ tracks'[t].downstream_subs[k] = tracks[t].downstream_subs[k]

\* A handler that stores or drops one route leaves the requests alone that the
\* index and the new route keep.
LEMMA RouteUntouched ==
  ASSUME PromiseInv, DownstreamInv', NEW t \in Tracks, NEW route, NEW k,
         tracks' = Put(tracks, t, route) \/ tracks' = Drop(tracks, {t}),
         k \in DOMAIN RouteOf(t).downstream_subs =>
           route.downstream_subs[k] = RouteOf(t).downstream_subs[k],
         k \in DOMAIN downstream_request_index' <=> k \in DOMAIN downstream_request_index,
         k \in DOMAIN downstream_request_index =>
           downstream_request_index'[k] = downstream_request_index[k]
  PROVE  Untouched(k)
<1> SUFFICES ASSUME k \in DOMAIN downstream_request_index
             PROVE  LET u == downstream_request_index[k]
                    IN tracks'[u].downstream_subs[k] = tracks[u].downstream_subs[k]
  BY DEF Untouched
<1> DEFINE u == downstream_request_index[k]
<1>1. u \in DOMAIN tracks /\ k \in DOMAIN tracks[u].downstream_subs
  BY Indexed DEF Active, DownstreamIn
<1>2. u \in DOMAIN tracks'
  BY DEF DownstreamInv, DownstreamIndexExact
<1>3. CASE u = t
  BY <1>1, <1>2, <1>3 DEF RouteOf, Put, Drop, Restrict
<1>4. CASE u # t
  BY <1>1, <1>2, <1>4 DEF Put, Drop, Restrict
<1> QED BY <1>3, <1>4

\* The relay says nothing to the request and leaves it alone.
LEMMA NothingHappens ==
  ASSUME NEW x \in Sessions, NEW q \in RequestIds,
         StatusOf(x, q)' = StatusOf(x, q), ToldTo(x, q)' = {}
  PROVE  Promise(x, q)!Next
BY DEF Promise!Next, Promise!Elsewhere

\* Messages that are no answer to a subscriber.
LEMMA NotTold ==
  ASSUME NEW x, NEW q,
         \A e \in out' : e.kind \notin {"SUBSCRIBE_OK", "REQUEST_ERROR", "PUBLISH_DONE"}
  PROVE  ToldTo(x, q)' = {}
BY DEF ToldTo

---------------------------------------------------------------------------
(* Handlers that concern no request.                                       *)

\* A handler that changes nothing and says nothing of the request.
LEMMA UnchangedPromise ==
  ASSUME NEW x \in Sessions, NEW q \in RequestIds, UNCHANGED relayVars, ToldTo(x, q)' = {}
  PROVE  Promise(x, q)!Next
<1>1. StatusOf(x, q)' = StatusOf(x, q)
  BY DEF relayVars, StatusOf
<1> QED BY <1>1, NothingHappens

\* An early return.
LEMMA RefusedPromise ==
  ASSUME NEW x \in Sessions, NEW q \in RequestIds,
         Ignore \/ \E s, error : Refuse(s, error)
  PROVE  Promise(x, q)!Next
<1>1. UNCHANGED relayVars
  BY DEF Ignore, Refuse
<1>2. ToldTo(x, q)' = {}
  BY NotTold DEF Ignore, Refuse, CloseSession
<1> QED BY <1>1, <1>2, UnchangedPromise

\* on_subscription_object (relay.rs:215) forwards and changes nothing.
LEMMA ObjectPromise ==
  ASSUME NEW p \in Sessions, NEW alias \in InboundAliases, OnSubscriptionObject(p, alias),
         NEW x \in Sessions, NEW q \in RequestIds
  PROVE  Promise(x, q)!Next
<1>1. CASE \E s, error : Refuse(s, error)
  BY <1>1, RefusedPromise
<1>2. CASE ~\E s, error : Refuse(s, error)
  <2>1. UNCHANGED relayVars
    BY <1>2 DEF OnSubscriptionObject
  <2>2. \A e \in out' : e.kind = "OBJECT"
    BY <1>2 DEF OnSubscriptionObject, SendObject
  <2> QED BY <2>1, <2>2, NotTold, UnchangedPromise
<1> QED BY <1>1, <1>2

\* A session that opens has no requests; whatever its key stood for is gone.
LEMMA OpenedPromise ==
  ASSUME PromiseInv, NEW s \in Sessions, NEW role \in Roles, OnSessionOpened(s, role),
         NEW x \in Sessions, NEW q \in RequestIds
  PROVE  Promise(x, q)!Next
<1>1. ToldTo(x, q)' = {}
  BY NotTold DEF OnSessionOpened
<1>2. CASE x # s
  <2>1. StatusOf(x, q)' = StatusOf(x, q)
    BY <1>2 DEF OnSessionOpened, Put, StatusOf
  <2> QED BY <1>1, <2>1, NothingHappens
<1>3. CASE x = s
  <2>1. <<x, q>> \notin DOMAIN downstream_request_index'
    BY <1>3, Indexed DEF OnSessionOpened
  <2>2. sessions'[x] = NewSession(role) /\ x \in DOMAIN sessions'
    BY <1>3 DEF OnSessionOpened, Put
  <2>3. ~(q % 2 = PeerParity(role) /\ q < FirstPeerId(role))
    BY LimitsAssumption DEF PeerParity, FirstPeerId
  <2>4. StatusOf(x, q)' = "Unused"
    BY <2>1, <2>2, <2>3 DEF StatusOf, NewSession
  <2> QED BY <1>1, <2>4 DEF Promise!Next, Promise!Disconnect
<1> QED BY <1>2, <1>3

\* on_session_closed (relay.rs:122) forgets the requests of the session and leaves
\* those of the others as they are: a subscriber whose last publisher is gone
\* hears nothing.
LEMMA ClosedPromise ==
  ASSUME PromiseInv, DownstreamInv', NEW s \in Sessions, OnSessionClosed(s),
         NEW x \in Sessions, NEW q \in RequestIds
  PROVE  Promise(x, q)!Next
<1> DEFINE left == [t \in DOMAIN tracks |-> RouteWithout(tracks[t], s)]
           idle == {t \in DOMAIN tracks : NoActiveDownstream(left[t])}
           empty == {t \in DOMAIN tracks : /\ DOMAIN left[t].downstream_subs = {}
                                           /\ DOMAIN left[t].upstream_subs = {}}
           lost == {d \in UNION {DOMAIN tracks[t].downstream_subs : t \in DOMAIN tracks} :
                      d[1] = s}
<1>1. ToldTo(x, q)' = {}
  <2>1. \A e \in out' : e.kind = "UNSUBSCRIBE"
    <3>1. out' = UNION {UnsubscribeLegs(left[t]) : t \in idle}
      BY DEF OnSessionClosed
    <3> HIDE DEF left, idle
    <3> QED BY <3>1 DEF UnsubscribeLegs, SendUnsubscribe
  <2> QED BY <2>1, NotTold
<1>2. /\ DOMAIN sessions' = DOMAIN sessions \ {s}
      /\ \A y \in DOMAIN sessions' : sessions'[y] = sessions[y]
  BY DEF OnSessionClosed, Drop, Restrict
<1>3. CASE x = s
  <2>1. StatusOf(x, q)' = "Unused"
    BY <1>2, <1>3 DEF StatusOf
  <2> QED BY <1>1, <2>1 DEF Promise!Next, Promise!Disconnect
<1>4. CASE x # s
  <2>1. /\ <<x, q>> \in DOMAIN downstream_request_index'
             <=> <<x, q>> \in DOMAIN downstream_request_index
        /\ <<x, q>> \in DOMAIN downstream_request_index =>
             downstream_request_index'[<<x, q>>] = downstream_request_index[<<x, q>>]
    BY <1>4 DEF OnSessionClosed, Drop, Restrict
  <2>2. ASSUME NEW t \in DOMAIN tracks', <<x, q>> \in DOMAIN tracks[t].downstream_subs
        PROVE  tracks'[t].downstream_subs[<<x, q>>] = tracks[t].downstream_subs[<<x, q>>]
    <3>1. tracks' = [u \in DOMAIN tracks \ empty |->
                       IF u \in idle THEN TerminateLegs(left[u], LiveLegs(left[u])) ELSE left[u]]
      BY DEF OnSessionClosed
    <3>2. t \in DOMAIN tracks
      BY <3>1
    <3>3. RouteOK(left[t])
      BY <3>2, RouteWithoutType DEF PromiseInv, SessionsInv, DownstreamInv, TypeOK, RoutesOK
    <3>4. tracks'[t].downstream_subs = left[t].downstream_subs
      <4> HIDE DEF left, idle, empty
      <4> QED BY <3>1, <3>3, LegsLeaveDownstream
    <3>5. left[t].downstream_subs =
            Drop(tracks[t].downstream_subs, {d \in DOMAIN tracks[t].downstream_subs : d[1] = s})
      BY <3>2 DEF RouteWithout
    <3> QED BY <1>4, <2>2, <3>4, <3>5 DEF Drop, Restrict
  <2>3. ASSUME <<x, q>> \in DOMAIN downstream_request_index
        PROVE  LET t == downstream_request_index[<<x, q>>]
               IN tracks'[t].downstream_subs[<<x, q>>] = tracks[t].downstream_subs[<<x, q>>]
    <3>1. downstream_request_index'[<<x, q>>] \in DOMAIN tracks'
      BY <2>1, <2>3 DEF DownstreamInv, DownstreamIndexExact
    <3>2. <<x, q>> \in DOMAIN tracks[downstream_request_index[<<x, q>>]].downstream_subs
      BY <2>3, Indexed DEF Active, DownstreamIn
    <3> QED BY <2>1, <2>2, <2>3, <3>1, <3>2
  <2>4. StatusOf(x, q)' = StatusOf(x, q)
    <3> HIDE DEF left, idle, empty, lost
    <3> QED BY <1>2, <1>4, <2>1, <2>3 DEF StatusOf
  <2> QED BY <1>1, <2>4, NothingHappens
<1> QED BY <1>3, <1>4

\* Setup, limits and GOAWAY concern no request.
LEMMA SetupPromise ==
  ASSUME PromiseInv, NEW s \in Sessions, SetupMessage(s), NEW x \in Sessions, NEW q \in RequestIds
  PROVE  Promise(x, q)!Next
<1>1. CASE Ignore \/ \E y, error : Refuse(y, error)
  BY <1>1, RefusedPromise
<1>2. CASE ~(Ignore \/ \E y, error : Refuse(y, error))
  <2>1. /\ UNCHANGED <<tracks, downstream_request_index>>
        /\ DOMAIN sessions' = DOMAIN sessions
        /\ \A y \in DOMAIN sessions :
             /\ sessions'[y].role = sessions[y].role
             /\ sessions'[y].peer_next_expected = sessions[y].peer_next_expected
    BY <1>2 DEF SetupMessage, HandleClientSetup, HandleServerSetup, HandleMaxRequestId,
                HandleRequestsBlocked, HandleGoaway, HandleOther, PromiseInv, SessionsInv,
                DownstreamInv, TypeOK, IsMap, Session
  <2>2. \A e \in out' : e.kind = "SERVER_SETUP"
    BY <1>2 DEF SetupMessage, HandleClientSetup, HandleServerSetup, HandleMaxRequestId,
                HandleRequestsBlocked, HandleGoaway, HandleOther, SendServerSetup
  <2>3. StatusOf(x, q)' = StatusOf(x, q)
    BY <2>1 DEF StatusOf
  <2> QED BY <2>2, <2>3, NotTold, NothingHappens
<1> QED BY <1>1, <1>2

\* The step accepts the id `r' of `s' and no other.
Spends(s, r) ==
  /\ DOMAIN sessions' = DOMAIN sessions
  /\ \A y \in DOMAIN sessions :
       /\ sessions'[y].role = sessions[y].role
       /\ sessions'[y].peer_next_expected =
            IF y = s THEN r + 2 ELSE sessions[y].peer_next_expected

\* handle_publish_namespace (relay.rs:461) accepts an id as handle_subscribe does.
LEMMA PublishNamespaceSpends ==
  ASSUME PromiseInv, NEW s, NEW r, NEW ns, HandlePublishNamespace(s, r, ns),
         ~\E y, error : Refuse(y, error)
  PROVE  Spends(s, r)
<1>1. PICK n :
        sessions' = [sessions EXCEPT
          ![s].peer_next_expected = r + 2,
          ![s].published_namespaces = @ \cup {ns},
          ![s].local_next = @ + n]
  BY DEF HandlePublishNamespace
<1>2. ASSUME NEW y \in DOMAIN sessions
      PROVE  /\ sessions'[y].role = sessions[y].role
             /\ sessions'[y].peer_next_expected =
                  IF y = s THEN r + 2 ELSE sessions[y].peer_next_expected
  <2>1. sessions[y] \in Session
    BY DEF PromiseInv, SessionsInv, DownstreamInv, TypeOK, IsMap
  <2>2. s \in DOMAIN sessions
    BY DEF HandlePublishNamespace, Receives
  <2> QED BY <1>1, <2>1, <2>2 DEF Session
<1> QED BY <1>1, <1>2 DEF Spends

\* handle_publish_namespace (relay.rs:461) spends an id on something else than a
\* subscription and leaves the subscriptions of all routes alone.
LEMMA PublishNamespacePromise ==
  ASSUME PromiseInv, DownstreamInv', NEW s \in Sessions, NEW r \in RequestIds,
         NEW ns \in Namespaces, HandlePublishNamespace(s, r, ns),
         NEW x \in Sessions, NEW q \in RequestIds
  PROVE  Promise(x, q)!Next
<1>1. CASE \E y, error : Refuse(y, error)
  BY <1>1, RefusedPromise
<1>2. CASE ~\E y, error : Refuse(y, error)
  <2>1. PICK idOf :
       /\ PeerRequestIdVerdict(sessions[s], r) = "Ok"
       /\ sessions' = [sessions EXCEPT
            ![s].peer_next_expected = r + 2,
            ![s].published_namespaces = @ \cup {ns},
            ![s].local_next = @ + 2 * Cardinality(DOMAIN idOf)]
       /\ tracks' = [t \in DOMAIN tracks |->
            IF t \in DOMAIN idOf
            THEN [tracks[t] EXCEPT !.upstream_subs = Put(@, s, NewLeg(idOf[t]))]
            ELSE tracks[t]]
       /\ out' = {SendRequestOk(s, r)} \cup {SendSubscribe(s, idOf[t], t) : t \in DOMAIN idOf}
       /\ UNCHANGED downstream_request_index
    BY <1>2 DEF HandlePublishNamespace
  <2>2. s \in DOMAIN sessions
    BY DEF HandlePublishNamespace, Receives
  <2>3. ToldTo(x, q)' = {}
    <3>1. \A e \in out' : e.kind \in {"REQUEST_OK", "SUBSCRIBE"}
      BY <2>1 DEF SendRequestOk, SendSubscribe
    <3> QED BY <3>1, NotTold
  <2>4. \A y \in DOMAIN sessions :
          /\ sessions'[y].role = sessions[y].role
          /\ sessions'[y].peer_next_expected =
               IF y = s THEN r + 2 ELSE sessions[y].peer_next_expected
    BY <1>2, PublishNamespaceSpends DEF Spends
  <2>5. ASSUME <<x, q>> \in DOMAIN downstream_request_index
        PROVE  LET t == downstream_request_index[<<x, q>>]
               IN tracks'[t].downstream_subs = tracks[t].downstream_subs
    <3>1. /\ downstream_request_index[<<x, q>>] \in DOMAIN tracks
          /\ RouteOK(tracks[downstream_request_index[<<x, q>>]])
      BY <2>5, Indexed DEF PromiseInv, SessionsInv, DownstreamInv, TypeOK, RoutesOK
    <3> QED BY <2>1, <3>1 DEF RouteOK
  <2>6. DOMAIN sessions' = DOMAIN sessions
    BY <2>1
  <2>7. CASE x = s /\ q = r
    <3>1. <<x, q>> \notin DOMAIN downstream_request_index /\ r = sessions[s].peer_next_expected
      BY <2>1, <2>2, <2>7, FreshRequest DEF PromiseInv, SessionsInv
    <3>2. r \in Nat /\ r % 2 = PeerParity(sessions[s].role)
      BY <2>1, LimitsAssumption DEF PeerRequestIdVerdict
    <3>3. StatusOf(x, q) = "Unused"
      BY <2>2, <2>7, <3>1, <3>2 DEF StatusOf
    <3>4. StatusOf(x, q)' = "Ended"
      <4>1. /\ x \in DOMAIN sessions' /\ <<x, q>> \notin DOMAIN downstream_request_index'
            /\ sessions'[x].role = sessions[s].role
            /\ sessions'[x].peer_next_expected = r + 2
        BY <2>1, <2>2, <2>4, <2>6, <2>7, <3>1
      <4> QED BY <2>7, <3>2, <4>1 DEF StatusOf
    <3> QED BY <2>3, <3>3, <3>4 DEF Promise!Next, Promise!Request
  <2>8. CASE ~(x = s /\ q = r)
    <3>1. StatusOf(x, q)' = StatusOf(x, q)
      <4>1. CASE x # s
        BY <2>1, <2>4, <2>5, <2>6, <4>1 DEF StatusOf
      <4>2. CASE x = s
        <5>1. /\ sessions'[x].role = sessions[x].role
              /\ sessions'[x].peer_next_expected = r + 2
              /\ sessions[x].peer_next_expected = r
              /\ r % 2 = PeerParity(sessions[x].role)
              /\ x \in DOMAIN sessions /\ x \in DOMAIN sessions'
          BY <2>1, <2>2, <2>4, <2>6, <4>2, FreshRequest
             DEF PeerRequestIdVerdict, PromiseInv, SessionsInv
        <5>2. q % 2 = PeerParity(sessions[x].role) => (q < r + 2 <=> q < r)
          BY <2>8, <4>2, <5>1, LimitsAssumption
        <5> QED BY <2>1, <2>5, <5>1, <5>2 DEF StatusOf
      <4> QED BY <4>1, <4>2
    <3> QED BY <2>3, <3>1, NothingHappens
  <2> QED BY <2>7, <2>8
<1> QED BY <1>1, <1>2

---------------------------------------------------------------------------
(* SUBSCRIBE.                                                              *)

\* A new request was unused, and what it becomes is read off the route; all
\* others stay.
LEMMA NewRequestStatus ==
  ASSUME PromiseInv, NEW s \in DOMAIN sessions, NEW r \in RequestIds,
         NEW x \in Sessions, NEW q \in RequestIds,
         PeerRequestIdVerdict(sessions[s], r) = "Ok", Spends(s, r),
         <<x, q>> # <<s, r>> => Untouched(<<x, q>>)
  PROVE  /\ StatusOf(s, r) = "Unused"
         /\ <<s, r>> \notin DOMAIN downstream_request_index' => StatusOf(s, r)' = "Ended"
         /\ <<x, q>> # <<s, r>> => StatusOf(x, q)' = StatusOf(x, q)
<1>1. /\ <<s, r>> \notin DOMAIN downstream_request_index
      /\ r = sessions[s].peer_next_expected /\ r \in Nat
      /\ r % 2 = PeerParity(sessions[s].role)
  BY FreshRequest DEF PromiseInv, SessionsInv, PeerRequestIdVerdict
<1>2. StatusOf(s, r) = "Unused"
  BY <1>1 DEF StatusOf
<1>3. <<s, r>> \notin DOMAIN downstream_request_index' => StatusOf(s, r)' = "Ended"
  BY <1>1 DEF StatusOf, Spends
<1>4. ASSUME <<x, q>> # <<s, r>>
      PROVE  StatusOf(x, q)' = StatusOf(x, q)
  <2>1. CASE x # s
    BY <1>4, <2>1 DEF StatusOf, Untouched, Spends
  <2>2. CASE x = s
    <3>1. q # r /\ (q % 2 = PeerParity(sessions[x].role) => (q < r + 2 <=> q < r))
      <4>1. q # r
        BY <1>4, <2>2
      <4>2. q \in Nat /\ r \in Nat /\ r % 2 = PeerParity(sessions[x].role)
        BY <1>1, <2>2, LimitsAssumption
      <4> QED BY <4>1, <4>2
    <3>2. /\ sessions'[x].role = sessions[x].role
          /\ sessions'[x].peer_next_expected = r + 2
          /\ sessions[x].peer_next_expected = r
          /\ x \in DOMAIN sessions /\ x \in DOMAIN sessions'
      BY <1>1, <2>2 DEF Spends
    <3> QED BY <1>4, <3>1, <3>2 DEF StatusOf, Untouched
  <2> QED BY <2>1, <2>2
<1> QED BY <1>2, <1>3, <1>4

\* How the three outcomes of handle_subscribe change the sessions.
LEMMA SubscribeSpends ==
  ASSUME PromiseInv, NEW s \in DOMAIN sessions, NEW r \in RequestIds, NEW t \in Tracks,
         SubscribeJoins(s, r, t) \/ SubscribeFails(s, r, t) \/ SubscribeFansOut(s, r, t)
  PROVE  Spends(s, r)
<1>1. DOMAIN sessions' = DOMAIN sessions
  BY DEF SubscribeJoins, SubscribeFails, SubscribeFansOut
<1>2. ASSUME NEW y \in DOMAIN sessions
      PROVE  /\ sessions'[y].role = sessions[y].role
             /\ sessions'[y].peer_next_expected =
                  IF y = s THEN r + 2 ELSE sessions[y].peer_next_expected
  <2>1. sessions[y] \in Session
    BY DEF PromiseInv, SessionsInv, DownstreamInv, TypeOK, IsMap
  <2>2. CASE SubscribeJoins(s, r, t)
    <3>1. sessions' = [sessions EXCEPT ![s].peer_next_expected = r + 2,
                                       ![s].next_outbound = @ + 1]
      BY <2>2 DEF SubscribeJoins
    <3> QED BY <2>1, <3>1 DEF Session
  <2>3. CASE SubscribeFails(s, r, t)
    <3>1. sessions' = [sessions EXCEPT ![s].peer_next_expected = r + 2]
      BY <2>3 DEF SubscribeFails
    <3> QED BY <2>1, <3>1 DEF Session
  <2>4. CASE SubscribeFansOut(s, r, t)
    <3> DEFINE expected == IF y = s THEN r + 2 ELSE sessions[y].peer_next_expected
               local == IF y \in FanOutTargets(t) THEN sessions[y].local_next + 2
                        ELSE sessions[y].local_next
    <3>1. sessions' = [z \in DOMAIN sessions |->
            [sessions[z] EXCEPT
               !.peer_next_expected = IF z = s THEN r + 2 ELSE @,
               !.local_next = IF z \in FanOutTargets(t) THEN @ + 2 ELSE @]]
      BY <2>4 DEF SubscribeFansOut
    <3>2. sessions'[y] = [sessions[y] EXCEPT !.peer_next_expected = expected,
                                             !.local_next = local]
      BY <3>1
    <3>3. /\ sessions'[y].role = sessions[y].role
          /\ sessions'[y].peer_next_expected = expected
      <4> HIDE DEF expected, local
      <4> QED BY <2>1, <3>2 DEF Session
    <3> QED BY <3>3
  <2> QED BY <2>2, <2>3, <2>4
<1> QED BY <1>1, <1>2 DEF Spends

\* A leg is established: the request is accepted at once.
LEMMA JoinsPromise ==
  ASSUME PromiseInv, DownstreamInv', NEW s \in DOMAIN sessions, NEW r \in RequestIds,
         NEW t \in Tracks, PeerRequestIdVerdict(sessions[s], r) = "Ok",
         SubscribeJoins(s, r, t), NEW x \in Sessions, NEW q \in RequestIds
  PROVE  Promise(x, q)!Next
<1> DEFINE old == RouteOf(t)
           joined == [state |-> "Established", forward_desired |-> FALSE,
                      outbound_alias |-> sessions[s].next_outbound]
           route == [old EXCEPT !.downstream_subs = Put(@, <<s, r>>, joined)]
<1>1. /\ tracks' = Put(tracks, t, route)
      /\ downstream_request_index' = Put(downstream_request_index, <<s, r>>, t)
      /\ out' = {SendSubscribeOk(s, r, sessions[s].next_outbound)}
  BY DEF SubscribeJoins
<1>2. route.downstream_subs = Put(old.downstream_subs, <<s, r>>, joined)
  BY RouteOfType DEF PromiseInv, SessionsInv, DownstreamInv, RouteOK
<1>3. joined.state = "Established"
  OBVIOUS
<1> HIDE DEF joined, route
<1>4. /\ StatusOf(s, r) = "Unused"
      /\ StatusOf(s, r)' = "Established"
      /\ <<x, q>> # <<s, r>> => StatusOf(x, q)' = StatusOf(x, q)
  <2>1. tracks' = Put(tracks, t, route) \/ tracks' = Drop(tracks, {t})
    BY <1>1
  <2>2. <<x, q>> # <<s, r>> => Untouched(<<x, q>>)
    <3> SUFFICES ASSUME <<x, q>> # <<s, r>>
                 PROVE  Untouched(<<x, q>>)
      OBVIOUS
    <3>1. <<x, q>> \in DOMAIN RouteOf(t).downstream_subs =>
            route.downstream_subs[<<x, q>>] = RouteOf(t).downstream_subs[<<x, q>>]
      BY <1>2 DEF Put
    <3>2. /\ <<x, q>> \in DOMAIN downstream_request_index'
               <=> <<x, q>> \in DOMAIN downstream_request_index
          /\ <<x, q>> \in DOMAIN downstream_request_index =>
               downstream_request_index'[<<x, q>>] = downstream_request_index[<<x, q>>]
      BY <1>1 DEF Put
    <3> HIDE DEF old
    <3> QED BY <2>1, <3>1, <3>2, RouteUntouched
  <2>3. Spends(s, r)
    BY SubscribeSpends
  <2>4. /\ StatusOf(s, r) = "Unused"
        /\ <<s, r>> \notin DOMAIN downstream_request_index' => StatusOf(s, r)' = "Ended"
        /\ <<x, q>> # <<s, r>> => StatusOf(x, q)' = StatusOf(x, q)
    BY <2>2, <2>3, NewRequestStatus
  <2>5. StatusOf(s, r)' = "Established"
    BY <1>1, <1>2, <1>3, <2>3 DEF Put, Spends, StatusOf
  <2> QED BY <2>4, <2>5
<1>5. ToldTo(x, q)' = IF <<x, q>> = <<s, r>> THEN {"SUBSCRIBE_OK"} ELSE {}
  BY <1>1 DEF ToldTo, SendSubscribeOk
<1> QED BY <1>4, <1>5, NothingHappens DEF Promise!Next, Promise!Request

\* No publisher: the request fails at once.
LEMMA FailsPromise ==
  ASSUME PromiseInv, DownstreamInv', NEW s \in DOMAIN sessions, NEW r \in RequestIds,
         NEW t \in Tracks, PeerRequestIdVerdict(sessions[s], r) = "Ok",
         SubscribeFails(s, r, t), NEW x \in Sessions, NEW q \in RequestIds
  PROVE  Promise(x, q)!Next
<1> DEFINE old == RouteOf(t)
           refused == [NewDownstream EXCEPT !.state = "Terminated"]
           route == [old EXCEPT !.downstream_subs = Put(@, <<s, r>>, refused)]
<1>1. /\ tracks' = Put(tracks, t, route) \/ tracks' = Drop(tracks, {t})
      /\ downstream_request_index' = Drop(downstream_request_index, {<<s, r>>})
      /\ out' = {SendRequestError(s, r)}
  BY DEF SubscribeFails, StoreRoute
<1>2. route.downstream_subs = Put(old.downstream_subs, <<s, r>>, refused)
  BY RouteOfType DEF PromiseInv, SessionsInv, DownstreamInv, RouteOK
<1> HIDE DEF refused, route
<1>3. /\ StatusOf(s, r) = "Unused"
      /\ StatusOf(s, r)' = "Ended"
      /\ <<x, q>> # <<s, r>> => StatusOf(x, q)' = StatusOf(x, q)
  <2>1. tracks' = Put(tracks, t, route) \/ tracks' = Drop(tracks, {t})
    BY <1>1
  <2>2. <<x, q>> # <<s, r>> => Untouched(<<x, q>>)
    <3> SUFFICES ASSUME <<x, q>> # <<s, r>>
                 PROVE  Untouched(<<x, q>>)
      OBVIOUS
    <3>1. <<x, q>> \in DOMAIN RouteOf(t).downstream_subs =>
            route.downstream_subs[<<x, q>>] = RouteOf(t).downstream_subs[<<x, q>>]
      BY <1>2 DEF Put
    <3>2. /\ <<x, q>> \in DOMAIN downstream_request_index'
               <=> <<x, q>> \in DOMAIN downstream_request_index
          /\ <<x, q>> \in DOMAIN downstream_request_index =>
               downstream_request_index'[<<x, q>>] = downstream_request_index[<<x, q>>]
      BY <1>1 DEF Drop, Restrict
    <3> HIDE DEF old
    <3> QED BY <2>1, <3>1, <3>2, RouteUntouched
  <2>3. Spends(s, r)
    BY SubscribeSpends
  <2>4. /\ StatusOf(s, r) = "Unused"
        /\ <<s, r>> \notin DOMAIN downstream_request_index' => StatusOf(s, r)' = "Ended"
        /\ <<x, q>> # <<s, r>> => StatusOf(x, q)' = StatusOf(x, q)
    BY <2>2, <2>3, NewRequestStatus
  <2>5. <<s, r>> \notin DOMAIN downstream_request_index'
    BY <1>1 DEF Drop, Restrict
  <2> QED BY <2>4, <2>5
<1>4. ToldTo(x, q)' = IF <<x, q>> = <<s, r>> THEN {"REQUEST_ERROR"} ELSE {}
  BY <1>1 DEF ToldTo, SendRequestError
<1> QED BY <1>3, <1>4, NothingHappens DEF Promise!Next, Promise!Request

\* Publishers are asked: the request waits.
LEMMA FansOutPromise ==
  ASSUME PromiseInv, DownstreamInv', NEW s \in DOMAIN sessions, NEW r \in RequestIds,
         NEW t \in Tracks, PeerRequestIdVerdict(sessions[s], r) = "Ok",
         SubscribeFansOut(s, r, t), NEW x \in Sessions, NEW q \in RequestIds
  PROVE  Promise(x, q)!Next
<1> DEFINE old == RouteOf(t)
           route == [downstream_subs |-> Put(old.downstream_subs, <<s, r>>, NewDownstream),
                     upstream_subs |-> Merge(old.upstream_subs,
                       [p \in FanOutTargets(t) |-> NewLeg(sessions[p].local_next)])]
<1>1. /\ tracks' = Put(tracks, t, route)
      /\ downstream_request_index' = Put(downstream_request_index, <<s, r>>, t)
      /\ out' = {SendSubscribe(p, sessions[p].local_next, t) : p \in FanOutTargets(t)}
  BY DEF SubscribeFansOut
<1>2. route.downstream_subs = Put(old.downstream_subs, <<s, r>>, NewDownstream)
  OBVIOUS
<1> HIDE DEF route
<1>3. /\ StatusOf(s, r) = "Unused"
      /\ StatusOf(s, r)' = "Pending"
      /\ <<x, q>> # <<s, r>> => StatusOf(x, q)' = StatusOf(x, q)
  <2>1. tracks' = Put(tracks, t, route) \/ tracks' = Drop(tracks, {t})
    BY <1>1
  <2>2. <<x, q>> # <<s, r>> => Untouched(<<x, q>>)
    <3> SUFFICES ASSUME <<x, q>> # <<s, r>>
                 PROVE  Untouched(<<x, q>>)
      OBVIOUS
    <3>1. <<x, q>> \in DOMAIN RouteOf(t).downstream_subs =>
            route.downstream_subs[<<x, q>>] = RouteOf(t).downstream_subs[<<x, q>>]
      BY <1>2 DEF Put
    <3>2. /\ <<x, q>> \in DOMAIN downstream_request_index'
               <=> <<x, q>> \in DOMAIN downstream_request_index
          /\ <<x, q>> \in DOMAIN downstream_request_index =>
               downstream_request_index'[<<x, q>>] = downstream_request_index[<<x, q>>]
      BY <1>1 DEF Put
    <3> HIDE DEF old
    <3> QED BY <2>1, <3>1, <3>2, RouteUntouched
  <2>3. Spends(s, r)
    BY SubscribeSpends
  <2>4. /\ StatusOf(s, r) = "Unused"
        /\ <<s, r>> \notin DOMAIN downstream_request_index' => StatusOf(s, r)' = "Ended"
        /\ <<x, q>> # <<s, r>> => StatusOf(x, q)' = StatusOf(x, q)
    BY <2>2, <2>3, NewRequestStatus
  <2>5. StatusOf(s, r)' = "Pending"
    BY <1>1, <1>2, <2>3 DEF Put, Spends, StatusOf, NewDownstream
  <2> QED BY <2>4, <2>5
<1>4. ToldTo(x, q)' = {}
  <2>1. \A e \in out' : e.kind = "SUBSCRIBE"
    BY <1>1 DEF SendSubscribe
  <2> QED BY <2>1, NotTold
<1> QED BY <1>3, <1>4, NothingHappens DEF Promise!Next, Promise!Request

\* handle_subscribe (relay.rs:580) as a whole.
LEMMA SubscribePromise ==
  ASSUME PromiseInv, DownstreamInv', NEW s \in Sessions, NEW r \in RequestIds,
         NEW t \in Tracks, HandleSubscribe(s, r, t), NEW x \in Sessions, NEW q \in RequestIds
  PROVE  Promise(x, q)!Next
<1>1. CASE \E y, error : Refuse(y, error)
  BY <1>1, RefusedPromise
<1>2. CASE ~\E y, error : Refuse(y, error)
  <2>1. s \in DOMAIN sessions /\ PeerRequestIdVerdict(sessions[s], r) = "Ok"
    BY <1>2 DEF HandleSubscribe, Receives
  <2>2. SubscribeJoins(s, r, t) \/ SubscribeFails(s, r, t) \/ SubscribeFansOut(s, r, t)
    BY <1>2 DEF HandleSubscribe
  <2> QED BY <2>1, <2>2, JoinsPromise, FailsPromise, FansOutPromise
<1> QED BY <1>1, <1>2

---------------------------------------------------------------------------
(* SUBSCRIBE_OK.                                                           *)

\* A duplicate alias closes the publisher and concerns no request.
LEMMA DuplicateAliasPromise ==
  ASSUME PromiseInv, NEW t \in DOMAIN tracks, NEW p \in DOMAIN tracks[t].upstream_subs,
         NEW alias \in InboundAliases, SubscribeOkDuplicateAlias(p, t, alias),
         NEW x \in Sessions, NEW q \in RequestIds
  PROVE  Promise(x, q)!Next
<1>1. /\ tracks' = Put(tracks, t, EstablishLeg(tracks[t], p, alias))
      /\ UNCHANGED <<sessions, downstream_request_index>>
      /\ out' = {CloseSession(p, "DuplicateTrackAlias")}
  BY DEF SubscribeOkDuplicateAlias
<1>2. RouteOK(tracks[t])
  BY DEF PromiseInv, SessionsInv, DownstreamInv, TypeOK, RoutesOK
<1>3. \A u \in DOMAIN tracks : tracks'[u].downstream_subs = tracks[u].downstream_subs
  BY <1>1, <1>2, LegsLeaveDownstream DEF Put
<1>4. StatusOf(x, q)' = StatusOf(x, q)
  BY <1>1, <1>3, Indexed DEF StatusOf
<1>5. ToldTo(x, q)' = {}
  BY <1>1, NotTold DEF CloseSession
<1> QED BY <1>4, <1>5, NothingHappens

\* The sessions keep their role and the next id expected of their peer.
LEMMA ForwardedKeeps ==
  ASSUME PromiseInv, NEW t, NEW p, NEW alias, SubscribeOkForwarded(p, t, alias),
         NEW y \in DOMAIN sessions
  PROVE  /\ sessions'[y].role = sessions[y].role
         /\ sessions'[y].peer_next_expected = sessions[y].peer_next_expected
<1> DEFINE Count(z) == Cardinality({d \in AwaitingSubscribers(t) : d[1] = z})
           bound == IF y = p THEN Put(sessions[y].inbound_aliases, alias, t)
                    ELSE sessions[y].inbound_aliases
           next == sessions[y].next_outbound + Count(y)
<1>1. sessions' =
        [z \in DOMAIN sessions |->
           [sessions[z] EXCEPT
              !.inbound_aliases = IF z = p THEN Put(@, alias, t) ELSE @,
              !.next_outbound = @ + Count(z)]]
  BY DEF SubscribeOkForwarded
<1> HIDE DEF Count
<1>2. sessions[y] \in Session
  BY DEF PromiseInv, SessionsInv, DownstreamInv, TypeOK, IsMap
<1>3. sessions'[y] = [sessions[y] EXCEPT !.inbound_aliases = bound, !.next_outbound = next]
  BY <1>1, <1>2 DEF Session
<1> HIDE DEF bound, next
<1> QED BY <1>2, <1>3 DEF Session

\* Each request of `ds' and no other is told SUBSCRIBE_OK.
LEMMA AcceptedTold ==
  ASSUME NEW ds, NEW f, NEW x, NEW q, \A d \in ds : d = <<d[1], d[2]>>,
         \A e \in out' : \E d \in ds : e = SendSubscribeOk(d[1], d[2], f[d]),
         \A d \in ds : SendSubscribeOk(d[1], d[2], f[d]) \in out'
  PROVE  ToldTo(x, q)' = IF <<x, q>> \in ds THEN {"SUBSCRIBE_OK"} ELSE {}
<1>1. ASSUME NEW e \in out'
      PROVE  e.kind = "SUBSCRIBE_OK" /\ <<e.to, e.id>> \in ds
  <2>1. PICK d \in ds : e = SendSubscribeOk(d[1], d[2], f[d])
    OBVIOUS
  <2>2. e.kind = "SUBSCRIBE_OK" /\ e.to = d[1] /\ e.id = d[2]
    BY <2>1 DEF SendSubscribeOk
  <2> QED BY <2>2
<1>2. CASE <<x, q>> \in ds
  <2>1. SendSubscribeOk(x, q, f[<<x, q>>]) \in out'
    <3>1. /\ <<x, q>>[1] = x /\ <<x, q>>[2] = q
      OBVIOUS
    <3> QED BY <1>2, <3>1
  <2>2. PICK e \in out' : e.to = x /\ e.id = q
    BY <2>1 DEF SendSubscribeOk
  <2>3. e.kind = "SUBSCRIBE_OK"
    BY <1>1
  <2> QED BY <1>1, <1>2, <2>2, <2>3 DEF ToldTo
<1>3. CASE <<x, q>> \notin ds
  BY <1>1, <1>3 DEF ToldTo
<1> QED BY <1>2, <1>3

\* handle_subscribe_ok (relay.rs:744) accepts the subscriptions that wait, and no others.
LEMMA ForwardedPromise ==
  ASSUME PromiseInv, NEW t \in DOMAIN tracks, NEW p \in DOMAIN tracks[t].upstream_subs,
         NEW alias \in InboundAliases, SubscribeOkForwarded(p, t, alias),
         NEW x \in Sessions, NEW q \in RequestIds
  PROVE  Promise(x, q)!Next
<1> DEFINE waiting == AwaitingSubscribers(t)
           established == EstablishLeg(tracks[t], p, alias)
           Count(y) == Cardinality({d \in waiting : d[1] = y})
<1>1. PICK aliasOf :
       /\ sessions' =
            [y \in DOMAIN sessions |->
               [sessions[y] EXCEPT
                  !.inbound_aliases = IF y = p THEN Put(@, alias, t) ELSE @,
                  !.next_outbound = @ + Count(y)]]
       /\ tracks' = Put(tracks, t,
            [established EXCEPT !.downstream_subs =
               Merge(@, [d \in waiting |->
                           [state |-> "Established", forward_desired |-> FALSE,
                            outbound_alias |-> aliasOf[d]]])])
       /\ \A e \in out' : \E d \in waiting : e = SendSubscribeOk(d[1], d[2], aliasOf[d])
       /\ \A d \in waiting : SendSubscribeOk(d[1], d[2], aliasOf[d]) \in out'
       /\ UNCHANGED downstream_request_index
  BY DEF SubscribeOkForwarded
<1> DEFINE accepted == [d \in waiting |-> [state |-> "Established", forward_desired |-> FALSE,
                                          outbound_alias |-> aliasOf[d]]]
<1>2. RouteOK(tracks[t]) /\ RouteOK(established)
  BY EstablishLegType DEF PromiseInv, SessionsInv, DownstreamInv, TypeOK, RoutesOK
<1>3. \A d \in waiting : /\ d \in Active(tracks[t])
                         /\ tracks[t].downstream_subs[d].state = "Pending"
  BY DEF AwaitingSubscribers, Active, DownstreamIn
<1>4. \A d \in waiting : accepted[d].state = "Established"
  OBVIOUS
<1>5. DOMAIN accepted = waiting
  OBVIOUS
<1>6. tracks'[t].downstream_subs = Merge(tracks[t].downstream_subs, accepted)
  <2>1. tracks'[t] = [established EXCEPT !.downstream_subs = Merge(@, accepted)]
    BY <1>1 DEF Put
  <2>2. established.downstream_subs = tracks[t].downstream_subs
    BY <1>2, LegsLeaveDownstream
  <2> HIDE DEF established, accepted
  <2> QED BY <1>2, <2>1, <2>2 DEF RouteOK
<1>7. \A u \in DOMAIN tracks : u # t => tracks'[u] = tracks[u]
  BY <1>1 DEF Put
<1>8. \A y \in DOMAIN sessions :
        /\ sessions'[y].role = sessions[y].role
        /\ sessions'[y].peer_next_expected = sessions[y].peer_next_expected
  BY ForwardedKeeps
<1>9. DOMAIN sessions' = DOMAIN sessions
  BY <1>1
<1> HIDE DEF waiting, established, accepted, Count
<1>10. ToldTo(x, q)' = IF <<x, q>> \in waiting THEN {"SUBSCRIBE_OK"} ELSE {}
  <2>1. \A d \in waiting : d = <<d[1], d[2]>>
    BY <1>3, StatusOfActive
  <2> QED BY <1>1, <2>1, AcceptedTold
<1>11. CASE <<x, q>> \in waiting
  <2>1. /\ StatusOf(x, q) = "Pending" /\ x \in DOMAIN sessions
        /\ <<x, q>> \in DOMAIN downstream_request_index
        /\ downstream_request_index[<<x, q>>] = t
    <3>1. <<x, q>> \in Active(tracks[t]) /\ tracks[t].downstream_subs[<<x, q>>].state = "Pending"
      BY <1>3, <1>11
    <3> QED BY <3>1, StatusOfActive, Indexed
  <2>2. StatusOf(x, q)' = "Established"
    <3>1. tracks'[t].downstream_subs[<<x, q>>].state = "Established"
      BY <1>4, <1>5, <1>6, <1>11 DEF Merge
    <3>2. /\ x \in DOMAIN sessions' /\ <<x, q>> \in DOMAIN downstream_request_index'
          /\ downstream_request_index'[<<x, q>>] = t
      BY <1>1, <1>9, <2>1
    <3> QED BY <3>1, <3>2 DEF StatusOf
  <2>3. ToldTo(x, q)' = {"SUBSCRIBE_OK"}
    BY <1>11, <1>10
  <2> QED BY <2>1, <2>2, <2>3 DEF Promise!Next, Promise!Accept
<1>12. CASE <<x, q>> \notin waiting
  <2>1. StatusOf(x, q)' = StatusOf(x, q)
    <3>1. ASSUME <<x, q>> \in DOMAIN downstream_request_index
          PROVE  LET u == downstream_request_index[<<x, q>>]
                 IN tracks'[u].downstream_subs[<<x, q>>] = tracks[u].downstream_subs[<<x, q>>]
      <4>1. /\ downstream_request_index[<<x, q>>] \in DOMAIN tracks
            /\ <<x, q>> \in DOMAIN tracks[downstream_request_index[<<x, q>>]].downstream_subs
        BY <3>1, Indexed DEF Active, DownstreamIn
      <4> QED BY <1>5, <1>6, <1>7, <1>12, <4>1 DEF Merge
    <3> QED BY <1>1, <1>8, <1>9, <3>1 DEF StatusOf
  <2>2. ToldTo(x, q)' = {}
    BY <1>12, <1>10
  <2> QED BY <2>1, <2>2, NothingHappens
<1> QED BY <1>11, <1>12

\* handle_subscribe_ok as a whole.
LEMMA SubscribeOkPromise ==
  ASSUME PromiseInv, NEW p \in Sessions, NEW r \in RequestIds, NEW alias \in InboundAliases,
         HandleSubscribeOk(p, r, alias), NEW x \in Sessions, NEW q \in RequestIds
  PROVE  Promise(x, q)!Next
<1>1. CASE \E y, error : Refuse(y, error)
  BY <1>1, RefusedPromise
<1>2. CASE ~\E y, error : Refuse(y, error)
  <2> DEFINE t == upstream_request_index[<<p, r>>]
  <2>1. /\ t \in DOMAIN tracks /\ p \in DOMAIN tracks[t].upstream_subs
        /\ SubscribeOkDuplicateAlias(p, t, alias) \/ SubscribeOkForwarded(p, t, alias)
    BY <1>2 DEF HandleSubscribeOk, AwaitsSubscribeOk
  <2> HIDE DEF t
  <2> QED BY <2>1, DuplicateAliasPromise, ForwardedPromise
<1> QED BY <1>1, <1>2

---------------------------------------------------------------------------
(* The end of subscriptions.                                               *)

\* A handler that ends subscriptions of one route and takes them out of the index.
LEMMA EndingStatus ==
  ASSUME PromiseInv, DownstreamInv', NEW t \in DOMAIN tracks, NEW route, RouteOK(route),
         route.downstream_subs = tracks[t].downstream_subs,
         NEW ended, ended \subseteq Active(route), NEW empty,
         tracks' = StoreRoute(t, TerminateDownstream(route, ended), empty),
         downstream_request_index' = Drop(downstream_request_index, ended),
         UNCHANGED sessions, NEW x \in Sessions, NEW q \in RequestIds
  PROVE  /\ StatusOf(x, q)' = IF <<x, q>> \in ended THEN "Ended" ELSE StatusOf(x, q)
         /\ <<x, q>> \in ended =>
              StatusOf(x, q) = route.downstream_subs[<<x, q>>].state
<1> DEFINE left == TerminateDownstream(route, ended)
<1>1. tracks' = Put(tracks, t, left) \/ tracks' = Drop(tracks, {t})
  BY DEF StoreRoute
<1>2. \A d \in DOMAIN route.downstream_subs \ ended :
        left.downstream_subs[d] = route.downstream_subs[d]
  BY DEF TerminateDownstream, RouteOK
<1>3. CASE <<x, q>> \in ended
  <2>1. <<x, q>> \in Active(tracks[t])
    BY <1>3 DEF Active, DownstreamIn
  <2>2. /\ <<x, q>> \in DOMAIN downstream_request_index
        /\ StatusOf(x, q) = tracks[t].downstream_subs[<<x, q>>].state
    BY <2>1, StatusOfActive
  <2>3. /\ x \in DOMAIN sessions /\ q % 2 = PeerParity(sessions[x].role)
        /\ q < sessions[x].peer_next_expected
    BY <2>2, Indexed
  <2>4. <<x, q>> \notin DOMAIN downstream_request_index'
    BY <1>3 DEF Drop, Restrict
  <2>5. StatusOf(x, q)' = "Ended"
    BY <2>3, <2>4 DEF StatusOf
  <2> QED BY <1>3, <2>2, <2>5
<1>4. CASE <<x, q>> \notin ended
  <2>1. t \in Tracks /\ RouteOf(t) = tracks[t]
    BY DEF PromiseInv, SessionsInv, DownstreamInv, TypeOK, RoutesOK, RouteOf
  <2>2. /\ <<x, q>> \in DOMAIN downstream_request_index'
             <=> <<x, q>> \in DOMAIN downstream_request_index
        /\ <<x, q>> \in DOMAIN downstream_request_index =>
             downstream_request_index'[<<x, q>>] = downstream_request_index[<<x, q>>]
    BY <1>4 DEF Drop, Restrict
  <2>3. <<x, q>> \in DOMAIN RouteOf(t).downstream_subs =>
          left.downstream_subs[<<x, q>>] = RouteOf(t).downstream_subs[<<x, q>>]
    BY <1>2, <1>4, <2>1
  <2> HIDE DEF left
  <2>4. Untouched(<<x, q>>)
    BY <1>1, <2>1, <2>2, <2>3, RouteUntouched
  <2>5. StatusOf(x, q)' = StatusOf(x, q)
    BY <2>4 DEF Untouched, StatusOf
  <2> QED BY <1>4, <2>5
<1> QED BY <1>3, <1>4

\* The requests that end are told so, each with the reply that fits its state.
LEMMA EndedTold ==
  ASSUME NEW done, NEW failed, done \cap failed = {},
         \A d \in done \cup failed : d = <<d[1], d[2]>>,
         \A e \in out' : \/ \E d \in done : e = SendPublishDone(d[1], d[2])
                         \/ \E d \in failed : e = SendRequestError(d[1], d[2]),
         \A d \in done : SendPublishDone(d[1], d[2]) \in out',
         \A d \in failed : SendRequestError(d[1], d[2]) \in out',
         NEW x, NEW q
  PROVE  ToldTo(x, q)' = IF <<x, q>> \in done THEN {"PUBLISH_DONE"}
                         ELSE IF <<x, q>> \in failed THEN {"REQUEST_ERROR"} ELSE {}
<1>1. ASSUME NEW e \in out'
      PROVE  \/ e.kind = "PUBLISH_DONE" /\ <<e.to, e.id>> \in done
             \/ e.kind = "REQUEST_ERROR" /\ <<e.to, e.id>> \in failed
  <2>1. CASE \E d \in done : e = SendPublishDone(d[1], d[2])
    BY <2>1 DEF SendPublishDone
  <2>2. CASE \E d \in failed : e = SendRequestError(d[1], d[2])
    BY <2>2 DEF SendRequestError
  <2> QED BY <2>1, <2>2
<1>2. <<x, q>>[1] = x /\ <<x, q>>[2] = q
  OBVIOUS
<1>3. CASE <<x, q>> \in done
  <2>1. SendPublishDone(x, q) \in out'
    BY <1>2, <1>3
  <2>2. PICK e \in out' : e.kind = "PUBLISH_DONE" /\ e.to = x /\ e.id = q
    BY <2>1 DEF SendPublishDone
  <2>3. \A e1 \in out' : e1.to = x /\ e1.id = q => e1.kind = "PUBLISH_DONE"
    BY <1>1, <1>3
  <2> QED BY <1>3, <2>2, <2>3 DEF ToldTo
<1>4. CASE <<x, q>> \in failed
  <2>1. SendRequestError(x, q) \in out'
    BY <1>2, <1>4
  <2>2. PICK e \in out' : e.kind = "REQUEST_ERROR" /\ e.to = x /\ e.id = q
    BY <2>1 DEF SendRequestError
  <2>3. \A e1 \in out' : e1.to = x /\ e1.id = q => e1.kind = "REQUEST_ERROR"
    BY <1>1, <1>4
  <2>4. <<x, q>> \notin done
    BY <1>4
  <2> QED BY <1>4, <2>2, <2>3, <2>4 DEF ToldTo
<1>5. CASE <<x, q>> \notin done /\ <<x, q>> \notin failed
  BY <1>1, <1>5 DEF ToldTo
<1> QED BY <1>3, <1>4, <1>5

\* What REQUEST_ERROR and PUBLISH_DONE of a publisher do to the requests: some
\* established ones are finished and some waiting ones fail.
LEMMA EndingPromise ==
  ASSUME PromiseInv, DownstreamInv', NEW t \in DOMAIN tracks, NEW route, RouteOK(route),
         route.downstream_subs = tracks[t].downstream_subs,
         NEW done, done \subseteq DownstreamIn(route, {"Established"}),
         NEW failed, failed \subseteq DownstreamIn(route, {"Pending"}),
         NEW ended, ended = done \cup failed, NEW empty,
         tracks' = StoreRoute(t, TerminateDownstream(route, ended), empty),
         downstream_request_index' = Drop(downstream_request_index, ended),
         \A e \in out' : \/ \E d \in done : e = SendPublishDone(d[1], d[2])
                         \/ \E d \in failed : e = SendRequestError(d[1], d[2]),
         \A d \in done : SendPublishDone(d[1], d[2]) \in out',
         \A d \in failed : SendRequestError(d[1], d[2]) \in out',
         UNCHANGED sessions, NEW x \in Sessions, NEW q \in RequestIds
  PROVE  Promise(x, q)!Next
<1>1. ended \subseteq Active(route)
  BY DEF Active, DownstreamIn
<1>2. \A d \in ended : d = <<d[1], d[2]>>
  <2>1. Active(route) = Active(tracks[t])
    BY DEF Active, DownstreamIn
  <2> QED BY <1>1, <2>1, StatusOfActive
<1>3. done \cap failed = {}
  BY DEF DownstreamIn
<1>4. \A d \in done \cup failed : d = <<d[1], d[2]>>
  BY <1>2
<1>5. ToldTo(x, q)' = IF <<x, q>> \in done THEN {"PUBLISH_DONE"}
                      ELSE IF <<x, q>> \in failed THEN {"REQUEST_ERROR"} ELSE {}
  BY <1>3, <1>4, EndedTold
<1>6. <<x, q>> \in ended <=> <<x, q>> \in done \/ <<x, q>> \in failed
  OBVIOUS
<1>7. /\ StatusOf(x, q)' = IF <<x, q>> \in ended THEN "Ended" ELSE StatusOf(x, q)
      /\ <<x, q>> \in ended => StatusOf(x, q) = route.downstream_subs[<<x, q>>].state
  BY <1>1, EndingStatus
<1>8. CASE <<x, q>> \in done
  <2>1. StatusOf(x, q) = "Established"
    BY <1>6, <1>7, <1>8 DEF DownstreamIn
  <2> QED BY <1>5, <1>6, <1>7, <1>8, <2>1 DEF Promise!Next, Promise!Finish
<1>9. CASE <<x, q>> \in failed
  <2>1. StatusOf(x, q) = "Pending"
    BY <1>6, <1>7, <1>9 DEF DownstreamIn
  <2>2. <<x, q>> \notin done
    BY <1>3, <1>9
  <2> QED BY <1>5, <1>6, <1>7, <1>9, <2>1, <2>2 DEF Promise!Next, Promise!Fail
<1>10. CASE <<x, q>> \notin ended
  BY <1>5, <1>6, <1>7, <1>10, NothingHappens
<1> QED BY <1>6, <1>8, <1>9, <1>10

\* handle_request_error (relay.rs:859): with the last leg, all who wait fail.
LEMMA RequestErrorPromise ==
  ASSUME PromiseInv, DownstreamInv', NEW p \in Sessions, NEW r \in RequestIds,
         HandleRequestError(p, r), NEW x \in Sessions, NEW q \in RequestIds
  PROVE  Promise(x, q)!Next
<1>1. CASE Ignore \/ \E y, error : Refuse(y, error)
  BY <1>1, RefusedPromise
<1>2. CASE ~(Ignore \/ \E y, error : Refuse(y, error))
  <2> DEFINE t == upstream_request_index[<<p, r>>]
             route == TerminateLegs(tracks[t], {p})
             done == {}
             failed == IF AllUpstreamTerminated(route)
                       THEN DownstreamIn(route, {"Pending"}) ELSE {}
             left == TerminateDownstream(route, failed)
             empty == AllUpstreamTerminated(route) /\ NoActiveDownstream(left)
  <2>1. /\ KnownUpstream(p, r)
        /\ tracks' = StoreRoute(t, left, empty)
        /\ downstream_request_index' = Drop(downstream_request_index, failed)
        /\ \A e \in out' : \E d \in failed : e = SendRequestError(d[1], d[2])
        /\ \A d \in failed : SendRequestError(d[1], d[2]) \in out'
        /\ UNCHANGED sessions
    BY <1>2 DEF HandleRequestError
  <2>2. t \in DOMAIN tracks /\ RouteOK(tracks[t])
    BY <2>1 DEF KnownUpstream, PromiseInv, SessionsInv, DownstreamInv, TypeOK, RoutesOK
  <2>3. RouteOK(route) /\ route.downstream_subs = tracks[t].downstream_subs
    BY <2>2, TerminateLegsType, LegsLeaveDownstream
  <2>4. /\ done \subseteq DownstreamIn(route, {"Established"})
        /\ failed \subseteq DownstreamIn(route, {"Pending"})
        /\ failed = done \cup failed
    OBVIOUS
  <2>5. /\ tracks' = StoreRoute(t, TerminateDownstream(route, failed), empty)
        /\ downstream_request_index' = Drop(downstream_request_index, failed)
        /\ \A e \in out' : \/ \E d \in done : e = SendPublishDone(d[1], d[2])
                           \/ \E d \in failed : e = SendRequestError(d[1], d[2])
        /\ \A d \in done : SendPublishDone(d[1], d[2]) \in out'
        /\ \A d \in failed : SendRequestError(d[1], d[2]) \in out'
    BY <2>1, <2>4
  <2> HIDE DEF t, route, done, failed, empty
  <2> QED BY <2>1, <2>2, <2>3, <2>4, <2>5, EndingPromise
<1> QED BY <1>1, <1>2

\* handle_publish_done (relay.rs:1028): all who were accepted are told, and with the
\* last leg all who wait fail.
LEMMA PublishDonePromise ==
  ASSUME PromiseInv, DownstreamInv', NEW p \in Sessions, NEW r \in RequestIds,
         HandlePublishDone(p, r), NEW x \in Sessions, NEW q \in RequestIds
  PROVE  Promise(x, q)!Next
<1>1. CASE Ignore \/ \E y, error : Refuse(y, error)
  BY <1>1, RefusedPromise
<1>2. CASE ~(Ignore \/ \E y, error : Refuse(y, error))
  <2> DEFINE t == upstream_request_index[<<p, r>>]
             route == TerminateLegs(tracks[t], {p})
             done == DownstreamIn(route, {"Established"})
             failed == IF AllUpstreamTerminated(route)
                       THEN DownstreamIn(route, {"Pending"}) ELSE {}
             ended == done \cup failed
             left == TerminateDownstream(route, ended)
             empty == NoActiveDownstream(left) /\ LiveLegs(left) = {}
  <2>1. /\ KnownUpstream(p, r)
        /\ tracks' = StoreRoute(t, left, empty)
        /\ downstream_request_index' = Drop(downstream_request_index, ended)
        /\ \A e \in out' : \/ \E d \in done : e = SendPublishDone(d[1], d[2])
                           \/ \E d \in failed : e = SendRequestError(d[1], d[2])
        /\ \A d \in done : SendPublishDone(d[1], d[2]) \in out'
        /\ \A d \in failed : SendRequestError(d[1], d[2]) \in out'
        /\ UNCHANGED sessions
    BY <1>2 DEF HandlePublishDone
  <2>2. t \in DOMAIN tracks /\ RouteOK(tracks[t])
    BY <2>1 DEF KnownUpstream, PromiseInv, SessionsInv, DownstreamInv, TypeOK, RoutesOK
  <2>3. RouteOK(route) /\ route.downstream_subs = tracks[t].downstream_subs
    BY <2>2, TerminateLegsType, LegsLeaveDownstream
  <2>4. /\ done \subseteq DownstreamIn(route, {"Established"})
        /\ failed \subseteq DownstreamIn(route, {"Pending"})
        /\ ended = done \cup failed
    OBVIOUS
  <2>5. tracks' = StoreRoute(t, TerminateDownstream(route, ended), empty)
    BY <2>1
  <2> HIDE DEF t, route, done, failed, ended, left, empty
  <2> QED BY <2>1, <2>2, <2>3, <2>4, <2>5, EndingPromise
<1> QED BY <1>1, <1>2

\* handle_unsubscribe (relay.rs:938) cancels a request without a word to its
\* subscriber.
LEMMA UnsubscribePromise ==
  ASSUME PromiseInv, DownstreamInv', NEW s \in Sessions, NEW r \in RequestIds,
         HandleUnsubscribe(s, r), NEW x \in Sessions, NEW q \in RequestIds
  PROVE  Promise(x, q)!Next
<1>1. CASE Ignore \/ \E y, error : Refuse(y, error)
  BY <1>1, RefusedPromise
<1>2. CASE ~(Ignore \/ \E y, error : Refuse(y, error))
  <2> DEFINE t == downstream_request_index[<<s, r>>]
             ended == {<<s, r>>}
             left == TerminateDownstream(tracks[t], ended)
             empty == NoActiveDownstream(left)
  <2>1. /\ <<s, r>> \in DOMAIN downstream_request_index
        /\ t \in DOMAIN tracks
        /\ tracks' = StoreRoute(t, left, empty)
        /\ downstream_request_index' = Drop(downstream_request_index, ended)
        /\ out' = IF empty THEN UnsubscribeLegs(left) ELSE {}
        /\ UNCHANGED sessions
    BY <1>2 DEF HandleUnsubscribe
  <2>2. RouteOK(tracks[t])
    BY <2>1 DEF PromiseInv, SessionsInv, DownstreamInv, TypeOK, RoutesOK
  <2>3. ended \subseteq Active(tracks[t])
    BY <2>1, Indexed
  <2>4. ToldTo(x, q)' = {}
    <3>1. \A e \in out' : e.kind = "UNSUBSCRIBE"
      BY <2>1 DEF UnsubscribeLegs, SendUnsubscribe
    <3> QED BY <3>1, NotTold
  <2> DEFINE route == tracks[t]
  <2>5. tracks' = StoreRoute(t, TerminateDownstream(route, ended), empty)
    BY <2>1
  <2>6. RouteOK(route) /\ route.downstream_subs = tracks[t].downstream_subs
        /\ ended \subseteq Active(route) /\ Active(route) = Active(tracks[t])
    BY <2>2, <2>3
  <2> HIDE DEF t, ended, left, empty, route
  <2>7. /\ StatusOf(x, q)' = IF <<x, q>> \in ended THEN "Ended" ELSE StatusOf(x, q)
        /\ <<x, q>> \in ended => StatusOf(x, q) = route.downstream_subs[<<x, q>>].state
    BY <2>1, <2>5, <2>6, EndingStatus
  <2>8. CASE <<x, q>> \in ended
    <3>1. StatusOf(x, q) \in {"Pending", "Established"}
      BY <2>6, <2>7, <2>8 DEF Active, DownstreamIn
    <3> QED BY <2>4, <2>7, <2>8, <3>1 DEF Promise!Next, Promise!Cancel
  <2>9. CASE <<x, q>> \notin ended
    BY <2>4, <2>7, <2>9, NothingHappens
  <2> QED BY <2>8, <2>9
<1> QED BY <1>1, <1>2

---------------------------------------------------------------------------
(* The ids of the requests.                                                *)

\* A handler that adds at most one accepted request to the index and changes no
\* role.
LEMMA IndexParity ==
  ASSUME PromiseInv, NEW new,
         DOMAIN downstream_request_index' \subseteq DOMAIN downstream_request_index \cup new,
         \A k \in new : k[1] \in DOMAIN sessions /\ k[2] % 2 = PeerParity(sessions[k[1]].role),
         \A y \in DOMAIN sessions :
           y \in DOMAIN sessions' => sessions'[y].role = sessions[y].role
  PROVE  RequestsOfPeers'
<1> SUFFICES ASSUME NEW k \in DOMAIN downstream_request_index', k[1] \in DOMAIN sessions'
             PROVE  k[2] % 2 = PeerParity(sessions'[k[1]].role)
  BY DEF RequestsOfPeers, PeerParity
<1>1. k[1] \in DOMAIN sessions /\ k[2] % 2 = PeerParity(sessions[k[1]].role)
  BY Indexed
<1> QED BY <1>1

\* A handler that adds no request to the index and changes no role.
LEMMA IndexShrinks ==
  ASSUME PromiseInv,
         DOMAIN downstream_request_index' \subseteq DOMAIN downstream_request_index,
         \A y \in DOMAIN sessions :
           y \in DOMAIN sessions' => sessions'[y].role = sessions[y].role
  PROVE  RequestsOfPeers'
<1> DEFINE new == {}
<1>1. /\ DOMAIN downstream_request_index' \subseteq DOMAIN downstream_request_index \cup new
      /\ \A k \in new : k[1] \in DOMAIN sessions /\ k[2] % 2 = PeerParity(sessions[k[1]].role)
  OBVIOUS
<1> HIDE DEF new
<1> QED BY <1>1, IndexParity

\* A session that opens has a key that no request in the index has.
LEMMA SessionEventParity ==
  ASSUME PromiseInv, NEW s \in Sessions, SessionEvent(s)
  PROVE  RequestsOfPeers'
<1>1. /\ DOMAIN downstream_request_index' \subseteq DOMAIN downstream_request_index
      /\ \A y \in DOMAIN sessions : y \in DOMAIN sessions' => sessions'[y] = sessions[y]
  BY DEF SessionEvent, OnSessionOpened, OnSessionClosed, MessageFromUnknownSession, Refuse,
         relayVars, Put, Drop, Restrict
<1> QED BY <1>1, IndexShrinks

\* Only handle_subscribe adds requests, and it has checked their ids.
LEMMA SubscriberMessageParity ==
  ASSUME PromiseInv, NEW s \in Sessions, SubscriberMessage(s)
  PROVE  RequestsOfPeers'
<1>1. ASSUME UNCHANGED <<sessions, downstream_request_index>>
      PROVE  RequestsOfPeers'
  BY <1>1, IndexShrinks
<1>2. ASSUME NEW r \in RequestIds, NEW t \in Tracks, HandleSubscribe(s, r, t)
      PROVE  RequestsOfPeers'
  <2>1. CASE \E y, error : Refuse(y, error)
    BY <1>1, <2>1 DEF Refuse, relayVars
  <2>2. CASE ~\E y, error : Refuse(y, error)
    <3> DEFINE new == {<<s, r>>}
    <3>1. /\ s \in DOMAIN sessions /\ PeerRequestIdVerdict(sessions[s], r) = "Ok"
          /\ SubscribeJoins(s, r, t) \/ SubscribeFails(s, r, t) \/ SubscribeFansOut(s, r, t)
      BY <1>2, <2>2 DEF HandleSubscribe, Receives
    <3>2. Spends(s, r)
      BY <3>1, SubscribeSpends
    <3>3. DOMAIN downstream_request_index' \subseteq DOMAIN downstream_request_index \cup new
      BY <3>1 DEF SubscribeJoins, SubscribeFails, SubscribeFansOut, Put, Drop, Restrict
    <3>4. \A k \in new : k[1] \in DOMAIN sessions /\ k[2] % 2 = PeerParity(sessions[k[1]].role)
      BY <3>1 DEF PeerRequestIdVerdict
    <3>5. \A y \in DOMAIN sessions : sessions'[y].role = sessions[y].role
      BY <3>2 DEF Spends
    <3> HIDE DEF new
    <3> QED BY <3>3, <3>4, <3>5, IndexParity
  <2> QED BY <2>1, <2>2
<1>3. ASSUME NEW r \in RequestIds, HandleUnsubscribe(s, r)
      PROVE  RequestsOfPeers'
  <2>1. /\ UNCHANGED sessions
        /\ DOMAIN downstream_request_index' \subseteq DOMAIN downstream_request_index
    BY <1>3 DEF HandleUnsubscribe, Refuse, Ignore, relayVars, Drop, Restrict
  <2> QED BY <2>1, IndexShrinks
<1> QED BY <1>2, <1>3 DEF SubscriberMessage

\* No answer of a publisher adds a request.
LEMMA PublisherMessageParity ==
  ASSUME PromiseInv, NEW p \in Sessions, PublisherMessage(p)
  PROVE  RequestsOfPeers'
<1>1. PICK r \in RequestIds :
        \/ \E ns \in Namespaces : HandlePublishNamespace(p, r, ns)
        \/ \E alias \in InboundAliases : HandleSubscribeOk(p, r, alias)
        \/ HandleRequestError(p, r)
        \/ HandlePublishDone(p, r)
  BY DEF PublisherMessage
<1>2. DOMAIN downstream_request_index' \subseteq DOMAIN downstream_request_index
  BY <1>1 DEF HandlePublishNamespace, HandleSubscribeOk, HandleRequestError, HandlePublishDone,
              SubscribeOkDuplicateAlias, SubscribeOkForwarded, Refuse, Ignore, relayVars,
              Drop, Restrict
<1>3. \A y \in DOMAIN sessions : sessions'[y].role = sessions[y].role
  <2>1. CASE UNCHANGED sessions
    BY <2>1
  <2>2. CASE ~UNCHANGED sessions
    <3>1. HandleRequestError(p, r) \/ HandlePublishDone(p, r) => UNCHANGED sessions
      BY DEF HandleRequestError, HandlePublishDone, Refuse, Ignore, relayVars
    <3>2. ASSUME NEW ns \in Namespaces, HandlePublishNamespace(p, r, ns)
          PROVE  \A y \in DOMAIN sessions : sessions'[y].role = sessions[y].role
      <4>1. ~\E y, error : Refuse(y, error)
        BY <2>2 DEF Refuse, relayVars
      <4> QED BY <3>2, <4>1, PublishNamespaceSpends DEF Spends
    <3>3. ASSUME NEW alias \in InboundAliases, HandleSubscribeOk(p, r, alias)
          PROVE  \A y \in DOMAIN sessions : sessions'[y].role = sessions[y].role
      <4>1. SubscribeOkForwarded(p, upstream_request_index[<<p, r>>], alias)
        BY <2>2, <3>3 DEF HandleSubscribeOk, Refuse, relayVars, SubscribeOkDuplicateAlias
      <4> QED BY <4>1, ForwardedKeeps
    <3> QED BY <1>1, <2>2, <3>1, <3>2, <3>3
  <2> QED BY <2>1, <2>2
<1> QED BY <1>2, <1>3, IndexShrinks

\* Setup changes no role.
LEMMA SetupMessageParity ==
  ASSUME PromiseInv, NEW s \in Sessions, SetupMessage(s)
  PROVE  RequestsOfPeers'
<1>1. /\ UNCHANGED downstream_request_index
      /\ \A y \in DOMAIN sessions : sessions'[y].role = sessions[y].role
  BY DEF SetupMessage, HandleClientSetup, HandleServerSetup, HandleMaxRequestId,
         HandleRequestsBlocked, HandleGoaway, HandleOther, Refuse, Ignore, relayVars,
         PromiseInv, SessionsInv, DownstreamInv, TypeOK, IsMap, Session
<1> QED BY <1>1, IndexShrinks

---------------------------------------------------------------------------

\* The relay starts with an empty index.
LEMMA InitPromise ==
  ASSUME Init
  PROVE  PromiseInv
BY InitSessions DEF Init, PromiseInv, RequestsOfPeers, EmptyMap

\* Every step keeps the invariant.
LEMMA NextPromiseInv ==
  ASSUME PromiseInv, [Next]_vars
  PROVE  PromiseInv'
<1>1. SessionsInv'
  BY NextSessions DEF PromiseInv
<1>2. RequestsOfPeers'
  <2>1. ASSUME UNCHANGED <<sessions, downstream_request_index>>
        PROVE  RequestsOfPeers'
    BY <2>1, IndexShrinks
  <2>2. ASSUME NEW s \in Sessions, NEW alias \in InboundAliases,
               OnSubscriptionObject(s, alias)
        PROVE  RequestsOfPeers'
    BY <2>1, <2>2 DEF OnSubscriptionObject, Refuse, relayVars
  <2>3. CASE UNCHANGED vars
    BY <2>1, <2>3 DEF vars
  <2> QED BY <2>2, <2>3, SessionEventParity, SetupMessageParity, PublisherMessageParity,
             SubscriberMessageParity DEF Next
<1> QED BY <1>1, <1>2 DEF PromiseInv

\* Every step is, for every request, one of its Subscription.
LEMMA NextPromise ==
  ASSUME PromiseInv, Next, NEW x \in Sessions, NEW q \in RequestIds
  PROVE  Promise(x, q)!Next
<1>1. DownstreamInv'
  BY NextDownstream DEF PromiseInv, SessionsInv
<1>2. ASSUME NEW s \in Sessions, SessionEvent(s)
      PROVE  Promise(x, q)!Next
  <2>1. CASE MessageFromUnknownSession(s)
    BY <2>1, RefusedPromise DEF MessageFromUnknownSession
  <2> QED BY <1>1, <1>2, <2>1, OpenedPromise, ClosedPromise DEF SessionEvent
<1>3. ASSUME NEW p \in Sessions, PublisherMessage(p)
      PROVE  Promise(x, q)!Next
  BY <1>1, <1>3, PublishNamespacePromise, SubscribeOkPromise, RequestErrorPromise,
     PublishDonePromise DEF PublisherMessage
<1>4. ASSUME NEW s \in Sessions, SubscriberMessage(s)
      PROVE  Promise(x, q)!Next
  BY <1>1, <1>4, SubscribePromise, UnsubscribePromise DEF SubscriberMessage
<1>5. ASSUME NEW s \in Sessions, NEW alias \in InboundAliases, OnSubscriptionObject(s, alias)
      PROVE  Promise(x, q)!Next
  BY <1>5, ObjectPromise
<1> QED BY <1>2, <1>3, <1>4, <1>5, SetupPromise DEF Next

\* Whatever the peers send, in whatever order, each request of a subscriber is
\* accepted at most once and ended at most once, with the reply that fits its
\* state, and a request that ended or was cancelled is never heard of again:
\* relay.rs implements Subscription for every request at once.
THEOREM RelayKeepsPromise == Spec => KeepsPromise
<1>1. Init => \A s \in Sessions, r \in RequestIds : Promise(s, r)!Init
  BY DEF Init, Promise!Init, StatusOf, ToldTo, EmptyMap
<1>2. Init => PromiseInv
  BY InitPromise
<1>3. PromiseInv /\ [Next]_vars => PromiseInv'
  BY NextPromiseInv
<1>4. PromiseInv /\ [Next]_vars =>
        [\A s \in Sessions, r \in RequestIds : Promise(s, r)!Next]_vars
  BY NextPromise
<1> QED BY <1>1, <1>2, <1>3, <1>4, PTL DEF Spec, KeepsPromise

---------------------------------------------------------------------------
(* What the peers are told.  Each kind of message is sent by few handlers. *)

OnlyKinds(kinds) == \A e \in out' : e.kind \in kinds

LEMMA RefusedKinds ==
  ASSUME NEW s, NEW error, Refuse(s, error)
  PROVE  OnlyKinds({"CLOSE"})
BY DEF Refuse, OnlyKinds, CloseSession

LEMMA ClosedKinds ==
  ASSUME NEW s, OnSessionClosed(s)
  PROVE  OnlyKinds({"UNSUBSCRIBE"})
<1>1. PICK routes, idle : out' = UNION {UnsubscribeLegs(routes[t]) : t \in idle}
  BY DEF OnSessionClosed
<1> QED BY <1>1 DEF OnlyKinds, UnsubscribeLegs, SendUnsubscribe

LEMMA SetupKinds ==
  ASSUME NEW s, SetupMessage(s)
  PROVE  OnlyKinds({"CLOSE", "SERVER_SETUP"})
<1>1. \/ \E error : Refuse(s, error)
      \/ out' = {} \/ out' = {SendServerSetup(s, InitialLocalMax)}
  BY DEF SetupMessage, HandleClientSetup, HandleServerSetup, HandleMaxRequestId,
         HandleRequestsBlocked, HandleGoaway, HandleOther, Ignore
<1> QED BY <1>1, RefusedKinds DEF OnlyKinds, SendServerSetup

LEMMA PublishNamespaceKinds ==
  ASSUME NEW s, NEW r, NEW ns, HandlePublishNamespace(s, r, ns)
  PROVE  OnlyKinds({"CLOSE", "REQUEST_OK", "SUBSCRIBE"})
<1>1. \/ \E error : Refuse(s, error)
      \/ \E idOf : out' = {SendRequestOk(s, r)} \cup
                          {SendSubscribe(s, idOf[t], t) : t \in DOMAIN idOf}
  BY DEF HandlePublishNamespace
<1> QED BY <1>1, RefusedKinds DEF OnlyKinds, SendRequestOk, SendSubscribe

LEMMA SubscribeKinds ==
  ASSUME NEW s, NEW r, NEW t
  PROVE  /\ SubscribeJoins(s, r, t) => OnlyKinds({"SUBSCRIBE_OK"})
         /\ SubscribeFails(s, r, t) => OnlyKinds({"REQUEST_ERROR"})
         /\ SubscribeFansOut(s, r, t) => OnlyKinds({"SUBSCRIBE"})
<1>1. SubscribeJoins(s, r, t) => OnlyKinds({"SUBSCRIBE_OK"})
  BY DEF SubscribeJoins, OnlyKinds, SendSubscribeOk
<1>2. SubscribeFails(s, r, t) => OnlyKinds({"REQUEST_ERROR"})
  BY DEF SubscribeFails, OnlyKinds, SendRequestError
<1>3. ASSUME SubscribeFansOut(s, r, t)
      PROVE  OnlyKinds({"SUBSCRIBE"})
  <2>1. out' = {SendSubscribe(p, sessions[p].local_next, t) : p \in FanOutTargets(t)}
    BY <1>3 DEF SubscribeFansOut
  <2> QED BY <2>1 DEF OnlyKinds, SendSubscribe
<1> QED BY <1>1, <1>2, <1>3

LEMMA ForwardedOut ==
  ASSUME NEW p, NEW t, NEW alias, SubscribeOkForwarded(p, t, alias)
  PROVE  \E aliasOf : out' = {SendSubscribeOk(d[1], d[2], aliasOf[d]) :
                               d \in AwaitingSubscribers(t)}
BY DEF SubscribeOkForwarded

LEMMA SubscribeOkKinds ==
  ASSUME NEW p, NEW t, NEW alias
  PROVE  /\ SubscribeOkDuplicateAlias(p, t, alias) => OnlyKinds({"CLOSE"})
         /\ SubscribeOkForwarded(p, t, alias) => OnlyKinds({"SUBSCRIBE_OK"})
<1>1. SubscribeOkDuplicateAlias(p, t, alias) => OnlyKinds({"CLOSE"})
  BY DEF SubscribeOkDuplicateAlias, OnlyKinds, CloseSession
<1>2. ASSUME SubscribeOkForwarded(p, t, alias)
      PROVE  OnlyKinds({"SUBSCRIBE_OK"})
  <2>1. PICK aliasOf : out' = {SendSubscribeOk(d[1], d[2], aliasOf[d]) :
                                 d \in AwaitingSubscribers(t)}
    BY <1>2, ForwardedOut
  <2> QED BY <2>1 DEF OnlyKinds, SendSubscribeOk
<1> QED BY <1>1, <1>2

LEMMA LegEndsKinds ==
  ASSUME NEW p, NEW r, HandleRequestError(p, r) \/ HandlePublishDone(p, r)
  PROVE  OnlyKinds({"CLOSE", "REQUEST_ERROR", "PUBLISH_DONE"})
<1>1. \/ \E error : Refuse(p, error)
      \/ \E done, failed : out' = {SendPublishDone(d[1], d[2]) : d \in done} \cup
                                  {SendRequestError(d[1], d[2]) : d \in failed}
  <2>1. CASE HandleRequestError(p, r)
    <3>1. \/ \E error : Refuse(p, error)
          \/ out' = {}
          \/ \E failed : out' = {SendRequestError(d[1], d[2]) : d \in failed}
      BY <2>1 DEF HandleRequestError, Ignore
    <3>2. {SendPublishDone(d[1], d[2]) : d \in {}} = {}
      OBVIOUS
    <3>3. {SendRequestError(d[1], d[2]) : d \in {}} = {}
      OBVIOUS
    <3>4. ASSUME NEW failed, out' = {SendRequestError(d[1], d[2]) : d \in failed}
          PROVE  \E done : out' = {SendPublishDone(d[1], d[2]) : d \in done} \cup
                                  {SendRequestError(d[1], d[2]) : d \in failed}
      BY <3>2, <3>4
    <3>5. CASE out' = {}
      BY <3>2, <3>3, <3>5
    <3> QED BY <3>1, <3>4, <3>5
  <2>2. CASE HandlePublishDone(p, r)
    <3>1. {SendPublishDone(d[1], d[2]) : d \in {}} \cup
            {SendRequestError(d[1], d[2]) : d \in {}} = {}
      OBVIOUS
    <3>2. \/ \E error : Refuse(p, error)
          \/ out' = {}
          \/ \E done, failed : out' = {SendPublishDone(d[1], d[2]) : d \in done} \cup
                                      {SendRequestError(d[1], d[2]) : d \in failed}
      BY <2>2 DEF HandlePublishDone, Ignore
    <3> QED BY <3>1, <3>2
  <2> QED BY <2>1, <2>2
<1>2. ASSUME NEW done, NEW failed,
             out' = {SendPublishDone(d[1], d[2]) : d \in done} \cup
                    {SendRequestError(d[1], d[2]) : d \in failed}
      PROVE  OnlyKinds({"CLOSE", "REQUEST_ERROR", "PUBLISH_DONE"})
  BY <1>2 DEF OnlyKinds, SendPublishDone, SendRequestError
<1> QED BY <1>1, <1>2, RefusedKinds DEF OnlyKinds

LEMMA UnsubscribeKinds ==
  ASSUME NEW s, NEW r, HandleUnsubscribe(s, r)
  PROVE  OnlyKinds({"CLOSE", "UNSUBSCRIBE"})
<1>1. \/ \E error : Refuse(s, error)
      \/ out' = {} \/ \E route : out' = UnsubscribeLegs(route)
  BY DEF HandleUnsubscribe, Ignore
<1> QED BY <1>1, RefusedKinds DEF OnlyKinds, UnsubscribeLegs, SendUnsubscribe

LEMMA ObjectKinds ==
  ASSUME NEW p, NEW alias, OnSubscriptionObject(p, alias)
  PROVE  OnlyKinds({"CLOSE", "OBJECT"})
<1>1. \/ \E error : Refuse(p, error)
      \/ \E xs : out' = {SendObject(x[1], x[2]) : x \in xs}
  BY DEF OnSubscriptionObject
<1> QED BY <1>1, RefusedKinds DEF OnlyKinds, SendObject

\* The handlers that may have sent the message `e'.
ToldBy(e) ==
  /\ e.kind = "UNSUBSCRIBE" =>
       \E s \in Sessions : \/ OnSessionClosed(s)
                           \/ \E r \in RequestIds : HandleUnsubscribe(s, r)
  /\ e.kind = "SUBSCRIBE" =>
       \E s \in Sessions, r \in RequestIds :
         \/ \E ns \in Namespaces : HandlePublishNamespace(s, r, ns)
         \/ \E t \in Tracks : HandleSubscribe(s, r, t)
  /\ e.kind = "SUBSCRIBE_OK" =>
       \E s \in Sessions, r \in RequestIds :
         \/ \E alias \in InboundAliases : HandleSubscribeOk(s, r, alias)
         \/ \E t \in Tracks : HandleSubscribe(s, r, t)
  /\ e.kind = "REQUEST_ERROR" =>
       \E s \in Sessions, r \in RequestIds :
         \/ HandleRequestError(s, r) \/ HandlePublishDone(s, r)
         \/ \E t \in Tracks : HandleSubscribe(s, r, t)

LEMMA Tellers ==
  ASSUME Next, NEW e \in out'
  PROVE  ToldBy(e)
<1> USE DEF ToldBy
<1>1. PICK s \in Sessions : \/ SessionEvent(s) \/ SetupMessage(s)
                            \/ PublisherMessage(s) \/ SubscriberMessage(s)
                            \/ \E alias \in InboundAliases : OnSubscriptionObject(s, alias)
  BY DEF Next
<1>2. CASE SessionEvent(s)
  BY <1>2, ClosedKinds, RefusedKinds
     DEF SessionEvent, OnSessionOpened, MessageFromUnknownSession, OnlyKinds
<1>3. CASE SetupMessage(s) \/ \E alias \in InboundAliases : OnSubscriptionObject(s, alias)
  BY <1>3, SetupKinds, ObjectKinds DEF OnlyKinds
<1>4. CASE PublisherMessage(s)
  <2>1. ASSUME NEW r \in RequestIds, NEW alias \in InboundAliases, HandleSubscribeOk(s, r, alias)
        PROVE  OnlyKinds({"CLOSE", "SUBSCRIBE_OK"})
    BY <2>1, SubscribeOkKinds, RefusedKinds DEF HandleSubscribeOk, OnlyKinds
  <2> QED BY <1>4, <2>1, PublishNamespaceKinds, LegEndsKinds DEF PublisherMessage, OnlyKinds
<1>5. CASE SubscriberMessage(s)
  <2>1. ASSUME NEW r \in RequestIds, NEW t \in Tracks, HandleSubscribe(s, r, t)
        PROVE  OnlyKinds({"CLOSE", "SUBSCRIBE_OK", "REQUEST_ERROR", "SUBSCRIBE"})
    BY <2>1, SubscribeKinds, RefusedKinds DEF HandleSubscribe, OnlyKinds
  <2> QED BY <1>5, <2>1, UnsubscribeKinds DEF SubscriberMessage, OnlyKinds
<1> QED BY <1>1, <1>2, <1>3, <1>4, <1>5

---------------------------------------------------------------------------
(* UNSUBSCRIBE: the last subscriber left.                                  *)

UnsubscribeFits(e) ==
  \E t \in DOMAIN tracks :
    /\ e.to \in LiveLegs(tracks[t])
    /\ tracks[t].upstream_subs[e.to].request_id = e.id
    /\ e.to \notin LiveLegs(RouteOf(t)')
    /\ NoActiveDownstream(RouteOf(t)')

\* on_session_closed (relay.rs:122) ends the legs of the routes that become idle.
LEMMA ClosedUnsubscribes ==
  ASSUME SessionsInv, NEW s, OnSessionClosed(s), NEW e \in Sent("UNSUBSCRIBE")'
  PROVE  UnsubscribeFits(e)
<1> DEFINE left == [t \in DOMAIN tracks |-> RouteWithout(tracks[t], s)]
           idle == {t \in DOMAIN tracks : NoActiveDownstream(left[t])}
           empty == {t \in DOMAIN tracks : /\ DOMAIN left[t].downstream_subs = {}
                                           /\ DOMAIN left[t].upstream_subs = {}}
<1>1. /\ tracks' = [t \in DOMAIN tracks \ empty |->
                      IF t \in idle THEN TerminateLegs(left[t], LiveLegs(left[t])) ELSE left[t]]
      /\ out' = UNION {UnsubscribeLegs(left[t]) : t \in idle}
  BY DEF OnSessionClosed
<1>2. PICK t \in idle : e \in UnsubscribeLegs(left[t])
  BY <1>1 DEF Sent
<1>3. t \in DOMAIN tracks /\ NoActiveDownstream(left[t])
  OBVIOUS
<1>4. RouteOK(tracks[t]) /\ RouteOK(left[t])
  BY <1>3, CounterTypes, RouteWithoutType
<1>5. /\ e.to \in LiveLegs(left[t])
      /\ left[t].upstream_subs[e.to].request_id = e.id
  BY <1>2 DEF UnsubscribeLegs, SendUnsubscribe
<1>6. /\ e.to \in LiveLegs(tracks[t])
      /\ tracks[t].upstream_subs[e.to].request_id = e.id
  BY <1>3, <1>5 DEF RouteWithout, LiveLegs, Drop, Restrict
<1>7. RouteOf(t)' = NewRoute \/ RouteOf(t)' = TerminateLegs(left[t], LiveLegs(left[t]))
  BY <1>1 DEF RouteOf
<1> HIDE DEF left, idle, empty
<1>8. e.to \notin LiveLegs(RouteOf(t)') /\ NoActiveDownstream(RouteOf(t)')
  <2>1. CASE RouteOf(t)' = NewRoute
    BY <2>1 DEF NewRoute, EmptyMap, LiveLegs, NoActiveDownstream, DownstreamIn
  <2>2. CASE RouteOf(t)' = TerminateLegs(left[t], LiveLegs(left[t]))
    <3>1. LiveLegs(TerminateLegs(left[t], LiveLegs(left[t]))) =
            LiveLegs(left[t]) \ LiveLegs(left[t])
      BY <1>4, TerminatedNotLive
    <3>2. TerminateLegs(left[t], LiveLegs(left[t])).downstream_subs = left[t].downstream_subs
      BY <1>4, LegsLeaveDownstream
    <3> QED BY <1>3, <2>2, <3>1, <3>2 DEF NoActiveDownstream, DownstreamIn
  <2> QED BY <1>7, <2>1, <2>2
<1> QED BY <1>3, <1>6, <1>8 DEF UnsubscribeFits

\* handle_unsubscribe (relay.rs:938) drops the route.
LEMMA UnsubscribeUnsubscribes ==
  ASSUME SessionsInv, NEW s, NEW r, HandleUnsubscribe(s, r), NEW e \in Sent("UNSUBSCRIBE")'
  PROVE  UnsubscribeFits(e)
<1>0. PICK t : t = downstream_request_index[<<s, r>>]
  OBVIOUS
<1> DEFINE route == TerminateDownstream(tracks[t], {<<s, r>>})
           last == NoActiveDownstream(route)
<1>1. \A error : ~Refuse(s, error)
  BY RefusedKinds DEF Sent, OnlyKinds
<1>2. /\ t \in DOMAIN tracks
      /\ tracks' = StoreRoute(t, route, last)
      /\ out' = IF last THEN UnsubscribeLegs(route) ELSE {}
  BY <1>0, <1>1 DEF HandleUnsubscribe, Ignore, Sent
<1>3. last /\ e \in UnsubscribeLegs(route)
  BY <1>2 DEF Sent
<1>4. route.upstream_subs = tracks[t].upstream_subs
  <2>1. RouteOK(tracks[t])
    BY <1>2, CounterTypes
  <2> QED BY <2>1 DEF RouteOK, TerminateDownstream
<1> HIDE DEF route, last
<1>5. /\ e.to \in LiveLegs(tracks[t])
      /\ tracks[t].upstream_subs[e.to].request_id = e.id
  BY <1>3, <1>4 DEF UnsubscribeLegs, SendUnsubscribe, LiveLegs
<1>6. RouteOf(t)' = NewRoute
  BY <1>2, <1>3 DEF RouteOf, StoreRoute, Drop, Restrict
<1> QED BY <1>2, <1>5, <1>6
        DEF UnsubscribeFits, NewRoute, EmptyMap, LiveLegs, NoActiveDownstream, DownstreamIn

---------------------------------------------------------------------------
(* SUBSCRIBE_OK: a publisher has confirmed the track.                      *)

SubscribeOkFits(e) ==
  /\ <<e.to, e.id>> \in DOMAIN downstream_request_index'
  /\ LET legs == tracks'[downstream_request_index'[<<e.to, e.id>>]].upstream_subs
     IN \E p \in DOMAIN legs : legs[p].state = "Established"

LEMMA JoinsAnswered ==
  ASSUME SessionsInv, NEW s, NEW r, NEW t \in Tracks, SubscribeJoins(s, r, t),
         HasEstablishedUpstream(RouteOf(t)), NEW e \in out'
  PROVE  SubscribeOkFits(e)
<1>1. e.to = s /\ e.id = r
  BY DEF SubscribeJoins, SendSubscribeOk
<1>2. /\ <<s, r>> \in DOMAIN downstream_request_index'
      /\ downstream_request_index'[<<s, r>>] = t
  BY DEF SubscribeJoins, Put
<1>3. tracks'[t].upstream_subs = RouteOf(t).upstream_subs
  <2>1. RouteOK(RouteOf(t))
    BY RouteOfType DEF SessionsInv, DownstreamInv, TypeOK
  <2>2. \E subs : tracks' = Put(tracks, t, [RouteOf(t) EXCEPT !.downstream_subs = subs])
    BY DEF SubscribeJoins
  <2> QED BY <2>1, <2>2 DEF RouteOK, Put
<1> QED BY <1>1, <1>2, <1>3 DEF SubscribeOkFits, HasEstablishedUpstream

LEMMA ForwardedAnswered ==
  ASSUME SessionsInv, NEW t \in DOMAIN tracks, NEW p \in DOMAIN tracks[t].upstream_subs,
         NEW alias \in InboundAliases, SubscribeOkForwarded(p, t, alias), NEW e \in out'
  PROVE  SubscribeOkFits(e)
<1>1. PICK d \in AwaitingSubscribers(t) : e.to = d[1] /\ e.id = d[2]
  <2>1. PICK aliasOf : out' = {SendSubscribeOk(d[1], d[2], aliasOf[d]) :
                                 d \in AwaitingSubscribers(t)}
    BY ForwardedOut
  <2> QED BY <2>1 DEF SendSubscribeOk
<1>2. d \in DOMAIN downstream_request_index /\ downstream_request_index[d] = t
  BY DEF AwaitingSubscribers, SessionsInv, DownstreamInv, DownstreamIndexExact, DownstreamIn
<1>3. d = <<e.to, e.id>>
  BY <1>1, <1>2 DEF SessionsInv, DownstreamInv, TypeOK, IsMap
<1>4. RouteOK(tracks[t])
  BY CounterTypes
<1> DEFINE held == EstablishLeg(tracks[t], p, alias)
<1>5. p \in DOMAIN held.upstream_subs /\ held.upstream_subs[p].state = "Established"
  <2>1. tracks[t].upstream_subs[p] \in UpstreamSubscriptionLeg
    BY <1>4 DEF RouteOK, IsMap
  <2> QED BY <1>4, <2>1 DEF EstablishLeg, RouteOK, UpstreamSubscriptionLeg
<1>6. RouteOK(held)
  BY <1>4, EstablishLegType
<1>7. PICK subs : tracks' = Put(tracks, t, [held EXCEPT !.downstream_subs = subs])
  BY DEF SubscribeOkForwarded
<1> HIDE DEF held
<1>8. tracks'[t].upstream_subs = held.upstream_subs
  BY <1>6, <1>7 DEF RouteOK, Put
<1>9. downstream_request_index' = downstream_request_index
  BY DEF SubscribeOkForwarded
<1> QED BY <1>2, <1>3, <1>5, <1>8, <1>9 DEF SubscribeOkFits

---------------------------------------------------------------------------
(* REQUEST_ERROR: no leg is left that could succeed.                       *)

ErrorFits(e) ==
  \A t \in DOMAIN tracks :
    <<e.to, e.id>> \in DownstreamIn(tracks[t], {"Pending"}) => LiveLegs(RouteOf(t)') = {}

\* The request that is refused at once waited for nothing.
LEMMA FailsTold ==
  ASSUME SessionsInv, NEW s \in DOMAIN sessions, NEW r, NEW t, SubscribeFails(s, r, t),
         PeerRequestIdVerdict(sessions[s], r) = "Ok", NEW e \in out'
  PROVE  ErrorFits(e)
<1>1. e.to = s /\ e.id = r
  BY DEF SubscribeFails, SendRequestError
<1>2. \A u \in DOMAIN tracks : <<s, r>> \notin DOMAIN tracks[u].downstream_subs
  BY FreshRequest DEF SessionsInv
<1> QED BY <1>1, <1>2 DEF ErrorFits, DownstreamIn

\* handle_request_error (relay.rs:859) and handle_publish_done (relay.rs:1028) end
\* those who wait when all legs have ended.
LEMMA LegEndsTold ==
  ASSUME SessionsInv, NEW p \in Sessions, NEW r \in RequestIds,
         HandleRequestError(p, r) \/ HandlePublishDone(p, r), NEW e \in Sent("REQUEST_ERROR")'
  PROVE  ErrorFits(e)
<1>0. PICK t : t = upstream_request_index[<<p, r>>]
  OBVIOUS
<1> DEFINE route == TerminateLegs(tracks[t], {p})
           failed == IF AllUpstreamTerminated(route)
                     THEN DownstreamIn(route, {"Pending"}) ELSE {}
<1>1. \A error : ~Refuse(p, error)
  BY RefusedKinds DEF Sent, OnlyKinds
<1>2. /\ KnownUpstream(p, r)
      /\ \E ended, empty : tracks' = StoreRoute(t, TerminateDownstream(route, ended), empty)
      /\ \E done : out' = {SendPublishDone(d[1], d[2]) : d \in done} \cup
                          {SendRequestError(d[1], d[2]) : d \in failed}
  <2>1. CASE HandleRequestError(p, r)
    <3>1. /\ KnownUpstream(p, r)
          /\ tracks' = StoreRoute(t, TerminateDownstream(route, failed),
                         /\ AllUpstreamTerminated(route)
                         /\ NoActiveDownstream(TerminateDownstream(route, failed)))
          /\ out' = {SendRequestError(d[1], d[2]) : d \in failed}
      BY <1>0, <1>1, <2>1 DEF HandleRequestError, Ignore, Sent
    <3>2. out' = {SendPublishDone(d[1], d[2]) : d \in {}} \cup
                 {SendRequestError(d[1], d[2]) : d \in failed}
      BY <3>1
    <3> HIDE DEF failed, route
    <3> QED BY <3>1, <3>2
  <2>2. CASE HandlePublishDone(p, r)
    <3>1. /\ KnownUpstream(p, r)
          /\ \E done : /\ tracks' = StoreRoute(t, TerminateDownstream(route, done \cup failed),
                            /\ NoActiveDownstream(
                                 TerminateDownstream(route, done \cup failed))
                            /\ LiveLegs(TerminateDownstream(route, done \cup failed)) = {})
                       /\ out' = {SendPublishDone(d[1], d[2]) : d \in done} \cup
                                 {SendRequestError(d[1], d[2]) : d \in failed}
      BY <1>0, <1>1, <2>2 DEF HandlePublishDone, Ignore, Sent
    <3> HIDE DEF failed, route
    <3> QED BY <3>1
  <2> QED BY <2>1, <2>2
<1>3. t \in DOMAIN tracks /\ RouteOK(tracks[t])
  BY <1>0, <1>2, CounterTypes DEF KnownUpstream
<1>4. PICK d \in failed : e.to = d[1] /\ e.id = d[2]
  <2> HIDE DEF failed, route
  <2> QED BY <1>2 DEF Sent, SendRequestError, SendPublishDone
<1>5. AllUpstreamTerminated(route) /\ d \in DownstreamIn(route, {"Pending"})
  BY <1>4
<1>6. d \in DownstreamIn(tracks[t], {"Pending"})
  BY <1>3, <1>5, LegsLeaveDownstream DEF DownstreamIn
<1>7. LiveLegs(route) = {}
  BY <1>5 DEF AllUpstreamTerminated, LiveLegs, IsLive
<1>8. RouteOK(route)
  BY <1>3, TerminateLegsType
<1>9. PICK ended, empty : tracks' = StoreRoute(t, TerminateDownstream(route, ended), empty)
  BY <1>2
<1> DEFINE kept == TerminateDownstream(route, ended)
<1>10. kept.upstream_subs = route.upstream_subs
  BY <1>8 DEF TerminateDownstream, RouteOK
<1> HIDE DEF route, kept, failed
<1>11. LiveLegs(RouteOf(t)') = {}
  <2>1. RouteOf(t)' = NewRoute \/ RouteOf(t)' = kept
    BY <1>9 DEF RouteOf, StoreRoute, Put, Drop, Restrict, kept
  <2> QED BY <1>7, <1>10, <2>1 DEF LiveLegs, NewRoute, EmptyMap
<1>12. d = <<e.to, e.id>>
  BY <1>3, <1>4, <1>6 DEF RouteOK, IsMap, DownstreamIn
<1>13. ASSUME NEW u \in DOMAIN tracks, d \in DownstreamIn(tracks[u], {"Pending"})
       PROVE  u = t
  BY <1>3, <1>6, <1>13 DEF SessionsInv, DownstreamInv, DownstreamIndexExact, DownstreamIn
<1> QED BY <1>11, <1>12, <1>13 DEF ErrorFits

---------------------------------------------------------------------------
(* SUBSCRIBE: a new id, of the relay's parity and below the peer's limit.  *)

\* The next id of a session has the parity of the relay's side.
LocalParity ==
  \A y \in DOMAIN sessions : sessions[y].local_next % 2 # PeerParity(sessions[y].role)

ToldInv == PromiseInv /\ HandedOutInv /\ LocalParity

\* An open session goes on in steps of two.
GoesOn(y) ==
  /\ sessions'[y].role = sessions[y].role
  /\ \E n \in Nat : sessions'[y].local_next = sessions[y].local_next + 2 * n

LEMMA GoesOnSame ==
  ASSUME PromiseInv, NEW y \in DOMAIN sessions,
         sessions'[y].role = sessions[y].role,
         sessions'[y].local_next = sessions[y].local_next
  PROVE  GoesOn(y)
<1>1. sessions[y].local_next \in Nat
  BY CounterTypes DEF PromiseInv
<1>2. sessions'[y].local_next = sessions[y].local_next + 2 * 0
  BY <1>1
<1> QED BY <1>2 DEF GoesOn

LEMMA LocalParityKept ==
  ASSUME PromiseInv, LocalParity, \A y \in DOMAIN sessions' : y \in DOMAIN sessions /\ GoesOn(y)
  PROVE  LocalParity'
<1> SUFFICES ASSUME NEW y \in DOMAIN sessions'
             PROVE  sessions'[y].local_next % 2 # PeerParity(sessions'[y].role)
  BY DEF LocalParity, PeerParity
<1>1. /\ sessions[y].local_next \in Nat
      /\ sessions[y].local_next % 2 # PeerParity(sessions[y].role)
      /\ sessions'[y].role = sessions[y].role
  BY CounterTypes DEF PromiseInv, LocalParity, GoesOn
<1>2. PICK n \in Nat : sessions'[y].local_next = sessions[y].local_next + 2 * n
  BY DEF GoesOn
<1>3. sessions'[y].local_next % 2 = sessions[y].local_next % 2
  BY <1>1, <1>2
<1> QED BY <1>1, <1>3

\* The ids handle_publish_namespace takes are below the limit and of one parity.
LEMMA AllocationsAllowed ==
  ASSUME NEW sess \in Session, NEW wanting, IsFiniteSet(wanting),
         NEW idOf \in Allocations(sess, wanting), NEW t \in DOMAIN idOf
  PROVE  idOf[t] < sess.peer_max_exclusive /\ idOf[t] % 2 = sess.local_next % 2
<1>1. PICK k \in 1..Cardinality(wanting) :
        /\ idOf[t] = sess.local_next + 2 * (k - 1)
        /\ sess.local_next + 2 * (k - 1) < sess.peer_max_exclusive
  <2> DEFINE Id(k) == sess.local_next + 2 * (k - 1)
             ids == {Id(k) : k \in {j \in 1..Cardinality(wanting) :
                                      Id(j) < sess.peer_max_exclusive}}
  <2>1. PICK served \in SUBSET wanting : idOf \in Bijection(served, ids)
    BY DEF Allocations
  <2>2. idOf \in [served -> ids]
    <3> HIDE DEF ids
    <3> QED BY <2>1 DEF Bijection, Injection
  <2> QED BY <2>2
<1>2. Cardinality(wanting) \in Nat /\ sess.local_next \in Nat /\ sess.peer_max_exclusive \in Nat
  BY FS_CardinalityType DEF Session
<1>3. k \in Nat /\ k >= 1
  BY <1>1, <1>2
<1>4. idOf[t] % 2 = sess.local_next % 2
  BY <1>1, <1>2, <1>3
<1> QED BY <1>1, <1>4

\* What handle_publish_namespace (relay.rs:461) sends.
LEMMA PublishNamespaceAsks ==
  ASSUME PromiseInv, NEW s, NEW r, NEW ns, HandlePublishNamespace(s, r, ns),
         ~\E y, error : Refuse(y, error)
  PROVE  /\ s \in DOMAIN sessions
         /\ \E idOf \in Allocations(sessions[s], TracksWanting(s, ns)) :
              /\ IsFiniteSet(TracksWanting(s, ns))
              /\ Cardinality(DOMAIN idOf) \in Nat
              /\ NamespaceServed(s, r, ns, Cardinality(DOMAIN idOf))
              /\ out' = {SendRequestOk(s, r)} \cup
                        {SendSubscribe(s, idOf[t], t) : t \in DOMAIN idOf}
<1>1. s \in DOMAIN sessions
  BY DEF HandlePublishNamespace, Receives
<1>2. sessions[s] \in Session
  BY <1>1 DEF PromiseInv, SessionsInv, DownstreamInv, TypeOK, IsMap
<1>3. IsFiniteSet(TracksWanting(s, ns))
  <2>1. TracksWanting(s, ns) \subseteq Tracks
    BY DEF TracksWanting, PromiseInv, SessionsInv, DownstreamInv, TypeOK, RoutesOK
  <2> QED BY <2>1, FiniteAssumption, FS_Subset
<1>4. PICK idOf \in Allocations(sessions[s], TracksWanting(s, ns)) :
        /\ NamespaceServed(s, r, ns, Cardinality(DOMAIN idOf))
        /\ out' = {SendRequestOk(s, r)} \cup
                  {SendSubscribe(s, idOf[t], t) : t \in DOMAIN idOf}
  BY DEF HandlePublishNamespace, NamespaceServed
<1>5. Cardinality(DOMAIN idOf) \in Nat
  BY <1>2, <1>3, AllocationsType, FS_CardinalityType
<1> QED BY <1>1, <1>3, <1>4, <1>5

SubscribeFits(e) ==
  LET before == sessions[e.to]
  IN /\ e.id >= before.local_next
     /\ e.id < before.peer_max_exclusive
     /\ e.id < sessions'[e.to].local_next
     /\ e.id % 2 # PeerParity(before.role)

LEMMA PublishNamespaceFits ==
  ASSUME PromiseInv, LocalParity, NEW s, NEW r, NEW ns, HandlePublishNamespace(s, r, ns),
         NEW e \in Sent("SUBSCRIBE")'
  PROVE  SubscribeFits(e)
<1>1. ~\E y, error : Refuse(y, error)
  BY RefusedKinds DEF Sent, OnlyKinds
<1>2. s \in DOMAIN sessions /\ sessions[s] \in Session
  BY <1>1, PublishNamespaceAsks DEF PromiseInv, SessionsInv, DownstreamInv, TypeOK, IsMap
<1>3. PICK idOf \in Allocations(sessions[s], TracksWanting(s, ns)) :
        /\ IsFiniteSet(TracksWanting(s, ns))
        /\ Cardinality(DOMAIN idOf) \in Nat
        /\ NamespaceServed(s, r, ns, Cardinality(DOMAIN idOf))
        /\ out' = {SendRequestOk(s, r)} \cup
                  {SendSubscribe(s, idOf[t], t) : t \in DOMAIN idOf}
  BY <1>1, PublishNamespaceAsks
<1>4. PICK t \in DOMAIN idOf : e.to = s /\ e.id = idOf[t]
  BY <1>3 DEF Sent, SendRequestOk, SendSubscribe
<1> DEFINE n == Cardinality(DOMAIN idOf)
<1>5. sessions'[s].local_next = sessions[s].local_next + 2 * n
  <2> HIDE DEF n
  <2>1. n \in Nat /\ NamespaceServed(s, r, ns, n)
    BY <1>3 DEF n
  <2> QED BY <1>2, <2>1, PublishNamespaceCounters DEF PromiseInv
<1>6. /\ idOf[t] \in Nat
      /\ sessions[s].local_next <= idOf[t]
      /\ idOf[t] < sessions[s].local_next + 2 * n
  BY <1>2, <1>3, AllocationsFresh
<1>7. /\ idOf[t] < sessions[s].peer_max_exclusive
      /\ idOf[t] % 2 = sessions[s].local_next % 2
  BY <1>2, <1>3, AllocationsAllowed
<1>8. sessions[s].local_next % 2 # PeerParity(sessions[s].role)
  BY <1>2 DEF LocalParity
<1>9. sessions[s].local_next \in Nat
  BY <1>2 DEF Session
<1> HIDE DEF n
<1>10. idOf[t] >= sessions[s].local_next
  BY <1>6, <1>9
<1> QED BY <1>4, <1>5, <1>6, <1>7, <1>8, <1>10 DEF SubscribeFits

LEMMA FansOutFits ==
  ASSUME PromiseInv, LocalParity, NEW s \in DOMAIN sessions, NEW r, NEW t,
         SubscribeFansOut(s, r, t), NEW e \in out'
  PROVE  SubscribeFits(e)
<1>1. out' = {SendSubscribe(p, sessions[p].local_next, t) : p \in FanOutTargets(t)}
  BY DEF SubscribeFansOut
<1>2. PICK p \in FanOutTargets(t) : e.to = p /\ e.id = sessions[p].local_next
  BY <1>1 DEF SendSubscribe
<1>3. p \in DOMAIN sessions /\ sessions[p].local_next < sessions[p].peer_max_exclusive
  BY DEF FanOutTargets, CanAllocate
<1>4. sessions[p].local_next \in Nat
  BY <1>3, CounterTypes DEF PromiseInv
<1>5. sessions'[p].local_next = sessions[p].local_next + 2
  BY <1>3, FansOutCounters DEF PromiseInv
<1>6. sessions[p].local_next % 2 # PeerParity(sessions[p].role)
  BY <1>3 DEF LocalParity
<1>7. /\ sessions[p].local_next >= sessions[p].local_next
      /\ sessions[p].local_next < sessions'[p].local_next
  BY <1>4, <1>5
<1> QED BY <1>2, <1>3, <1>6, <1>7 DEF SubscribeFits

---------------------------------------------------------------------------
(* The parity of the ids, through every handler.                           *)

\* A session that opens starts with an id of the right parity (relay.rs:111).
LEMMA SessionEventLocal ==
  ASSUME PromiseInv, LocalParity, NEW s \in Sessions, SessionEvent(s)
  PROVE  LocalParity'
<1>1. CASE \E role \in Roles : OnSessionOpened(s, role)
  <2>1. PICK role \in Roles : sessions' = Put(sessions, s, NewSession(role))
    BY <1>1 DEF OnSessionOpened
  <2>2. FirstLocalId(role) % 2 # PeerParity(role)
    BY DEF FirstLocalId, PeerParity
  <2>3. NewSession(role).local_next = FirstLocalId(role) /\ NewSession(role).role = role
    BY DEF NewSession
  <2>4. \A y \in DOMAIN sessions' :
          \/ sessions'[y] = NewSession(role)
          \/ y \in DOMAIN sessions /\ sessions'[y] = sessions[y]
    BY <2>1 DEF Put
  <2> QED BY <2>2, <2>3, <2>4 DEF LocalParity, PeerParity
<1>2. CASE OnSessionClosed(s) \/ MessageFromUnknownSession(s)
  <2>1. \A y \in DOMAIN sessions' : y \in DOMAIN sessions /\ sessions'[y] = sessions[y]
    BY <1>2 DEF OnSessionClosed, MessageFromUnknownSession, Refuse, relayVars, Drop, Restrict
  <2> QED BY <2>1 DEF LocalParity, PeerParity
<1> QED BY <1>1, <1>2 DEF SessionEvent

LEMMA SetupMessageLocal ==
  ASSUME PromiseInv, LocalParity, NEW s \in Sessions, SetupMessage(s)
  PROVE  LocalParity'
<1>1. /\ DOMAIN sessions' = DOMAIN sessions
      /\ \A y \in DOMAIN sessions : sessions'[y].role = sessions[y].role
  BY DEF SetupMessage, HandleClientSetup, HandleServerSetup, HandleMaxRequestId,
         HandleRequestsBlocked, HandleGoaway, HandleOther, Refuse, Ignore, relayVars,
         PromiseInv, SessionsInv, DownstreamInv, TypeOK, IsMap, Session
<1>2. \A y \in DOMAIN sessions : sessions'[y].local_next = sessions[y].local_next
  BY SetupMessageCounters DEF PromiseInv
<1> QED BY <1>1, <1>2, GoesOnSame, LocalParityKept

LEMMA PublisherMessageLocal ==
  ASSUME PromiseInv, LocalParity, NEW p \in Sessions, PublisherMessage(p)
  PROVE  LocalParity'
<1>1. CASE UNCHANGED sessions
  BY <1>1 DEF LocalParity, PeerParity
<1>2. CASE ~UNCHANGED sessions
  <2>1. ~\E y, error : Refuse(y, error)
    BY <1>2 DEF Refuse, relayVars
  <2>2. ASSUME NEW r \in RequestIds, NEW ns \in Namespaces, HandlePublishNamespace(p, r, ns)
        PROVE  LocalParity'
    <3>1. Spends(p, r)
      BY <2>1, <2>2, PublishNamespaceSpends
    <3>2. PICK n \in Nat : NamespaceServed(p, r, ns, n)
      BY <2>1, <2>2, PublishNamespaceAsks
    <3>3. p \in DOMAIN sessions
      BY <2>1, <2>2, PublishNamespaceAsks
    <3>4. ASSUME NEW y \in DOMAIN sessions
          PROVE  GoesOn(y)
      <4>1. sessions'[y].local_next =
              IF y = p THEN sessions[y].local_next + 2 * n ELSE sessions[y].local_next
        BY <3>2, <3>3, PublishNamespaceCounters DEF PromiseInv
      <4>2. sessions'[y].role = sessions[y].role
        BY <3>1 DEF Spends
      <4> QED BY <4>1, <4>2, GoesOnSame DEF GoesOn
    <3> QED BY <3>1, <3>4, LocalParityKept DEF Spends
  <2>3. ASSUME NEW r \in RequestIds, NEW alias \in InboundAliases, HandleSubscribeOk(p, r, alias)
        PROVE  LocalParity'
    <3> DEFINE t == upstream_request_index[<<p, r>>]
    <3>1. SubscribeOkForwarded(p, t, alias)
      BY <1>2, <2>1, <2>3 DEF HandleSubscribeOk, SubscribeOkDuplicateAlias
    <3>2. DOMAIN sessions' = DOMAIN sessions
      BY <3>1 DEF SubscribeOkForwarded
    <3> HIDE DEF t
    <3>3. \A y \in DOMAIN sessions : /\ sessions'[y].role = sessions[y].role
                                    /\ sessions'[y].local_next = sessions[y].local_next
      BY <3>1, ForwardedKeeps, ForwardedCounters DEF PromiseInv
    <3> QED BY <3>2, <3>3, GoesOnSame, LocalParityKept
  <2>4. \A r \in RequestIds : ~HandleRequestError(p, r) /\ ~HandlePublishDone(p, r)
    BY <1>2, <2>1 DEF HandleRequestError, HandlePublishDone, Ignore, relayVars
  <2> QED BY <2>2, <2>3, <2>4 DEF PublisherMessage
<1> QED BY <1>1, <1>2

LEMMA SubscriberMessageLocal ==
  ASSUME PromiseInv, LocalParity, NEW s \in Sessions, SubscriberMessage(s)
  PROVE  LocalParity'
<1>1. CASE UNCHANGED sessions
  BY <1>1 DEF LocalParity, PeerParity
<1>2. CASE ~UNCHANGED sessions
  <2>1. PICK r \in RequestIds, t \in Tracks : HandleSubscribe(s, r, t)
    BY <1>2 DEF SubscriberMessage, HandleUnsubscribe, Refuse, Ignore, relayVars
  <2>2. /\ s \in DOMAIN sessions
        /\ SubscribeJoins(s, r, t) \/ SubscribeFails(s, r, t) \/ SubscribeFansOut(s, r, t)
    BY <1>2, <2>1 DEF HandleSubscribe, Receives, Refuse, relayVars
  <2>3. Spends(s, r)
    BY <2>2, SubscribeSpends
  <2>4. ASSUME NEW y \in DOMAIN sessions
        PROVE  GoesOn(y)
    <3>1. sessions'[y].role = sessions[y].role
      BY <2>3 DEF Spends
    <3>2. \/ sessions'[y].local_next = sessions[y].local_next
          \/ sessions'[y].local_next = sessions[y].local_next + 2
      BY <2>2, JoinsCounters, FailsCounters, FansOutCounters DEF PromiseInv
    <3>3. 2 = 2 * 1
      OBVIOUS
    <3> QED BY <3>1, <3>2, <3>3, GoesOnSame DEF GoesOn
  <2> QED BY <2>3, <2>4, LocalParityKept DEF Spends
<1> QED BY <1>1, <1>2

LEMMA NextTold ==
  ASSUME ToldInv, [Next]_vars
  PROVE  ToldInv'
<1>1. PromiseInv' /\ HandedOutInv'
  BY NextPromiseInv, NextHandedOut DEF ToldInv
<1>2. LocalParity'
  <2>1. CASE UNCHANGED sessions
    BY <2>1 DEF ToldInv, LocalParity, PeerParity
  <2>2. CASE ~UNCHANGED sessions
    <3>1. \A p \in Sessions, alias \in InboundAliases : ~OnSubscriptionObject(p, alias)
      BY <2>2 DEF OnSubscriptionObject, Refuse, relayVars
    <3> QED BY <2>2, <3>1, SessionEventLocal, SetupMessageLocal, PublisherMessageLocal,
               SubscriberMessageLocal DEF Next, ToldInv, vars, relayVars
  <2> QED BY <2>1, <2>2
<1> QED BY <1>1, <1>2 DEF ToldInv

LEMMA ToldCorrect == Spec => []ToldInv
<1>1. Init => ToldInv
  <2>1. Init => LocalParity
    BY DEF Init, LocalParity, EmptyMap
  <2> QED BY <2>1, InitPromise, InitHandedOut DEF ToldInv
<1>2. ToldInv /\ [Next]_vars => ToldInv'
  BY NextTold
<1> QED BY <1>1, <1>2, PTL DEF Spec

---------------------------------------------------------------------------
(* The theorems.                                                           *)

\* Every message of a step fits the state.
LEMMA StepTells ==
  ASSUME ToldInv, Next
  PROVE  /\ \A e \in Sent("UNSUBSCRIBE")' : UnsubscribeFits(e)
         /\ \A e \in Sent("SUBSCRIBE_OK")' : SubscribeOkFits(e)
         /\ \A e \in Sent("REQUEST_ERROR")' : ErrorFits(e)
         /\ \A e \in Sent("SUBSCRIBE")' : SubscribeFits(e)
<1>1. SessionsInv
  BY DEF ToldInv, PromiseInv
<1>2. ASSUME NEW e \in Sent("UNSUBSCRIBE")'
      PROVE  UnsubscribeFits(e)
  BY <1>1, Tellers, ClosedUnsubscribes, UnsubscribeUnsubscribes DEF ToldBy, Sent
<1>3. ASSUME NEW s \in Sessions, NEW r \in RequestIds, NEW t \in Tracks,
             HandleSubscribe(s, r, t), \A error : ~Refuse(s, error)
      PROVE  /\ s \in DOMAIN sessions /\ PeerRequestIdVerdict(sessions[s], r) = "Ok"
             /\ \/ SubscribeJoins(s, r, t) /\ HasEstablishedUpstream(RouteOf(t))
                \/ SubscribeFails(s, r, t)
                \/ SubscribeFansOut(s, r, t)
  BY <1>3 DEF HandleSubscribe, Receives
<1>4. ASSUME NEW e \in out', e.kind # "CLOSE"
      PROVE  \A s, error : ~Refuse(s, error)
  BY <1>4, RefusedKinds DEF OnlyKinds
<1>5. ASSUME NEW e \in Sent("SUBSCRIBE_OK")'
      PROVE  SubscribeOkFits(e)
  <2>1. e \in out' /\ e.kind = "SUBSCRIBE_OK"
    BY DEF Sent
  <2>2. PICK s \in Sessions, r \in RequestIds :
          \/ \E alias \in InboundAliases : HandleSubscribeOk(s, r, alias)
          \/ \E t \in Tracks : HandleSubscribe(s, r, t)
    BY <2>1, Tellers DEF ToldBy
  <2>3. ASSUME NEW alias \in InboundAliases, HandleSubscribeOk(s, r, alias)
        PROVE  SubscribeOkFits(e)
    <3> DEFINE t == upstream_request_index[<<s, r>>]
    <3>1. /\ AwaitsSubscribeOk(s, r)
          /\ SubscribeOkForwarded(s, t, alias) \/ SubscribeOkDuplicateAlias(s, t, alias)
      BY <1>4, <2>1, <2>3 DEF HandleSubscribeOk
    <3>2. t \in DOMAIN tracks /\ s \in DOMAIN tracks[t].upstream_subs
      BY <3>1 DEF AwaitsSubscribeOk
    <3> HIDE DEF t
    <3>3. ~SubscribeOkDuplicateAlias(s, t, alias)
      BY <2>1, SubscribeOkKinds DEF OnlyKinds
    <3> QED BY <1>1, <2>1, <3>1, <3>2, <3>3, ForwardedAnswered
  <2>4. ASSUME NEW t \in Tracks, HandleSubscribe(s, r, t)
        PROVE  SubscribeOkFits(e)
    <3>1. ~SubscribeFails(s, r, t) /\ ~SubscribeFansOut(s, r, t)
      BY <2>1, SubscribeKinds DEF OnlyKinds
    <3> QED BY <1>1, <1>3, <1>4, <2>1, <2>4, <3>1, JoinsAnswered
  <2> QED BY <2>2, <2>3, <2>4
<1>6. ASSUME NEW e \in Sent("REQUEST_ERROR")'
      PROVE  ErrorFits(e)
  <2>1. e \in out' /\ e.kind = "REQUEST_ERROR"
    BY DEF Sent
  <2>2. PICK s \in Sessions, r \in RequestIds :
          \/ HandleRequestError(s, r) \/ HandlePublishDone(s, r)
          \/ \E t \in Tracks : HandleSubscribe(s, r, t)
    BY <2>1, Tellers DEF ToldBy
  <2>3. ASSUME NEW t \in Tracks, HandleSubscribe(s, r, t)
        PROVE  ErrorFits(e)
    <3>1. ~SubscribeJoins(s, r, t) /\ ~SubscribeFansOut(s, r, t)
      BY <2>1, SubscribeKinds DEF OnlyKinds
    <3> QED BY <1>1, <1>3, <1>4, <2>1, <2>3, <3>1, FailsTold
  <2> QED BY <1>1, <1>6, <2>2, <2>3, LegEndsTold
<1>7. ASSUME NEW e \in Sent("SUBSCRIBE")'
      PROVE  SubscribeFits(e)
  <2>1. e \in out' /\ e.kind = "SUBSCRIBE"
    BY DEF Sent
  <2>2. PICK s \in Sessions, r \in RequestIds :
          \/ \E ns \in Namespaces : HandlePublishNamespace(s, r, ns)
          \/ \E t \in Tracks : HandleSubscribe(s, r, t)
    BY <2>1, Tellers DEF ToldBy
  <2>3. ASSUME NEW t \in Tracks, HandleSubscribe(s, r, t)
        PROVE  SubscribeFits(e)
    <3>1. ~SubscribeJoins(s, r, t) /\ ~SubscribeFails(s, r, t)
      BY <2>1, SubscribeKinds DEF OnlyKinds
    <3> QED BY <1>3, <1>4, <2>1, <2>3, <3>1, FansOutFits DEF ToldInv
  <2> QED BY <1>7, <2>2, <2>3, PublishNamespaceFits DEF ToldInv
<1> QED BY <1>2, <1>5, <1>6, <1>7

\* Whatever the order in which tracks and publishers are visited, a publisher is
\* asked under an id that is new in its session, of the relay's parity and below
\* the limit the relay has on record for it, which is not always the one it announced
\* (RelayLimits).
THEOREM RequestIdsCorrect == Spec => RequestIdsFresh
<1>1. ToldInv /\ [Next]_vars =>
        [\A e \in Sent("SUBSCRIBE")' :
           LET before == sessions[e.to]
           IN /\ e.id >= before.local_next
              /\ e.id < before.peer_max_exclusive
              /\ e.id < sessions'[e.to].local_next
              /\ e.id % 2 # PeerParity(before.role)]_vars
  BY StepTells DEF SubscribeFits
<1> QED BY <1>1, ToldCorrect, PTL DEF Spec, RequestIdsFresh

\* A subscriber that waits is refused only when no publisher can still answer.
THEOREM ErrorsFinal == Spec => NoErrorWhileHope
<1>1. ToldInv /\ [Next]_vars =>
        [\A e \in Sent("REQUEST_ERROR")' :
           \A t \in DOMAIN tracks :
             <<e.to, e.id>> \in DownstreamIn(tracks[t], {"Pending"}) =>
               LiveLegs(RouteOf(t))' = {}]_vars
  BY StepTells DEF ErrorFits, LiveLegs
<1> QED BY <1>1, ToldCorrect, PTL DEF Spec, NoErrorWhileHope

\* A subscriber is accepted only when a publisher has confirmed its track.
THEOREM AcceptedWhenBacked == Spec => SubscribeOkBacked
<1>1. ToldInv /\ [Next]_vars =>
        [\A e \in Sent("SUBSCRIBE_OK")' :
           /\ <<e.to, e.id>> \in DOMAIN downstream_request_index'
           /\ LET legs == tracks[downstream_request_index[<<e.to, e.id>>]].upstream_subs
              IN (\E p \in DOMAIN legs : legs[p].state = "Established")']_vars
  BY StepTells DEF SubscribeOkFits
<1> QED BY <1>1, ToldCorrect, PTL DEF Spec, SubscribeOkBacked

\* A publisher is told to stop only when nobody downstream is left, and then
\* about the request that was live.
THEOREM UnsubscribesFit == Spec => UnsubscribeEndsUnwanted
<1>1. ToldInv /\ [Next]_vars =>
        [\A e \in Sent("UNSUBSCRIBE")' :
           \E t \in DOMAIN tracks :
             /\ e.to \in LiveLegs(tracks[t])
             /\ tracks[t].upstream_subs[e.to].request_id = e.id
             /\ e.to \notin LiveLegs(RouteOf(t))'
             /\ NoActiveDownstream(RouteOf(t))']_vars
  BY StepTells DEF UnsubscribeFits, LiveLegs, NoActiveDownstream
<1> QED BY <1>1, ToldCorrect, PTL DEF Spec, UnsubscribeEndsUnwanted

---------------------------------------------------------------------------
(* Legs that nobody needs.                                                 *)

\* What a step may do to the legs of `t'.
KeepsWanted(t) ==
  Stranded(RouteOf(t)') =>
    \/ Stranded(RouteOf(t))
    \/ /\ ~NoActiveDownstream(RouteOf(t))
       /\ \A d \in Active(RouteOf(t)) : SendPublishDone(d[1], d[2]) \in out'

LEMMA NewRouteWanted == ~Stranded(NewRoute)
BY DEF Stranded, LiveLegs, NewRoute, EmptyMap

\* Only the route a handler stores has to be looked at.
LEMMA OneRouteWanted ==
  ASSUME NEW t, NEW route, tracks' = Put(tracks, t, route) \/ tracks' = Drop(tracks, {t}),
         t \in DOMAIN tracks' /\ Stranded(route) =>
           \/ Stranded(RouteOf(t))
           \/ /\ ~NoActiveDownstream(RouteOf(t))
              /\ \A d \in Active(RouteOf(t)) : SendPublishDone(d[1], d[2]) \in out',
         NEW u
  PROVE  KeepsWanted(u)
<1>1. CASE u # t
  <2>1. RouteOf(u)' = RouteOf(u)
    BY <1>1 DEF RouteOf, Put, Drop, Restrict
  <2> QED BY <2>1 DEF KeepsWanted
<1>2. CASE u = t
  <2>1. RouteOf(t)' = NewRoute \/ (t \in DOMAIN tracks' /\ RouteOf(t)' = route)
    BY DEF RouteOf, Put, Drop, Restrict
  <2> QED BY <1>2, <2>1, NewRouteWanted DEF KeepsWanted
<1> QED BY <1>1, <1>2

\* A route with the same live legs, or some of them, and the same active subscriptions.
LEMMA NotStrandedAnew ==
  ASSUME NEW route, NEW old, LiveLegs(route) \subseteq LiveLegs(old),
         Active(old) \subseteq Active(route)
  PROVE  Stranded(route) => Stranded(old)
BY DEF Stranded, NoActiveDownstream, Active

LEMMA ActiveNotStranded ==
  ASSUME NEW route, NEW d \in Active(route)
  PROVE  ~Stranded(route)
BY DEF Stranded, NoActiveDownstream, Active

LEMMA UnchangedWanted ==
  ASSUME UNCHANGED tracks, NEW u
  PROVE  KeepsWanted(u)
BY DEF KeepsWanted, RouteOf

\* on_session_closed (relay.rs:122) ends the legs of every route that the session
\* leaves without a subscription.
LEMMA ClosedWanted ==
  ASSUME SessionsInv, NEW s \in Sessions, OnSessionClosed(s), NEW u
  PROVE  KeepsWanted(u)
<1> DEFINE left == [t \in DOMAIN tracks |-> RouteWithout(tracks[t], s)]
           idle == {t \in DOMAIN tracks : NoActiveDownstream(left[t])}
           empty == {t \in DOMAIN tracks : /\ DOMAIN left[t].downstream_subs = {}
                                           /\ DOMAIN left[t].upstream_subs = {}}
<1>1. tracks' = [t \in DOMAIN tracks \ empty |->
                   IF t \in idle THEN TerminateLegs(left[t], LiveLegs(left[t])) ELSE left[t]]
  BY DEF OnSessionClosed
<1>2. \A t \in DOMAIN tracks : RouteOK(left[t])
  BY CounterTypes, RouteWithoutType
<1>3. \A t \in DOMAIN tracks : t \notin idle => ~NoActiveDownstream(left[t])
  OBVIOUS
<1> HIDE DEF left, idle, empty
<1>4. CASE u \notin DOMAIN tracks'
  BY <1>4, NewRouteWanted DEF KeepsWanted, RouteOf
<1>5. CASE u \in DOMAIN tracks'
  <2>1. u \in DOMAIN tracks /\ RouteOf(u)' = tracks'[u]
    BY <1>1, <1>5 DEF RouteOf
  <2>2. CASE u \in idle
    <3>1. LiveLegs(tracks'[u]) = {}
      BY <1>1, <1>2, <1>5, <2>1, <2>2, TerminatedNotLive
    <3> QED BY <2>1, <3>1 DEF KeepsWanted, Stranded
  <2>3. CASE u \notin idle
    BY <1>1, <1>3, <1>5, <2>1, <2>3 DEF KeepsWanted, Stranded
  <2> QED BY <2>2, <2>3
<1> QED BY <1>4, <1>5

\* handle_publish_namespace (relay.rs:461) asks only for tracks somebody needs.
LEMMA PublishNamespaceWanted ==
  ASSUME SessionsInv, NEW s \in Sessions, NEW r \in RequestIds, NEW ns \in Namespaces,
         HandlePublishNamespace(s, r, ns), NEW u
  PROVE  KeepsWanted(u)
<1>1. CASE UNCHANGED tracks
  BY <1>1, UnchangedWanted
<1>2. CASE ~UNCHANGED tracks
  <2>1. PICK idOf \in Allocations(sessions[s], TracksWanting(s, ns)) :
          tracks' = [t \in DOMAIN tracks |->
            IF t \in DOMAIN idOf
            THEN [tracks[t] EXCEPT !.upstream_subs = Put(@, s, NewLeg(idOf[t]))]
            ELSE tracks[t]]
    BY <1>2 DEF HandlePublishNamespace, Refuse, relayVars
  <2>2. DOMAIN idOf \subseteq TracksWanting(s, ns)
    <3>1. PICK served \in SUBSET TracksWanting(s, ns) : \E ids : idOf \in Bijection(served, ids)
      BY DEF Allocations
    <3> QED BY <3>1 DEF Bijection, Injection
  <2>3. CASE u \notin DOMAIN idOf
    <3>1. RouteOf(u)' = RouteOf(u)
      BY <2>1, <2>3 DEF RouteOf
    <3> QED BY <3>1 DEF KeepsWanted
  <2>4. CASE u \in DOMAIN idOf
    <3>1. u \in DOMAIN tracks /\ ~NoActiveDownstream(tracks[u])
      BY <2>2, <2>4 DEF TracksWanting
    <3>2. RouteOK(tracks[u])
      BY <3>1, CounterTypes
    <3>3. RouteOf(u)' = [tracks[u] EXCEPT !.upstream_subs = Put(@, s, NewLeg(idOf[u]))]
      BY <2>1, <2>4, <3>1 DEF RouteOf
    <3>4. RouteOf(u)'.downstream_subs = tracks[u].downstream_subs
      BY <3>2, <3>3 DEF RouteOK
    <3>5. ~NoActiveDownstream(RouteOf(u)')
      BY <3>1, <3>4 DEF NoActiveDownstream, DownstreamIn
    <3> QED BY <3>5 DEF KeepsWanted, Stranded
  <2> QED BY <2>3, <2>4
<1> QED BY <1>1, <1>2

\* handle_subscribe (relay.rs:580) adds a subscription or changes none.
LEMMA SubscribeWanted ==
  ASSUME SessionsInv, NEW s \in Sessions, NEW r \in RequestIds, NEW t \in Tracks,
         HandleSubscribe(s, r, t), NEW u
  PROVE  KeepsWanted(u)
<1>1. RouteOK(RouteOf(t))
  BY RouteOfType DEF SessionsInv, DownstreamInv
<1>2. CASE UNCHANGED tracks
  BY <1>2, UnchangedWanted
<1>3. CASE ~UNCHANGED tracks
  <2>1. /\ s \in DOMAIN sessions /\ PeerRequestIdVerdict(sessions[s], r) = "Ok"
        /\ SubscribeJoins(s, r, t) \/ SubscribeFails(s, r, t) \/ SubscribeFansOut(s, r, t)
    BY <1>3 DEF HandleSubscribe, Receives, Refuse, relayVars
  <2>2. CASE SubscribeJoins(s, r, t) \/ SubscribeFansOut(s, r, t)
    <3>1. PICK route : /\ tracks' = Put(tracks, t, route)
                       /\ <<s, r>> \in Active(route)
      <4>1. CASE SubscribeJoins(s, r, t)
        <5>1. PICK sub : /\ sub.state = "Established"
                         /\ tracks' = Put(tracks, t, [RouteOf(t) EXCEPT
                                        !.downstream_subs = Put(@, <<s, r>>, sub)])
          BY <4>1 DEF SubscribeJoins
        <5> DEFINE route == [RouteOf(t) EXCEPT !.downstream_subs = Put(@, <<s, r>>, sub)]
        <5>2. route.downstream_subs = Put(RouteOf(t).downstream_subs, <<s, r>>, sub)
          BY <1>1 DEF RouteOK
        <5> HIDE DEF route
        <5>3. <<s, r>> \in Active(route)
          BY <5>1, <5>2 DEF Active, DownstreamIn, Put
        <5> QED BY <5>1, <5>3 DEF route
      <4>2. CASE SubscribeFansOut(s, r, t)
        <5>1. PICK legs : tracks' = Put(tracks, t,
                 [downstream_subs |-> Put(RouteOf(t).downstream_subs, <<s, r>>, NewDownstream),
                  upstream_subs |-> legs])
          BY <4>2 DEF SubscribeFansOut
        <5> DEFINE route ==
                 [downstream_subs |-> Put(RouteOf(t).downstream_subs, <<s, r>>, NewDownstream),
                  upstream_subs |-> legs]
        <5>2. <<s, r>> \in Active(route)
          BY DEF Active, DownstreamIn, Put, NewDownstream
        <5> HIDE DEF route
        <5> QED BY <5>1, <5>2 DEF route
      <4> QED BY <2>2, <4>1, <4>2
    <3> QED BY <3>1, ActiveNotStranded, OneRouteWanted
  <2>3. CASE SubscribeFails(s, r, t)
    <3> DEFINE old == RouteOf(t)
               refused == [NewDownstream EXCEPT !.state = "Terminated"]
               route == [old EXCEPT !.downstream_subs = Put(@, <<s, r>>, refused)]
    <3>1. tracks' = Put(tracks, t, route) \/ tracks' = Drop(tracks, {t})
      BY <2>3 DEF SubscribeFails, StoreRoute
    <3>2. /\ route.downstream_subs = Put(old.downstream_subs, <<s, r>>, refused)
          /\ route.upstream_subs = old.upstream_subs
      BY <1>1 DEF RouteOK
    <3>3. <<s, r>> \notin DOMAIN old.downstream_subs
      BY <2>1, FreshRequest, ActiveNewRoute DEF SessionsInv, RouteOf
    <3> HIDE DEF route, refused, old
    <3>4. LiveLegs(route) \subseteq LiveLegs(old) /\ Active(old) \subseteq Active(route)
      BY <3>2, <3>3 DEF LiveLegs, Active, DownstreamIn, Put
    <3> QED BY <3>1, <3>4, NotStrandedAnew, OneRouteWanted DEF old
  <2> QED BY <2>1, <2>2, <2>3
<1> QED BY <1>2, <1>3

\* handle_subscribe_ok (relay.rs:744) ends nothing.
LEMMA SubscribeOkWanted ==
  ASSUME SessionsInv, NEW p \in Sessions, NEW r \in RequestIds, NEW alias \in InboundAliases,
         HandleSubscribeOk(p, r, alias), NEW u
  PROVE  KeepsWanted(u)
<1>1. CASE UNCHANGED tracks
  BY <1>1, UnchangedWanted
<1>2. CASE ~UNCHANGED tracks
  <2>0. PICK t : t = upstream_request_index[<<p, r>>]
    OBVIOUS
  <2> DEFINE held == EstablishLeg(tracks[t], p, alias)
  <2>1. /\ t \in DOMAIN tracks /\ p \in DOMAIN tracks[t].upstream_subs
        /\ tracks[t].upstream_subs[p].state = "Pending"
        /\ SubscribeOkDuplicateAlias(p, t, alias) \/ SubscribeOkForwarded(p, t, alias)
    BY <1>2, <2>0 DEF HandleSubscribeOk, Refuse, relayVars, AwaitsSubscribeOk
  <2>2. RouteOK(tracks[t]) /\ RouteOf(t) = tracks[t]
    BY <2>1, CounterTypes DEF RouteOf
  <2>3. RouteOK(held) /\ held.downstream_subs = tracks[t].downstream_subs
    BY <2>1, <2>2, EstablishLegType, LegsLeaveDownstream
  <2>4. LiveLegs(held) \subseteq LiveLegs(tracks[t])
    BY <2>1, <2>2, EstablishInherits DEF Inherits
  <2> HIDE DEF held
  <2>5. CASE SubscribeOkDuplicateAlias(p, t, alias)
    <3>1. tracks' = Put(tracks, t, held)
      BY <2>5 DEF SubscribeOkDuplicateAlias, held
    <3>2. Active(tracks[t]) \subseteq Active(held)
      BY <2>3 DEF Active, DownstreamIn
    <3> QED BY <2>2, <2>4, <3>1, <3>2, NotStrandedAnew, OneRouteWanted
  <2>6. CASE SubscribeOkForwarded(p, t, alias)
    <3>1. PICK aliasOf :
            tracks' = Put(tracks, t,
              [held EXCEPT !.downstream_subs =
                 Merge(@, [d \in AwaitingSubscribers(t) |->
                             [state |-> "Established", forward_desired |-> FALSE,
                              outbound_alias |-> aliasOf[d]]])])
      BY <2>6 DEF SubscribeOkForwarded, held
    <3> DEFINE accepted == [d \in AwaitingSubscribers(t) |->
                             [state |-> "Established", forward_desired |-> FALSE,
                              outbound_alias |-> aliasOf[d]]]
               route == [held EXCEPT !.downstream_subs = Merge(@, accepted)]
    <3>2. \A d \in DOMAIN accepted : accepted[d].state = "Established"
      OBVIOUS
    <3> HIDE DEF accepted
    <3>3. /\ route.downstream_subs = Merge(tracks[t].downstream_subs, accepted)
          /\ route.upstream_subs = held.upstream_subs
      BY <2>3 DEF RouteOK
    <3>4. tracks' = Put(tracks, t, route)
      BY <3>1 DEF accepted
    <3> HIDE DEF route
    <3>5. /\ LiveLegs(route) \subseteq LiveLegs(tracks[t])
          /\ Active(tracks[t]) \subseteq Active(route)
      BY <2>4, <3>2, <3>3 DEF LiveLegs, Active, DownstreamIn, Merge
    <3> QED BY <2>2, <3>4, <3>5, NotStrandedAnew, OneRouteWanted
  <2> QED BY <2>1, <2>5, <2>6
<1> QED BY <1>1, <1>2

\* handle_request_error (relay.rs:859) ends those who wait when the last leg is gone.
LEMMA RequestErrorWanted ==
  ASSUME SessionsInv, NEW p \in Sessions, NEW r \in RequestIds, HandleRequestError(p, r), NEW u
  PROVE  KeepsWanted(u)
<1>1. CASE UNCHANGED tracks
  BY <1>1, UnchangedWanted
<1>2. CASE ~UNCHANGED tracks
  <2>0. PICK t : t = upstream_request_index[<<p, r>>]
    OBVIOUS
  <2> DEFINE route == TerminateLegs(tracks[t], {p})
             failed == IF AllUpstreamTerminated(route)
                       THEN DownstreamIn(route, {"Pending"}) ELSE {}
             left == TerminateDownstream(route, failed)
  <2>1. /\ t \in DOMAIN tracks
        /\ tracks' = Put(tracks, t, left) \/ tracks' = Drop(tracks, {t})
    BY <1>2, <2>0 DEF HandleRequestError, Refuse, Ignore, relayVars, KnownUpstream, StoreRoute
  <2>2. /\ RouteOK(tracks[t]) /\ RouteOf(t) = tracks[t] /\ RouteOK(route)
        /\ LiveLegs(route) \subseteq LiveLegs(tracks[t])
        /\ route.downstream_subs = tracks[t].downstream_subs
    BY <2>1, CounterTypes, TerminateLegsType, TerminatedNotLive, LegsLeaveDownstream DEF RouteOf
  <2>3. AllUpstreamTerminated(route) => LiveLegs(route) = {}
    BY DEF AllUpstreamTerminated, LiveLegs, IsLive
  <2>4. failed # {} => LiveLegs(route) = {}
    BY <2>3
  <2> HIDE DEF route, failed
  <2>5. /\ left.upstream_subs = route.upstream_subs
        /\ Active(left) = Active(route) \ failed
    BY <2>2, ActiveTerminateDownstream DEF TerminateDownstream, RouteOK
  <2> HIDE DEF left
  <2>6. Stranded(left) => Stranded(tracks[t])
    <3>1. LiveLegs(left) = LiveLegs(route)
      BY <2>5 DEF LiveLegs
    <3>2. Active(route) = Active(tracks[t])
      BY <2>2 DEF Active, DownstreamIn
    <3> QED BY <2>2, <2>4, <2>5, <3>1, <3>2 DEF Stranded, NoActiveDownstream, Active
  <2> QED BY <2>1, <2>2, <2>6, OneRouteWanted
<1> QED BY <1>1, <1>2

\* handle_publish_done (relay.rs:1028) tells every established subscription; those who
\* wait keep the other legs from being without one.
LEMMA PublishDoneWanted ==
  ASSUME SessionsInv, NEW p \in Sessions, NEW r \in RequestIds, HandlePublishDone(p, r), NEW u
  PROVE  KeepsWanted(u)
<1>1. CASE UNCHANGED tracks
  BY <1>1, UnchangedWanted
<1>2. CASE ~UNCHANGED tracks
  <2>0. PICK t : t = upstream_request_index[<<p, r>>]
    OBVIOUS
  <2> DEFINE route == TerminateLegs(tracks[t], {p})
             done == DownstreamIn(route, {"Established"})
             failed == IF AllUpstreamTerminated(route)
                       THEN DownstreamIn(route, {"Pending"}) ELSE {}
             left == TerminateDownstream(route, done \cup failed)
  <2>1. /\ t \in DOMAIN tracks
        /\ tracks' = Put(tracks, t, left) \/ tracks' = Drop(tracks, {t})
        /\ \A d \in done : SendPublishDone(d[1], d[2]) \in out'
    BY <1>2, <2>0 DEF HandlePublishDone, Refuse, Ignore, relayVars, KnownUpstream, StoreRoute
  <2>2. /\ RouteOK(tracks[t]) /\ RouteOf(t) = tracks[t] /\ RouteOK(route)
        /\ LiveLegs(route) \subseteq LiveLegs(tracks[t])
        /\ route.downstream_subs = tracks[t].downstream_subs
    BY <2>1, CounterTypes, TerminateLegsType, TerminatedNotLive, LegsLeaveDownstream DEF RouteOf
  <2>3. AllUpstreamTerminated(route) => LiveLegs(route) = {}
    BY DEF AllUpstreamTerminated, LiveLegs, IsLive
  <2>4. failed # {} => LiveLegs(route) = {}
    BY <2>3
  <2> HIDE DEF route, failed, done
  <2>5. /\ left.upstream_subs = route.upstream_subs
        /\ Active(left) = Active(route) \ (done \cup failed)
    BY <2>2, ActiveTerminateDownstream DEF TerminateDownstream, RouteOK
  <2> HIDE DEF left
  <2>6. ASSUME Stranded(left), ~Stranded(tracks[t])
        PROVE  /\ ~NoActiveDownstream(tracks[t])
               /\ \A d \in Active(tracks[t]) : SendPublishDone(d[1], d[2]) \in out'
    <3>1. LiveLegs(left) = LiveLegs(route)
      BY <2>5 DEF LiveLegs
    <3>2. Active(route) = Active(tracks[t])
      BY <2>2 DEF Active, DownstreamIn
    <3>3. LiveLegs(route) # {} /\ failed = {}
      BY <2>4, <2>6, <3>1 DEF Stranded
    <3>4. Active(left) = {}
      BY <2>6 DEF Stranded, NoActiveDownstream, Active
    <3>5. Active(tracks[t]) \subseteq done
      BY <2>5, <3>2, <3>3, <3>4
    <3>6. ~NoActiveDownstream(tracks[t])
      BY <2>2, <2>6, <3>3 DEF Stranded
    <3> QED BY <2>1, <3>5, <3>6
  <2> QED BY <2>1, <2>2, <2>6, OneRouteWanted
<1> QED BY <1>1, <1>2

\* handle_unsubscribe (relay.rs:938) drops the route with the last subscription.
LEMMA UnsubscribeWanted ==
  ASSUME NEW s \in Sessions, NEW r \in RequestIds, HandleUnsubscribe(s, r), NEW u
  PROVE  KeepsWanted(u)
<1>1. CASE UNCHANGED tracks
  BY <1>1, UnchangedWanted
<1>2. CASE ~UNCHANGED tracks
  <2> DEFINE t == downstream_request_index[<<s, r>>]
             route == TerminateDownstream(tracks[t], {<<s, r>>})
  <2>1. tracks' = StoreRoute(t, route, NoActiveDownstream(route))
    BY <1>2 DEF HandleUnsubscribe, Refuse, Ignore, relayVars
  <2> HIDE DEF t, route
  <2>2. tracks' = Put(tracks, t, route) \/ tracks' = Drop(tracks, {t})
    BY <2>1 DEF StoreRoute
  <2>3. t \in DOMAIN tracks' => ~NoActiveDownstream(route)
    BY <2>1 DEF StoreRoute, Drop, Restrict
  <2> QED BY <2>2, <2>3, OneRouteWanted DEF Stranded
<1> QED BY <1>1, <1>2

LEMMA StepWanted ==
  ASSUME SessionsInv, Next, NEW u
  PROVE  KeepsWanted(u)
<1>1. PICK s \in Sessions :
        \/ SessionEvent(s) \/ SetupMessage(s) \/ PublisherMessage(s) \/ SubscriberMessage(s)
        \/ \E alias \in InboundAliases : OnSubscriptionObject(s, alias)
  BY DEF Next
<1>2. CASE SessionEvent(s)
  <2>1. UNCHANGED tracks \/ OnSessionClosed(s)
    BY <1>2 DEF SessionEvent, OnSessionOpened, MessageFromUnknownSession, Refuse, relayVars
  <2> QED BY <2>1, UnchangedWanted, ClosedWanted
<1>3. CASE SetupMessage(s)
  <2>1. UNCHANGED tracks
    BY <1>3 DEF SetupMessage, HandleClientSetup, HandleServerSetup, HandleMaxRequestId,
         HandleRequestsBlocked, HandleGoaway, HandleOther, Refuse, Ignore, relayVars
  <2> QED BY <2>1, UnchangedWanted
<1>4. CASE PublisherMessage(s)
  BY <1>4, PublishNamespaceWanted, SubscribeOkWanted, RequestErrorWanted, PublishDoneWanted
     DEF PublisherMessage
<1>5. CASE SubscriberMessage(s)
  BY <1>5, SubscribeWanted, UnsubscribeWanted DEF SubscriberMessage
<1>6. CASE \E alias \in InboundAliases : OnSubscriptionObject(s, alias)
  <2>1. UNCHANGED tracks
    BY <1>6 DEF OnSubscriptionObject, Refuse, relayVars
  <2> QED BY <2>1, UnchangedWanted
<1> QED BY <1>1, <1>2, <1>3, <1>4, <1>5, <1>6

\* A live leg loses its last subscription only with PUBLISH_DONE to all of them,
\* whatever is cancelled, refused, closed or answered meanwhile.
THEOREM StrandedKnowingly == Spec => StrandedByDoneOnly
<1>1. SessionsInv /\ [Next]_vars =>
        [\A t \in DOMAIN tracks' :
           Stranded(tracks[t])' /\ ~Stranded(RouteOf(t)) =>
             /\ ~NoActiveDownstream(RouteOf(t))
             /\ \A d \in DownstreamIn(RouteOf(t), {"Pending", "Established"}) :
                  SendPublishDone(d[1], d[2]) \in out']_vars
  <2> SUFFICES ASSUME SessionsInv, Next, NEW t \in DOMAIN tracks',
                      Stranded(tracks[t])', ~Stranded(RouteOf(t))
               PROVE  /\ ~NoActiveDownstream(RouteOf(t))
                      /\ \A d \in DownstreamIn(RouteOf(t), {"Pending", "Established"}) :
                           SendPublishDone(d[1], d[2]) \in out'
    OBVIOUS
  <2>1. KeepsWanted(t)
    BY StepWanted
  <2>2. Stranded(RouteOf(t)')
    BY DEF Stranded, RouteOf, LiveLegs, NoActiveDownstream, DownstreamIn
  <2> QED BY <2>1, <2>2 DEF KeepsWanted, Active
<1> QED BY <1>1, SessionsInvCorrect, PTL DEF Spec, StrandedByDoneOnly

---------------------------------------------------------------------------
(* With one publisher a leg is live only while somebody needs it.          *)

Announcers == {s \in Sessions : "PUBLISH_NAMESPACE" \in Sends[s]}

\* Only a session that announces is asked for a track.
AskedAnnounce ==
  /\ \A n \in DOMAIN publishers_by_namespace : publishers_by_namespace[n] \subseteq Announcers
  /\ \A t \in DOMAIN tracks : DOMAIN tracks[t].upstream_subs \subseteq Announcers
  /\ \A k \in DOMAIN upstream_request_index : k[1] \in Announcers

\* A handler that asks only announcers.
LEMMA StillAnnounce ==
  ASSUME AskedAnnounce,
         \A n \in DOMAIN publishers_by_namespace' :
           publishers_by_namespace'[n] \subseteq Announcers \cup
             (IF n \in DOMAIN publishers_by_namespace THEN publishers_by_namespace[n] ELSE {}),
         \A t \in DOMAIN tracks' :
           DOMAIN tracks'[t].upstream_subs \subseteq Announcers \cup DOMAIN RouteOf(t).upstream_subs,
         \A k \in DOMAIN upstream_request_index' :
           k \in DOMAIN upstream_request_index \/ k[1] \in Announcers
  PROVE  AskedAnnounce'
<1>1. \A t : DOMAIN RouteOf(t).upstream_subs \subseteq Announcers
  BY DEF AskedAnnounce, RouteOf, NewRoute, EmptyMap
<1> QED BY <1>1 DEF AskedAnnounce, Announcers

LEMMA OneRouteAnnounce ==
  ASSUME AskedAnnounce, NEW t, NEW route,
         tracks' = Put(tracks, t, route) \/ tracks' = Drop(tracks, {t}),
         DOMAIN route.upstream_subs \subseteq Announcers \cup DOMAIN RouteOf(t).upstream_subs,
         UNCHANGED publishers_by_namespace,
         \A k \in DOMAIN upstream_request_index' :
           k \in DOMAIN upstream_request_index \/ k[1] \in Announcers
  PROVE  AskedAnnounce'
<1>1. ASSUME NEW u \in DOMAIN tracks'
      PROVE  DOMAIN tracks'[u].upstream_subs
               \subseteq Announcers \cup DOMAIN RouteOf(u).upstream_subs
  <2>1. \/ u = t /\ tracks'[u] = route
        \/ u \in DOMAIN tracks /\ tracks'[u] = tracks[u]
    BY DEF Put, Drop, Restrict
  <2> QED BY <2>1 DEF RouteOf
<1>2. \A n \in DOMAIN publishers_by_namespace' :
        publishers_by_namespace'[n] \subseteq Announcers \cup
          (IF n \in DOMAIN publishers_by_namespace THEN publishers_by_namespace[n] ELSE {})
  OBVIOUS
<1> QED BY <1>1, <1>2, StillAnnounce

LEMMA UnchangedAnnounce ==
  ASSUME AskedAnnounce, UNCHANGED <<publishers_by_namespace, tracks, upstream_request_index>>
  PROVE  AskedAnnounce'
BY DEF AskedAnnounce, Announcers

LEMMA ClosedAnnounce ==
  ASSUME SessionsInv, AskedAnnounce, NEW s \in Sessions, OnSessionClosed(s)
  PROVE  AskedAnnounce'
<1> DEFINE left == [t \in DOMAIN tracks |-> RouteWithout(tracks[t], s)]
           idle == {t \in DOMAIN tracks : NoActiveDownstream(left[t])}
           empty == {t \in DOMAIN tracks : /\ DOMAIN left[t].downstream_subs = {}
                                           /\ DOMAIN left[t].upstream_subs = {}}
<1>1. tracks' = [t \in DOMAIN tracks \ empty |->
                   IF t \in idle THEN TerminateLegs(left[t], LiveLegs(left[t])) ELSE left[t]]
  BY DEF OnSessionClosed
<1>2. \A t \in DOMAIN tracks : /\ RouteOK(left[t])
                               /\ DOMAIN left[t].upstream_subs \subseteq DOMAIN tracks[t].upstream_subs
  BY CounterTypes, RouteWithoutType DEF RouteWithout, Drop, Restrict
<1> HIDE DEF left, idle, empty
<1>3. ASSUME NEW u \in DOMAIN tracks'
      PROVE  DOMAIN tracks'[u].upstream_subs
               \subseteq Announcers \cup DOMAIN RouteOf(u).upstream_subs
  <2>1. u \in DOMAIN tracks /\ RouteOf(u) = tracks[u]
    BY <1>1 DEF RouteOf
  <2>2. \A ps : DOMAIN TerminateLegs(left[u], ps).upstream_subs = DOMAIN left[u].upstream_subs
    BY <1>2, <2>1 DEF TerminateLegs, RouteOK
  <2> QED BY <1>1, <1>2, <2>1, <2>2
<1>4. \A n \in DOMAIN publishers_by_namespace' :
        /\ n \in DOMAIN publishers_by_namespace
        /\ publishers_by_namespace'[n] \subseteq publishers_by_namespace[n]
  BY DEF OnSessionClosed, PublishersWithout
<1>5. \A k \in DOMAIN upstream_request_index' : k \in DOMAIN upstream_request_index
  BY DEF OnSessionClosed, Drop, Restrict
<1> QED BY <1>3, <1>4, <1>5, StillAnnounce

LEMMA PublishNamespaceAnnounce ==
  ASSUME SessionsInv, AskedAnnounce, NEW s \in Sessions, NEW r \in RequestIds,
         NEW ns \in Namespaces, HandlePublishNamespace(s, r, ns)
  PROVE  AskedAnnounce'
<1>0. s \in Announcers
  BY DEF HandlePublishNamespace, Receives, Announcers
<1>1. CASE UNCHANGED relayVars
  BY <1>1, UnchangedAnnounce DEF relayVars
<1>2. CASE ~UNCHANGED relayVars
  <2>1. PICK idOf :
       /\ publishers_by_namespace' =
            Put(publishers_by_namespace, ns,
                {s} \cup IF ns \in DOMAIN publishers_by_namespace
                         THEN publishers_by_namespace[ns] ELSE {})
       /\ tracks' = [t \in DOMAIN tracks |->
            IF t \in DOMAIN idOf
            THEN [tracks[t] EXCEPT !.upstream_subs = Put(@, s, NewLeg(idOf[t]))]
            ELSE tracks[t]]
       /\ upstream_request_index' =
            Merge(upstream_request_index,
                  [k \in {<<s, idOf[t]>> : t \in DOMAIN idOf} |->
                     CHOOSE t \in DOMAIN idOf : idOf[t] = k[2]])
    BY <1>2 DEF HandlePublishNamespace, Refuse
  <2>2. ASSUME NEW u \in DOMAIN tracks'
        PROVE  DOMAIN tracks'[u].upstream_subs
                 \subseteq Announcers \cup DOMAIN RouteOf(u).upstream_subs
    <3>1. u \in DOMAIN tracks /\ RouteOf(u) = tracks[u] /\ RouteOK(tracks[u])
      BY <2>1, CounterTypes DEF RouteOf
    <3>2. DOMAIN tracks'[u].upstream_subs \subseteq {s} \cup DOMAIN tracks[u].upstream_subs
      BY <2>1, <3>1 DEF RouteOK, Put
    <3> QED BY <1>0, <3>1, <3>2
  <2>3. \A n \in DOMAIN publishers_by_namespace' :
          publishers_by_namespace'[n] \subseteq Announcers \cup
            (IF n \in DOMAIN publishers_by_namespace THEN publishers_by_namespace[n] ELSE {})
    BY <1>0, <2>1 DEF Put
  <2>4. \A k \in DOMAIN upstream_request_index' :
          k \in DOMAIN upstream_request_index \/ k[1] \in Announcers
    BY <1>0, <2>1 DEF Merge
  <2> QED BY <2>2, <2>3, <2>4, StillAnnounce
<1> QED BY <1>1, <1>2

LEMMA SubscribeAnnounce ==
  ASSUME SessionsInv, AskedAnnounce, NEW s \in Sessions, NEW r \in RequestIds, NEW t \in Tracks,
         HandleSubscribe(s, r, t)
  PROVE  AskedAnnounce'
<1>1. CASE UNCHANGED relayVars
  BY <1>1, UnchangedAnnounce DEF relayVars
<1>2. CASE ~UNCHANGED relayVars
  <2>1. SubscribeJoins(s, r, t) \/ SubscribeFails(s, r, t) \/ SubscribeFansOut(s, r, t)
    BY <1>2 DEF HandleSubscribe, Refuse
  <2>2. RouteOK(RouteOf(t))
    BY RouteOfType DEF SessionsInv, DownstreamInv
  <2>3. CASE SubscribeJoins(s, r, t) \/ SubscribeFails(s, r, t)
    <3>1. PICK subs :
            LET route == [RouteOf(t) EXCEPT !.downstream_subs = subs]
            IN tracks' = Put(tracks, t, route) \/ tracks' = Drop(tracks, {t})
      BY <2>3 DEF SubscribeJoins, SubscribeFails, StoreRoute
    <3> DEFINE route == [RouteOf(t) EXCEPT !.downstream_subs = subs]
    <3>2. route.upstream_subs = RouteOf(t).upstream_subs
      BY <2>2 DEF RouteOK
    <3>3. tracks' = Put(tracks, t, route) \/ tracks' = Drop(tracks, {t})
      BY <3>1
    <3>4. UNCHANGED <<publishers_by_namespace, upstream_request_index>>
      BY <2>3 DEF SubscribeJoins, SubscribeFails
    <3> HIDE DEF route
    <3> QED BY <3>2, <3>3, <3>4, OneRouteAnnounce
  <2>4. CASE SubscribeFansOut(s, r, t)
    <3> DEFINE targets == FanOutTargets(t)
               asked == [p \in targets |-> NewLeg(sessions[p].local_next)]
    <3>1. targets \subseteq Announcers
      BY DEF FanOutTargets, MatchPublishers, AskedAnnounce
    <3>2. /\ \E subs : tracks' = Put(tracks, t, [downstream_subs |-> subs,
                                   upstream_subs |-> Merge(RouteOf(t).upstream_subs, asked)])
          /\ upstream_request_index' =
               Merge(upstream_request_index,
                     [k \in {<<p, sessions[p].local_next>> : p \in targets} |-> t])
          /\ UNCHANGED publishers_by_namespace
      BY <2>4 DEF SubscribeFansOut
    <3>3. DOMAIN asked = targets
      OBVIOUS
    <3> HIDE DEF targets, asked
    <3>4. PICK subs : tracks' = Put(tracks, t, [downstream_subs |-> subs,
                                   upstream_subs |-> Merge(RouteOf(t).upstream_subs, asked)])
      BY <3>2
    <3> DEFINE route == [downstream_subs |-> subs,
                         upstream_subs |-> Merge(RouteOf(t).upstream_subs, asked)]
    <3>5. DOMAIN route.upstream_subs \subseteq Announcers \cup DOMAIN RouteOf(t).upstream_subs
      BY <3>1, <3>3 DEF Merge
    <3>6. tracks' = Put(tracks, t, route)
      BY <3>4
    <3> HIDE DEF route
    <3>7. \A k \in DOMAIN upstream_request_index' :
            k \in DOMAIN upstream_request_index \/ k[1] \in Announcers
      BY <3>1, <3>2 DEF Merge
    <3> QED BY <3>2, <3>5, <3>6, <3>7, OneRouteAnnounce
  <2> QED BY <2>1, <2>3, <2>4
<1> QED BY <1>1, <1>2

\* Answers and cancellations change no leg's publisher.
LEMMA AnswersAnnounce ==
  ASSUME SessionsInv, AskedAnnounce, NEW p \in Sessions, NEW r \in RequestIds,
         \/ \E alias \in InboundAliases : HandleSubscribeOk(p, r, alias)
         \/ HandleRequestError(p, r) \/ HandlePublishDone(p, r)
         \/ HandleUnsubscribe(p, r)
  PROVE  AskedAnnounce'
<1>1. CASE UNCHANGED relayVars
  BY <1>1, UnchangedAnnounce DEF relayVars
<1>2. CASE ~UNCHANGED relayVars
  <2>1. ASSUME NEW alias \in InboundAliases, HandleSubscribeOk(p, r, alias)
        PROVE  AskedAnnounce'
    <3>0. PICK t : t = upstream_request_index[<<p, r>>]
      OBVIOUS
    <3> DEFINE held == EstablishLeg(tracks[t], p, alias)
    <3>1. /\ t \in DOMAIN tracks /\ p \in DOMAIN tracks[t].upstream_subs
          /\ SubscribeOkDuplicateAlias(p, t, alias) \/ SubscribeOkForwarded(p, t, alias)
      BY <1>2, <2>1, <3>0 DEF HandleSubscribeOk, Refuse, AwaitsSubscribeOk
    <3>2. RouteOK(tracks[t]) /\ RouteOf(t) = tracks[t]
      BY <3>1, CounterTypes DEF RouteOf
    <3>3. RouteOK(held) /\ DOMAIN held.upstream_subs = DOMAIN tracks[t].upstream_subs
      <4>1. RouteOK(held)
        BY <3>1, <3>2, EstablishLegType
      <4>2. DOMAIN held.upstream_subs = DOMAIN tracks[t].upstream_subs
        BY <3>1, <3>2 DEF EstablishLeg, RouteOK
      <4> QED BY <4>1, <4>2
    <3> HIDE DEF held
    <3>4. \E subs : tracks' = Put(tracks, t, [held EXCEPT !.downstream_subs = subs])
      <4>1. CASE SubscribeOkDuplicateAlias(p, t, alias)
        <5>1. held = [held EXCEPT !.downstream_subs = held.downstream_subs]
          BY <3>3 DEF RouteOK
        <5>2. tracks' = Put(tracks, t, held)
          BY <4>1 DEF SubscribeOkDuplicateAlias, held
        <5> QED BY <5>1, <5>2
      <4>2. CASE SubscribeOkForwarded(p, t, alias)
        BY <4>2 DEF SubscribeOkForwarded, held
      <4> QED BY <3>1, <4>1, <4>2
    <3>5. PICK subs : tracks' = Put(tracks, t, [held EXCEPT !.downstream_subs = subs])
      BY <3>4
    <3> DEFINE route == [held EXCEPT !.downstream_subs = subs]
    <3>6. route.upstream_subs = held.upstream_subs
      BY <3>3 DEF RouteOK
    <3>7. tracks' = Put(tracks, t, route)
      BY <3>5
    <3> HIDE DEF route
    <3>8. UNCHANGED <<publishers_by_namespace, upstream_request_index>>
      BY <3>1 DEF SubscribeOkDuplicateAlias, SubscribeOkForwarded
    <3> QED BY <3>2, <3>3, <3>6, <3>7, <3>8, OneRouteAnnounce
  <2>2. CASE HandleRequestError(p, r) \/ HandlePublishDone(p, r)
    <3>0. PICK t : t = upstream_request_index[<<p, r>>]
      OBVIOUS
    <3> DEFINE route == TerminateLegs(tracks[t], {p})
    <3>1. /\ KnownUpstream(p, r)
          /\ UNCHANGED publishers_by_namespace
          /\ upstream_request_index' = Drop(upstream_request_index, {<<p, r>>})
          /\ \E ended, empty : tracks' = StoreRoute(t, TerminateDownstream(route, ended), empty)
      BY <1>2, <2>2, <3>0 DEF HandleRequestError, HandlePublishDone, Refuse, Ignore
    <3>2. t \in DOMAIN tracks /\ RouteOK(tracks[t]) /\ RouteOf(t) = tracks[t]
      BY <3>0, <3>1, CounterTypes DEF KnownUpstream, RouteOf
    <3>3. PICK ended, empty : tracks' = StoreRoute(t, TerminateDownstream(route, ended), empty)
      BY <3>1
    <3> DEFINE kept == TerminateDownstream(route, ended)
    <3>4. DOMAIN kept.upstream_subs = DOMAIN tracks[t].upstream_subs
      BY <3>2 DEF TerminateLegs, TerminateDownstream, RouteOK
    <3>5. tracks' = Put(tracks, t, kept) \/ tracks' = Drop(tracks, {t})
      BY <3>3 DEF StoreRoute
    <3> HIDE DEF kept
    <3>6. \A k \in DOMAIN upstream_request_index' : k \in DOMAIN upstream_request_index
      BY <3>1 DEF Drop, Restrict
    <3> QED BY <3>1, <3>2, <3>4, <3>5, <3>6, OneRouteAnnounce
  <2>3. CASE HandleUnsubscribe(p, r)
    <3>0. PICK t : t = downstream_request_index[<<p, r>>]
      OBVIOUS
    <3> DEFINE route == TerminateDownstream(tracks[t], {<<p, r>>})
    <3>1. /\ t \in DOMAIN tracks
          /\ UNCHANGED publishers_by_namespace
          /\ \E ks : upstream_request_index' = Drop(upstream_request_index, ks)
          /\ tracks' = StoreRoute(t, route, NoActiveDownstream(route))
      BY <1>2, <2>3, <3>0 DEF HandleUnsubscribe, Refuse, Ignore
    <3>2. RouteOK(tracks[t]) /\ RouteOf(t) = tracks[t]
      BY <3>1, CounterTypes DEF RouteOf
    <3>3. DOMAIN route.upstream_subs = DOMAIN tracks[t].upstream_subs
      BY <3>2 DEF TerminateDownstream, RouteOK
    <3>4. tracks' = Put(tracks, t, route) \/ tracks' = Drop(tracks, {t})
      BY <3>1 DEF StoreRoute
    <3> HIDE DEF route
    <3>5. \A k \in DOMAIN upstream_request_index' : k \in DOMAIN upstream_request_index
      BY <3>1 DEF Drop, Restrict
    <3> QED BY <3>1, <3>2, <3>3, <3>4, <3>5, OneRouteAnnounce
  <2> QED BY <2>1, <2>2, <2>3
<1> QED BY <1>1, <1>2

LEMMA NextAnnounce ==
  ASSUME SessionsInv, AskedAnnounce, Next
  PROVE  AskedAnnounce'
<1>1. PICK s \in Sessions :
        \/ SessionEvent(s) \/ SetupMessage(s) \/ PublisherMessage(s) \/ SubscriberMessage(s)
        \/ \E alias \in InboundAliases : OnSubscriptionObject(s, alias)
  BY DEF Next
<1>2. CASE SessionEvent(s)
  <2>1. \/ OnSessionClosed(s)
        \/ UNCHANGED <<publishers_by_namespace, tracks, upstream_request_index>>
    BY <1>2 DEF SessionEvent, OnSessionOpened, MessageFromUnknownSession, Refuse, relayVars
  <2> QED BY <2>1, UnchangedAnnounce, ClosedAnnounce
<1>3. CASE SetupMessage(s)
  <2>1. UNCHANGED <<publishers_by_namespace, tracks, upstream_request_index>>
    BY <1>3 DEF SetupMessage, HandleClientSetup, HandleServerSetup, HandleMaxRequestId,
         HandleRequestsBlocked, HandleGoaway, HandleOther, Refuse, Ignore, relayVars
  <2> QED BY <2>1, UnchangedAnnounce
<1>4. CASE PublisherMessage(s)
  BY <1>4, PublishNamespaceAnnounce, AnswersAnnounce DEF PublisherMessage
<1>5. CASE SubscriberMessage(s)
  BY <1>5, SubscribeAnnounce, AnswersAnnounce DEF SubscriberMessage
<1>6. CASE \E alias \in InboundAliases : OnSubscriptionObject(s, alias)
  <2>1. UNCHANGED <<publishers_by_namespace, tracks, upstream_request_index>>
    BY <1>6 DEF OnSubscriptionObject, Refuse, relayVars
  <2> QED BY <2>1, UnchangedAnnounce
<1> QED BY <1>1, <1>2, <1>3, <1>4, <1>5, <1>6

\* PUBLISH_DONE is sent only because of PUBLISH_DONE.
LEMMA DoneTeller ==
  ASSUME Next, NEW e \in out', e.kind = "PUBLISH_DONE"
  PROVE  \E p \in Sessions, r \in RequestIds : HandlePublishDone(p, r)
<1>1. PICK s \in Sessions : \/ SessionEvent(s) \/ SetupMessage(s)
                            \/ PublisherMessage(s) \/ SubscriberMessage(s)
                            \/ \E alias \in InboundAliases : OnSubscriptionObject(s, alias)
  BY DEF Next
<1>2. ~SessionEvent(s)
  BY ClosedKinds, RefusedKinds
     DEF SessionEvent, OnSessionOpened, MessageFromUnknownSession, OnlyKinds
<1>3. ~SetupMessage(s) /\ \A alias : ~OnSubscriptionObject(s, alias)
  BY SetupKinds, ObjectKinds DEF OnlyKinds
<1>4. ~SubscriberMessage(s)
  <2>1. ASSUME NEW r \in RequestIds, NEW t \in Tracks, HandleSubscribe(s, r, t)
        PROVE  FALSE
    BY <2>1, SubscribeKinds, RefusedKinds DEF HandleSubscribe, OnlyKinds
  <2> QED BY <2>1, UnsubscribeKinds DEF SubscriberMessage, OnlyKinds
<1>5. ASSUME NEW r \in RequestIds, NEW alias \in InboundAliases, HandleSubscribeOk(s, r, alias)
      PROVE  FALSE
  BY <1>5, SubscribeOkKinds, RefusedKinds DEF HandleSubscribeOk, OnlyKinds
<1>6. ASSUME NEW r \in RequestIds, HandleRequestError(s, r)
      PROVE  FALSE
  <2>1. \/ \E error : Refuse(s, error)
        \/ out' = {}
        \/ \E failed : out' = {SendRequestError(d[1], d[2]) : d \in failed}
    BY <1>6 DEF HandleRequestError, Ignore
  <2> QED BY <2>1, RefusedKinds DEF OnlyKinds, SendRequestError
<1>7. PublisherMessage(s)
  BY <1>1, <1>2, <1>3, <1>4
<1> QED BY <1>5, <1>6, <1>7, PublishNamespaceKinds DEF PublisherMessage, OnlyKinds

\* The end of the only publisher's request ends the only leg there is.
LEMMA LastLegDone ==
  ASSUME SessionsInv, AskedAnnounce, NEW p \in Sessions, NEW r \in RequestIds,
         HandlePublishDone(p, r), \A q \in Announcers : q = p, NEW u,
         Stranded(RouteOf(u)')
  PROVE  Stranded(RouteOf(u))
<1>1. CASE UNCHANGED tracks
  BY <1>1 DEF RouteOf
<1>2. CASE ~UNCHANGED tracks
  <2>0. PICK t : t = upstream_request_index[<<p, r>>]
    OBVIOUS
  <2> DEFINE route == TerminateLegs(tracks[t], {p})
  <2>1. /\ t \in DOMAIN tracks
        /\ \E ended, empty : tracks' = StoreRoute(t, TerminateDownstream(route, ended), empty)
    BY <1>2, <2>0 DEF HandlePublishDone, Refuse, Ignore, relayVars, KnownUpstream
  <2>2. RouteOK(tracks[t]) /\ RouteOK(route)
    BY <2>1, CounterTypes, TerminateLegsType
  <2>3. PICK ended, empty : tracks' = StoreRoute(t, TerminateDownstream(route, ended), empty)
    BY <2>1
  <2> DEFINE kept == TerminateDownstream(route, ended)
  <2>4. kept.upstream_subs = route.upstream_subs
    BY <2>2 DEF TerminateDownstream, RouteOK
  <2>5. LiveLegs(route) = LiveLegs(tracks[t]) \ {p}
    BY <2>1, <2>2, TerminatedNotLive
  <2>6. LiveLegs(tracks[t]) \subseteq {p}
    BY <2>1 DEF AskedAnnounce, LiveLegs
  <2>7. tracks' = Put(tracks, t, kept) \/ tracks' = Drop(tracks, {t})
    BY <2>3 DEF StoreRoute
  <2> HIDE DEF route, kept
  <2>8. ~Stranded(kept)
    BY <2>4, <2>5, <2>6 DEF Stranded, LiveLegs
  <2>9. CASE u = t
    BY <2>7, <2>8, <2>9, NewRouteWanted DEF RouteOf, Put, Drop, Restrict
  <2>10. CASE u # t
    BY <2>7, <2>10 DEF RouteOf, Put, Drop, Restrict
  <2> QED BY <2>9, <2>10
<1> QED BY <1>1, <1>2

LEMMA AnnounceCorrect == Spec => [](SessionsInv /\ AskedAnnounce)
<1>1. Init => SessionsInv /\ AskedAnnounce
  BY InitSessions DEF Init, AskedAnnounce, EmptyMap
<1>2. SessionsInv /\ AskedAnnounce /\ [Next]_vars => SessionsInv' /\ AskedAnnounce'
  <2>1. ASSUME AskedAnnounce, UNCHANGED vars
        PROVE  AskedAnnounce'
    BY <2>1, UnchangedAnnounce DEF vars
  <2> QED BY <2>1, NextSessions, NextAnnounce
<1> QED BY <1>1, <1>2, PTL DEF Spec

\* When no two sessions announce namespaces, a leg is live only while somebody
\* downstream wants its track.
THEOREM LegsWanted ==
  ASSUME \A p, q \in Announcers : p = q
  PROVE  Spec => []LiveLegsWanted
<1> DEFINE WantedInv == \A u : ~Stranded(RouteOf(u))
<1>1. Init => WantedInv
  BY NewRouteWanted DEF Init, RouteOf, EmptyMap
<1>2. SessionsInv /\ AskedAnnounce /\ WantedInv /\ [Next]_vars => WantedInv'
  <2>1. ASSUME WantedInv, UNCHANGED vars
        PROVE  WantedInv'
    BY <2>1 DEF vars, RouteOf
  <2>2. ASSUME SessionsInv, AskedAnnounce, WantedInv, Next, NEW u, Stranded(RouteOf(u)')
        PROVE  FALSE
    <3>1. /\ ~NoActiveDownstream(RouteOf(u))
          /\ \A d \in Active(RouteOf(u)) : SendPublishDone(d[1], d[2]) \in out'
      BY <2>2, StepWanted DEF KeepsWanted
    <3>2. PICK d \in Active(RouteOf(u)) : SendPublishDone(d[1], d[2]) \in out'
      BY <3>1 DEF NoActiveDownstream, Active
    <3>3. SendPublishDone(d[1], d[2]).kind = "PUBLISH_DONE"
      BY DEF SendPublishDone
    <3>4. PICK p \in Sessions, r \in RequestIds : HandlePublishDone(p, r)
      BY <2>2, <3>2, <3>3, DoneTeller
    <3>5. CASE UNCHANGED tracks
      BY <2>2, <3>5 DEF RouteOf
    <3>6. CASE ~UNCHANGED tracks
      <4>1. <<p, r>> \in DOMAIN upstream_request_index
        BY <3>4, <3>6 DEF HandlePublishDone, Refuse, Ignore, relayVars, KnownUpstream
      <4>2. p \in Announcers
        BY <2>2, <4>1 DEF AskedAnnounce
      <4> QED BY <2>2, <3>4, <4>2, LastLegDone
    <3> QED BY <3>5, <3>6
  <2>3. ASSUME SessionsInv, AskedAnnounce, WantedInv, Next
        PROVE  WantedInv'
    BY <2>2, <2>3 DEF Stranded, LiveLegs, NoActiveDownstream, DownstreamIn, RouteOf
  <2> QED BY <2>1, <2>3
<1>3. WantedInv => LiveLegsWanted
  BY DEF LiveLegsWanted, Stranded, RouteOf
<1> HIDE DEF WantedInv
<1> QED BY <1>1, <1>2, <1>3, AnnounceCorrect, PTL DEF Spec

=============================================================================
