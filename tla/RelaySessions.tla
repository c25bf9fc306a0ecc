--------------------------- MODULE RelaySessions ---------------------------
(***************************************************************************)
(* Who may appear in the relay's maps: only an open session that finished  *)
(* its setup, and in the namespace index exactly the publishers that       *)
(* announced.  The three properties of Relay about this need one another:  *)
(* a key that is opened again must be in no map, and a closing session is  *)
(* taken out of the namespace index by its own list of namespaces.         *)
(*                                                                         *)
(* Then what a session hands out, request ids to publishers and aliases to *)
(* subscribers: it hands out nothing twice.                                *)
(***************************************************************************)
EXTENDS RelayIndex

\* Open sessions that finished their setup.
Ready == {s \in DOMAIN sessions : sessions[s].setup = "SetupComplete"}

\* The sessions a route names.
PartiesOf(route) ==
  DOMAIN route.upstream_subs \cup {d[1] : d \in DOMAIN route.downstream_subs}

PartiesReady ==
  /\ \A n \in DOMAIN publishers_by_namespace : publishers_by_namespace[n] \subseteq Ready
  /\ \A t \in DOMAIN tracks : PartiesOf(tracks[t]) \subseteq Ready

SessionsInv == DownstreamInv /\ NamespaceIndexExact /\ PartiesReady

---------------------------------------------------------------------------
(* Routes and their parties.                                               *)

\* A route made for a first request names nobody.
LEMMA PartiesNewRoute == PartiesOf(NewRoute) = {}
BY DEF PartiesOf, NewRoute, EmptyMap

\* The route a handler starts from names sessions that are ready.
LEMMA PartiesOfRoute ==
  ASSUME PartiesReady, NEW t
  PROVE  PartiesOf(RouteOf(t)) \subseteq Ready
BY PartiesNewRoute DEF PartiesReady, RouteOf

\* Ending subscriptions and legs, and establishing a leg, leave the keys of a
\* route alone.
LEMMA PartiesKept ==
  ASSUME NEW route, RouteOK(route)
  PROVE  /\ \A ps : PartiesOf(TerminateLegs(route, ps)) = PartiesOf(route)
         /\ \A ds : PartiesOf(TerminateDownstream(route, ds)) = PartiesOf(route)
         /\ \A p \in DOMAIN route.upstream_subs : \A alias :
              PartiesOf(EstablishLeg(route, p, alias)) = PartiesOf(route)
<1>1. \A ps : PartiesOf(TerminateLegs(route, ps)) = PartiesOf(route)
  BY DEF RouteOK, PartiesOf, TerminateLegs
<1>2. \A ds : PartiesOf(TerminateDownstream(route, ds)) = PartiesOf(route)
  BY DEF RouteOK, PartiesOf, TerminateDownstream
<1>3. \A p \in DOMAIN route.upstream_subs : \A alias :
        PartiesOf(EstablishLeg(route, p, alias)) = PartiesOf(route)
  BY DEF RouteOK, PartiesOf, EstablishLeg
<1> QED BY <1>1, <1>2, <1>3

\* A session that closes is taken out of a route, and no other.
LEMMA PartiesWithout ==
  ASSUME NEW route, NEW s
  PROVE  PartiesOf(RouteWithout(route, s)) \subseteq PartiesOf(route) \ {s}
BY DEF PartiesOf, RouteWithout, Drop, Restrict

---------------------------------------------------------------------------
(* Ways a handler changes sessions and routes.                             *)

\* A handler that opens and closes no session and announces no namespace may
\* store any routes that name only ready sessions.
LEMMA KeptSessions ==
  ASSUME SessionsInv, DownstreamInv', UNCHANGED publishers_by_namespace,
         DOMAIN sessions' = DOMAIN sessions,
         \A x \in DOMAIN sessions :
           /\ sessions'[x].published_namespaces = sessions[x].published_namespaces
           /\ sessions'[x].setup \in {sessions[x].setup, "SetupComplete"},
         \A t \in DOMAIN tracks' : PartiesOf(tracks'[t]) \subseteq Ready
  PROVE  SessionsInv'
<1>1. Ready \subseteq Ready'
  BY DEF Ready
<1>2. PartiesReady'
  BY <1>1 DEF SessionsInv, PartiesReady
<1>3. NamespaceIndexExact'
  BY DEF SessionsInv, NamespaceIndexExact
<1> QED BY <1>2, <1>3 DEF SessionsInv

\* A handler that changes one route.
LEMMA OneRouteReady ==
  ASSUME PartiesReady, NEW t, NEW route, PartiesOf(route) \subseteq Ready,
         tracks' = Put(tracks, t, route) \/ tracks' = Drop(tracks, {t})
  PROVE  \A u \in DOMAIN tracks' : PartiesOf(tracks'[u]) \subseteq Ready
<1>1. \A u \in DOMAIN tracks' :
        \/ u = t /\ tracks'[u] = route
        \/ u \in DOMAIN tracks /\ tracks'[u] = tracks[u]
  BY DEF Put, Drop, Restrict
<1> QED BY <1>1 DEF PartiesReady

\* Such a handler that leaves the sessions alone as well.
LEMMA OneRouteSessions ==
  ASSUME SessionsInv, DownstreamInv', NEW t \in Tracks, NEW route, NEW empty,
         PartiesOf(route) \subseteq Ready,
         tracks' = StoreRoute(t, route, empty),
         UNCHANGED <<sessions, publishers_by_namespace>>
  PROVE  SessionsInv'
<1>1. tracks' = Put(tracks, t, route) \/ tracks' = Drop(tracks, {t})
  BY DEF StoreRoute
<1>2. \A u \in DOMAIN tracks' : PartiesOf(tracks'[u]) \subseteq Ready
  BY <1>1, OneRouteReady DEF SessionsInv
<1> QED BY <1>2, KeptSessions

---------------------------------------------------------------------------
(* Steps.  That DownstreamInv holds again is NextDownstream.               *)

\* A handler that returns early changes nothing.
LEMMA UnchangedSessions ==
  ASSUME SessionsInv, UNCHANGED relayVars
  PROVE  SessionsInv'
BY UnchangedDownstream
   DEF SessionsInv, relayVars, NamespaceIndexExact, PartiesReady, Ready

\* on_session_opened (relay.rs:111): the key is in no map.
LEMMA OnSessionOpenedSessions ==
  ASSUME SessionsInv, DownstreamInv', NEW s \in Sessions, NEW role \in Roles,
         OnSessionOpened(s, role)
  PROVE  SessionsInv'
<1>1. /\ DOMAIN sessions' = DOMAIN sessions \cup {s}
      /\ s \notin DOMAIN sessions
      /\ sessions'[s] = NewSession(role)
      /\ \A x \in DOMAIN sessions : sessions'[x] = sessions[x]
      /\ UNCHANGED <<publishers_by_namespace, tracks>>
  BY DEF OnSessionOpened, Put
<1>2. NewSession(role).published_namespaces = {}
  BY DEF NewSession
<1>3. Ready \subseteq Ready'
  BY <1>1 DEF Ready
<1>4. \A n \in DOMAIN publishers_by_namespace : s \notin publishers_by_namespace[n]
  BY <1>1 DEF SessionsInv, PartiesReady, Ready
<1>5. NamespaceIndexExact'
  BY <1>1, <1>2, <1>4 DEF SessionsInv, NamespaceIndexExact
<1>6. PartiesReady'
  BY <1>1, <1>3 DEF SessionsInv, PartiesReady
<1> QED BY <1>5, <1>6 DEF SessionsInv

\* on_session_closed (relay.rs:122) takes the session out of every map.
LEMMA OnSessionClosedSessions ==
  ASSUME SessionsInv, DownstreamInv', NEW s \in Sessions, OnSessionClosed(s)
  PROVE  SessionsInv'
<1> DEFINE left == [t \in DOMAIN tracks |-> RouteWithout(tracks[t], s)]
           idle == {t \in DOMAIN tracks : NoActiveDownstream(left[t])}
           empty == {t \in DOMAIN tracks : /\ DOMAIN left[t].downstream_subs = {}
                                           /\ DOMAIN left[t].upstream_subs = {}}
<1>1. /\ DOMAIN sessions' = DOMAIN sessions \ {s}
      /\ \A x \in DOMAIN sessions' : sessions'[x] = sessions[x]
      /\ s \in DOMAIN sessions
      /\ publishers_by_namespace' = PublishersWithout(s)
  BY DEF OnSessionClosed, Drop, Restrict
<1>2. Ready \ {s} \subseteq Ready'
  BY <1>1 DEF Ready
<1>3. \A t \in DOMAIN tracks' : PartiesOf(tracks'[t]) \subseteq Ready'
  <2>1. \A t \in DOMAIN tracks : /\ PartiesOf(left[t]) \subseteq PartiesOf(tracks[t]) \ {s}
                                 /\ RouteOK(left[t])
    BY PartiesWithout, RouteWithoutType DEF SessionsInv, DownstreamInv, TypeOK, RoutesOK
  <2>2. tracks' = [t \in DOMAIN tracks \ empty |->
                     IF t \in idle THEN TerminateLegs(left[t], LiveLegs(left[t]))
                     ELSE left[t]]
    BY DEF OnSessionClosed
  <2> HIDE DEF left, idle, empty
  <2>3. ASSUME NEW t \in DOMAIN tracks'
        PROVE  t \in DOMAIN tracks /\ PartiesOf(tracks'[t]) = PartiesOf(left[t])
    BY <2>1, <2>2, PartiesKept
  <2> QED BY <1>2, <2>1, <2>3 DEF SessionsInv, PartiesReady
<1>4. \A n \in DOMAIN publishers_by_namespace :
        s \in publishers_by_namespace[n] => n \in sessions[s].published_namespaces
  BY <1>1 DEF SessionsInv, DownstreamInv, TypeOK, IsMap, NamespaceIndexExact
<1>5. /\ \A n \in DOMAIN publishers_by_namespace' :
           /\ n \in DOMAIN publishers_by_namespace
           /\ publishers_by_namespace'[n] = publishers_by_namespace[n] \ {s}
           /\ publishers_by_namespace'[n] # {}
      /\ \A n \in DOMAIN publishers_by_namespace :
           n \in DOMAIN publishers_by_namespace' \/ publishers_by_namespace[n] \subseteq {s}
  BY <1>1, <1>4 DEF PublishersWithout, SessionsInv, NamespaceIndexExact
<1>6. PartiesReady'
  BY <1>2, <1>3, <1>5 DEF SessionsInv, PartiesReady
<1>7. NamespaceIndexExact'
  BY <1>1, <1>5 DEF SessionsInv, NamespaceIndexExact
<1> QED BY <1>6, <1>7 DEF SessionsInv

\* Setup, limits and GOAWAY touch nothing but the session itself.
LEMMA SetupMessageSessions ==
  ASSUME SessionsInv, DownstreamInv', NEW s \in Sessions, SetupMessage(s)
  PROVE  SessionsInv'
<1>1. /\ UNCHANGED <<tracks, publishers_by_namespace>>
      /\ DOMAIN sessions' = DOMAIN sessions
      /\ \A x \in DOMAIN sessions :
           /\ sessions'[x].published_namespaces = sessions[x].published_namespaces
           /\ sessions'[x].setup \in {sessions[x].setup, "SetupComplete"}
  BY DEF SetupMessage, HandleClientSetup, HandleServerSetup, HandleMaxRequestId,
         HandleRequestsBlocked, HandleGoaway, HandleOther, Refuse, Ignore, relayVars,
         SessionsInv, DownstreamInv, TypeOK, IsMap, Session
<1>2. \A t \in DOMAIN tracks' : PartiesOf(tracks'[t]) \subseteq Ready
  BY <1>1 DEF SessionsInv, PartiesReady
<1> QED BY <1>1, <1>2, KeptSessions

---------------------------------------------------------------------------

\* handle_publish_namespace (relay.rs:489) writes the announcement into both
\* indexes, after the setup check.
LEMMA HandlePublishNamespaceSessions ==
  ASSUME SessionsInv, DownstreamInv', NEW s \in Sessions, NEW r \in RequestIds,
         NEW ns \in Namespaces, HandlePublishNamespace(s, r, ns)
  PROVE  SessionsInv'
<1>1. CASE UNCHANGED relayVars
  BY <1>1, UnchangedSessions
<1>2. CASE ~UNCHANGED relayVars
  <2>1. PICK idOf :
       /\ sessions' = [sessions EXCEPT
            ![s].peer_next_expected = r + 2,
            ![s].published_namespaces = @ \cup {ns},
            ![s].local_next = @ + 2 * Cardinality(DOMAIN idOf)]
       /\ publishers_by_namespace' =
            Put(publishers_by_namespace, ns,
                {s} \cup IF ns \in DOMAIN publishers_by_namespace
                         THEN publishers_by_namespace[ns] ELSE {})
       /\ tracks' = [t \in DOMAIN tracks |->
            IF t \in DOMAIN idOf
            THEN [tracks[t] EXCEPT !.upstream_subs = Put(@, s, NewLeg(idOf[t]))]
            ELSE tracks[t]]
    BY <1>2 DEF HandlePublishNamespace, Refuse
  <2>2. s \in Ready
    BY <1>2 DEF HandlePublishNamespace, Receives, Refuse, SetupDone, Ready
  <2>3. ASSUME NEW x \in DOMAIN sessions
        PROVE  /\ x \in DOMAIN sessions'
               /\ sessions'[x].setup = sessions[x].setup
               /\ sessions'[x].published_namespaces =
                    sessions[x].published_namespaces \cup IF x = s THEN {ns} ELSE {}
    <3>1. sessions[x] \in Session
      BY DEF SessionsInv, DownstreamInv, TypeOK, IsMap
    <3> QED BY <2>1, <3>1 DEF Session
  <2>4. DOMAIN sessions' = DOMAIN sessions
    BY <2>1
  <2>5. Ready' = Ready
    BY <2>3, <2>4 DEF Ready
  <2>6. ASSUME NEW t \in DOMAIN tracks'
        PROVE  PartiesOf(tracks'[t]) \subseteq Ready
    <3>1. t \in DOMAIN tracks /\ RouteOK(tracks[t])
      BY <2>1 DEF SessionsInv, DownstreamInv, TypeOK, RoutesOK
    <3>2. /\ DOMAIN tracks'[t].upstream_subs \subseteq DOMAIN tracks[t].upstream_subs \cup {s}
          /\ tracks'[t].downstream_subs = tracks[t].downstream_subs
      BY <2>1, <3>1 DEF RouteOK, Put
    <3> QED BY <2>2, <3>1, <3>2 DEF SessionsInv, PartiesReady, PartiesOf
  <2>7. /\ DOMAIN publishers_by_namespace' = DOMAIN publishers_by_namespace \cup {ns}
        /\ \A n \in DOMAIN publishers_by_namespace :
             n # ns => publishers_by_namespace'[n] = publishers_by_namespace[n]
        /\ publishers_by_namespace'[ns] =
             {s} \cup IF ns \in DOMAIN publishers_by_namespace
                      THEN publishers_by_namespace[ns] ELSE {}
    BY <2>1 DEF Put
  <2>8. PartiesReady'
    BY <2>2, <2>5, <2>6, <2>7 DEF SessionsInv, PartiesReady
  <2>9. NamespaceIndexExact'
    <3>1. ASSUME NEW n \in Namespaces, NEW x \in DOMAIN sessions'
          PROVE  n \in sessions'[x].published_namespaces <=>
                   n \in DOMAIN publishers_by_namespace' /\ x \in publishers_by_namespace'[n]
      BY <2>3, <2>4, <2>7 DEF SessionsInv, NamespaceIndexExact
    <3>2. \A n \in DOMAIN publishers_by_namespace' : publishers_by_namespace'[n] # {}
      BY <2>7 DEF SessionsInv, NamespaceIndexExact
    <3> QED BY <3>1, <3>2 DEF NamespaceIndexExact
  <2> QED BY <2>8, <2>9 DEF SessionsInv
<1> QED BY <1>1, <1>2

---------------------------------------------------------------------------
(* SUBSCRIBE: the subscriber is ready, and so is every publisher of a      *)
(* namespace.                                                              *)

\* handle_subscribe (relay.rs:580), each of its three outcomes.
LEMMA SubscribeSessions ==
  ASSUME SessionsInv, DownstreamInv', NEW s \in Ready, NEW r \in RequestIds,
         NEW t \in Tracks,
         SubscribeJoins(s, r, t) \/ SubscribeFails(s, r, t) \/ SubscribeFansOut(s, r, t)
  PROVE  SessionsInv'
<1> DEFINE old == RouteOf(t)
<1>1. RouteOK(old) /\ PartiesOf(old) \subseteq Ready
  BY RouteOfType, PartiesOfRoute DEF SessionsInv, DownstreamInv
<1>2. /\ DOMAIN sessions' = DOMAIN sessions
      /\ UNCHANGED publishers_by_namespace
  BY DEF SubscribeJoins, SubscribeFails, SubscribeFansOut
<1>3. ASSUME NEW x \in DOMAIN sessions
      PROVE  /\ sessions'[x].published_namespaces = sessions[x].published_namespaces
             /\ sessions'[x].setup = sessions[x].setup
  <2>1. sessions[x] \in Session
    BY DEF SessionsInv, DownstreamInv, TypeOK, IsMap
  <2>2. ASSUME NEW expected, NEW local, NEW next,
               sessions'[x] = [sessions[x] EXCEPT !.peer_next_expected = expected,
                                                  !.local_next = local,
                                                  !.next_outbound = next]
        PROVE  /\ sessions'[x].published_namespaces = sessions[x].published_namespaces
               /\ sessions'[x].setup = sessions[x].setup
    BY <2>1, <2>2 DEF Session
  <2>3. CASE SubscribeJoins(s, r, t)
    <3> DEFINE expected == IF x = s THEN r + 2 ELSE sessions[x].peer_next_expected
               next == IF x = s THEN sessions[x].next_outbound + 1
                       ELSE sessions[x].next_outbound
    <3>1. sessions' = [sessions EXCEPT ![s].peer_next_expected = r + 2,
                                       ![s].next_outbound = @ + 1]
      BY <2>3 DEF SubscribeJoins
    <3>2. sessions'[x] = [sessions[x] EXCEPT !.peer_next_expected = expected,
                                             !.local_next = sessions[x].local_next,
                                             !.next_outbound = next]
      BY <2>1, <3>1 DEF Session
    <3> HIDE DEF expected, next
    <3> QED BY <2>2, <3>2
  <2>4. CASE SubscribeFails(s, r, t)
    <3>1. sessions' = [sessions EXCEPT ![s].peer_next_expected = r + 2]
      BY <2>4 DEF SubscribeFails
    <3> QED BY <2>1, <3>1 DEF Session
  <2>5. CASE SubscribeFansOut(s, r, t)
    <3> DEFINE expected == IF x = s THEN r + 2 ELSE sessions[x].peer_next_expected
               local == IF x \in FanOutTargets(t) THEN sessions[x].local_next + 2
                        ELSE sessions[x].local_next
    <3>1. sessions' = [y \in DOMAIN sessions |->
            [sessions[y] EXCEPT
               !.peer_next_expected = IF y = s THEN r + 2 ELSE @,
               !.local_next = IF y \in FanOutTargets(t) THEN @ + 2 ELSE @]]
      BY <2>5 DEF SubscribeFansOut
    <3>2. sessions'[x] = [sessions[x] EXCEPT !.peer_next_expected = expected,
                                             !.local_next = local]
      BY <3>1
    <3> HIDE DEF expected, local
    <3> QED BY <2>1, <3>2 DEF Session
  <2> QED BY <2>3, <2>4, <2>5
<1>4. FanOutTargets(t) \subseteq Ready
  BY DEF FanOutTargets, MatchPublishers, SessionsInv, PartiesReady
<1>5. PICK route : /\ PartiesOf(route) \subseteq Ready
                   /\ tracks' = Put(tracks, t, route) \/ tracks' = Drop(tracks, {t})
  <2>1. ASSUME NEW sub, NEW route,
               route = [old EXCEPT !.downstream_subs = Put(@, <<s, r>>, sub)]
        PROVE  PartiesOf(route) \subseteq Ready
    <3>1. route.downstream_subs = Put(old.downstream_subs, <<s, r>>, sub)
      BY <1>1, <2>1 DEF RouteOK
    <3>2. route.upstream_subs = old.upstream_subs
      BY <1>1, <2>1 DEF RouteOK
    <3> HIDE DEF old
    <3> QED BY <1>1, <3>1, <3>2 DEF PartiesOf, Put
  <2>2. CASE SubscribeJoins(s, r, t)
    BY <2>1, <2>2 DEF SubscribeJoins
  <2>3. CASE SubscribeFails(s, r, t)
    BY <2>1, <2>3 DEF SubscribeFails, StoreRoute
  <2>4. CASE SubscribeFansOut(s, r, t)
    <3> DEFINE route == [downstream_subs |-> Put(old.downstream_subs, <<s, r>>, NewDownstream),
                         upstream_subs |-> Merge(old.upstream_subs,
                           [p \in FanOutTargets(t) |-> NewLeg(sessions[p].local_next)])]
    <3>1. tracks' = Put(tracks, t, route)
      BY <2>4 DEF SubscribeFansOut
    <3>2. PartiesOf(route) \subseteq Ready
      <4> HIDE DEF old
      <4> QED BY <1>1, <1>4 DEF PartiesOf, Put, Merge
    <3> QED BY <3>1, <3>2
  <2> QED BY <2>2, <2>3, <2>4
<1> HIDE DEF old
<1>6. \A u \in DOMAIN tracks' : PartiesOf(tracks'[u]) \subseteq Ready
  BY <1>5, OneRouteReady DEF SessionsInv
<1> QED BY <1>2, <1>3, <1>6, KeptSessions

\* handle_subscribe as a whole, its early returns included.
LEMMA HandleSubscribeSessions ==
  ASSUME SessionsInv, DownstreamInv', NEW s \in Sessions, NEW r \in RequestIds,
         NEW t \in Tracks, HandleSubscribe(s, r, t)
  PROVE  SessionsInv'
<1>1. CASE UNCHANGED relayVars
  BY <1>1, UnchangedSessions
<1>2. CASE ~UNCHANGED relayVars
  <2>1. s \in Ready
    BY <1>2 DEF HandleSubscribe, Receives, Refuse, SetupDone, Ready
  <2>2. SubscribeJoins(s, r, t) \/ SubscribeFails(s, r, t) \/ SubscribeFansOut(s, r, t)
    BY <1>2 DEF HandleSubscribe, Refuse
  <2> QED BY <2>1, <2>2, SubscribeSessions
<1> QED BY <1>1, <1>2

---------------------------------------------------------------------------
(* Answers of publishers, and UNSUBSCRIBE.                                 *)

\* handle_subscribe_ok (relay.rs:744) names no session a route did not name.
LEMMA HandleSubscribeOkSessions ==
  ASSUME SessionsInv, DownstreamInv', NEW p \in Sessions, NEW r \in RequestIds,
         NEW alias \in InboundAliases, HandleSubscribeOk(p, r, alias)
  PROVE  SessionsInv'
<1>1. CASE UNCHANGED relayVars
  BY <1>1, UnchangedSessions
<1>2. CASE ~UNCHANGED relayVars
  <2> DEFINE t == upstream_request_index[<<p, r>>]
             established == EstablishLeg(tracks[t], p, alias)
  <2>1. /\ t \in DOMAIN tracks /\ p \in DOMAIN tracks[t].upstream_subs
        /\ SubscribeOkDuplicateAlias(p, t, alias) \/ SubscribeOkForwarded(p, t, alias)
    BY <1>2 DEF HandleSubscribeOk, Refuse, AwaitsSubscribeOk
  <2>2. RouteOK(tracks[t]) /\ RouteOK(established)
    BY <2>1, EstablishLegType DEF SessionsInv, DownstreamInv, TypeOK, RoutesOK
  <2>3. PartiesOf(established) \subseteq Ready
    BY <2>1, <2>2, PartiesKept DEF SessionsInv, PartiesReady
  <2>4. /\ DOMAIN sessions' = DOMAIN sessions
        /\ UNCHANGED publishers_by_namespace
    BY <2>1 DEF SubscribeOkDuplicateAlias, SubscribeOkForwarded
  <2>5. ASSUME NEW x \in DOMAIN sessions
        PROVE  /\ sessions'[x].published_namespaces = sessions[x].published_namespaces
               /\ sessions'[x].setup = sessions[x].setup
    <3>1. sessions[x] \in Session
      BY DEF SessionsInv, DownstreamInv, TypeOK, IsMap
    <3>2. sessions'[x] = sessions[x] \/ \E bound, next :
             sessions'[x] = [sessions[x] EXCEPT !.inbound_aliases = bound,
                                                !.next_outbound = next]
      <4>1. CASE SubscribeOkDuplicateAlias(p, t, alias)
        BY <4>1 DEF SubscribeOkDuplicateAlias
      <4>2. CASE SubscribeOkForwarded(p, t, alias)
        <5> DEFINE Count(y) == Cardinality({d \in AwaitingSubscribers(t) : d[1] = y})
                   bound == IF x = p THEN Put(sessions[x].inbound_aliases, alias, t)
                            ELSE sessions[x].inbound_aliases
                   next == sessions[x].next_outbound + Count(x)
        <5>1. sessions' = [y \in DOMAIN sessions |->
                [sessions[y] EXCEPT
                   !.inbound_aliases = IF y = p THEN Put(@, alias, t) ELSE @,
                   !.next_outbound = @ + Count(y)]]
          BY <4>2 DEF SubscribeOkForwarded
        <5> HIDE DEF Count
        <5>2. sessions'[x] = [sessions[x] EXCEPT !.inbound_aliases = bound,
                                                 !.next_outbound = next]
          BY <3>1, <5>1 DEF Session
        <5> HIDE DEF bound, next
        <5> QED BY <5>2
      <4> QED BY <2>1, <4>1, <4>2
    <3> QED BY <3>1, <3>2 DEF Session
  <2>6. PICK route : PartiesOf(route) \subseteq Ready /\ tracks' = Put(tracks, t, route)
    <3>1. CASE SubscribeOkDuplicateAlias(p, t, alias)
      BY <2>3, <3>1 DEF SubscribeOkDuplicateAlias
    <3>2. CASE SubscribeOkForwarded(p, t, alias)
      <4>1. PICK accepted : /\ DOMAIN accepted = AwaitingSubscribers(t)
                            /\ tracks' = Put(tracks, t, [established EXCEPT
                                 !.downstream_subs = Merge(@, accepted)])
        BY <3>2 DEF SubscribeOkForwarded
      <4>2. AwaitingSubscribers(t) \subseteq DOMAIN tracks[t].downstream_subs
        BY DEF AwaitingSubscribers, DownstreamIn
      <4>3. established.downstream_subs = tracks[t].downstream_subs
        BY <2>2, LegsLeaveDownstream
      <4> DEFINE route == [established EXCEPT !.downstream_subs = Merge(@, accepted)]
      <4> HIDE DEF established
      <4>4. /\ route.upstream_subs = established.upstream_subs
            /\ route.downstream_subs = Merge(established.downstream_subs, accepted)
        BY <2>2 DEF RouteOK
      <4>5. PartiesOf(route) \subseteq PartiesOf(established)
        <5> HIDE DEF route
        <5> QED BY <4>1, <4>2, <4>3, <4>4 DEF PartiesOf, Merge
      <4> QED BY <2>3, <4>1, <4>5
    <3> QED BY <2>1, <3>1, <3>2
  <2> HIDE DEF t, established
  <2>7. \A u \in DOMAIN tracks' : PartiesOf(tracks'[u]) \subseteq Ready
    BY <2>6, OneRouteReady DEF SessionsInv
  <2> QED BY <2>4, <2>5, <2>7, KeptSessions
<1> QED BY <1>1, <1>2

\* handle_request_error and handle_publish_done end legs and subscriptions and
\* remove none.
LEMMA LegEndsSessions ==
  ASSUME SessionsInv, DownstreamInv', NEW p \in Sessions, NEW r \in RequestIds,
         HandleRequestError(p, r) \/ HandlePublishDone(p, r)
  PROVE  SessionsInv'
<1>1. CASE UNCHANGED relayVars
  BY <1>1, UnchangedSessions
<1>2. CASE ~UNCHANGED relayVars
  <2> DEFINE t == upstream_request_index[<<p, r>>]
             route == TerminateLegs(tracks[t], {p})
  <2>1. /\ KnownUpstream(p, r)
        /\ UNCHANGED <<sessions, publishers_by_namespace>>
        /\ \E ended, empty : tracks' = StoreRoute(t, TerminateDownstream(route, ended), empty)
    BY <1>2 DEF HandleRequestError, HandlePublishDone, Refuse, Ignore
  <2>2. t \in DOMAIN tracks /\ t \in Tracks /\ RouteOK(tracks[t])
    BY <2>1 DEF KnownUpstream, SessionsInv, DownstreamInv, TypeOK, RoutesOK
  <2>3. PICK ended, empty : tracks' = StoreRoute(t, TerminateDownstream(route, ended), empty)
    BY <2>1
  <2>4. RouteOK(route)
    BY <2>2, TerminateLegsType
  <2>5. PartiesOf(TerminateDownstream(route, ended)) \subseteq Ready
    <3>1. PartiesOf(TerminateDownstream(route, ended)) = PartiesOf(route)
      BY <2>4, PartiesKept
    <3>2. PartiesOf(route) = PartiesOf(tracks[t])
      BY <2>2, PartiesKept
    <3> QED BY <2>2, <3>1, <3>2 DEF SessionsInv, PartiesReady
  <2> HIDE DEF t, route
  <2> QED BY <2>1, <2>2, <2>3, <2>5, OneRouteSessions
<1> QED BY <1>1, <1>2

\* handle_unsubscribe ends one subscription and, with the last one, the legs'
\* route.
LEMMA HandleUnsubscribeSessions ==
  ASSUME SessionsInv, DownstreamInv', NEW s \in Sessions, NEW r \in RequestIds,
         HandleUnsubscribe(s, r)
  PROVE  SessionsInv'
<1>1. CASE UNCHANGED relayVars
  BY <1>1, UnchangedSessions
<1>2. CASE ~UNCHANGED relayVars
  <2> DEFINE t == downstream_request_index[<<s, r>>]
             route == TerminateDownstream(tracks[t], {<<s, r>>})
  <2>1. /\ t \in DOMAIN tracks
        /\ UNCHANGED <<sessions, publishers_by_namespace>>
        /\ tracks' = StoreRoute(t, route, NoActiveDownstream(route))
    BY <1>2 DEF HandleUnsubscribe, Refuse, Ignore
  <2>2. t \in Tracks /\ RouteOK(tracks[t])
    BY <2>1 DEF SessionsInv, DownstreamInv, TypeOK, RoutesOK
  <2>3. PartiesOf(route) \subseteq Ready
    BY <2>1, <2>2, PartiesKept DEF SessionsInv, PartiesReady
  <2> DEFINE empty == NoActiveDownstream(route)
  <2> HIDE DEF t, route, empty
  <2>4. tracks' = StoreRoute(t, route, empty)
    BY <2>1 DEF empty
  <2> QED BY <2>1, <2>2, <2>3, <2>4, OneRouteSessions
<1> QED BY <1>1, <1>2

---------------------------------------------------------------------------

\* The relay starts with empty maps.
LEMMA InitSessions ==
  ASSUME Init
  PROVE  SessionsInv
BY InitDownstream DEF Init, SessionsInv, NamespaceIndexExact, PartiesReady, EmptyMap

\* Every step keeps the invariant.
LEMMA NextSessions ==
  ASSUME SessionsInv, [Next]_vars
  PROVE  SessionsInv'
<1>0. DownstreamInv'
  BY NextDownstream DEF SessionsInv
<1>1. CASE UNCHANGED vars
  BY <1>1, UnchangedSessions DEF vars, relayVars
<1>2. ASSUME NEW s \in Sessions, SessionEvent(s)
      PROVE  SessionsInv'
  BY <1>0, <1>2, OnSessionOpenedSessions, OnSessionClosedSessions, UnchangedSessions
     DEF SessionEvent, MessageFromUnknownSession, Refuse
<1>3. ASSUME NEW s \in Sessions, PublisherMessage(s)
      PROVE  SessionsInv'
  BY <1>0, <1>3, HandlePublishNamespaceSessions, HandleSubscribeOkSessions,
     LegEndsSessions DEF PublisherMessage
<1>4. ASSUME NEW s \in Sessions, SubscriberMessage(s)
      PROVE  SessionsInv'
  BY <1>0, <1>4, HandleSubscribeSessions, HandleUnsubscribeSessions DEF SubscriberMessage
<1>5. ASSUME NEW s \in Sessions, NEW alias \in InboundAliases, OnSubscriptionObject(s, alias)
      PROVE  SessionsInv'
  BY <1>5, UnchangedSessions DEF OnSubscriptionObject, Refuse
<1> QED BY <1>0, <1>1, <1>2, <1>3, <1>4, <1>5, SetupMessageSessions DEF Next

\* What the invariant says of the index of subscribers as well: each of its
\* entries is a subscription of a route.
LEMMA IndexedReady ==
  ASSUME SessionsInv, NEW k \in DOMAIN downstream_request_index
  PROVE  k[1] \in Ready
<1>1. /\ downstream_request_index[k] \in DOMAIN tracks
      /\ k \in DOMAIN tracks[downstream_request_index[k]].downstream_subs
  BY DEF SessionsInv, DownstreamInv, DownstreamIndexExact, DownstreamIn
<1> QED BY <1>1 DEF SessionsInv, PartiesReady, PartiesOf

\* The invariant holds in every state.
LEMMA SessionsInvCorrect == Spec => []SessionsInv
<1>1. Init => SessionsInv
  BY InitSessions
<1>2. SessionsInv /\ [Next]_vars => SessionsInv'
  BY NextSessions
<1> QED BY <1>1, <1>2, PTL DEF Spec

\* Where an entry of the index of requests to publishers leads, there is no leg of a
\* session that is not ready.
LEMMA UnreadyWithoutLeg ==
  ASSUME SessionsInv, NEW k \in DOMAIN upstream_request_index, k[1] \notin Ready
  PROVE  k[1] \notin DOMAIN RouteOf(upstream_request_index[k]).upstream_subs
BY DEF SessionsInv, PartiesReady, PartiesOf, RouteOf, NewRoute, EmptyMap

\* After on_session_closed no route, no entry of the index of subscribers and no set
\* of publishers names the session; entries of upstream_request_index may, and lead
\* to no leg of it.
THEOREM ClosedForgotten == Spec => []ClosedSessionsForgotten
<1>1. SessionsInv => ClosedSessionsForgotten
  BY IndexedReady, UnreadyWithoutLeg
     DEF SessionsInv, ClosedSessionsForgotten, PartiesReady, PartiesOf, Ready
<1> QED BY <1>1, SessionsInvCorrect, PTL

\* No session is in a route, in the index of subscribers or among the publishers
\* before its setup is complete, whichever handler would have had to check it, and
\* what upstream_request_index kept of its key leads to no leg of it.
THEOREM SetupFirst == Spec => []RoutingAfterSetup
<1>1. SessionsInv => RoutingAfterSetup
  BY IndexedReady, UnreadyWithoutLeg DEF SessionsInv, RoutingAfterSetup, PartiesReady, PartiesOf, Ready
<1> QED BY <1>1, SessionsInvCorrect, PTL

\* The namespace index of the relay and the lists of its sessions agree, and no
\* namespace is listed without a publisher.
THEOREM NamespaceIndexCorrect == Spec => []NamespaceIndexExact
<1>1. SessionsInv => NamespaceIndexExact
  BY DEF SessionsInv
<1> QED BY <1>1, SessionsInvCorrect, PTL

---------------------------------------------------------------------------
(* What a session hands out: request ids to publishers and aliases to      *)
(* subscribers.  Both counters only grow while the session is open, and    *)
(* everything handed out before is below them.                             *)

Established(route) == DownstreamIn(route, {"Established"})

\* The established subscriptions and the live legs of `route' are those of `old',
\* under the same aliases and ids.
Inherits(route, old) ==
  /\ \A d \in Established(route) :
       /\ d \in Established(old)
       /\ route.downstream_subs[d].outbound_alias = old.downstream_subs[d].outbound_alias
  /\ \A p \in LiveLegs(route) :
       /\ p \in LiveLegs(old)
       /\ route.upstream_subs[p].request_id = old.upstream_subs[p].request_id

\* Ending subscriptions, ending legs and taking a session out add nothing.
LEMMA EndingInherits ==
  ASSUME NEW route, RouteOK(route)
  PROVE  /\ \A ds : Inherits(TerminateDownstream(route, ds), route)
         /\ \A ps : Inherits(TerminateLegs(route, ps), route)
         /\ \A s : Inherits(RouteWithout(route, s), route)
<1>1. ASSUME NEW ds
      PROVE  Inherits(TerminateDownstream(route, ds), route)
  <2> DEFINE left == TerminateDownstream(route, ds)
  <2>1. left.upstream_subs = route.upstream_subs
    BY DEF RouteOK, TerminateDownstream
  <2>2. \A d \in Established(left) :
          d \in Established(route) /\ left.downstream_subs[d] = route.downstream_subs[d]
    <3> SUFFICES ASSUME NEW d \in Established(left)
                 PROVE  d \in Established(route)
                        /\ left.downstream_subs[d] = route.downstream_subs[d]
      OBVIOUS
    <3>1. /\ d \in DOMAIN route.downstream_subs
          /\ left.downstream_subs[d] =
               IF d \in ds THEN [route.downstream_subs[d] EXCEPT !.state = "Terminated"]
               ELSE route.downstream_subs[d]
          /\ left.downstream_subs[d].state = "Established"
          /\ route.downstream_subs[d] \in DownstreamSubscription
      BY DEF TerminateDownstream, RouteOK, Established, DownstreamIn, IsMap
    <3>2. d \notin ds
      BY <3>1 DEF DownstreamSubscription
    <3> QED BY <3>1, <3>2 DEF Established, DownstreamIn
  <2> HIDE DEF left
  <2>3. Inherits(left, route)
    BY <2>1, <2>2 DEF Inherits, LiveLegs
  <2> QED BY <2>3 DEF left
<1>2. ASSUME NEW ps
      PROVE  Inherits(TerminateLegs(route, ps), route)
  <2> DEFINE left == TerminateLegs(route, ps)
  <2>1. left.downstream_subs = route.downstream_subs
    BY LegsLeaveDownstream
  <2>2. \A p \in LiveLegs(left) :
          p \in LiveLegs(route) /\ left.upstream_subs[p] = route.upstream_subs[p]
    <3> SUFFICES ASSUME NEW p \in LiveLegs(left)
                 PROVE  p \in LiveLegs(route) /\ left.upstream_subs[p] = route.upstream_subs[p]
      OBVIOUS
    <3>1. /\ p \in DOMAIN route.upstream_subs
          /\ left.upstream_subs[p] =
               IF p \in ps THEN [route.upstream_subs[p] EXCEPT !.state = "Terminated"]
               ELSE route.upstream_subs[p]
          /\ left.upstream_subs[p].state # "Terminated"
          /\ IsLive(left.upstream_subs[p])
          /\ route.upstream_subs[p] \in UpstreamSubscriptionLeg
      BY DEF TerminateLegs, RouteOK, LiveLegs, IsLive, IsMap
    <3>2. p \notin ps
      BY <3>1 DEF UpstreamSubscriptionLeg
    <3> QED BY <3>1, <3>2 DEF LiveLegs
  <2> HIDE DEF left
  <2>3. Inherits(left, route)
    BY <2>1, <2>2 DEF Inherits, Established, DownstreamIn
  <2> QED BY <2>3 DEF left
<1>3. ASSUME NEW s
      PROVE  Inherits(RouteWithout(route, s), route)
  BY DEF Inherits, RouteWithout, Established, DownstreamIn, LiveLegs, Drop, Restrict
<1> QED BY <1>1, <1>2, <1>3

\* No leg that was terminated is live again.
LEMMA TerminatedNotLive ==
  ASSUME NEW route, RouteOK(route), NEW ps
  PROVE  LiveLegs(TerminateLegs(route, ps)) = LiveLegs(route) \ ps
BY DEF TerminateLegs, RouteOK, LiveLegs, IsLive, IsMap, UpstreamSubscriptionLeg

\* SUBSCRIBE_OK changes the state and the alias of a leg that was live.
LEMMA EstablishInherits ==
  ASSUME NEW route, RouteOK(route), NEW p \in DOMAIN route.upstream_subs, NEW alias,
         route.upstream_subs[p].state = "Pending"
  PROVE  Inherits(EstablishLeg(route, p, alias), route)
<1> DEFINE legs == EstablishLeg(route, p, alias).upstream_subs
<1>1. EstablishLeg(route, p, alias).downstream_subs = route.downstream_subs
  BY LegsLeaveDownstream
<1>2. \A x \in DOMAIN route.upstream_subs : route.upstream_subs[x] \in UpstreamSubscriptionLeg
  BY DEF RouteOK, IsMap
<1>3. /\ DOMAIN legs = DOMAIN route.upstream_subs
      /\ \A x \in DOMAIN legs :
           /\ x # p => legs[x] = route.upstream_subs[x]
           /\ legs[x].request_id = route.upstream_subs[x].request_id
  BY <1>2 DEF EstablishLeg, RouteOK, UpstreamSubscriptionLeg
<1>4. \A x \in LiveLegs(EstablishLeg(route, p, alias)) :
        x \in LiveLegs(route) /\ legs[x].request_id = route.upstream_subs[x].request_id
  <2> HIDE DEF legs
  <2>1. LiveLegs(EstablishLeg(route, p, alias)) = {x \in DOMAIN legs : IsLive(legs[x])}
    BY DEF LiveLegs, legs
  <2> QED BY <1>3, <2>1 DEF LiveLegs, IsLive
<1> QED BY <1>1, <1>4 DEF Inherits, Established, DownstreamIn

LEMMA InheritsTransitive ==
  ASSUME NEW a, NEW b, NEW c, Inherits(a, b), Inherits(b, c)
  PROVE  Inherits(a, c)
BY DEF Inherits

---------------------------------------------------------------------------
(* The counters through each handler.                                      *)

\* handle_publish_namespace (relay.rs:461) hands out one id per track it serves.
NamespaceServed(s, r, ns, n) ==
  sessions' = [sessions EXCEPT
     ![s].peer_next_expected = r + 2,
     ![s].published_namespaces = @ \cup {ns},
     ![s].local_next = @ + 2 * n]

LEMMA PublishNamespaceCounters ==
  ASSUME SessionsInv, NEW s \in DOMAIN sessions, NEW r, NEW ns, NEW n \in Nat,
         NamespaceServed(s, r, ns, n), NEW y \in DOMAIN sessions
  PROVE  /\ sessions'[y].local_next =
              IF y = s THEN sessions[y].local_next + 2 * n ELSE sessions[y].local_next
         /\ sessions'[y].next_outbound = sessions[y].next_outbound
<1>1. sessions[y] \in Session
  BY DEF SessionsInv, DownstreamInv, TypeOK, IsMap
<1> QED BY <1>1 DEF Session, NamespaceServed

\* handle_subscribe (relay.rs:580): one alias to a subscriber that joins, one id to
\* each publisher that is asked.
LEMMA JoinsCounters ==
  ASSUME SessionsInv, NEW s \in DOMAIN sessions, NEW r, NEW t, SubscribeJoins(s, r, t),
         NEW y \in DOMAIN sessions
  PROVE  /\ sessions'[y].local_next = sessions[y].local_next
         /\ sessions'[y].next_outbound =
              IF y = s THEN sessions[y].next_outbound + 1 ELSE sessions[y].next_outbound
<1>1. sessions[y] \in Session
  BY DEF SessionsInv, DownstreamInv, TypeOK, IsMap
<1>2. sessions' = [sessions EXCEPT ![s].peer_next_expected = r + 2,
                                   ![s].next_outbound = @ + 1]
  BY DEF SubscribeJoins
<1> QED BY <1>1, <1>2 DEF Session

LEMMA FailsCounters ==
  ASSUME SessionsInv, NEW s \in DOMAIN sessions, NEW r, NEW t, SubscribeFails(s, r, t),
         NEW y \in DOMAIN sessions
  PROVE  /\ sessions'[y].local_next = sessions[y].local_next
         /\ sessions'[y].next_outbound = sessions[y].next_outbound
<1>1. sessions[y] \in Session
  BY DEF SessionsInv, DownstreamInv, TypeOK, IsMap
<1>2. sessions' = [sessions EXCEPT ![s].peer_next_expected = r + 2]
  BY DEF SubscribeFails
<1> QED BY <1>1, <1>2 DEF Session

LEMMA FansOutCounters ==
  ASSUME SessionsInv, NEW s \in DOMAIN sessions, NEW r, NEW t, SubscribeFansOut(s, r, t),
         NEW y \in DOMAIN sessions
  PROVE  /\ sessions'[y].local_next =
              IF y \in FanOutTargets(t) THEN sessions[y].local_next + 2
              ELSE sessions[y].local_next
         /\ sessions'[y].next_outbound = sessions[y].next_outbound
<1> DEFINE expected == IF y = s THEN r + 2 ELSE sessions[y].peer_next_expected
           local == IF y \in FanOutTargets(t) THEN sessions[y].local_next + 2
                    ELSE sessions[y].local_next
<1>1. sessions[y] \in Session
  BY DEF SessionsInv, DownstreamInv, TypeOK, IsMap
<1>2. sessions' = [z \in DOMAIN sessions |->
        [sessions[z] EXCEPT
           !.peer_next_expected = IF z = s THEN r + 2 ELSE @,
           !.local_next = IF z \in FanOutTargets(t) THEN @ + 2 ELSE @]]
  BY DEF SubscribeFansOut
<1>3. sessions'[y] = [sessions[y] EXCEPT !.peer_next_expected = expected,
                                         !.local_next = local]
  BY <1>2
<1>4. sessions'[y].local_next = local /\ sessions'[y].next_outbound = sessions[y].next_outbound
  <2> HIDE DEF expected, local
  <2> QED BY <1>1, <1>3 DEF Session
<1> QED BY <1>4

\* handle_subscribe_ok (relay.rs:744): an alias to each subscriber that waits.
LEMMA ForwardedCounters ==
  ASSUME SessionsInv, NEW t, NEW p, NEW alias, SubscribeOkForwarded(p, t, alias),
         NEW y \in DOMAIN sessions
  PROVE  /\ sessions'[y].local_next = sessions[y].local_next
         /\ sessions'[y].next_outbound = sessions[y].next_outbound
              + Cardinality({d \in AwaitingSubscribers(t) : d[1] = y})
<1> DEFINE Count(z) == Cardinality({d \in AwaitingSubscribers(t) : d[1] = z})
           bound == IF y = p THEN Put(sessions[y].inbound_aliases, alias, t)
                    ELSE sessions[y].inbound_aliases
           next == sessions[y].next_outbound + Count(y)
<1>1. sessions' =
        [z \in DOMAIN sessions |->
           [sessions[z] EXCEPT
              !.inbound_aliases = IF z = p THEN Put(@, alias, t) ELSE @,
              !.next_outbound = @ + Count(z)]]
  BY DEF SubscribeOkForwarded
<1> HIDE DEF Count
<1>2. sessions[y] \in Session
  BY DEF SessionsInv, DownstreamInv, TypeOK, IsMap
<1>3. sessions'[y] = [sessions[y] EXCEPT !.inbound_aliases = bound, !.next_outbound = next]
  BY <1>1, <1>2 DEF Session
<1> HIDE DEF bound, next
<1>4. sessions'[y].local_next = sessions[y].local_next /\ sessions'[y].next_outbound = next
  BY <1>2, <1>3 DEF Session
<1> QED BY <1>4 DEF next, Count

\* The rest leaves both counters alone.
LEMMA SetupMessageCounters ==
  ASSUME SessionsInv, NEW s \in Sessions, SetupMessage(s), NEW y \in DOMAIN sessions
  PROVE  /\ sessions'[y].local_next = sessions[y].local_next
         /\ sessions'[y].next_outbound = sessions[y].next_outbound
BY DEF SetupMessage, HandleClientSetup, HandleServerSetup, HandleMaxRequestId,
       HandleRequestsBlocked, HandleGoaway, HandleOther, Refuse, Ignore, relayVars,
       SessionsInv, DownstreamInv, TypeOK, IsMap, Session

---------------------------------------------------------------------------
(* The invariant.                                                          *)

\* The ids of live legs and the aliases of established subscriptions were handed
\* out by their session.
LegIdsBelow ==
  \A t \in DOMAIN tracks : \A p \in LiveLegs(tracks[t]) :
    tracks[t].upstream_subs[p].request_id < sessions[p].local_next

AliasesBelow ==
  \A t \in DOMAIN tracks : \A d \in Established(tracks[t]) :
    tracks[t].downstream_subs[d].outbound_alias < sessions[d[1]].next_outbound

LegsInv == LiveLegsIndexed /\ LegIdsBelow
AliasesInv == OutboundAliasesDistinct /\ AliasesBelow

HandedOutInv == SessionsInv /\ LegsInv /\ AliasesInv

\* The types the counters are compared in.
LEMMA RouteCounterTypes ==
  ASSUME NEW route, RouteOK(route)
  PROVE  /\ \A p \in LiveLegs(route) : route.upstream_subs[p].request_id \in Nat
         /\ \A d \in Established(route) : route.downstream_subs[d].outbound_alias \in Int
<1>1. ASSUME NEW p \in LiveLegs(route)
      PROVE  route.upstream_subs[p].request_id \in Nat
  <2>1. route.upstream_subs[p] \in UpstreamSubscriptionLeg
    BY DEF RouteOK, IsMap, LiveLegs
  <2> QED BY <2>1 DEF UpstreamSubscriptionLeg
<1>2. ASSUME NEW d \in Established(route)
      PROVE  route.downstream_subs[d].outbound_alias \in Int
  <2>1. route.downstream_subs[d] \in DownstreamSubscription
    BY DEF RouteOK, IsMap, Established, DownstreamIn
  <2> QED BY <2>1 DEF DownstreamSubscription, NoAlias
<1> QED BY <1>1, <1>2

LEMMA CounterTypes ==
  ASSUME SessionsInv
  PROVE  /\ \A y \in DOMAIN sessions :
              sessions[y].local_next \in Nat /\ sessions[y].next_outbound \in Nat
         /\ \A t \in DOMAIN tracks :
              /\ RouteOK(tracks[t])
              /\ LiveLegs(tracks[t]) \subseteq DOMAIN sessions
              /\ \A d \in Established(tracks[t]) : d[1] \in DOMAIN sessions
<1>1. ASSUME NEW y \in DOMAIN sessions
      PROVE  sessions[y].local_next \in Nat /\ sessions[y].next_outbound \in Nat
  BY DEF SessionsInv, DownstreamInv, TypeOK, IsMap, Session
<1>2. ASSUME NEW t \in DOMAIN tracks
      PROVE  /\ RouteOK(tracks[t])
             /\ LiveLegs(tracks[t]) \subseteq DOMAIN sessions
             /\ \A d \in Established(tracks[t]) : d[1] \in DOMAIN sessions
  BY DEF SessionsInv, DownstreamInv, TypeOK, RoutesOK, PartiesReady, PartiesOf, Ready,
         LiveLegs, Established, DownstreamIn
<1> QED BY <1>1, <1>2

\* The same after a step.
LEMMA CounterTypesNext ==
  ASSUME SessionsInv'
  PROVE  /\ \A y \in DOMAIN sessions' :
              sessions'[y].local_next \in Nat /\ sessions'[y].next_outbound \in Nat
         /\ \A t \in DOMAIN tracks' :
              /\ RouteOK(tracks'[t])
              /\ LiveLegs(tracks'[t]) \subseteq DOMAIN sessions'
              /\ \A d \in Established(tracks'[t]) : d[1] \in DOMAIN sessions'
<1>1. ASSUME NEW y \in DOMAIN sessions'
      PROVE  sessions'[y].local_next \in Nat /\ sessions'[y].next_outbound \in Nat
  BY DEF SessionsInv, DownstreamInv, TypeOK, IsMap, Session
<1>2. ASSUME NEW t \in DOMAIN tracks'
      PROVE  /\ RouteOK(tracks'[t])
             /\ LiveLegs(tracks'[t]) \subseteq DOMAIN sessions'
             /\ \A d \in Established(tracks'[t]) : d[1] \in DOMAIN sessions'
  BY DEF SessionsInv, DownstreamInv, TypeOK, RoutesOK, PartiesReady, PartiesOf, Ready,
         LiveLegs, Established, DownstreamIn
<1> QED BY <1>1, <1>2

\* OutboundAliasesDistinct for two given subscriptions.
LEMMA OldAliases ==
  ASSUME AliasesInv, NEW t \in DOMAIN tracks, NEW u \in DOMAIN tracks,
         NEW d \in Established(tracks[t]), NEW e \in Established(tracks[u]), d[1] = e[1],
         tracks[t].downstream_subs[d].outbound_alias =
           tracks[u].downstream_subs[e].outbound_alias
  PROVE  t = u /\ d = e
BY DEF AliasesInv, OutboundAliasesDistinct, Established

\* The established subscriptions after a step are those before it and `new' ones
\* of the route `t', which got aliases their sessions had not handed out.
AliasesGiven(t, new) ==
  /\ \A u \in DOMAIN tracks' : \A d \in Established(tracks'[u]) :
       \/ /\ u \in DOMAIN tracks /\ d \in Established(tracks[u])
          /\ tracks'[u].downstream_subs[d].outbound_alias =
               tracks[u].downstream_subs[d].outbound_alias
       \/ u = t /\ d \in new
  /\ \A d \in new :
       /\ d[1] \in DOMAIN sessions
       /\ sessions[d[1]].next_outbound <= tracks'[t].downstream_subs[d].outbound_alias
       /\ tracks'[t].downstream_subs[d].outbound_alias < sessions'[d[1]].next_outbound
  /\ \A d, e \in new :
       /\ d[1] = e[1]
       /\ tracks'[t].downstream_subs[d].outbound_alias =
            tracks'[t].downstream_subs[e].outbound_alias
       => d = e

\* Such a handler keeps the aliases distinct.
LEMMA AliasesAdded ==
  ASSUME SessionsInv, SessionsInv', AliasesInv, NEW t, NEW new, AliasesGiven(t, new),
         \A y \in DOMAIN sessions : y \in DOMAIN sessions' =>
           sessions[y].next_outbound <= sessions'[y].next_outbound
  PROVE  AliasesInv'
<1> DEFINE Alias(u, d) == tracks'[u].downstream_subs[d].outbound_alias
<1>1. ASSUME NEW u \in DOMAIN tracks', NEW d \in Established(tracks'[u])
      PROVE  /\ Alias(u, d) \in Int /\ d[1] \in DOMAIN sessions /\ d[1] \in DOMAIN sessions'
             /\ sessions[d[1]].next_outbound \in Nat /\ sessions'[d[1]].next_outbound \in Nat
             /\ sessions[d[1]].next_outbound <= sessions'[d[1]].next_outbound
             /\ \/ /\ u \in DOMAIN tracks /\ d \in Established(tracks[u])
                   /\ Alias(u, d) = tracks[u].downstream_subs[d].outbound_alias
                   /\ Alias(u, d) < sessions[d[1]].next_outbound
                \/ /\ u = t /\ d \in new
                   /\ sessions[d[1]].next_outbound <= Alias(u, d)
                   /\ Alias(u, d) < sessions'[d[1]].next_outbound
  <2>1. /\ RouteOK(tracks'[u]) /\ d[1] \in DOMAIN sessions'
        /\ sessions'[d[1]].next_outbound \in Nat
    BY CounterTypesNext
  <2>2. Alias(u, d) \in Int
    BY <2>1, RouteCounterTypes
  <2>3. d[1] \in DOMAIN sessions /\ sessions[d[1]].next_outbound \in Nat
    BY CounterTypes DEF AliasesGiven
  <2> QED BY <2>1, <2>2, <2>3 DEF AliasesInv, AliasesBelow, AliasesGiven
<1>2. AliasesBelow'
  <2> SUFFICES \A u \in DOMAIN tracks' : \A d \in Established(tracks'[u]) :
                 Alias(u, d) < sessions'[d[1]].next_outbound
    BY DEF AliasesBelow, Established, DownstreamIn
  <2> HIDE DEF Alias
  <2> QED BY <1>1
<1>3. ASSUME NEW u \in DOMAIN tracks', NEW w \in DOMAIN tracks',
             NEW d \in Established(tracks'[u]), NEW e \in Established(tracks'[w]),
             d[1] = e[1], Alias(u, d) = Alias(w, e)
      PROVE  u = w /\ d = e
  <2> DEFINE Old(v, f) == /\ v \in DOMAIN tracks /\ f \in Established(tracks[v])
                          /\ Alias(v, f) = tracks[v].downstream_subs[f].outbound_alias
                          /\ Alias(v, f) < sessions[f[1]].next_outbound
             New(v, f) == /\ v = t /\ f \in new
                          /\ sessions[f[1]].next_outbound <= Alias(v, f)
  <2>1. /\ Old(u, d) \/ New(u, d)
        /\ Old(w, e) \/ New(w, e)
        /\ Alias(u, d) \in Int /\ Alias(w, e) \in Int
        /\ sessions[d[1]].next_outbound \in Nat
    <3> HIDE DEF Alias
    <3> QED BY <1>1
  <2>2. ~(Old(u, d) /\ New(w, e)) /\ ~(New(u, d) /\ Old(w, e))
    <3> HIDE DEF Alias
    <3> QED BY <1>3, <2>1
  <2>3. CASE Old(u, d) /\ Old(w, e)
    <3>1. /\ u \in DOMAIN tracks /\ w \in DOMAIN tracks
          /\ d \in Established(tracks[u]) /\ e \in Established(tracks[w])
          /\ tracks[u].downstream_subs[d].outbound_alias =
               tracks[w].downstream_subs[e].outbound_alias
          /\ d[1] = e[1]
      BY <1>3, <2>3
    <3> QED BY <3>1, OldAliases
  <2>4. CASE New(u, d) /\ New(w, e)
    BY <1>3, <2>4 DEF AliasesGiven
  <2> QED BY <2>1, <2>2, <2>3, <2>4
<1>4. OutboundAliasesDistinct'
  BY <1>3 DEF OutboundAliasesDistinct, Established, DownstreamIn
<1> QED BY <1>2, <1>4 DEF AliasesInv

\* A handler that adds live legs gives them ids their sessions had not handed out,
\* and all live legs stay in the index.
LEMMA LegsAdded ==
  ASSUME SessionsInv, SessionsInv', LegsInv,
         \A u \in DOMAIN tracks' : \A p \in LiveLegs(tracks'[u]) :
           LET r == tracks'[u].upstream_subs[p].request_id
           IN /\ <<p, r>> \in DOMAIN upstream_request_index'
              /\ upstream_request_index'[<<p, r>>] = u
              /\ \/ r < sessions'[p].local_next
                 \/ /\ u \in DOMAIN tracks /\ p \in LiveLegs(tracks[u])
                    /\ r = tracks[u].upstream_subs[p].request_id,
         \A y \in DOMAIN sessions : y \in DOMAIN sessions' =>
           sessions[y].local_next <= sessions'[y].local_next
  PROVE  LegsInv'
<1>1. ASSUME NEW u \in DOMAIN tracks', NEW p \in LiveLegs(tracks'[u])
      PROVE  tracks'[u].upstream_subs[p].request_id < sessions'[p].local_next
  <2> DEFINE r == tracks'[u].upstream_subs[p].request_id
  <2>1. /\ p \in DOMAIN sessions' /\ sessions'[p].local_next \in Nat
        /\ RouteOK(tracks'[u])
    BY CounterTypesNext
  <2>2. r \in Nat
    BY <2>1, RouteCounterTypes
  <2>3. CASE r < sessions'[p].local_next
    BY <2>3
  <2>4. CASE u \in DOMAIN tracks /\ p \in LiveLegs(tracks[u])
             /\ r = tracks[u].upstream_subs[p].request_id
    <3>1. r < sessions[p].local_next
      BY <2>4 DEF LegsInv, LegIdsBelow
    <3>2. p \in DOMAIN sessions /\ sessions[p].local_next \in Nat
      BY <2>4, CounterTypes
    <3>3. sessions[p].local_next <= sessions'[p].local_next
      BY <2>1, <3>2
    <3> HIDE DEF r
    <3>4. r < sessions'[p].local_next
      BY <2>1, <2>2, <3>1, <3>2, <3>3
    <3> QED BY <3>4 DEF r
  <2> QED BY <2>3, <2>4
<1>2. LegIdsBelow'
  BY <1>1 DEF LegIdsBelow, LiveLegs
<1>3. LiveLegsIndexed'
  BY DEF LiveLegsIndexed, LiveLegs
<1> QED BY <1>2, <1>3 DEF LegsInv

\* Only a route that was there has established subscriptions and live legs.
LEMMA RouteWasThere ==
  ASSUME NEW u, Established(RouteOf(u)) # {} \/ LiveLegs(RouteOf(u)) # {}
  PROVE  u \in DOMAIN tracks /\ RouteOf(u) = tracks[u]
BY DEF RouteOf, NewRoute, EmptyMap, Established, DownstreamIn, LiveLegs

\* A handler whose routes inherit from the old ones gives no aliases.
LEMMA NoAliasesAdded ==
  ASSUME SessionsInv, SessionsInv', AliasesInv,
         \A u \in DOMAIN tracks' : Inherits(tracks'[u], RouteOf(u)),
         \A y \in DOMAIN sessions : y \in DOMAIN sessions' =>
           sessions[y].next_outbound <= sessions'[y].next_outbound
  PROVE  AliasesInv'
<1> DEFINE new == {}
           t == CHOOSE t : TRUE
<1>1. ASSUME NEW u \in DOMAIN tracks', NEW d \in Established(tracks'[u])
      PROVE  \/ /\ u \in DOMAIN tracks /\ d \in Established(tracks[u])
                /\ tracks'[u].downstream_subs[d].outbound_alias =
                     tracks[u].downstream_subs[d].outbound_alias
             \/ u = t /\ d \in new
  <2>1. /\ d \in Established(RouteOf(u))
        /\ tracks'[u].downstream_subs[d].outbound_alias =
             RouteOf(u).downstream_subs[d].outbound_alias
    BY DEF Inherits
  <2>2. u \in DOMAIN tracks /\ RouteOf(u) = tracks[u]
    BY <2>1, RouteWasThere
  <2> QED BY <2>1, <2>2
<1>2. AliasesGiven(t, new)
  BY <1>1 DEF AliasesGiven
<1> HIDE DEF new, t
<1> QED BY <1>2, AliasesAdded

\* A handler whose routes inherit from the old ones, with the index kept for the
\* legs that stay live, asks for no legs.
LEMMA NoLegsAdded ==
  ASSUME SessionsInv, SessionsInv', LegsInv,
         \A u \in DOMAIN tracks' : Inherits(tracks'[u], RouteOf(u)),
         \A u \in DOMAIN tracks' : \A p \in LiveLegs(tracks'[u]) :
           LET k == <<p, tracks'[u].upstream_subs[p].request_id>>
           IN k \in DOMAIN upstream_request_index /\ upstream_request_index[k] = u =>
                k \in DOMAIN upstream_request_index' /\ upstream_request_index'[k] = u,
         \A y \in DOMAIN sessions : y \in DOMAIN sessions' =>
           sessions[y].local_next <= sessions'[y].local_next
  PROVE  LegsInv'
<1>1. ASSUME NEW u \in DOMAIN tracks', NEW p \in LiveLegs(tracks'[u])
      PROVE  LET r == tracks'[u].upstream_subs[p].request_id
             IN /\ <<p, r>> \in DOMAIN upstream_request_index'
                /\ upstream_request_index'[<<p, r>>] = u
                /\ \/ r < sessions'[p].local_next
                   \/ /\ u \in DOMAIN tracks /\ p \in LiveLegs(tracks[u])
                      /\ r = tracks[u].upstream_subs[p].request_id
  <2>1. /\ p \in LiveLegs(RouteOf(u))
        /\ tracks'[u].upstream_subs[p].request_id = RouteOf(u).upstream_subs[p].request_id
    BY DEF Inherits
  <2>2. u \in DOMAIN tracks /\ RouteOf(u) = tracks[u]
    BY <2>1, RouteWasThere
  <2>3. LET k == <<p, tracks[u].upstream_subs[p].request_id>>
        IN k \in DOMAIN upstream_request_index /\ upstream_request_index[k] = u
    BY <2>1, <2>2 DEF LegsInv, LiveLegsIndexed
  <2> QED BY <2>1, <2>2, <2>3
<1> QED BY <1>1, LegsAdded

\* Both together.
LEMMA NothingHandedOut ==
  ASSUME HandedOutInv, SessionsInv',
         \A u \in DOMAIN tracks' : Inherits(tracks'[u], RouteOf(u)),
         \A u \in DOMAIN tracks' : \A p \in LiveLegs(tracks'[u]) :
           LET k == <<p, tracks'[u].upstream_subs[p].request_id>>
           IN k \in DOMAIN upstream_request_index /\ upstream_request_index[k] = u =>
                k \in DOMAIN upstream_request_index' /\ upstream_request_index'[k] = u,
         \A y \in DOMAIN sessions : y \in DOMAIN sessions' =>
           /\ sessions'[y].local_next = sessions[y].local_next
           /\ sessions'[y].next_outbound = sessions[y].next_outbound
  PROVE  HandedOutInv'
<1>1. \A y \in DOMAIN sessions : y \in DOMAIN sessions' =>
        /\ sessions[y].local_next <= sessions'[y].local_next
        /\ sessions[y].next_outbound <= sessions'[y].next_outbound
  BY CounterTypes DEF HandedOutInv
<1>2. LegsInv'
  BY <1>1, NoLegsAdded DEF HandedOutInv
<1>3. AliasesInv'
  BY <1>1, NoAliasesAdded DEF HandedOutInv
<1> QED BY <1>2, <1>3 DEF HandedOutInv

---------------------------------------------------------------------------
(* Handlers that hand out nothing.                                         *)

\* A route inherits from itself.
LEMMA InheritsItself ==
  ASSUME NEW route
  PROVE  Inherits(route, route)
BY DEF Inherits

\* A handler that stores or drops one route.
LEMMA OneRouteInherits ==
  ASSUME NEW t, NEW route, Inherits(route, RouteOf(t)),
         tracks' = Put(tracks, t, route) \/ tracks' = Drop(tracks, {t})
  PROVE  \A u \in DOMAIN tracks' : Inherits(tracks'[u], RouteOf(u))
<1> SUFFICES ASSUME NEW u \in DOMAIN tracks'
             PROVE  Inherits(tracks'[u], RouteOf(u))
  OBVIOUS
<1>1. \/ u = t /\ tracks'[u] = route
      \/ u \in DOMAIN tracks /\ tracks'[u] = tracks[u]
  BY DEF Put, Drop, Restrict
<1> QED BY <1>1, InheritsItself DEF RouteOf

\* A handler that leaves the routes and their index alone.
LEMMA SameRoutesHandedOut ==
  ASSUME HandedOutInv, SessionsInv', UNCHANGED <<tracks, upstream_request_index>>,
         \A y \in DOMAIN sessions : y \in DOMAIN sessions' =>
           /\ sessions'[y].local_next = sessions[y].local_next
           /\ sessions'[y].next_outbound = sessions[y].next_outbound
  PROVE  HandedOutInv'
<1>1. \A u \in DOMAIN tracks' : Inherits(tracks'[u], RouteOf(u))
  BY InheritsItself DEF RouteOf
<1>2. \A u \in DOMAIN tracks' : \A p \in LiveLegs(tracks'[u]) :
        LET k == <<p, tracks'[u].upstream_subs[p].request_id>>
        IN k \in DOMAIN upstream_request_index /\ upstream_request_index[k] = u =>
             k \in DOMAIN upstream_request_index' /\ upstream_request_index'[k] = u
  OBVIOUS
<1> QED BY <1>1, <1>2, NothingHandedOut

LEMMA UnchangedHandedOut ==
  ASSUME HandedOutInv, SessionsInv', UNCHANGED relayVars
  PROVE  HandedOutInv'
<1>1. UNCHANGED <<sessions, tracks, upstream_request_index>>
  BY DEF relayVars
<1> QED BY <1>1, SameRoutesHandedOut

\* A session that opens has handed out nothing yet (relay.rs:111).
LEMMA OnSessionOpenedHandedOut ==
  ASSUME HandedOutInv, SessionsInv', NEW s \in Sessions, NEW role \in Roles,
         OnSessionOpened(s, role)
  PROVE  HandedOutInv'
<1>1. /\ UNCHANGED <<tracks, upstream_request_index>>
      /\ \A y \in DOMAIN sessions : sessions'[y] = sessions[y]
  BY DEF OnSessionOpened, Put
<1> QED BY <1>1, SameRoutesHandedOut

\* on_session_closed (relay.rs:122) ends legs of others and keeps their ids.
LEMMA OnSessionClosedHandedOut ==
  ASSUME HandedOutInv, SessionsInv', NEW s \in Sessions, OnSessionClosed(s)
  PROVE  HandedOutInv'
<1> DEFINE left == [t \in DOMAIN tracks |-> RouteWithout(tracks[t], s)]
           idle == {t \in DOMAIN tracks : NoActiveDownstream(left[t])}
           empty == {t \in DOMAIN tracks : /\ DOMAIN left[t].downstream_subs = {}
                                           /\ DOMAIN left[t].upstream_subs = {}}
<1>1. tracks' = [t \in DOMAIN tracks \ empty |->
                   IF t \in idle THEN TerminateLegs(left[t], LiveLegs(left[t])) ELSE left[t]]
  BY DEF OnSessionClosed
<1>2. \A t \in DOMAIN tracks :
        /\ RouteOK(left[t]) /\ Inherits(left[t], tracks[t])
        /\ s \notin LiveLegs(left[t])
  <2> SUFFICES ASSUME NEW t \in DOMAIN tracks
               PROVE  /\ RouteOK(left[t]) /\ Inherits(left[t], tracks[t])
                      /\ s \notin LiveLegs(left[t])
    OBVIOUS
  <2>1. RouteOK(tracks[t])
    BY CounterTypes DEF HandedOutInv
  <2>2. s \notin LiveLegs(RouteWithout(tracks[t], s))
    BY DEF LiveLegs, RouteWithout, Drop, Restrict
  <2> QED BY <2>1, <2>2, RouteWithoutType, EndingInherits
<1> HIDE DEF left, idle, empty
<1>3. ASSUME NEW u \in DOMAIN tracks'
      PROVE  Inherits(tracks'[u], RouteOf(u)) /\ s \notin LiveLegs(tracks'[u])
  <2>1. u \in DOMAIN tracks /\ RouteOf(u) = tracks[u]
    BY <1>1 DEF RouteOf
  <2>2. tracks'[u] = left[u] \/ tracks'[u] = TerminateLegs(left[u], LiveLegs(left[u]))
    BY <1>1
  <2>3. Inherits(tracks'[u], left[u])
    BY <1>2, <2>1, <2>2, EndingInherits, InheritsItself
  <2>4. Inherits(tracks'[u], tracks[u])
    BY <1>2, <2>1, <2>3, InheritsTransitive
  <2>5. s \notin LiveLegs(tracks'[u])
    BY <1>2, <2>1, <2>3 DEF Inherits
  <2> QED BY <2>1, <2>4, <2>5
<1>4. \A k \in DOMAIN upstream_request_index : k[1] # s =>
        /\ k \in DOMAIN upstream_request_index'
        /\ upstream_request_index'[k] = upstream_request_index[k]
  <2>1. \/ UNCHANGED upstream_request_index
        \/ upstream_request_index' = Drop(upstream_request_index,
                                         {k \in DOMAIN upstream_request_index : k[1] = s})
    BY DEF OnSessionClosed
  <2> QED BY <2>1 DEF Drop, Restrict
<1>5. ASSUME NEW u \in DOMAIN tracks', NEW p \in LiveLegs(tracks'[u])
      PROVE  LET k == <<p, tracks'[u].upstream_subs[p].request_id>>
             IN k \in DOMAIN upstream_request_index /\ upstream_request_index[k] = u =>
                  k \in DOMAIN upstream_request_index' /\ upstream_request_index'[k] = u
  BY <1>3, <1>4
<1>6. \A y \in DOMAIN sessions : y \in DOMAIN sessions' => sessions'[y] = sessions[y]
  BY DEF OnSessionClosed, Drop, Restrict
<1> QED BY <1>3, <1>5, <1>6, NothingHandedOut

LEMMA SetupMessageHandedOut ==
  ASSUME HandedOutInv, SessionsInv', NEW s \in Sessions, SetupMessage(s)
  PROVE  HandedOutInv'
<1>1. UNCHANGED <<tracks, upstream_request_index>>
  BY DEF SetupMessage, HandleClientSetup, HandleServerSetup, HandleMaxRequestId,
         HandleRequestsBlocked, HandleGoaway, HandleOther, Refuse, Ignore, relayVars
<1>2. \A y \in DOMAIN sessions :
        /\ sessions'[y].local_next = sessions[y].local_next
        /\ sessions'[y].next_outbound = sessions[y].next_outbound
  BY SetupMessageCounters DEF HandedOutInv
<1> QED BY <1>1, <1>2, SameRoutesHandedOut

\* handle_request_error (relay.rs:859) and handle_publish_done (relay.rs:1028) end
\* the leg of the publisher, under whatever id it is, and forget the id it names.
LEMMA LegEndsHandedOut ==
  ASSUME HandedOutInv, SessionsInv', NEW p \in Sessions, NEW r \in RequestIds,
         HandleRequestError(p, r) \/ HandlePublishDone(p, r)
  PROVE  HandedOutInv'
<1>1. CASE UNCHANGED relayVars
  BY <1>1, UnchangedHandedOut
<1>2. CASE ~UNCHANGED relayVars
  <2> DEFINE t == upstream_request_index[<<p, r>>]
             route == TerminateLegs(tracks[t], {p})
  <2>1. /\ KnownUpstream(p, r)
        /\ UNCHANGED sessions
        /\ upstream_request_index' = Drop(upstream_request_index, {<<p, r>>})
        /\ \E ended, empty : tracks' = StoreRoute(t, TerminateDownstream(route, ended), empty)
    BY <1>2 DEF HandleRequestError, HandlePublishDone, Refuse, Ignore
  <2>2. t \in DOMAIN tracks /\ RouteOK(tracks[t]) /\ RouteOf(t) = tracks[t]
    BY <2>1, CounterTypes DEF KnownUpstream, HandedOutInv, RouteOf
  <2>3. PICK ended, empty : tracks' = StoreRoute(t, TerminateDownstream(route, ended), empty)
    BY <2>1
  <2> DEFINE kept == TerminateDownstream(route, ended)
  <2>4. RouteOK(route) /\ Inherits(route, tracks[t]) /\ p \notin LiveLegs(route)
    BY <2>2, TerminateLegsType, EndingInherits, TerminatedNotLive
  <2>5. Inherits(kept, route)
    BY <2>4, EndingInherits
  <2> HIDE DEF route, kept
  <2>6. Inherits(kept, RouteOf(t)) /\ p \notin LiveLegs(kept)
    BY <2>2, <2>4, <2>5, InheritsTransitive DEF Inherits
  <2>7. tracks' = Put(tracks, t, kept) \/ tracks' = Drop(tracks, {t})
    BY <2>3 DEF StoreRoute, kept
  <2>8. \A u \in DOMAIN tracks' : Inherits(tracks'[u], RouteOf(u))
    <3> HIDE DEF t
    <3> QED BY <2>6, <2>7, OneRouteInherits
  <2>9. ASSUME NEW u \in DOMAIN tracks', NEW x \in LiveLegs(tracks'[u])
        PROVE  LET k == <<x, tracks'[u].upstream_subs[x].request_id>>
               IN k \in DOMAIN upstream_request_index /\ upstream_request_index[k] = u =>
                    k \in DOMAIN upstream_request_index' /\ upstream_request_index'[k] = u
    <3>1. u = t => x # p
      BY <2>6, <2>7 DEF Put, Drop, Restrict
    <3> QED BY <2>1, <3>1 DEF Drop, Restrict
  <2> QED BY <2>1, <2>8, <2>9, NothingHandedOut
<1> QED BY <1>1, <1>2

\* handle_unsubscribe (relay.rs:938) forgets the ids of the legs it ends, with the
\* route they are in.
LEMMA UnsubscribeHandedOut ==
  ASSUME HandedOutInv, SessionsInv', NEW s \in Sessions, NEW r \in RequestIds,
         HandleUnsubscribe(s, r)
  PROVE  HandedOutInv'
<1>1. CASE UNCHANGED relayVars
  BY <1>1, UnchangedHandedOut
<1>2. CASE ~UNCHANGED relayVars
  <2> DEFINE t == downstream_request_index[<<s, r>>]
             route == TerminateDownstream(tracks[t], {<<s, r>>})
             last == NoActiveDownstream(route)
             ended == IF last THEN LiveLegs(route) ELSE {}
             Key(p) == <<p, route.upstream_subs[p].request_id>>
  <2>1. /\ t \in DOMAIN tracks
        /\ tracks' = StoreRoute(t, route, last)
        /\ upstream_request_index' = Drop(upstream_request_index, {Key(p) : p \in ended})
        /\ UNCHANGED sessions
    BY <1>2 DEF HandleUnsubscribe, Refuse, Ignore
  <2>2. RouteOK(tracks[t]) /\ RouteOf(t) = tracks[t]
    BY <2>1, CounterTypes DEF HandedOutInv, RouteOf
  <2>3. Inherits(route, RouteOf(t))
    BY <2>2, EndingInherits
  <2>4. \A p \in ended : /\ Key(p) \in DOMAIN upstream_request_index
                         /\ upstream_request_index[Key(p)] = t
    <3> HIDE DEF route
    <3> QED BY <2>1, <2>2, <2>3 DEF Inherits, HandedOutInv, LegsInv, LiveLegsIndexed
  <2>5. tracks' = Put(tracks, t, route) \/ tracks' = Drop(tracks, {t})
    BY <2>1 DEF StoreRoute
  <2>6. t \in DOMAIN tracks' => ended = {}
    BY <2>1 DEF StoreRoute, Drop, Restrict
  <2> HIDE DEF t, route, last, ended, Key
  <2>7. \A u \in DOMAIN tracks' : Inherits(tracks'[u], RouteOf(u))
    BY <2>3, <2>5, OneRouteInherits
  <2>8. ASSUME NEW u \in DOMAIN tracks', NEW x \in LiveLegs(tracks'[u])
        PROVE  LET k == <<x, tracks'[u].upstream_subs[x].request_id>>
               IN k \in DOMAIN upstream_request_index /\ upstream_request_index[k] = u =>
                    k \in DOMAIN upstream_request_index' /\ upstream_request_index'[k] = u
    <3>1. ASSUME NEW k \in DOMAIN upstream_request_index, upstream_request_index[k] = u
          PROVE  k \in DOMAIN upstream_request_index' /\ upstream_request_index'[k] = u
      <4>1. k \notin {Key(p) : p \in ended}
        BY <2>4, <2>6, <3>1
      <4> QED BY <2>1, <3>1, <4>1 DEF Drop, Restrict
    <3> QED BY <3>1
  <2> QED BY <2>1, <2>7, <2>8, NothingHandedOut
<1> QED BY <1>1, <1>2

---------------------------------------------------------------------------
(* Handlers that hand out ids.                                             *)

\* Whatever the order in which handle_publish_namespace visits the tracks, their
\* ids are different and among those the counter skips.
LEMMA AllocationsFresh ==
  ASSUME NEW sess \in Session, NEW wanting, IsFiniteSet(wanting),
         NEW idOf \in Allocations(sess, wanting)
  PROVE  /\ \A t \in DOMAIN idOf :
              /\ idOf[t] \in Nat
              /\ sess.local_next <= idOf[t]
              /\ idOf[t] < sess.local_next + 2 * Cardinality(DOMAIN idOf)
         /\ \A t, u \in DOMAIN idOf : idOf[t] = idOf[u] => t = u
<1> DEFINE N == Cardinality(wanting)
           Id(k) == sess.local_next + 2 * (k - 1)
           K == {j \in 1..N : Id(j) < sess.peer_max_exclusive}
           ids == {Id(k) : k \in K}
<1>1. PICK served \in SUBSET wanting : idOf \in Bijection(served, ids)
  BY DEF Allocations
<1>2. N \in Nat /\ sess.local_next \in Nat /\ sess.peer_max_exclusive \in Nat
  BY FS_CardinalityType DEF Session
<1>3. IsFiniteSet(K) /\ K \subseteq Nat /\ Cardinality(K) \in Nat
  <2>1. IsFiniteSet(1..N)
    BY <1>2, FS_Interval
  <2>2. K \subseteq 1..N
    OBVIOUS
  <2>3. IsFiniteSet(K)
    BY <2>1, <2>2, FS_Subset
  <2> QED BY <1>2, <2>3, FS_CardinalityType
<1>4. IsFiniteSet(ids) /\ Cardinality(ids) = Cardinality(K)
  <2> DEFINE f == [k \in K |-> Id(k)]
  <2>1. f \in Bijection(K, ids)
    <3>1. \A j, k \in K : Id(j) = Id(k) => j = k
      BY <1>2, <1>3
    <3> HIDE DEF Id, K
    <3> QED BY <3>1 DEF Bijection, Injection, Surjection, IsInjective
  <2> QED BY <1>3, <2>1, FS_Bijection DEF ExistsBijection
<1>5. /\ DOMAIN idOf = served
      /\ \A t \in served : idOf[t] \in ids
      /\ \A t, u \in served : idOf[t] = idOf[u] => t = u
  BY <1>1 DEF Bijection, Injection, IsInjective
<1>6. Cardinality(served) = Cardinality(K)
  <2>1. idOf \in Injection(served, ids) /\ idOf \in Surjection(served, ids)
    BY <1>1 DEF Bijection
  <2> HIDE DEF ids, K
  <2> QED BY <1>4, <2>1, FS_Injection
<1>7. ASSUME NEW k \in K
      PROVE  k <= Cardinality(K)
  <2>1. k \in Nat /\ k \in 1..N /\ Id(k) < sess.peer_max_exclusive
    BY <1>3
  <2>2. 1..k \subseteq K
    BY <1>2, <2>1
  <2>3. Cardinality(1..k) = k
    BY <2>1, FS_Interval
  <2> HIDE DEF K
  <2> QED BY <1>3, <2>2, <2>3, FS_Subset
<1>8. ASSUME NEW t \in served
      PROVE  /\ idOf[t] \in Nat
             /\ sess.local_next <= idOf[t]
             /\ idOf[t] < sess.local_next + 2 * Cardinality(served)
  <2>1. PICK k \in K : idOf[t] = Id(k)
    BY <1>5
  <2>2. k \in Nat /\ 1 <= k
    BY <1>2, <2>1
  <2>3. k <= Cardinality(served)
    BY <1>6, <1>7
  <2>4. Cardinality(served) \in Nat
    BY <1>3, <1>6
  <2> HIDE DEF K
  <2> QED BY <1>2, <2>1, <2>2, <2>3, <2>4
<1> QED BY <1>5, <1>8

\* handle_publish_namespace (relay.rs:461) asks the new publisher for the tracks
\* that want one, each under an id of its own.
LEMMA PublishNamespaceHandedOut ==
  ASSUME HandedOutInv, SessionsInv', NEW s \in Sessions, NEW r \in RequestIds,
         NEW ns \in Namespaces, HandlePublishNamespace(s, r, ns)
  PROVE  HandedOutInv'
<1>1. CASE UNCHANGED relayVars
  BY <1>1, UnchangedHandedOut
<1>2. CASE ~UNCHANGED relayVars
  <2>1. PICK idOf \in Allocations(sessions[s], TracksWanting(s, ns)) :
       /\ sessions' = [sessions EXCEPT
            ![s].peer_next_expected = r + 2,
            ![s].published_namespaces = @ \cup {ns},
            ![s].local_next = @ + 2 * Cardinality(DOMAIN idOf)]
       /\ tracks' = [t \in DOMAIN tracks |->
            IF t \in DOMAIN idOf
            THEN [tracks[t] EXCEPT !.upstream_subs = Put(@, s, NewLeg(idOf[t]))]
            ELSE tracks[t]]
       /\ upstream_request_index' =
            Merge(upstream_request_index,
                  [k \in {<<s, idOf[t]>> : t \in DOMAIN idOf} |->
                     CHOOSE t \in DOMAIN idOf : idOf[t] = k[2]])
    BY <1>2 DEF HandlePublishNamespace, Refuse
  <2> DEFINE n == Cardinality(DOMAIN idOf)
             asked == [k \in {<<s, idOf[t]>> : t \in DOMAIN idOf} |->
                         CHOOSE t \in DOMAIN idOf : idOf[t] = k[2]]
  <2>2. s \in DOMAIN sessions /\ sessions[s] \in Session
    <3>1. s \in DOMAIN sessions
      BY DEF HandlePublishNamespace, Receives
    <3> QED BY <3>1 DEF HandedOutInv, SessionsInv, DownstreamInv, TypeOK, IsMap
  <2>3. IsFiniteSet(TracksWanting(s, ns))
    <3>1. TracksWanting(s, ns) \subseteq Tracks
      BY DEF TracksWanting, HandedOutInv, SessionsInv, DownstreamInv, TypeOK, RoutesOK
    <3> QED BY <3>1, FiniteAssumption, FS_Subset
  <2>4. n \in Nat
    BY <2>2, <2>3, AllocationsType, FS_CardinalityType
  <2>5. /\ \A t \in DOMAIN idOf : /\ idOf[t] \in Nat
                                 /\ sessions[s].local_next <= idOf[t]
                                 /\ idOf[t] < sessions[s].local_next + 2 * n
        /\ \A t, u \in DOMAIN idOf : idOf[t] = idOf[u] => t = u
    BY <2>2, <2>3, AllocationsFresh
  <2>6. \A k \in DOMAIN asked : k[1] = s /\ sessions[s].local_next <= k[2] /\ k[2] \in Nat
    BY <2>5
  <2>7. \A t \in DOMAIN idOf : <<s, idOf[t]>> \in DOMAIN asked /\ asked[<<s, idOf[t]>>] = t
    BY <2>5
  <2> HIDE DEF n
  <2>8. \A y \in DOMAIN sessions :
          /\ sessions'[y].local_next =
               IF y = s THEN sessions[y].local_next + 2 * n ELSE sessions[y].local_next
          /\ sessions'[y].next_outbound = sessions[y].next_outbound
    <3>1. NamespaceServed(s, r, ns, n)
      BY <2>1 DEF n, NamespaceServed
    <3> QED BY <2>2, <2>4, <3>1, PublishNamespaceCounters DEF HandedOutInv
  <2>9. \A y \in DOMAIN sessions :
          /\ sessions[y].local_next <= sessions'[y].local_next
          /\ sessions[y].next_outbound <= sessions'[y].next_outbound
    BY <2>4, <2>8, CounterTypes DEF HandedOutInv
  <2>10. ASSUME NEW u \in DOMAIN tracks'
         PROVE  /\ u \in DOMAIN tracks
                /\ tracks'[u].downstream_subs = tracks[u].downstream_subs
                /\ u \in DOMAIN idOf =>
                     tracks'[u].upstream_subs = Put(tracks[u].upstream_subs, s, NewLeg(idOf[u]))
                /\ u \notin DOMAIN idOf => tracks'[u].upstream_subs = tracks[u].upstream_subs
    <3>1. u \in DOMAIN tracks /\ RouteOK(tracks[u])
      BY <2>1, CounterTypes DEF HandedOutInv
    <3> QED BY <2>1, <3>1 DEF RouteOK
  <2>11. upstream_request_index' = Merge(upstream_request_index, asked)
    BY <2>1
  <2> HIDE DEF asked
  <2>12. ASSUME NEW u \in DOMAIN tracks', NEW p \in LiveLegs(tracks'[u])
         PROVE  LET q == tracks'[u].upstream_subs[p].request_id
                IN /\ <<p, q>> \in DOMAIN upstream_request_index'
                   /\ upstream_request_index'[<<p, q>>] = u
                   /\ \/ q < sessions'[p].local_next
                      \/ /\ u \in DOMAIN tracks /\ p \in LiveLegs(tracks[u])
                         /\ q = tracks[u].upstream_subs[p].request_id
    <3> DEFINE q == tracks'[u].upstream_subs[p].request_id
    <3>1. CASE u \in DOMAIN idOf /\ p = s
      <4>1. q = idOf[u]
        <5>1. tracks'[u].upstream_subs = Put(tracks[u].upstream_subs, s, NewLeg(idOf[u]))
          BY <2>10, <3>1
        <5>2. tracks'[u].upstream_subs[s] = NewLeg(idOf[u])
          BY <5>1 DEF Put
        <5> QED BY <3>1, <5>2 DEF NewLeg
      <4>2. <<p, q>> \in DOMAIN asked /\ asked[<<p, q>>] = u
        BY <2>7, <3>1, <4>1
      <4>3. q < sessions'[p].local_next
        BY <2>2, <2>5, <2>8, <3>1, <4>1
      <4> QED BY <2>11, <4>2, <4>3 DEF Merge
    <3>2. CASE ~(u \in DOMAIN idOf /\ p = s)
      <4>1. /\ u \in DOMAIN tracks /\ p \in LiveLegs(tracks[u])
            /\ q = tracks[u].upstream_subs[p].request_id
        <5>1. /\ u \in DOMAIN tracks /\ p \in DOMAIN tracks[u].upstream_subs
              /\ tracks'[u].upstream_subs[p] = tracks[u].upstream_subs[p]
          <6>1. p \in DOMAIN tracks'[u].upstream_subs
            BY DEF LiveLegs
          <6>2. CASE u \in DOMAIN idOf
            <7>1. tracks'[u].upstream_subs = Put(tracks[u].upstream_subs, s, NewLeg(idOf[u]))
              BY <2>10, <6>2
            <7>2. p # s
              BY <3>2, <6>2
            <7> QED BY <2>10, <6>1, <7>1, <7>2 DEF Put
          <6>3. CASE u \notin DOMAIN idOf
            BY <2>10, <6>1, <6>3
          <6> QED BY <6>2, <6>3
        <5> QED BY <5>1 DEF LiveLegs
      <4>2. /\ <<p, q>> \in DOMAIN upstream_request_index
            /\ upstream_request_index[<<p, q>>] = u
            /\ q < sessions[p].local_next
        BY <4>1 DEF HandedOutInv, LegsInv, LiveLegsIndexed, LegIdsBelow
      <4>3. q \in Nat /\ sessions[p].local_next \in Nat
        BY <4>1, CounterTypes, RouteCounterTypes DEF HandedOutInv
      <4> HIDE DEF q
      <4>4. <<p, q>> \notin DOMAIN asked
        BY <2>6, <4>2, <4>3
      <4>5. <<p, q>> \in DOMAIN upstream_request_index' /\ upstream_request_index'[<<p, q>>] = u
        BY <2>11, <4>2, <4>4 DEF Merge
      <4> QED BY <4>1, <4>5 DEF q
    <3> QED BY <3>1, <3>2
  <2>13. LegsInv'
    BY <2>9, <2>12, LegsAdded DEF HandedOutInv
  <2>14. AliasesInv'
    <3>1. ASSUME NEW u \in DOMAIN tracks', NEW d \in Established(tracks'[u])
          PROVE  /\ u \in DOMAIN tracks /\ d \in Established(tracks[u])
                 /\ tracks'[u].downstream_subs[d].outbound_alias =
                      tracks[u].downstream_subs[d].outbound_alias
      BY <2>10 DEF Established, DownstreamIn
    <3>2. AliasesGiven(s, {})
      BY <3>1 DEF AliasesGiven
    <3> QED BY <2>9, <3>2, AliasesAdded DEF HandedOutInv
  <2> QED BY <2>13, <2>14 DEF HandedOutInv
<1> QED BY <1>1, <1>2

\* handle_subscribe (relay.rs:580) with an established leg: the next alias of the
\* subscriber's session.
LEMMA JoinsHandedOut ==
  ASSUME HandedOutInv, SessionsInv', NEW s \in DOMAIN sessions, NEW r, NEW t \in Tracks,
         SubscribeJoins(s, r, t)
  PROVE  HandedOutInv'
<1> DEFINE alias == sessions[s].next_outbound
           joined == [state |-> "Established", forward_desired |-> FALSE,
                      outbound_alias |-> alias]
           new == {<<s, r>>}
<1>1. \A y \in DOMAIN sessions :
        /\ sessions'[y].local_next = sessions[y].local_next
        /\ sessions'[y].next_outbound =
             IF y = s THEN sessions[y].next_outbound + 1 ELSE sessions[y].next_outbound
  BY JoinsCounters DEF HandedOutInv
<1>2. \A y \in DOMAIN sessions :
        /\ sessions[y].local_next \in Nat /\ sessions[y].next_outbound \in Nat
        /\ sessions[y].local_next <= sessions'[y].local_next
        /\ sessions[y].next_outbound <= sessions'[y].next_outbound
  <2>1. \A y \in DOMAIN sessions :
          sessions[y].local_next \in Nat /\ sessions[y].next_outbound \in Nat
    BY CounterTypes DEF HandedOutInv
  <2> QED BY <1>1, <2>1
<1> DEFINE route == [RouteOf(t) EXCEPT !.downstream_subs = Put(@, <<s, r>>, joined)]
<1>3. /\ route.upstream_subs = RouteOf(t).upstream_subs
      /\ route.downstream_subs = Put(RouteOf(t).downstream_subs, <<s, r>>, joined)
  <2>1. RouteOK(RouteOf(t))
    BY RouteOfType DEF HandedOutInv, SessionsInv, DownstreamInv, TypeOK
  <2> QED BY <2>1 DEF RouteOK
<1>4. tracks' = Put(tracks, t, route) /\ UNCHANGED upstream_request_index
  BY DEF SubscribeJoins
<1>5. route.downstream_subs[<<s, r>>] = joined
  BY <1>3 DEF Put
<1> HIDE DEF route
<1>6. ASSUME NEW u \in DOMAIN tracks', NEW d \in Established(tracks'[u])
      PROVE  \/ /\ u \in DOMAIN tracks /\ d \in Established(tracks[u])
                /\ tracks'[u].downstream_subs[d].outbound_alias =
                     tracks[u].downstream_subs[d].outbound_alias
             \/ u = t /\ d \in new
  <2>1. CASE u # t
    BY <1>4, <2>1 DEF Put
  <2>2. CASE u = t /\ d # <<s, r>>
    <3>1. tracks'[u] = route
      BY <1>4, <2>2 DEF Put
    <3>2. /\ d \in Established(RouteOf(u))
          /\ route.downstream_subs[d] = RouteOf(u).downstream_subs[d]
      BY <1>3, <2>2, <3>1 DEF Put, Established, DownstreamIn
    <3>3. u \in DOMAIN tracks /\ RouteOf(u) = tracks[u]
      BY <3>2, RouteWasThere
    <3> QED BY <3>1, <3>2, <3>3
  <2> QED BY <2>1, <2>2
<1>7. AliasesGiven(t, new)
  <2>1. tracks'[t].downstream_subs[<<s, r>>].outbound_alias = alias
    <3>1. tracks'[t] = route
      BY <1>4 DEF Put
    <3> QED BY <1>5, <3>1
  <2>2. alias \in Nat /\ sessions'[s].next_outbound = alias + 1
    BY <1>1, <1>2
  <2>3. alias < sessions'[s].next_outbound /\ alias <= alias
    <3> HIDE DEF alias
    <3> QED BY <2>2
  <2> QED BY <1>6, <2>1, <2>3 DEF AliasesGiven
<1> HIDE DEF new
<1>8. AliasesInv'
  BY <1>2, <1>7, AliasesAdded DEF HandedOutInv
<1>9. ASSUME NEW u \in DOMAIN tracks', NEW p \in LiveLegs(tracks'[u])
      PROVE  LET q == tracks'[u].upstream_subs[p].request_id
             IN /\ <<p, q>> \in DOMAIN upstream_request_index'
                /\ upstream_request_index'[<<p, q>>] = u
                /\ \/ q < sessions'[p].local_next
                   \/ /\ u \in DOMAIN tracks /\ p \in LiveLegs(tracks[u])
                      /\ q = tracks[u].upstream_subs[p].request_id
  <2>1. tracks'[u].upstream_subs = RouteOf(u).upstream_subs
    BY <1>3, <1>4 DEF Put, RouteOf
  <2>2. p \in LiveLegs(RouteOf(u))
    BY <2>1 DEF LiveLegs
  <2>3. u \in DOMAIN tracks /\ RouteOf(u) = tracks[u]
    BY <2>2, RouteWasThere
  <2> QED BY <1>4, <2>1, <2>2, <2>3 DEF HandedOutInv, LegsInv, LiveLegsIndexed
<1>10. LegsInv'
  BY <1>2, <1>9, LegsAdded DEF HandedOutInv
<1> QED BY <1>8, <1>10 DEF HandedOutInv

\* Without a publisher the subscription is refused and stored as terminated.
LEMMA FailsHandedOut ==
  ASSUME HandedOutInv, SessionsInv', NEW s \in DOMAIN sessions, NEW r, NEW t \in Tracks,
         SubscribeFails(s, r, t)
  PROVE  HandedOutInv'
<1> DEFINE refused == [NewDownstream EXCEPT !.state = "Terminated"]
           route == [RouteOf(t) EXCEPT !.downstream_subs = Put(@, <<s, r>>, refused)]
<1>1. /\ route.upstream_subs = RouteOf(t).upstream_subs
      /\ route.downstream_subs = Put(RouteOf(t).downstream_subs, <<s, r>>, refused)
  <2>1. RouteOK(RouteOf(t))
    BY RouteOfType DEF HandedOutInv, SessionsInv, DownstreamInv, TypeOK
  <2> QED BY <2>1 DEF RouteOK
<1>2. tracks' = Put(tracks, t, route) \/ tracks' = Drop(tracks, {t})
  BY DEF SubscribeFails, StoreRoute
<1>3. refused.state = "Terminated"
  BY DEF NewDownstream
<1> HIDE DEF route, refused
<1>4. Inherits(route, RouteOf(t))
  <2>1. \A d \in Established(route) :
          /\ d \in Established(RouteOf(t))
          /\ route.downstream_subs[d] = RouteOf(t).downstream_subs[d]
    BY <1>1, <1>3 DEF Established, DownstreamIn, Put
  <2> QED BY <1>1, <2>1 DEF Inherits, LiveLegs
<1>5. \A u \in DOMAIN tracks' : Inherits(tracks'[u], RouteOf(u))
  BY <1>2, <1>4, OneRouteInherits
<1>6. \A u \in DOMAIN tracks' : \A p \in LiveLegs(tracks'[u]) :
        LET k == <<p, tracks'[u].upstream_subs[p].request_id>>
        IN k \in DOMAIN upstream_request_index /\ upstream_request_index[k] = u =>
             k \in DOMAIN upstream_request_index' /\ upstream_request_index'[k] = u
  BY DEF SubscribeFails
<1>7. \A y \in DOMAIN sessions :
        /\ sessions'[y].local_next = sessions[y].local_next
        /\ sessions'[y].next_outbound = sessions[y].next_outbound
  BY FailsCounters DEF HandedOutInv
<1> QED BY <1>5, <1>6, <1>7, NothingHandedOut

\* With publishers only: each of them is asked under the next id of its session.
LEMMA FansOutHandedOut ==
  ASSUME HandedOutInv, SessionsInv', NEW s \in DOMAIN sessions, NEW r, NEW t \in Tracks,
         SubscribeFansOut(s, r, t)
  PROVE  HandedOutInv'
<1> DEFINE targets == FanOutTargets(t)
           Id(p) == sessions[p].local_next
           asked == [k \in {<<p, Id(p)>> : p \in targets} |-> t]
           legs == Merge(RouteOf(t).upstream_subs, [p \in targets |-> NewLeg(Id(p))])
           subs == Put(RouteOf(t).downstream_subs, <<s, r>>, NewDownstream)
           route == [downstream_subs |-> subs, upstream_subs |-> legs]
<1>1. /\ tracks' = Put(tracks, t, route)
      /\ upstream_request_index' = Merge(upstream_request_index, asked)
  BY DEF SubscribeFansOut
<1>2. \A y \in DOMAIN sessions :
        /\ sessions'[y].local_next =
             IF y \in targets THEN sessions[y].local_next + 2 ELSE sessions[y].local_next
        /\ sessions'[y].next_outbound = sessions[y].next_outbound
  BY FansOutCounters DEF HandedOutInv
<1>3. \A y \in DOMAIN sessions :
        sessions[y].local_next \in Nat /\ sessions[y].next_outbound \in Nat
  BY CounterTypes DEF HandedOutInv
<1>4. targets \subseteq DOMAIN sessions
  BY DEF FanOutTargets
<1>5. /\ \A k \in DOMAIN asked : k[1] \in targets /\ k[2] = Id(k[1]) /\ asked[k] = t
      /\ \A p \in targets : <<p, Id(p)>> \in DOMAIN asked
  OBVIOUS
<1>6. /\ \A p \in targets : legs[p].request_id = Id(p)
      /\ \A p \in DOMAIN legs \ targets :
           p \in DOMAIN RouteOf(t).upstream_subs /\ legs[p] = RouteOf(t).upstream_subs[p]
  BY DEF Merge, NewLeg
<1>7. \A d \in DOMAIN subs : subs[d].state = "Established" =>
        d \in DOMAIN RouteOf(t).downstream_subs /\ subs[d] = RouteOf(t).downstream_subs[d]
  BY DEF Put, NewDownstream
<1>8. route.downstream_subs = subs /\ route.upstream_subs = legs
  OBVIOUS
<1> HIDE DEF targets, Id, asked, legs, subs, route
<1>9. \A y \in DOMAIN sessions :
        /\ sessions[y].local_next <= sessions'[y].local_next
        /\ sessions[y].next_outbound <= sessions'[y].next_outbound
  BY <1>2, <1>3
<1>10. ASSUME NEW u \in DOMAIN tracks', NEW d \in Established(tracks'[u])
       PROVE  /\ u \in DOMAIN tracks /\ d \in Established(tracks[u])
              /\ tracks'[u].downstream_subs[d].outbound_alias =
                   tracks[u].downstream_subs[d].outbound_alias
  <2>1. CASE u # t
    BY <1>1, <2>1 DEF Put
  <2>2. CASE u = t
    <3>1. tracks'[u] = route
      BY <1>1, <2>2 DEF Put
    <3>2. /\ d \in Established(RouteOf(u))
          /\ tracks'[u].downstream_subs[d] = RouteOf(u).downstream_subs[d]
      BY <1>7, <1>8, <2>2, <3>1 DEF Established, DownstreamIn
    <3>3. u \in DOMAIN tracks /\ RouteOf(u) = tracks[u]
      BY <3>2, RouteWasThere
    <3> QED BY <3>2, <3>3
  <2> QED BY <2>1, <2>2
<1>11. AliasesInv'
  <2>1. AliasesGiven(t, {})
    BY <1>10 DEF AliasesGiven
  <2> QED BY <1>9, <2>1, AliasesAdded DEF HandedOutInv
<1>12. ASSUME NEW u \in DOMAIN tracks', NEW p \in LiveLegs(tracks'[u])
       PROVE  LET q == tracks'[u].upstream_subs[p].request_id
              IN /\ <<p, q>> \in DOMAIN upstream_request_index'
                 /\ upstream_request_index'[<<p, q>>] = u
                 /\ \/ q < sessions'[p].local_next
                    \/ /\ u \in DOMAIN tracks /\ p \in LiveLegs(tracks[u])
                       /\ q = tracks[u].upstream_subs[p].request_id
  <2> DEFINE q == tracks'[u].upstream_subs[p].request_id
  <2>1. CASE u = t /\ p \in targets
    <3>1. q = Id(p)
      <4>1. tracks'[u] = route
        BY <1>1, <2>1 DEF Put
      <4> QED BY <1>6, <1>8, <2>1, <4>1
    <3>2. <<p, q>> \in DOMAIN asked /\ asked[<<p, q>>] = u
      BY <1>5, <2>1, <3>1
    <3>3. q < sessions'[p].local_next
      BY <1>2, <1>3, <1>4, <2>1, <3>1 DEF Id
    <3> QED BY <1>1, <3>2, <3>3 DEF Merge
  <2>2. CASE ~(u = t /\ p \in targets)
    <3>1. /\ p \in LiveLegs(RouteOf(u))
          /\ q = RouteOf(u).upstream_subs[p].request_id
      <4>1. CASE u = t
        <5>1. tracks'[u] = route
          BY <1>1, <4>1 DEF Put
        <5>2. p \in DOMAIN legs \ targets
          BY <1>8, <2>2, <4>1, <5>1 DEF LiveLegs
        <5> QED BY <1>6, <1>8, <4>1, <5>1, <5>2 DEF LiveLegs
      <4>2. CASE u # t
        BY <1>1, <4>2 DEF Put, RouteOf
      <4> QED BY <4>1, <4>2
    <3>2. u \in DOMAIN tracks /\ RouteOf(u) = tracks[u]
      BY <3>1, RouteWasThere
    <3>3. /\ <<p, q>> \in DOMAIN upstream_request_index
          /\ upstream_request_index[<<p, q>>] = u
          /\ q < sessions[p].local_next
      BY <3>1, <3>2 DEF HandedOutInv, LegsInv, LiveLegsIndexed, LegIdsBelow
    <3>4. q \in Nat /\ sessions[p].local_next \in Nat
      BY <3>1, <3>2, CounterTypes, RouteCounterTypes DEF HandedOutInv
    <3> HIDE DEF q
    <3>5. <<p, q>> \notin DOMAIN asked
      BY <1>5, <3>3, <3>4 DEF Id
    <3>6. <<p, q>> \in DOMAIN upstream_request_index' /\ upstream_request_index'[<<p, q>>] = u
      BY <1>1, <3>3, <3>5 DEF Merge
    <3> QED BY <3>1, <3>2, <3>6 DEF q
  <2> QED BY <2>1, <2>2
<1>13. LegsInv'
  BY <1>9, <1>12, LegsAdded DEF HandedOutInv
<1> QED BY <1>11, <1>13 DEF HandedOutInv

\* handle_subscribe_ok (relay.rs:744) with an alias that is taken: the leg is
\* established, nobody is answered.
LEMMA DuplicateAliasHandedOut ==
  ASSUME HandedOutInv, SessionsInv', NEW t \in DOMAIN tracks,
         NEW p \in DOMAIN tracks[t].upstream_subs, NEW alias,
         tracks[t].upstream_subs[p].state = "Pending", SubscribeOkDuplicateAlias(p, t, alias)
  PROVE  HandedOutInv'
<1> DEFINE route == EstablishLeg(tracks[t], p, alias)
<1>1. RouteOK(tracks[t]) /\ RouteOf(t) = tracks[t]
  BY CounterTypes DEF HandedOutInv, RouteOf
<1>2. Inherits(route, RouteOf(t))
  BY <1>1, EstablishInherits
<1>3. tracks' = Put(tracks, t, route) /\ UNCHANGED <<sessions, upstream_request_index>>
  BY DEF SubscribeOkDuplicateAlias
<1> HIDE DEF route
<1>4. \A u \in DOMAIN tracks' : Inherits(tracks'[u], RouteOf(u))
  BY <1>2, <1>3, OneRouteInherits
<1>5. \A u \in DOMAIN tracks' : \A x \in LiveLegs(tracks'[u]) :
        LET k == <<x, tracks'[u].upstream_subs[x].request_id>>
        IN k \in DOMAIN upstream_request_index /\ upstream_request_index[k] = u =>
             k \in DOMAIN upstream_request_index' /\ upstream_request_index'[k] = u
  BY <1>3
<1>6. \A y \in DOMAIN sessions : y \in DOMAIN sessions' =>
        /\ sessions'[y].local_next = sessions[y].local_next
        /\ sessions'[y].next_outbound = sessions[y].next_outbound
  BY <1>3
<1> QED BY <1>4, <1>5, <1>6, NothingHandedOut

\* The aliases handed to waiting subscriptions: among the next ones of the
\* session, and different from each other.
LEMMA AliasAssignmentsFresh ==
  ASSUME NEW ds, NEW f \in AliasAssignments(ds), NEW d \in ds,
         sessions[d[1]].next_outbound \in Nat, Cardinality({x \in ds : x[1] = d[1]}) \in Nat
  PROVE  /\ sessions[d[1]].next_outbound <= f[d]
         /\ f[d] < sessions[d[1]].next_outbound + Cardinality({x \in ds : x[1] = d[1]})
         /\ \A e \in ds : d[1] = e[1] /\ f[d] = f[e] => d = e
<1> DEFINE n == Cardinality({x \in ds : x[1] = d[1]})
           first == sessions[d[1]].next_outbound
<1>1. /\ f[d] \in first .. first + n - 1
      /\ \A e \in ds : d[1] = e[1] /\ f[d] = f[e] => d = e
  BY DEF AliasAssignments
<1>2. n \in Nat /\ first \in Nat
  OBVIOUS
<1>3. first <= f[d] /\ f[d] < first + n
  <2> HIDE DEF n, first
  <2> QED BY <1>1, <1>2
<1> QED BY <1>1, <1>3

\* handle_subscribe_ok answers the waiting subscriptions, each under an alias its
\* session had not handed out.
LEMMA ForwardedHandedOut ==
  ASSUME HandedOutInv, SessionsInv', NEW t \in DOMAIN tracks,
         NEW p \in DOMAIN tracks[t].upstream_subs, NEW alias \in InboundAliases,
         tracks[t].upstream_subs[p].state = "Pending", SubscribeOkForwarded(p, t, alias)
  PROVE  HandedOutInv'
<1> DEFINE waiting == AwaitingSubscribers(t)
           Count(y) == Cardinality({d \in waiting : d[1] = y})
           held == EstablishLeg(tracks[t], p, alias)
<1>1. /\ RouteOK(tracks[t]) /\ RouteOf(t) = tracks[t]
      /\ \A y \in DOMAIN sessions :
           sessions[y].local_next \in Nat /\ sessions[y].next_outbound \in Nat
  BY CounterTypes DEF HandedOutInv, RouteOf
<1>2. /\ waiting \subseteq DOMAIN tracks[t].downstream_subs /\ IsFiniteSet(waiting)
      /\ \A d \in waiting : d[1] \in DOMAIN sessions
  BY AwaitingSubscribersType DEF HandedOutInv, SessionsInv, DownstreamInv
<1>3. \A y : Count(y) \in Nat
  <2> SUFFICES ASSUME NEW y PROVE Count(y) \in Nat
    OBVIOUS
  <2>1. {d \in waiting : d[1] = y} \subseteq waiting
    OBVIOUS
  <2> QED BY <1>2, <2>1, FS_Subset, FS_CardinalityType
<1>4. \A y \in DOMAIN sessions :
        /\ sessions'[y].local_next = sessions[y].local_next
        /\ sessions'[y].next_outbound = sessions[y].next_outbound + Count(y)
  BY ForwardedCounters DEF HandedOutInv
<1>5. PICK aliasOf \in AliasAssignments(waiting) :
        tracks' = Put(tracks, t,
          [held EXCEPT !.downstream_subs =
             Merge(@, [d \in waiting |->
                         [state |-> "Established", forward_desired |-> FALSE,
                          outbound_alias |-> aliasOf[d]]])]
          )
  BY DEF SubscribeOkForwarded
<1> DEFINE answered == [d \in waiting |-> [state |-> "Established", forward_desired |-> FALSE,
                                           outbound_alias |-> aliasOf[d]]]
           route == [held EXCEPT !.downstream_subs = Merge(@, answered)]
<1>6. RouteOK(held) /\ Inherits(held, tracks[t])
  BY <1>1, EstablishLegType, EstablishInherits
<1> HIDE DEF held
<1>7. /\ route.upstream_subs = held.upstream_subs
      /\ route.downstream_subs = Merge(held.downstream_subs, answered)
  BY <1>6 DEF RouteOK
<1>8. tracks' = Put(tracks, t, route) /\ UNCHANGED upstream_request_index
  BY <1>5 DEF SubscribeOkForwarded
<1>9. DOMAIN answered = waiting /\ \A d \in waiting : answered[d].outbound_alias = aliasOf[d]
  OBVIOUS
<1> HIDE DEF answered, route, waiting
<1>10. \A d \in waiting :
         /\ sessions[d[1]].next_outbound <= aliasOf[d]
         /\ aliasOf[d] < sessions[d[1]].next_outbound + Count(d[1])
         /\ \A e \in waiting : d[1] = e[1] /\ aliasOf[d] = aliasOf[e] => d = e
  <2> SUFFICES ASSUME NEW d \in waiting
               PROVE  /\ sessions[d[1]].next_outbound <= aliasOf[d]
                      /\ aliasOf[d] < sessions[d[1]].next_outbound + Count(d[1])
                      /\ \A e \in waiting : d[1] = e[1] /\ aliasOf[d] = aliasOf[e] => d = e
    OBVIOUS
  <2>1. sessions[d[1]].next_outbound \in Nat
    BY <1>1, <1>2
  <2>2. Cardinality({x \in waiting : x[1] = d[1]}) \in Nat
    BY <1>3
  <2> QED BY <2>1, <2>2, AliasAssignmentsFresh
<1> HIDE DEF Count
<1>11. \A y \in DOMAIN sessions :
         /\ sessions[y].local_next <= sessions'[y].local_next
         /\ sessions[y].next_outbound <= sessions'[y].next_outbound
  BY <1>1, <1>3, <1>4
<1>12. tracks'[t] = route /\ t \in DOMAIN tracks'
  BY <1>8 DEF Put
<1>13. ASSUME NEW d \in waiting
       PROVE  tracks'[t].downstream_subs[d].outbound_alias = aliasOf[d]
  BY <1>7, <1>9, <1>12 DEF Merge
<1>14. ASSUME NEW u \in DOMAIN tracks', NEW d \in Established(tracks'[u])
       PROVE  \/ /\ u \in DOMAIN tracks /\ d \in Established(tracks[u])
                 /\ tracks'[u].downstream_subs[d].outbound_alias =
                      tracks[u].downstream_subs[d].outbound_alias
              \/ u = t /\ d \in waiting
  <2>1. CASE u # t
    BY <1>8, <2>1 DEF Put
  <2>2. CASE u = t /\ d \notin waiting
    <3>1. /\ d \in Established(held)
          /\ tracks'[u].downstream_subs[d] = held.downstream_subs[d]
      BY <1>7, <1>9, <1>12, <2>2 DEF Merge, Established, DownstreamIn
    <3> QED BY <1>6, <2>2, <3>1 DEF Inherits
  <2> QED BY <2>1, <2>2
<1>15. AliasesGiven(t, waiting)
  <2>1. ASSUME NEW d \in waiting
        PROVE  /\ d[1] \in DOMAIN sessions
               /\ sessions[d[1]].next_outbound <= tracks'[t].downstream_subs[d].outbound_alias
               /\ tracks'[t].downstream_subs[d].outbound_alias < sessions'[d[1]].next_outbound
    BY <1>2, <1>4, <1>10, <1>13
  <2>2. ASSUME NEW d \in waiting, NEW e \in waiting, d[1] = e[1],
               tracks'[t].downstream_subs[d].outbound_alias =
                 tracks'[t].downstream_subs[e].outbound_alias
        PROVE  d = e
    BY <1>10, <1>13, <2>2
  <2> QED BY <1>14, <2>1, <2>2 DEF AliasesGiven
<1>16. AliasesInv'
  BY <1>11, <1>15, AliasesAdded DEF HandedOutInv
<1>17. ASSUME NEW u \in DOMAIN tracks', NEW x \in LiveLegs(tracks'[u])
       PROVE  LET q == tracks'[u].upstream_subs[x].request_id
              IN /\ <<x, q>> \in DOMAIN upstream_request_index'
                 /\ upstream_request_index'[<<x, q>>] = u
                 /\ \/ q < sessions'[x].local_next
                    \/ /\ u \in DOMAIN tracks /\ x \in LiveLegs(tracks[u])
                       /\ q = tracks[u].upstream_subs[x].request_id
  <2>1. /\ u \in DOMAIN tracks /\ x \in LiveLegs(tracks[u])
        /\ tracks'[u].upstream_subs[x].request_id = tracks[u].upstream_subs[x].request_id
    <3>1. CASE u = t
      <4>1. x \in LiveLegs(held)
        BY <1>7, <1>12, <3>1 DEF LiveLegs
      <4> QED BY <1>6, <1>7, <1>12, <3>1, <4>1 DEF Inherits
    <3>2. CASE u # t
      BY <1>8, <3>2 DEF Put
    <3> QED BY <3>1, <3>2
  <2> QED BY <1>8, <2>1 DEF HandedOutInv, LegsInv, LiveLegsIndexed
<1>18. LegsInv'
  BY <1>11, <1>17, LegsAdded DEF HandedOutInv
<1> QED BY <1>16, <1>18 DEF HandedOutInv

---------------------------------------------------------------------------
(* The theorems.                                                           *)

LEMMA HandleSubscribeHandedOut ==
  ASSUME HandedOutInv, SessionsInv', NEW s \in Sessions, NEW r \in RequestIds,
         NEW t \in Tracks, HandleSubscribe(s, r, t)
  PROVE  HandedOutInv'
<1>1. s \in DOMAIN sessions
  BY DEF HandleSubscribe, Receives
<1>2. \/ UNCHANGED relayVars
      \/ SubscribeJoins(s, r, t) \/ SubscribeFails(s, r, t) \/ SubscribeFansOut(s, r, t)
  BY DEF HandleSubscribe, Refuse
<1> QED BY <1>1, <1>2, UnchangedHandedOut, JoinsHandedOut, FailsHandedOut, FansOutHandedOut

LEMMA HandleSubscribeOkHandedOut ==
  ASSUME HandedOutInv, SessionsInv', NEW p \in Sessions, NEW r \in RequestIds,
         NEW alias \in InboundAliases, HandleSubscribeOk(p, r, alias)
  PROVE  HandedOutInv'
<1>1. CASE UNCHANGED relayVars
  BY <1>1, UnchangedHandedOut
<1>2. CASE ~UNCHANGED relayVars
  <2> DEFINE t == upstream_request_index[<<p, r>>]
  <2>1. AwaitsSubscribeOk(p, r)
        /\ (SubscribeOkDuplicateAlias(p, t, alias) \/ SubscribeOkForwarded(p, t, alias))
    BY <1>2 DEF HandleSubscribeOk, Refuse
  <2>2. /\ t \in DOMAIN tracks /\ p \in DOMAIN tracks[t].upstream_subs
        /\ tracks[t].upstream_subs[p].state = "Pending"
    BY <2>1 DEF AwaitsSubscribeOk
  <2> HIDE DEF t
  <2> QED BY <2>1, <2>2, DuplicateAliasHandedOut, ForwardedHandedOut
<1> QED BY <1>1, <1>2

LEMMA InitHandedOut ==
  ASSUME Init
  PROVE  HandedOutInv
<1>1. tracks = EmptyMap
  BY DEF Init
<1> QED BY <1>1, InitSessions
        DEF HandedOutInv, LegsInv, LiveLegsIndexed, LegIdsBelow, AliasesInv,
            OutboundAliasesDistinct, AliasesBelow, EmptyMap

LEMMA NextHandedOut ==
  ASSUME HandedOutInv, [Next]_vars
  PROVE  HandedOutInv'
<1>0. SessionsInv'
  BY NextSessions DEF HandedOutInv
<1>1. CASE UNCHANGED vars
  BY <1>0, <1>1, UnchangedHandedOut DEF vars, relayVars
<1>2. ASSUME NEW s \in Sessions, SessionEvent(s)
      PROVE  HandedOutInv'
  BY <1>0, <1>2, OnSessionOpenedHandedOut, OnSessionClosedHandedOut, UnchangedHandedOut
     DEF SessionEvent, MessageFromUnknownSession, Refuse
<1>3. ASSUME NEW s \in Sessions, PublisherMessage(s)
      PROVE  HandedOutInv'
  BY <1>0, <1>3, PublishNamespaceHandedOut, HandleSubscribeOkHandedOut, LegEndsHandedOut
     DEF PublisherMessage
<1>4. ASSUME NEW s \in Sessions, SubscriberMessage(s)
      PROVE  HandedOutInv'
  BY <1>0, <1>4, HandleSubscribeHandedOut, UnsubscribeHandedOut DEF SubscriberMessage
<1>5. ASSUME NEW s \in Sessions, NEW alias \in InboundAliases, OnSubscriptionObject(s, alias)
      PROVE  HandedOutInv'
  BY <1>0, <1>5, UnchangedHandedOut DEF OnSubscriptionObject, Refuse
<1> QED BY <1>0, <1>1, <1>2, <1>3, <1>4, <1>5, SetupMessageHandedOut DEF Next

LEMMA HandedOutCorrect == Spec => []HandedOutInv
<1>1. Init => HandedOutInv
  BY InitHandedOut
<1>2. HandedOutInv /\ [Next]_vars => HandedOutInv'
  BY NextHandedOut
<1> QED BY <1>1, <1>2, PTL DEF Spec

\* Whatever a publisher sends about a leg that is still live reaches the route of
\* the leg: no two live legs of a session share a request id.
THEOREM LiveLegsFound == Spec => []LiveLegsIndexed
<1>1. HandedOutInv => LiveLegsIndexed
  BY DEF HandedOutInv, LegsInv
<1> QED BY <1>1, HandedOutCorrect, PTL

\* No subscriber has two established subscriptions under one alias, so it can
\* tell the objects of its tracks apart.
THEOREM AliasesCorrect == Spec => []OutboundAliasesDistinct
<1>1. HandedOutInv => OutboundAliasesDistinct
  BY DEF HandedOutInv, AliasesInv
<1> QED BY <1>1, HandedOutCorrect, PTL

=============================================================================
