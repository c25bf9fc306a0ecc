----------------------------- MODULE RelayIndex -----------------------------
(***************************************************************************)
(* Type correctness of the relay, an inductive invariant as it stands, and *)
(* then that downstream_request_index always leads to exactly the          *)
(* subscriptions that are Pending or Established.  The index alone is not  *)
(* inductive: a new request must not meet an old entry with its id, which  *)
(* holds because every id in a route was spent (DownstreamIdsSpent).       *)
(***************************************************************************)
EXTENDS Relay, FiniteSetTheorems, TLAPS

---------------------------------------------------------------------------
(* What the operators of Maps do to the types of keys and values.          *)

\* Inserting a well-typed entry keeps a map well typed (HashMap::insert).
LEMMA PutType ==
  ASSUME NEW K, NEW V, NEW f, IsMap(f, K, V), NEW k \in K, NEW v \in V
  PROVE  IsMap(Put(f, k, v), K, V)
BY DEF IsMap, Put

\* Removing entries keeps a map well typed (HashMap::remove, retain).
LEMMA DropType ==
  ASSUME NEW K, NEW V, NEW f, IsMap(f, K, V), NEW ks
  PROVE  IsMap(Drop(f, ks), K, V)
BY DEF IsMap, Drop, Restrict

\* Inserting several well-typed entries keeps a map well typed.
LEMMA MergeType ==
  ASSUME NEW K, NEW V, NEW f, NEW g, IsMap(f, K, V), IsMap(g, K, V)
  PROVE  IsMap(Merge(f, g), K, V)
BY DEF IsMap, Merge

\* Replacing the value of a key (HashMap::get_mut).
LEMMA ReplaceType ==
  ASSUME NEW K, NEW V, NEW f, IsMap(f, K, V), NEW k \in DOMAIN f, NEW v \in V
  PROVE  IsMap([f EXCEPT ![k] = v], K, V)
BY DEF IsMap

\* A new map is well typed.
LEMMA EmptyMapType ==
  ASSUME NEW K, NEW V
  PROVE  IsMap(EmptyMap, K, V)
BY DEF IsMap, EmptyMap

---------------------------------------------------------------------------
(* Routes.                                                                 *)

LEMMA NewRouteType == RouteOK(NewRoute)
BY EmptyMapType, FS_EmptySet DEF RouteOK, NewRoute, EmptyMap

\* The route a handler starts from is well typed, new or not.
LEMMA RouteOfType ==
  ASSUME TypeOK, NEW t \in Tracks
  PROVE  RouteOK(RouteOf(t))
BY NewRouteType DEF TypeOK, RoutesOK, RouteOf

\* A subscription request adds one entry to its route.
LEMMA AddDownstreamType ==
  ASSUME NEW route, RouteOK(route), NEW d \in Sessions \X RequestIds,
         NEW sub \in DownstreamSubscription
  PROVE  RouteOK([route EXCEPT !.downstream_subs = Put(@, d, sub)])
<1>1. IsMap(Put(route.downstream_subs, d, sub), Sessions \X RequestIds, DownstreamSubscription)
  BY PutType DEF RouteOK
<1>2. IsFiniteSet(DOMAIN Put(route.downstream_subs, d, sub))
  BY FS_AddElement DEF RouteOK, Put
<1> QED BY <1>1, <1>2 DEF RouteOK

\* Replacing the legs of a route keeps it well typed.
LEMMA SetLegsType ==
  ASSUME NEW route, RouteOK(route), NEW legs, IsMap(legs, Sessions, UpstreamSubscriptionLeg)
  PROVE  RouteOK([route EXCEPT !.upstream_subs = legs])
BY DEF RouteOK

\* Ending legs changes their state only.
LEMMA TerminateLegsType ==
  ASSUME NEW route, RouteOK(route), NEW ps
  PROVE  RouteOK(TerminateLegs(route, ps))
<1> DEFINE legs == [p \in DOMAIN route.upstream_subs |->
              IF p \in ps THEN [route.upstream_subs[p] EXCEPT !.state = "Terminated"]
              ELSE route.upstream_subs[p]]
<1>1. IsMap(legs, Sessions, UpstreamSubscriptionLeg)
  BY DEF RouteOK, IsMap, UpstreamSubscriptionLeg
<1> QED BY <1>1, SetLegsType DEF TerminateLegs

\* Ending subscriptions changes their state only.
LEMMA TerminateDownstreamType ==
  ASSUME NEW route, RouteOK(route), NEW ds
  PROVE  RouteOK(TerminateDownstream(route, ds))
<1> DEFINE subs == [d \in DOMAIN route.downstream_subs |->
              IF d \in ds THEN [route.downstream_subs[d] EXCEPT !.state = "Terminated"]
              ELSE route.downstream_subs[d]]
<1>1. IsMap(subs, Sessions \X RequestIds, DownstreamSubscription)
  BY DEF RouteOK, IsMap, DownstreamSubscription
<1>2. DOMAIN subs = DOMAIN route.downstream_subs
  OBVIOUS
<1> QED BY <1>1, <1>2 DEF TerminateDownstream, RouteOK

\* Changing one route keeps the map of routes well typed.
LEMMA PutRouteType ==
  ASSUME NEW map, RoutesOK(map), NEW t \in Tracks, NEW route, RouteOK(route)
  PROVE  RoutesOK(Put(map, t, route))
BY DEF RoutesOK, Put

LEMMA StoreRouteType ==
  ASSUME TypeOK, NEW t \in Tracks, NEW route, RouteOK(route), NEW empty
  PROVE  RoutesOK(StoreRoute(t, route, empty))
<1>1. RoutesOK(Put(tracks, t, route))
  BY PutRouteType DEF TypeOK
<1>2. RoutesOK(Drop(tracks, {t}))
  BY DEF TypeOK, RoutesOK, Drop, Restrict
<1> QED BY <1>1, <1>2 DEF StoreRoute

---------------------------------------------------------------------------
(* Sessions.                                                               *)

LEMMA NewSessionType ==
  ASSUME NEW role \in Roles
  PROVE  NewSession(role) \in Session
<1>1. EmptyMap \in AliasMaps
  BY DEF EmptyMap, AliasMaps
<1> QED BY <1>1, LimitsAssumption
     DEF Session, NewSession, FirstPeerId, FirstLocalId, FirstAlias

\* Replacing one open session keeps the map of sessions well typed.
LEMMA ChangeSessionType ==
  ASSUME TypeOK, NEW s \in DOMAIN sessions, NEW sess \in Session
  PROVE  IsMap([sessions EXCEPT ![s] = sess], Sessions, Session)
BY DEF TypeOK, IsMap

---------------------------------------------------------------------------
(* Steps.                                                                  *)

\* A handler that returns early changes nothing.
LEMMA UnchangedType ==
  ASSUME TypeOK, UNCHANGED relayVars
  PROVE  TypeOK'
BY DEF TypeOK, relayVars, IsMap, RoutesOK

LEMMA OnSessionOpenedType ==
  ASSUME TypeOK, NEW s \in Sessions, NEW role \in Roles, OnSessionOpened(s, role)
  PROVE  TypeOK'
BY NewSessionType, PutType DEF TypeOK, OnSessionOpened

\* Removing a session from a route removes entries only.
LEMMA RouteWithoutType ==
  ASSUME NEW route, RouteOK(route), NEW s
  PROVE  RouteOK(RouteWithout(route, s))
<1> DEFINE subs == Drop(route.downstream_subs,
                        {d \in DOMAIN route.downstream_subs : d[1] = s})
           legs == Drop(route.upstream_subs, {s})
<1>1. /\ IsMap(subs, Sessions \X RequestIds, DownstreamSubscription)
      /\ IsMap(legs, Sessions, UpstreamSubscriptionLeg)
  BY DropType DEF RouteOK
<1>2. IsFiniteSet(DOMAIN subs)
  BY FS_Subset DEF RouteOK, Drop, Restrict
<1> QED BY <1>1, <1>2 DEF RouteWithout, RouteOK

LEMMA PublishersWithoutType ==
  ASSUME TypeOK, NEW s
  PROVE  IsMap(PublishersWithout(s), Namespaces, SUBSET Sessions)
BY DEF TypeOK, IsMap, PublishersWithout

LEMMA OnSessionClosedType ==
  ASSUME TypeOK, NEW s \in Sessions, OnSessionClosed(s)
  PROVE  TypeOK'
<1> DEFINE left == [t \in DOMAIN tracks |-> RouteWithout(tracks[t], s)]
           idle == {t \in DOMAIN tracks : NoActiveDownstream(left[t])}
           empty == {t \in DOMAIN tracks : /\ DOMAIN left[t].downstream_subs = {}
                                           /\ DOMAIN left[t].upstream_subs = {}}
<1>1. IsMap(sessions', Sessions, Session)
  BY DropType DEF TypeOK, OnSessionClosed
<1>2. IsMap(publishers_by_namespace', Namespaces, SUBSET Sessions)
  BY PublishersWithoutType DEF OnSessionClosed
<1>3. RoutesOK(tracks')
  <2>1. tracks' = [t \in DOMAIN tracks \ empty |->
                     IF t \in idle THEN TerminateLegs(left[t], LiveLegs(left[t]))
                     ELSE left[t]]
    BY DEF OnSessionClosed
  <2>2. \A t \in DOMAIN tracks : RouteOK(left[t])
    BY RouteWithoutType DEF TypeOK, RoutesOK
  <2>3. \A t \in DOMAIN tracks : RouteOK(TerminateLegs(left[t], LiveLegs(left[t])))
    BY <2>2, TerminateLegsType
  <2> HIDE DEF left, idle, empty
  <2> QED BY <2>1, <2>2, <2>3 DEF TypeOK, RoutesOK
<1>4. IsMap(upstream_request_index', Sessions \X Nat, Tracks)
  BY DropType DEF TypeOK, OnSessionClosed
<1>5. IsMap(downstream_request_index', Sessions \X RequestIds, Tracks)
  BY DropType DEF TypeOK, OnSessionClosed
<1> QED BY <1>1, <1>2, <1>3, <1>4, <1>5 DEF TypeOK

\* The messages of setup and session control touch one session at most.
LEMMA SetupMessageType ==
  ASSUME TypeOK, NEW s \in Sessions, SetupMessage(s)
  PROVE  TypeOK'
<1>1. CASE UNCHANGED relayVars
  BY <1>1, UnchangedType
<1>2. ASSUME NEW sess \in Session, s \in DOMAIN sessions,
             sessions' = [sessions EXCEPT ![s] = sess],
             UNCHANGED <<publishers_by_namespace, tracks, upstream_request_index,
                         downstream_request_index>>
      PROVE  TypeOK'
  BY <1>2, ChangeSessionType DEF TypeOK
<1>3. s \in DOMAIN sessions => sessions[s] \in Session
  BY DEF TypeOK, IsMap
<1>4. CASE HandleClientSetup(s)
  <2>1. CASE ~UNCHANGED relayVars
    <3> DEFINE sess == [sessions[s] EXCEPT !.setup = "SetupComplete"]
    <3>1. s \in DOMAIN sessions /\ sess \in Session
      BY <1>3, <1>4 DEF HandleClientSetup, Receives, Session
    <3>2. /\ sessions' = [sessions EXCEPT ![s] = sess]
          /\ UNCHANGED <<publishers_by_namespace, tracks, upstream_request_index,
                         downstream_request_index>>
      BY <1>4, <2>1, <3>1 DEF HandleClientSetup, Refuse, TypeOK, IsMap, Session
    <3> HIDE DEF sess
    <3> QED BY <1>2, <3>1, <3>2
  <2> QED BY <1>1, <2>1
<1>5. ASSUME NEW max \in PeerMaxValues \cup {NoLimit}, HandleServerSetup(s, max)
      PROVE  TypeOK'
  <2>1. CASE ~UNCHANGED relayVars
    <3> DEFINE limit == IF max = NoLimit THEN sessions[s].peer_max_exclusive ELSE max
               sess == [sessions[s] EXCEPT !.setup = "SetupComplete",
                                           !.peer_max_exclusive = limit]
    <3>1. s \in DOMAIN sessions
      BY <1>5 DEF HandleServerSetup, Receives
    <3>2. limit \in Nat
      BY <1>3, <1>5, <3>1, LimitsAssumption DEF Session
    <3>3. sess \in Session
      BY <1>3, <3>1, <3>2 DEF Session
    <3>4. /\ sessions' = [sessions EXCEPT ![s] = sess]
          /\ UNCHANGED <<publishers_by_namespace, tracks, upstream_request_index,
                         downstream_request_index>>
      BY <1>5, <2>1, <3>1 DEF HandleServerSetup, Refuse, TypeOK, IsMap, Session
    <3> HIDE DEF sess
    <3> QED BY <1>2, <3>1, <3>3, <3>4
  <2> QED BY <1>1, <2>1
<1>6. ASSUME NEW max \in PeerMaxValues, HandleMaxRequestId(s, max)
      PROVE  TypeOK'
  <2>1. CASE ~UNCHANGED relayVars
    <3> DEFINE sess == [sessions[s] EXCEPT !.peer_max_exclusive = max + 1]
    <3>1. s \in DOMAIN sessions /\ sess \in Session
      BY <1>3, <1>6, LimitsAssumption DEF HandleMaxRequestId, Receives, Session
    <3>2. /\ sessions' = [sessions EXCEPT ![s] = sess]
          /\ UNCHANGED <<publishers_by_namespace, tracks, upstream_request_index,
                         downstream_request_index>>
      BY <1>6, <2>1, <3>1 DEF HandleMaxRequestId, Refuse, TypeOK, IsMap, Session
    <3> HIDE DEF sess
    <3> QED BY <1>2, <3>1, <3>2
  <2> QED BY <1>1, <2>1
<1>7. CASE HandleGoaway(s)
  <2>1. CASE ~UNCHANGED relayVars
    <3> DEFINE sess == [sessions[s] EXCEPT !.goaway_received = TRUE]
    <3>1. s \in DOMAIN sessions /\ sess \in Session
      BY <1>3, <1>7 DEF HandleGoaway, Receives, Session
    <3>2. /\ sessions' = [sessions EXCEPT ![s] = sess]
          /\ UNCHANGED <<publishers_by_namespace, tracks, upstream_request_index,
                         downstream_request_index>>
      BY <1>7, <2>1, <3>1 DEF HandleGoaway, Refuse, TypeOK, IsMap, Session
    <3> HIDE DEF sess
    <3> QED BY <1>2, <3>1, <3>2
  <2> QED BY <1>1, <2>1
<1>8. CASE HandleRequestsBlocked(s) \/ HandleOther(s)
  BY <1>1, <1>8 DEF HandleRequestsBlocked, HandleOther, Ignore, Refuse
<1> QED BY <1>4, <1>5, <1>6, <1>7, <1>8 DEF SetupMessage

---------------------------------------------------------------------------
(* PUBLISH_NAMESPACE.                                                      *)

\* An allocation gives ids to some of the tracks that want one.
LEMMA AllocationsType ==
  ASSUME NEW sess \in Session, NEW wanting, IsFiniteSet(wanting),
         NEW idOf \in Allocations(sess, wanting)
  PROVE  /\ DOMAIN idOf \subseteq wanting
         /\ idOf \in [DOMAIN idOf -> Nat]
         /\ IsFiniteSet(DOMAIN idOf)
<1> DEFINE Id(k) == sess.local_next + 2 * (k - 1)
           ids == {Id(k) : k \in {j \in 1..Cardinality(wanting) : Id(j) < sess.peer_max_exclusive}}
<1>1. PICK served \in SUBSET wanting : idOf \in Bijection(served, ids)
  BY DEF Allocations
<1>2. ids \subseteq Nat
  <2>1. Cardinality(wanting) \in Nat
    BY FS_CardinalityType
  <2>2. sess.local_next \in Nat
    BY DEF Session
  <2>3. \A k \in 1..Cardinality(wanting) : Id(k) \in Nat
    BY <2>1, <2>2
  <2> QED BY <2>3
<1>3. idOf \in [served -> ids]
  BY <1>1 DEF Bijection, Injection
<1>4. IsFiniteSet(served)
  BY FS_Subset
<1> HIDE DEF ids
<1> QED BY <1>2, <1>3, <1>4

LEMMA HandlePublishNamespaceType ==
  ASSUME TypeOK, NEW s \in Sessions, NEW r \in RequestIds, NEW ns \in Namespaces,
         HandlePublishNamespace(s, r, ns)
  PROVE  TypeOK'
<1>1. CASE UNCHANGED relayVars
  BY <1>1, UnchangedType
<1>2. CASE ~UNCHANGED relayVars
  <2>1. s \in DOMAIN sessions /\ sessions[s] \in Session
    BY DEF HandlePublishNamespace, Receives, TypeOK, IsMap
  <2>2. PICK idOf \in Allocations(sessions[s], TracksWanting(s, ns)) :
       /\ sessions' = [sessions EXCEPT
            ![s].peer_next_expected = r + 2,
            ![s].published_namespaces = @ \cup {ns},
            ![s].local_next = @ + 2 * Cardinality(DOMAIN idOf)]
       /\ publishers_by_namespace' =
            Put(publishers_by_namespace, ns,
                {s} \cup IF ns \in DOMAIN publishers_by_namespace
                         THEN publishers_by_namespace[ns] ELSE {})
       /\ tracks' = [t \in DOMAIN tracks |->
            IF t \in DOMAIN idOf
            THEN [tracks[t] EXCEPT !.upstream_subs = Put(@, s, NewLeg(idOf[t]))]
            ELSE tracks[t]]
       /\ upstream_request_index' =
            Merge(upstream_request_index,
                  [k \in {<<s, idOf[t]>> : t \in DOMAIN idOf} |->
                     CHOOSE t \in DOMAIN idOf : idOf[t] = k[2]])
       /\ UNCHANGED downstream_request_index
    BY <1>2 DEF HandlePublishNamespace, Refuse
  <2>3. TracksWanting(s, ns) \subseteq Tracks /\ IsFiniteSet(TracksWanting(s, ns))
    BY FiniteAssumption, FS_Subset DEF TracksWanting, TypeOK, RoutesOK
  <2>4. /\ DOMAIN idOf \subseteq Tracks
        /\ idOf \in [DOMAIN idOf -> Nat]
        /\ IsFiniteSet(DOMAIN idOf)
    BY <2>1, <2>3, AllocationsType
  <2>5. IsMap(sessions', Sessions, Session)
    <3> DEFINE next == sessions[s].local_next + 2 * Cardinality(DOMAIN idOf)
               sess == [sessions[s] EXCEPT
                          !.peer_next_expected = r + 2,
                          !.published_namespaces = @ \cup {ns},
                          !.local_next = next]
    <3>1. next \in Nat /\ r + 2 \in Nat
      BY <2>1, <2>4, FS_CardinalityType, LimitsAssumption DEF Session
    <3>2. sess \in Session
      BY <2>1, <3>1 DEF Session
    <3>3. sessions' = [sessions EXCEPT ![s] = sess]
      BY <2>1, <2>2 DEF TypeOK, IsMap, Session
    <3> QED BY <2>1, <3>2, <3>3, ChangeSessionType
  <2>6. IsMap(publishers_by_namespace', Namespaces, SUBSET Sessions)
    <3> DEFINE listed == {s} \cup IF ns \in DOMAIN publishers_by_namespace
                                  THEN publishers_by_namespace[ns] ELSE {}
    <3>1. listed \in SUBSET Sessions
      BY DEF TypeOK, IsMap
    <3> QED BY <2>2, <3>1, PutType DEF TypeOK
  <2>7. RoutesOK(tracks')
    <3>1. \A t \in DOMAIN idOf : NewLeg(idOf[t]) \in UpstreamSubscriptionLeg
      BY <2>4 DEF NewLeg, UpstreamSubscriptionLeg
    <3>2. ASSUME NEW t \in DOMAIN tracks, t \in DOMAIN idOf
          PROVE  RouteOK([tracks[t] EXCEPT !.upstream_subs = Put(@, s, NewLeg(idOf[t]))])
      <4>1. RouteOK(tracks[t])
        BY DEF TypeOK, RoutesOK
      <4>2. IsMap(Put(tracks[t].upstream_subs, s, NewLeg(idOf[t])), Sessions,
                  UpstreamSubscriptionLeg)
        BY <3>1, <3>2, <4>1, PutType DEF RouteOK
      <4> QED BY <4>1, <4>2, SetLegsType
    <3> QED BY <2>2, <3>2 DEF TypeOK, RoutesOK
  <2>8. IsMap(upstream_request_index', Sessions \X Nat, Tracks)
    <3> DEFINE new == [k \in {<<s, idOf[t]>> : t \in DOMAIN idOf} |->
                         CHOOSE t \in DOMAIN idOf : idOf[t] = k[2]]
    <3>1. DOMAIN new \subseteq Sessions \X Nat
      BY <2>4
    <3>2. ASSUME NEW k \in DOMAIN new PROVE new[k] \in Tracks
      <4>1. \E t \in DOMAIN idOf : idOf[t] = k[2]
        OBVIOUS
      <4> QED BY <2>4, <4>1
    <3>3. IsMap(new, Sessions \X Nat, Tracks)
      BY <3>1, <3>2 DEF IsMap
    <3> QED BY <2>2, <3>3, MergeType DEF TypeOK
  <2> QED BY <2>2, <2>5, <2>6, <2>7, <2>8 DEF TypeOK
<1> QED BY <1>1, <1>2

---------------------------------------------------------------------------
(* SUBSCRIBE.                                                              *)

LEMMA SubscribeJoinsType ==
  ASSUME TypeOK, NEW s \in DOMAIN sessions, NEW r \in RequestIds, NEW t \in Tracks,
         SubscribeJoins(s, r, t)
  PROVE  TypeOK'
<1> DEFINE alias == sessions[s].next_outbound
           joined == [state |-> "Established", forward_desired |-> FALSE,
                      outbound_alias |-> alias]
<1>1. s \in Sessions /\ sessions[s] \in Session
  BY DEF TypeOK, IsMap
<1>2. joined \in DownstreamSubscription
  BY <1>1 DEF Session, DownstreamSubscription
<1>3. IsMap(sessions', Sessions, Session)
  <2> DEFINE sess == [sessions[s] EXCEPT !.peer_next_expected = r + 2,
                                         !.next_outbound = alias + 1]
  <2>1. r + 2 \in Nat /\ alias + 1 \in Nat \ {0}
    BY <1>1, LimitsAssumption DEF Session
  <2>2. sess \in Session
    BY <1>1, <2>1 DEF Session
  <2>3. sessions' = [sessions EXCEPT ![s] = sess]
    BY <1>1 DEF SubscribeJoins, TypeOK, IsMap, Session
  <2> QED BY <2>2, <2>3, ChangeSessionType
<1>4. RoutesOK(tracks')
  <2>1. RouteOK([RouteOf(t) EXCEPT !.downstream_subs = Put(@, <<s, r>>, joined)])
    BY <1>1, <1>2, RouteOfType, AddDownstreamType
  <2>2. tracks' = Put(tracks, t, [RouteOf(t) EXCEPT !.downstream_subs = Put(@, <<s, r>>, joined)])
    BY DEF SubscribeJoins
  <2> QED BY <2>1, <2>2, PutRouteType DEF TypeOK
<1>5. IsMap(downstream_request_index', Sessions \X RequestIds, Tracks)
  BY <1>1, PutType DEF SubscribeJoins, TypeOK
<1> QED BY <1>3, <1>4, <1>5 DEF SubscribeJoins, TypeOK

LEMMA SubscribeFailsType ==
  ASSUME TypeOK, NEW s \in DOMAIN sessions, NEW r \in RequestIds, NEW t \in Tracks,
         SubscribeFails(s, r, t)
  PROVE  TypeOK'
<1> DEFINE refused == [NewDownstream EXCEPT !.state = "Terminated"]
           route == [RouteOf(t) EXCEPT !.downstream_subs = Put(@, <<s, r>>, refused)]
           empty == NoActiveDownstream(route) /\ DOMAIN route.upstream_subs = {}
<1>1. s \in Sessions /\ sessions[s] \in Session
  BY DEF TypeOK, IsMap
<1>2. refused \in DownstreamSubscription
  BY DEF NewDownstream, DownstreamSubscription
<1>3. IsMap(sessions', Sessions, Session)
  <2> DEFINE sess == [sessions[s] EXCEPT !.peer_next_expected = r + 2]
  <2>1. sess \in Session
    BY <1>1, LimitsAssumption DEF Session
  <2>2. sessions' = [sessions EXCEPT ![s] = sess]
    BY <1>1 DEF SubscribeFails, TypeOK, IsMap, Session
  <2> QED BY <2>1, <2>2, ChangeSessionType
<1>4. RoutesOK(tracks')
  <2>1. RouteOK(route)
    BY <1>1, <1>2, RouteOfType, AddDownstreamType
  <2>2. tracks' = StoreRoute(t, route, empty)
    BY DEF SubscribeFails
  <2> HIDE DEF route, empty
  <2> QED BY <2>1, <2>2, StoreRouteType
<1>5. IsMap(downstream_request_index', Sessions \X RequestIds, Tracks)
  BY DropType DEF SubscribeFails, TypeOK
<1> QED BY <1>3, <1>4, <1>5 DEF SubscribeFails, TypeOK

LEMMA SubscribeFansOutType ==
  ASSUME TypeOK, NEW s \in DOMAIN sessions, NEW r \in RequestIds, NEW t \in Tracks,
         SubscribeFansOut(s, r, t)
  PROVE  TypeOK'
<1> DEFINE targets == FanOutTargets(t)
           route == RouteOf(t)
           Id(p) == sessions[p].local_next
           subs == Put(route.downstream_subs, <<s, r>>, NewDownstream)
           legs == Merge(route.upstream_subs, [p \in targets |-> NewLeg(Id(p))])
<1>1. s \in Sessions /\ \A x \in DOMAIN sessions : x \in Sessions /\ sessions[x] \in Session
  BY DEF TypeOK, IsMap
<1>2. targets \subseteq DOMAIN sessions
  BY DEF FanOutTargets
<1>3. \A p \in targets : p \in Sessions /\ Id(p) \in Nat
  BY <1>1, <1>2 DEF Session
<1>4. IsMap(sessions', Sessions, Session)
  <2> DEFINE expected(x) == IF x = s THEN r + 2 ELSE sessions[x].peer_next_expected
             next(x) == IF x \in targets THEN sessions[x].local_next + 2
                        ELSE sessions[x].local_next
             sess(x) == [sessions[x] EXCEPT !.peer_next_expected = expected(x),
                                            !.local_next = next(x)]
  <2>1. \A x \in DOMAIN sessions : expected(x) \in Nat /\ next(x) \in Nat
    BY <1>1, LimitsAssumption DEF Session
  <2>2. \A x \in DOMAIN sessions : sess(x) \in Session
    <3> HIDE DEF expected, next
    <3> QED BY <1>1, <2>1 DEF Session
  <2>3. sessions' = [x \in DOMAIN sessions |-> sess(x)]
    BY <1>1 DEF SubscribeFansOut, Session
  <2> HIDE DEF sess
  <2> QED BY <1>1, <2>2, <2>3 DEF IsMap
<1>5. RoutesOK(tracks')
  <2>1. RouteOK(route)
    BY RouteOfType
  <2>2. IsMap(subs, Sessions \X RequestIds, DownstreamSubscription)
    BY <1>1, <2>1, PutType DEF NewDownstream, DownstreamSubscription, RouteOK
  <2>3. IsFiniteSet(DOMAIN subs)
    BY <2>1, FS_AddElement DEF RouteOK, Put
  <2>4. IsMap([p \in targets |-> NewLeg(Id(p))], Sessions, UpstreamSubscriptionLeg)
    BY <1>3 DEF NewLeg, UpstreamSubscriptionLeg, IsMap
  <2>5. IsMap(legs, Sessions, UpstreamSubscriptionLeg)
    BY <2>1, <2>4, MergeType DEF RouteOK
  <2>6. RouteOK([downstream_subs |-> subs, upstream_subs |-> legs])
    BY <2>2, <2>3, <2>5 DEF RouteOK
  <2>7. tracks' = Put(tracks, t, [downstream_subs |-> subs, upstream_subs |-> legs])
    BY DEF SubscribeFansOut
  <2> QED BY <2>6, <2>7, PutRouteType DEF TypeOK
<1>6. IsMap(upstream_request_index', Sessions \X Nat, Tracks)
  <2>1. IsMap([k \in {<<p, Id(p)>> : p \in targets} |-> t], Sessions \X Nat, Tracks)
    BY <1>3 DEF IsMap
  <2> QED BY <2>1, MergeType DEF SubscribeFansOut, TypeOK
<1>7. IsMap(downstream_request_index', Sessions \X RequestIds, Tracks)
  BY <1>1, PutType DEF SubscribeFansOut, TypeOK
<1> QED BY <1>4, <1>5, <1>6, <1>7 DEF SubscribeFansOut, TypeOK

LEMMA HandleSubscribeType ==
  ASSUME TypeOK, NEW s \in Sessions, NEW r \in RequestIds, NEW t \in Tracks,
         HandleSubscribe(s, r, t)
  PROVE  TypeOK'
BY UnchangedType, SubscribeJoinsType, SubscribeFailsType, SubscribeFansOutType
   DEF HandleSubscribe, Receives, Refuse

---------------------------------------------------------------------------
(* SUBSCRIBE_OK.                                                           *)

\* A handler that found the route of a request works on a well-typed route.
LEMMA IndexedRouteType ==
  ASSUME TypeOK, NEW k \in DOMAIN upstream_request_index,
         upstream_request_index[k] \in DOMAIN tracks
  PROVE  /\ upstream_request_index[k] \in Tracks
         /\ RouteOK(tracks[upstream_request_index[k]])
BY DEF TypeOK, IsMap, RoutesOK

LEMMA EstablishLegType ==
  ASSUME NEW route, RouteOK(route), NEW p \in DOMAIN route.upstream_subs,
         NEW alias \in InboundAliases
  PROVE  RouteOK(EstablishLeg(route, p, alias))
<1> DEFINE leg == [route.upstream_subs[p] EXCEPT !.state = "Established",
                                                 !.inbound_alias = alias]
           legs == [route.upstream_subs EXCEPT ![p] = leg]
<1>1. route.upstream_subs[p] \in UpstreamSubscriptionLeg
  BY DEF RouteOK, IsMap
<1>2. leg \in UpstreamSubscriptionLeg
  BY <1>1 DEF UpstreamSubscriptionLeg
<1>3. IsMap(legs, Sessions, UpstreamSubscriptionLeg)
  BY <1>2 DEF RouteOK, IsMap
<1>4. EstablishLeg(route, p, alias) = [route EXCEPT !.upstream_subs = legs]
  BY <1>1 DEF EstablishLeg, RouteOK, IsMap, UpstreamSubscriptionLeg
<1> QED BY <1>3, <1>4, SetLegsType

\* Aliases handed out for waiting subscriptions are positive.
LEMMA AliasAssignmentsType ==
  ASSUME TypeOK, NEW ds, IsFiniteSet(ds), \A d \in ds : d[1] \in DOMAIN sessions,
         NEW f \in AliasAssignments(ds)
  PROVE  f \in [ds -> Nat \ {0}]
<1> DEFINE Count(s) == Cardinality({d \in ds : d[1] = s})
           Free(s) == sessions[s].next_outbound .. sessions[s].next_outbound + Count(s) - 1
<1>1. \A s \in DOMAIN sessions : sessions[s].next_outbound \in Nat \ {0}
  BY DEF TypeOK, IsMap, Session
<1>2. \A s : Count(s) \in Nat
  BY FS_Subset, FS_CardinalityType
<1>3. \A s \in DOMAIN sessions : Free(s) \subseteq Nat \ {0}
  <2> HIDE DEF Count
  <2> QED BY <1>1, <1>2
<1>4. f \in [ds -> UNION {Free(d[1]) : d \in ds}] /\ \A d \in ds : f[d] \in Free(d[1])
  BY DEF AliasAssignments
<1> HIDE DEF Free
<1> QED BY <1>3, <1>4

LEMMA AwaitingSubscribersType ==
  ASSUME TypeOK, NEW t \in DOMAIN tracks
  PROVE  /\ AwaitingSubscribers(t) \subseteq DOMAIN tracks[t].downstream_subs
         /\ IsFiniteSet(AwaitingSubscribers(t))
         /\ \A d \in AwaitingSubscribers(t) : d[1] \in DOMAIN sessions
<1>1. IsFiniteSet(DOMAIN tracks[t].downstream_subs)
  BY DEF TypeOK, RoutesOK, RouteOK
<1>2. AwaitingSubscribers(t) \subseteq DOMAIN tracks[t].downstream_subs
  BY DEF AwaitingSubscribers, DownstreamIn
<1> QED BY <1>1, <1>2, FS_Subset DEF AwaitingSubscribers

LEMMA SubscribeOkDuplicateAliasType ==
  ASSUME TypeOK, NEW t \in DOMAIN tracks, NEW p \in DOMAIN tracks[t].upstream_subs,
         NEW alias \in InboundAliases, SubscribeOkDuplicateAlias(p, t, alias)
  PROVE  TypeOK'
<1>1. t \in Tracks /\ RouteOK(EstablishLeg(tracks[t], p, alias))
  BY EstablishLegType DEF TypeOK, RoutesOK
<1>2. RoutesOK(tracks')
  BY <1>1, PutRouteType DEF SubscribeOkDuplicateAlias, TypeOK
<1> QED BY <1>2 DEF SubscribeOkDuplicateAlias, TypeOK

LEMMA SubscribeOkForwardedType ==
  ASSUME TypeOK, NEW t \in DOMAIN tracks, NEW p \in DOMAIN tracks[t].upstream_subs,
         NEW alias \in InboundAliases, SubscribeOkForwarded(p, t, alias)
  PROVE  TypeOK'
<1> DEFINE waiting == AwaitingSubscribers(t)
           Count(s) == Cardinality({d \in waiting : d[1] = s})
           route == EstablishLeg(tracks[t], p, alias)
<1>1. PICK aliasOf \in AliasAssignments(waiting) :
       /\ sessions' =
            [s \in DOMAIN sessions |->
               [sessions[s] EXCEPT
                  !.inbound_aliases = IF s = p THEN Put(@, alias, t) ELSE @,
                  !.next_outbound = @ + Count(s)]]
       /\ tracks' = Put(tracks, t,
            [route EXCEPT !.downstream_subs =
               Merge(@, [d \in waiting |->
                           [state |-> "Established", forward_desired |-> FALSE,
                            outbound_alias |-> aliasOf[d]]])])
       /\ UNCHANGED <<publishers_by_namespace, upstream_request_index,
                      downstream_request_index>>
  BY DEF SubscribeOkForwarded
<1>2. t \in Tracks /\ RouteOK(tracks[t])
  BY DEF TypeOK, RoutesOK
<1>3. IsMap(sessions', Sessions, Session)
  <2> DEFINE bound(s) == IF s = p THEN Put(sessions[s].inbound_aliases, alias, t)
                         ELSE sessions[s].inbound_aliases
             next(s) == sessions[s].next_outbound + Count(s)
             sess(s) == [sessions[s] EXCEPT !.inbound_aliases = bound(s),
                                            !.next_outbound = next(s)]
  <2>1. \A s \in DOMAIN sessions : s \in Sessions /\ sessions[s] \in Session
    BY DEF TypeOK, IsMap
  <2>2. \A s : Count(s) \in Nat
    BY AwaitingSubscribersType, FS_Subset, FS_CardinalityType
  <2>3. \A s \in DOMAIN sessions : next(s) \in Nat \ {0}
    <3> HIDE DEF Count
    <3> QED BY <2>1, <2>2 DEF Session
  <2>4. ASSUME NEW s \in DOMAIN sessions
        PROVE  bound(s) \in AliasMaps
    <3>1. PICK A \in SUBSET InboundAliases : sessions[s].inbound_aliases \in [A -> Tracks]
      BY <2>1 DEF Session, AliasMaps
    <3>2. Put(sessions[s].inbound_aliases, alias, t) \in [A \cup {alias} -> Tracks]
      BY <1>2, <3>1 DEF Put
    <3>3. A \cup {alias} \in SUBSET InboundAliases
      OBVIOUS
    <3> QED BY <3>1, <3>2, <3>3 DEF AliasMaps
  <2>5. \A s \in DOMAIN sessions : sess(s) \in Session
    <3> HIDE DEF bound, next
    <3> QED BY <2>1, <2>3, <2>4 DEF Session
  <2>6. sessions' = [s \in DOMAIN sessions |-> sess(s)]
    BY <1>1, <2>1 DEF Session
  <2> HIDE DEF sess
  <2> QED BY <2>1, <2>5, <2>6 DEF IsMap
<1>4. RoutesOK(tracks')
  <2> DEFINE accepted == [d \in waiting |->
                            [state |-> "Established", forward_desired |-> FALSE,
                             outbound_alias |-> aliasOf[d]]]
             subs == Merge(tracks[t].downstream_subs, accepted)
  <2>1. RouteOK(route)
    BY <1>2, EstablishLegType
  <2>2. route.downstream_subs = tracks[t].downstream_subs
    BY <1>2 DEF EstablishLeg, RouteOK
  <2>3. aliasOf \in [waiting -> Nat \ {0}]
    <3> HIDE DEF waiting
    <3> QED BY AwaitingSubscribersType, AliasAssignmentsType DEF waiting
  <2>4. IsMap(accepted, Sessions \X RequestIds, DownstreamSubscription)
    BY <1>2, <2>3, AwaitingSubscribersType DEF IsMap, DownstreamSubscription, RouteOK
  <2>5. IsMap(subs, Sessions \X RequestIds, DownstreamSubscription)
    BY <1>2, <2>4, MergeType DEF RouteOK
  <2>6. DOMAIN subs = DOMAIN tracks[t].downstream_subs
    BY AwaitingSubscribersType DEF Merge
  <2>7. RouteOK([route EXCEPT !.downstream_subs = subs])
    BY <1>2, <2>1, <2>5, <2>6 DEF RouteOK
  <2>8. tracks' = Put(tracks, t, [route EXCEPT !.downstream_subs = subs])
    BY <1>1, <2>1, <2>2 DEF RouteOK
  <2> HIDE DEF subs, route
  <2> QED BY <1>2, <2>7, <2>8, PutRouteType DEF TypeOK
<1> QED BY <1>1, <1>3, <1>4 DEF TypeOK

LEMMA HandleSubscribeOkType ==
  ASSUME TypeOK, NEW p \in Sessions, NEW r \in RequestIds, NEW alias \in InboundAliases,
         HandleSubscribeOk(p, r, alias)
  PROVE  TypeOK'
BY UnchangedType, SubscribeOkDuplicateAliasType, SubscribeOkForwardedType
   DEF HandleSubscribeOk, Refuse, AwaitsSubscribeOk

---------------------------------------------------------------------------
(* The end of subscriptions.                                               *)

LEMMA HandleRequestErrorType ==
  ASSUME TypeOK, NEW p \in Sessions, NEW r \in RequestIds, HandleRequestError(p, r)
  PROVE  TypeOK'
<1>1. CASE UNCHANGED relayVars
  BY <1>1, UnchangedType
<1>2. CASE ~UNCHANGED relayVars
  <2> DEFINE t == upstream_request_index[<<p, r>>]
             route == TerminateLegs(tracks[t], {p})
             failed == IF AllUpstreamTerminated(route)
                       THEN DownstreamIn(route, {"Pending"}) ELSE {}
             left == TerminateDownstream(route, failed)
  <2>1. /\ KnownUpstream(p, r)
        /\ tracks' = StoreRoute(t, left, /\ AllUpstreamTerminated(route)
                                         /\ NoActiveDownstream(left))
        /\ upstream_request_index' = Drop(upstream_request_index, {<<p, r>>})
        /\ downstream_request_index' = Drop(downstream_request_index, failed)
        /\ UNCHANGED <<sessions, publishers_by_namespace>>
    BY <1>2 DEF HandleRequestError, Refuse, Ignore
  <2>2. t \in Tracks /\ RouteOK(left)
    BY <2>1, IndexedRouteType, TerminateLegsType, TerminateDownstreamType DEF KnownUpstream
  <2> HIDE DEF t, left
  <2> QED BY <2>1, <2>2, StoreRouteType, DropType DEF TypeOK
<1> QED BY <1>1, <1>2

LEMMA HandlePublishDoneType ==
  ASSUME TypeOK, NEW p \in Sessions, NEW r \in RequestIds, HandlePublishDone(p, r)
  PROVE  TypeOK'
<1>1. CASE UNCHANGED relayVars
  BY <1>1, UnchangedType
<1>2. CASE ~UNCHANGED relayVars
  <2> DEFINE t == upstream_request_index[<<p, r>>]
             route == TerminateLegs(tracks[t], {p})
             done == DownstreamIn(route, {"Established"})
             failed == IF AllUpstreamTerminated(route)
                       THEN DownstreamIn(route, {"Pending"}) ELSE {}
             left == TerminateDownstream(route, done \cup failed)
  <2>1. /\ KnownUpstream(p, r)
        /\ tracks' = StoreRoute(t, left, /\ NoActiveDownstream(left)
                                         /\ LiveLegs(left) = {})
        /\ upstream_request_index' = Drop(upstream_request_index, {<<p, r>>})
        /\ downstream_request_index' = Drop(downstream_request_index, done \cup failed)
        /\ UNCHANGED <<sessions, publishers_by_namespace>>
    BY <1>2 DEF HandlePublishDone, Refuse, Ignore
  <2>2. t \in Tracks /\ RouteOK(left)
    BY <2>1, IndexedRouteType, TerminateLegsType, TerminateDownstreamType DEF KnownUpstream
  <2> HIDE DEF t, left
  <2> QED BY <2>1, <2>2, StoreRouteType, DropType DEF TypeOK
<1> QED BY <1>1, <1>2

LEMMA HandleUnsubscribeType ==
  ASSUME TypeOK, NEW s \in Sessions, NEW r \in RequestIds, HandleUnsubscribe(s, r)
  PROVE  TypeOK'
<1>1. CASE UNCHANGED relayVars
  BY <1>1, UnchangedType
<1>2. CASE ~UNCHANGED relayVars
  <2> DEFINE t == downstream_request_index[<<s, r>>]
             route == TerminateDownstream(tracks[t], {<<s, r>>})
             last == NoActiveDownstream(route)
             ended == IF last THEN LiveLegs(route) ELSE {}
             keys == {<<p, route.upstream_subs[p].request_id>> : p \in ended}
  <2>1. /\ t \in DOMAIN tracks
        /\ tracks' = StoreRoute(t, route, last)
        /\ downstream_request_index' = Drop(downstream_request_index, {<<s, r>>})
        /\ upstream_request_index' = Drop(upstream_request_index, keys)
        /\ UNCHANGED <<sessions, publishers_by_namespace>>
    BY <1>2 DEF HandleUnsubscribe, Refuse, Ignore
  <2>2. t \in Tracks /\ RouteOK(route)
    BY <2>1, TerminateDownstreamType DEF TypeOK, RoutesOK
  <2> HIDE DEF t, route, keys
  <2> QED BY <2>1, <2>2, StoreRouteType, DropType DEF TypeOK
<1> QED BY <1>1, <1>2

---------------------------------------------------------------------------

LEMMA InitType ==
  ASSUME Init
  PROVE  TypeOK
BY EmptyMapType DEF Init, TypeOK, RoutesOK, EmptyMap

\* One step of the relay, whatever it is, keeps every map well typed.
LEMMA NextType ==
  ASSUME TypeOK, [Next]_vars
  PROVE  TypeOK'
<1>1. CASE UNCHANGED vars
  BY <1>1, UnchangedType DEF vars, relayVars
<1>2. ASSUME NEW s \in Sessions, SessionEvent(s)
      PROVE  TypeOK'
  BY <1>2, OnSessionOpenedType, OnSessionClosedType, UnchangedType
     DEF SessionEvent, MessageFromUnknownSession, Refuse
<1>3. ASSUME NEW s \in Sessions, PublisherMessage(s)
      PROVE  TypeOK'
  BY <1>3, HandlePublishNamespaceType, HandleSubscribeOkType, HandleRequestErrorType,
     HandlePublishDoneType DEF PublisherMessage
<1>4. ASSUME NEW s \in Sessions, SubscriberMessage(s)
      PROVE  TypeOK'
  BY <1>4, HandleSubscribeType, HandleUnsubscribeType DEF SubscriberMessage
<1>5. ASSUME NEW s \in Sessions, NEW alias \in InboundAliases, OnSubscriptionObject(s, alias)
      PROVE  TypeOK'
  BY <1>5, UnchangedType DEF OnSubscriptionObject, Refuse
<1> QED BY <1>1, <1>2, <1>3, <1>4, <1>5, SetupMessageType DEF Next

\* For every number of peers, tracks, namespaces and request ids, and for peers
\* that send any message at any time, the relay's maps stay well typed: each
\* lookup in relay.rs that is followed by unwrap or an index finds what it expects.
THEOREM TypeCorrect == Spec => []TypeOK
<1>1. Init => TypeOK
  BY InitType
<1>2. TypeOK /\ [Next]_vars => TypeOK'
  BY NextType
<1> QED BY <1>1, <1>2, PTL DEF Spec

---------------------------------------------------------------------------
(* The index of subscribers.                                               *)

Active(route) == DownstreamIn(route, {"Pending", "Established"})

\* The ids of all subscriptions in the routes are below the next id their session
\* is expected to use.
DownstreamIdsSpent ==
  \A t \in DOMAIN tracks : \A d \in DOMAIN tracks[t].downstream_subs :
    d[1] \in DOMAIN sessions /\ d[2] < sessions[d[1]].peer_next_expected

DownstreamInv == TypeOK /\ DownstreamIndexExact /\ DownstreamIdsSpent

---------------------------------------------------------------------------
(* Routes and their active subscriptions.                                  *)

LEMMA ActiveNewRoute == Active(NewRoute) = {} /\ DOMAIN NewRoute.downstream_subs = {}
BY DEF Active, DownstreamIn, NewRoute, EmptyMap

\* Ending subscriptions takes them, and no others, out of the active ones.
LEMMA ActiveTerminateDownstream ==
  ASSUME NEW route, RouteOK(route), NEW ds
  PROVE  /\ Active(TerminateDownstream(route, ds)) = Active(route) \ ds
         /\ DOMAIN TerminateDownstream(route, ds).downstream_subs = DOMAIN route.downstream_subs
<1> DEFINE subs == [d \in DOMAIN route.downstream_subs |->
              IF d \in ds THEN [route.downstream_subs[d] EXCEPT !.state = "Terminated"]
              ELSE route.downstream_subs[d]]
<1>1. TerminateDownstream(route, ds).downstream_subs = subs
  BY DEF TerminateDownstream, RouteOK
<1>2. \A d \in DOMAIN route.downstream_subs : route.downstream_subs[d] \in DownstreamSubscription
  BY DEF RouteOK, IsMap
<1>3. \A d \in DOMAIN subs :
        subs[d].state = IF d \in ds THEN "Terminated" ELSE route.downstream_subs[d].state
  BY <1>2 DEF DownstreamSubscription
<1> HIDE DEF subs
<1>4. DOMAIN subs = DOMAIN route.downstream_subs
  BY DEF subs
<1> QED BY <1>1, <1>3, <1>4 DEF Active, DownstreamIn

\* Ending or establishing legs leaves the subscriptions alone.
LEMMA LegsLeaveDownstream ==
  ASSUME NEW route, RouteOK(route)
  PROVE  /\ \A ps : TerminateLegs(route, ps).downstream_subs = route.downstream_subs
         /\ \A p, alias : EstablishLeg(route, p, alias).downstream_subs = route.downstream_subs
BY DEF TerminateLegs, EstablishLeg, RouteOK

---------------------------------------------------------------------------
(* Ways a handler changes one route and the index.                         *)

\* An id a new request may use is in no route and not in the index.
LEMMA FreshRequest ==
  ASSUME DownstreamInv, NEW s \in DOMAIN sessions, NEW r,
         PeerRequestIdVerdict(sessions[s], r) = "Ok"
  PROVE  /\ <<s, r>> \notin DOMAIN downstream_request_index
         /\ \A t \in DOMAIN tracks : <<s, r>> \notin DOMAIN tracks[t].downstream_subs
         /\ r = sessions[s].peer_next_expected
         /\ r \in Nat
<1>1. r = sessions[s].peer_next_expected
  BY DEF PeerRequestIdVerdict
<1>2. r \in Nat
  BY <1>1 DEF DownstreamInv, TypeOK, IsMap, Session
<1>3. \A t \in DOMAIN tracks : <<s, r>> \notin DOMAIN tracks[t].downstream_subs
  BY <1>1, <1>2 DEF DownstreamInv, DownstreamIdsSpent
<1> QED BY <1>1, <1>2, <1>3 DEF DownstreamInv, DownstreamIndexExact, DownstreamIn

\* A handler that ends subscriptions of one route and takes them out of the index,
\* and may drop the route when none is active.
LEMMA EndingKeepsIndex ==
  ASSUME DownstreamInv, NEW t \in Tracks, NEW route, NEW empty \in BOOLEAN, NEW ended,
         tracks' = StoreRoute(t, route, empty),
         empty => Active(route) = {},
         Active(route) = Active(RouteOf(t)) \ ended,
         \A d \in ended : d \in DOMAIN downstream_request_index
                            => downstream_request_index[d] = t,
         downstream_request_index' = Drop(downstream_request_index, ended)
  PROVE  DownstreamIndexExact'
<1>1. \A u \in DOMAIN tracks' : Active(tracks'[u]) = Active(RouteOf(u)) \ ended
  <2>1. \A u \in DOMAIN tracks' : u # t => u \in DOMAIN tracks /\ tracks'[u] = tracks[u]
    BY DEF StoreRoute, Put, Drop, Restrict
  <2>2. t \in DOMAIN tracks' => tracks'[t] = route
    BY DEF StoreRoute, Put, Drop, Restrict
  <2>3. \A u \in DOMAIN tracks : u # t => Active(tracks[u]) = Active(tracks[u]) \ ended
    BY DEF DownstreamInv, DownstreamIndexExact, Active
  <2> QED BY <2>1, <2>2, <2>3 DEF RouteOf
<1>2. \A u \in DOMAIN tracks : u \in DOMAIN tracks' \/ Active(tracks[u]) \subseteq ended
  <2>1. \A u \in DOMAIN tracks : u # t => u \in DOMAIN tracks'
    BY DEF StoreRoute, Put, Drop, Restrict
  <2>2. t \in DOMAIN tracks' \/ empty
    BY DEF StoreRoute, Put
  <2> QED BY <2>1, <2>2 DEF RouteOf
<1>3. \A u \in DOMAIN tracks' : u \in DOMAIN tracks \/ Active(RouteOf(u)) = {}
  BY ActiveNewRoute DEF RouteOf
<1>4. /\ DOMAIN downstream_request_index' = DOMAIN downstream_request_index \ ended
      /\ \A d \in DOMAIN downstream_request_index' :
           downstream_request_index'[d] = downstream_request_index[d]
  BY DEF Drop, Restrict
<1>5. ASSUME NEW k \in DOMAIN downstream_request_index'
      PROVE  /\ downstream_request_index'[k] \in DOMAIN tracks'
             /\ k \in Active(tracks'[downstream_request_index'[k]])
  BY <1>1, <1>2, <1>4 DEF DownstreamInv, DownstreamIndexExact, Active, RouteOf
<1>6. ASSUME NEW u \in DOMAIN tracks', NEW d \in Active(tracks'[u])
      PROVE  d \in DOMAIN downstream_request_index' /\ downstream_request_index'[d] = u
  BY <1>1, <1>3, <1>4 DEF DownstreamInv, DownstreamIndexExact, Active, RouteOf
<1> QED BY <1>5, <1>6 DEF DownstreamIndexExact, Active

\* A handler that adds one active subscription with a fresh id.
LEMMA AddingKeepsIndex ==
  ASSUME DownstreamInv, NEW t \in Tracks, NEW route, NEW d,
         d \notin DOMAIN downstream_request_index,
         tracks' = Put(tracks, t, route),
         Active(route) = Active(RouteOf(t)) \cup {d},
         downstream_request_index' = Put(downstream_request_index, d, t)
  PROVE  DownstreamIndexExact'
<1>1. /\ DOMAIN tracks' = DOMAIN tracks \cup {t}
      /\ \A u \in DOMAIN tracks : u # t => tracks'[u] = tracks[u]
      /\ tracks'[t] = route
  BY DEF Put
<1>2. t \in DOMAIN tracks \/ Active(RouteOf(t)) = {}
  BY ActiveNewRoute DEF RouteOf
<1>3. /\ DOMAIN downstream_request_index' = DOMAIN downstream_request_index \cup {d}
      /\ downstream_request_index'[d] = t
      /\ \A k \in DOMAIN downstream_request_index :
           downstream_request_index'[k] = downstream_request_index[k]
  BY DEF Put
<1>4. ASSUME NEW k \in DOMAIN downstream_request_index'
      PROVE  /\ downstream_request_index'[k] \in DOMAIN tracks'
             /\ k \in Active(tracks'[downstream_request_index'[k]])
  BY <1>1, <1>3 DEF DownstreamInv, DownstreamIndexExact, Active, RouteOf
<1>5. ASSUME NEW u \in DOMAIN tracks', NEW k \in Active(tracks'[u])
      PROVE  k \in DOMAIN downstream_request_index' /\ downstream_request_index'[k] = u
  BY <1>1, <1>2, <1>3 DEF DownstreamInv, DownstreamIndexExact, Active, RouteOf
<1> QED BY <1>4, <1>5 DEF DownstreamIndexExact, Active

\* Spent ids stay spent while sessions stay open and count upwards.
LEMMA SpentOneRoute ==
  ASSUME DownstreamInv, TypeOK', NEW t \in Tracks, NEW route, NEW fresh,
         tracks' = Put(tracks, t, route) \/ tracks' = Drop(tracks, {t}),
         DOMAIN route.downstream_subs \subseteq DOMAIN RouteOf(t).downstream_subs \cup fresh,
         \A d \in fresh : d[1] \in DOMAIN sessions'
                             /\ d[2] < sessions'[d[1]].peer_next_expected,
         \A x \in DOMAIN sessions :
           /\ x \in DOMAIN sessions'
           /\ sessions[x].peer_next_expected <= sessions'[x].peer_next_expected
  PROVE  DownstreamIdsSpent'
<1> SUFFICES ASSUME NEW u \in DOMAIN tracks', NEW d \in DOMAIN tracks'[u].downstream_subs
             PROVE  d[1] \in DOMAIN sessions' /\ d[2] < sessions'[d[1]].peer_next_expected
  BY DEF DownstreamIdsSpent
<1>1. CASE u \in DOMAIN tracks /\ d \in DOMAIN tracks[u].downstream_subs
  <2>1. d[1] \in DOMAIN sessions /\ d[2] < sessions[d[1]].peer_next_expected
    BY <1>1 DEF DownstreamInv, DownstreamIdsSpent
  <2>2. d[2] \in Nat
    BY <1>1, LimitsAssumption DEF DownstreamInv, TypeOK, RoutesOK, RouteOK, IsMap
  <2>3. sessions[d[1]].peer_next_expected \in Nat /\ sessions'[d[1]].peer_next_expected \in Nat
    BY <2>1 DEF DownstreamInv, TypeOK, IsMap, Session
  <2> QED BY <2>1, <2>2, <2>3
<1>2. CASE d \in fresh
  BY <1>2
<1>3. u # t => u \in DOMAIN tracks /\ tracks'[u] = tracks[u]
  BY DEF Put, Drop, Restrict
<1>4. u = t => tracks'[u] = route
  BY DEF Put, Drop, Restrict
<1>5. t \in DOMAIN tracks \/ DOMAIN RouteOf(t).downstream_subs = {}
  BY ActiveNewRoute DEF RouteOf
<1> QED BY <1>1, <1>2, <1>3, <1>4, <1>5 DEF RouteOf

\* Accepting a request spends its id and no other.
LEMMA AcceptedIdSpent ==
  ASSUME DownstreamInv, NEW s \in DOMAIN sessions, NEW r,
         PeerRequestIdVerdict(sessions[s], r) = "Ok",
         \A x \in DOMAIN sessions :
           /\ x \in DOMAIN sessions'
           /\ sessions'[x].peer_next_expected =
                IF x = s THEN r + 2 ELSE sessions[x].peer_next_expected
  PROVE  /\ \A d \in {<<s, r>>} : d[1] \in DOMAIN sessions'
                                 /\ d[2] < sessions'[d[1]].peer_next_expected
         /\ \A x \in DOMAIN sessions :
              /\ x \in DOMAIN sessions'
              /\ sessions[x].peer_next_expected <= sessions'[x].peer_next_expected
<1>1. /\ r = sessions[s].peer_next_expected /\ r \in Nat
      /\ \A x \in DOMAIN sessions : sessions[x].peer_next_expected \in Nat
  BY FreshRequest DEF DownstreamInv, TypeOK, IsMap, Session
<1> QED BY <1>1

---------------------------------------------------------------------------
(* Steps.                                                                  *)

LEMMA UnchangedDownstream ==
  ASSUME DownstreamInv, UNCHANGED relayVars
  PROVE  DownstreamInv'
BY UnchangedType DEF DownstreamInv, relayVars, DownstreamIndexExact, DownstreamIdsSpent

LEMMA OnSessionOpenedDownstream ==
  ASSUME DownstreamInv, NEW s \in Sessions, NEW role \in Roles, OnSessionOpened(s, role)
  PROVE  DownstreamInv'
<1>1. TypeOK'
  BY OnSessionOpenedType DEF DownstreamInv
<1>2. \A x \in DOMAIN sessions : x \in DOMAIN sessions' /\ sessions'[x] = sessions[x]
  BY DEF OnSessionOpened, Put
<1>3. DownstreamIdsSpent'
  BY <1>2 DEF DownstreamInv, DownstreamIdsSpent, OnSessionOpened
<1> QED BY <1>1, <1>3 DEF DownstreamInv, DownstreamIndexExact, OnSessionOpened

\* What is left of a route when a session closes.
LEMMA ActiveWithout ==
  ASSUME NEW route, RouteOK(route), NEW s
  PROVE  /\ DOMAIN RouteWithout(route, s).downstream_subs =
              {d \in DOMAIN route.downstream_subs : d[1] # s}
         /\ Active(RouteWithout(route, s)) = {d \in Active(route) : d[1] # s}
BY DEF RouteWithout, Drop, Restrict, Active, DownstreamIn

LEMMA OnSessionClosedDownstream ==
  ASSUME DownstreamInv, NEW s \in Sessions, OnSessionClosed(s)
  PROVE  DownstreamInv'
<1> DEFINE left == [t \in DOMAIN tracks |-> RouteWithout(tracks[t], s)]
           idle == {t \in DOMAIN tracks : NoActiveDownstream(left[t])}
           empty == {t \in DOMAIN tracks : /\ DOMAIN left[t].downstream_subs = {}
                                           /\ DOMAIN left[t].upstream_subs = {}}
           lost == {d \in UNION {DOMAIN tracks[t].downstream_subs : t \in DOMAIN tracks} :
                      d[1] = s}
<1>1. TypeOK'
  BY OnSessionClosedType DEF DownstreamInv
<1>2. \A t \in DOMAIN tracks : RouteOK(tracks[t]) /\ RouteOK(left[t])
  BY RouteWithoutType DEF DownstreamInv, TypeOK, RoutesOK
<1>3. /\ DOMAIN tracks' = DOMAIN tracks \ empty
      /\ \A t \in DOMAIN tracks' : tracks'[t].downstream_subs = left[t].downstream_subs
  <2>1. tracks' = [t \in DOMAIN tracks \ empty |->
                     IF t \in idle THEN TerminateLegs(left[t], LiveLegs(left[t]))
                     ELSE left[t]]
    BY DEF OnSessionClosed
  <2> HIDE DEF left, idle, empty
  <2> QED BY <1>2, <2>1, LegsLeaveDownstream
<1>4. \A t \in DOMAIN tracks' :
        /\ t \in DOMAIN tracks
        /\ Active(tracks'[t]) = {d \in Active(tracks[t]) : d[1] # s}
        /\ DOMAIN tracks'[t].downstream_subs =
             {d \in DOMAIN tracks[t].downstream_subs : d[1] # s}
  <2>1. \A t \in DOMAIN tracks :
          /\ DOMAIN left[t].downstream_subs = {d \in DOMAIN tracks[t].downstream_subs : d[1] # s}
          /\ Active(left[t]) = {d \in Active(tracks[t]) : d[1] # s}
    BY <1>2, ActiveWithout
  <2> HIDE DEF left
  <2> QED BY <1>3, <2>1 DEF Active, DownstreamIn
<1>5. \A t \in DOMAIN tracks : t \notin DOMAIN tracks' => \A d \in Active(tracks[t]) : d[1] = s
  <2>1. \A t \in empty : \A d \in DOMAIN tracks[t].downstream_subs : d[1] = s
    BY <1>2, ActiveWithout
  <2> QED BY <1>3, <2>1 DEF Active, DownstreamIn
<1>6. /\ DOMAIN downstream_request_index' = DOMAIN downstream_request_index \ lost
      /\ \A k \in DOMAIN downstream_request_index' :
           downstream_request_index'[k] = downstream_request_index[k]
  BY DEF OnSessionClosed, Drop, Restrict
<1>7. DownstreamIndexExact'
  <2>1. ASSUME NEW k \in DOMAIN downstream_request_index'
        PROVE  /\ downstream_request_index'[k] \in DOMAIN tracks'
               /\ k \in Active(tracks'[downstream_request_index'[k]])
    <3>1. /\ downstream_request_index[k] \in DOMAIN tracks
          /\ k \in Active(tracks[downstream_request_index[k]])
      BY <1>6 DEF DownstreamInv, DownstreamIndexExact, Active
    <3>2. k[1] # s
      BY <1>6, <3>1 DEF Active, DownstreamIn
    <3> QED BY <1>4, <1>5, <1>6, <3>1, <3>2
  <2>2. ASSUME NEW t \in DOMAIN tracks', NEW d \in Active(tracks'[t])
        PROVE  d \in DOMAIN downstream_request_index' /\ downstream_request_index'[d] = t
    <3>1. t \in DOMAIN tracks /\ d \in Active(tracks[t]) /\ d[1] # s
      BY <1>4
    <3>2. d \in DOMAIN downstream_request_index /\ downstream_request_index[d] = t
      BY <3>1 DEF DownstreamInv, DownstreamIndexExact, Active
    <3> QED BY <1>6, <3>1, <3>2
  <2> QED BY <2>1, <2>2 DEF DownstreamIndexExact, Active
<1>8. DownstreamIdsSpent'
  <2>1. \A x \in DOMAIN sessions : x # s => x \in DOMAIN sessions' /\ sessions'[x] = sessions[x]
    BY DEF OnSessionClosed, Drop, Restrict
  <2> HIDE DEF left, empty, idle, lost
  <2> QED BY <1>4, <2>1 DEF DownstreamInv, DownstreamIdsSpent
<1> QED BY <1>1, <1>7, <1>8 DEF DownstreamInv

\* A handler that neither ends nor adds a subscription keeps the invariant.
LEMMA SameDownstream ==
  ASSUME DownstreamInv, TypeOK', UNCHANGED downstream_request_index,
         DOMAIN tracks' = DOMAIN tracks,
         \A t \in DOMAIN tracks : /\ Active(tracks'[t]) = Active(tracks[t])
                                  /\ DOMAIN tracks'[t].downstream_subs =
                                       DOMAIN tracks[t].downstream_subs,
         \A x \in DOMAIN sessions :
           /\ x \in DOMAIN sessions'
           /\ sessions[x].peer_next_expected <= sessions'[x].peer_next_expected
  PROVE  DownstreamInv'
<1>1. DownstreamIndexExact'
  BY DEF DownstreamInv, DownstreamIndexExact, Active
<1>2. DownstreamIdsSpent'
  <2> SUFFICES ASSUME NEW t \in DOMAIN tracks, NEW d \in DOMAIN tracks[t].downstream_subs
               PROVE  d[1] \in DOMAIN sessions' /\ d[2] < sessions'[d[1]].peer_next_expected
    BY DEF DownstreamIdsSpent
  <2>1. d[1] \in DOMAIN sessions /\ d[2] < sessions[d[1]].peer_next_expected
    BY DEF DownstreamInv, DownstreamIdsSpent
  <2>2. d[2] \in Nat
    BY LimitsAssumption DEF DownstreamInv, TypeOK, RoutesOK, RouteOK, IsMap
  <2>3. sessions[d[1]].peer_next_expected \in Nat /\ sessions'[d[1]].peer_next_expected \in Nat
    BY <2>1 DEF DownstreamInv, TypeOK, IsMap, Session
  <2> QED BY <2>1, <2>2, <2>3
<1> QED BY <1>1, <1>2 DEF DownstreamInv

LEMMA SetupMessageDownstream ==
  ASSUME DownstreamInv, NEW s \in Sessions, SetupMessage(s)
  PROVE  DownstreamInv'
<1>1. TypeOK'
  BY SetupMessageType DEF DownstreamInv
<1>2. /\ UNCHANGED <<tracks, downstream_request_index>>
      /\ DOMAIN sessions' = DOMAIN sessions
      /\ \A x \in DOMAIN sessions :
           sessions'[x].peer_next_expected = sessions[x].peer_next_expected
  BY DEF SetupMessage, HandleClientSetup, HandleServerSetup, HandleMaxRequestId,
         HandleRequestsBlocked, HandleGoaway, HandleOther, Refuse, Ignore, relayVars,
         DownstreamInv, TypeOK, IsMap, Session
<1>3. \A x \in DOMAIN sessions : sessions[x].peer_next_expected \in Nat
  BY DEF DownstreamInv, TypeOK, IsMap, Session
<1> QED BY <1>1, <1>2, <1>3, SameDownstream

LEMMA HandlePublishNamespaceDownstream ==
  ASSUME DownstreamInv, NEW s \in Sessions, NEW r \in RequestIds, NEW ns \in Namespaces,
         HandlePublishNamespace(s, r, ns)
  PROVE  DownstreamInv'
<1>1. CASE UNCHANGED relayVars
  BY <1>1, UnchangedDownstream
<1>2. CASE ~UNCHANGED relayVars
  <2>1. TypeOK'
    BY HandlePublishNamespaceType DEF DownstreamInv
  <2>2. PICK idOf :
       /\ PeerRequestIdVerdict(sessions[s], r) = "Ok"
       /\ sessions' = [sessions EXCEPT
            ![s].peer_next_expected = r + 2,
            ![s].published_namespaces = @ \cup {ns},
            ![s].local_next = @ + 2 * Cardinality(DOMAIN idOf)]
       /\ tracks' = [t \in DOMAIN tracks |->
            IF t \in DOMAIN idOf
            THEN [tracks[t] EXCEPT !.upstream_subs = Put(@, s, NewLeg(idOf[t]))]
            ELSE tracks[t]]
       /\ UNCHANGED downstream_request_index
    BY <1>2 DEF HandlePublishNamespace, Refuse
  <2>3. s \in DOMAIN sessions
    BY DEF HandlePublishNamespace, Receives
  <2>4. r = sessions[s].peer_next_expected /\ r \in Nat
    BY <2>2, <2>3, FreshRequest
  <2>5. \A t \in DOMAIN tracks : tracks'[t].downstream_subs = tracks[t].downstream_subs
    BY <2>2 DEF DownstreamInv, TypeOK, RoutesOK, RouteOK
  <2>6. ASSUME NEW x \in DOMAIN sessions
        PROVE  /\ x \in DOMAIN sessions'
               /\ sessions[x].peer_next_expected <= sessions'[x].peer_next_expected
    <3>1. sessions[x] \in Session /\ sessions[x].peer_next_expected \in Nat
      BY DEF DownstreamInv, TypeOK, IsMap, Session
    <3>2. sessions'[x].peer_next_expected =
            IF x = s THEN r + 2 ELSE sessions[x].peer_next_expected
      BY <2>2, <2>3, <3>1 DEF Session
    <3> QED BY <2>2, <2>4, <3>1, <3>2
  <2> QED BY <2>1, <2>2, <2>5, <2>6, SameDownstream DEF Active, DownstreamIn
<1> QED BY <1>1, <1>2

---------------------------------------------------------------------------
(* SUBSCRIBE.                                                              *)

LEMMA SubscribeJoinsDownstream ==
  ASSUME DownstreamInv, NEW s \in DOMAIN sessions, NEW r \in RequestIds, NEW t \in Tracks,
         PeerRequestIdVerdict(sessions[s], r) = "Ok", SubscribeJoins(s, r, t)
  PROVE  DownstreamInv'
<1> DEFINE alias == sessions[s].next_outbound
           joined == [state |-> "Established", forward_desired |-> FALSE,
                      outbound_alias |-> alias]
           route == [RouteOf(t) EXCEPT !.downstream_subs = Put(@, <<s, r>>, joined)]
<1>1. TypeOK'
  BY SubscribeJoinsType DEF DownstreamInv
<1>2. RouteOK(RouteOf(t))
  BY RouteOfType DEF DownstreamInv
<1>3. /\ tracks' = Put(tracks, t, route)
      /\ downstream_request_index' = Put(downstream_request_index, <<s, r>>, t)
  BY DEF SubscribeJoins
<1>4. <<s, r>> \notin DOMAIN RouteOf(t).downstream_subs
  BY FreshRequest, ActiveNewRoute DEF RouteOf
<1>5. route.downstream_subs = Put(RouteOf(t).downstream_subs, <<s, r>>, joined)
  BY <1>2 DEF RouteOK
<1>6. /\ Active(route) = Active(RouteOf(t)) \cup {<<s, r>>}
      /\ DOMAIN route.downstream_subs = DOMAIN RouteOf(t).downstream_subs \cup {<<s, r>>}
  <2>1. joined.state = "Established"
    OBVIOUS
  <2> HIDE DEF joined, route
  <2> QED BY <1>4, <1>5, <2>1 DEF Active, DownstreamIn, Put
<1>7. ASSUME NEW x \in DOMAIN sessions
      PROVE  /\ x \in DOMAIN sessions'
             /\ sessions'[x].peer_next_expected =
                  IF x = s THEN r + 2 ELSE sessions[x].peer_next_expected
  BY DEF SubscribeJoins, DownstreamInv, TypeOK, IsMap, Session
<1>8. /\ \A d \in {<<s, r>>} : d[1] \in DOMAIN sessions'
                              /\ d[2] < sessions'[d[1]].peer_next_expected
      /\ \A x \in DOMAIN sessions :
           /\ x \in DOMAIN sessions'
           /\ sessions[x].peer_next_expected <= sessions'[x].peer_next_expected
  BY <1>7, AcceptedIdSpent
<1> HIDE DEF route
<1>9. DownstreamIndexExact'
  BY <1>3, <1>6, FreshRequest, AddingKeepsIndex
<1>10. DownstreamIdsSpent'
  <2>1. tracks' = Put(tracks, t, route) \/ tracks' = Drop(tracks, {t})
    BY <1>3
  <2> QED BY <1>1, <1>6, <1>8, <2>1, SpentOneRoute
<1> QED BY <1>1, <1>9, <1>10 DEF DownstreamInv

LEMMA SubscribeFailsDownstream ==
  ASSUME DownstreamInv, NEW s \in DOMAIN sessions, NEW r \in RequestIds, NEW t \in Tracks,
         PeerRequestIdVerdict(sessions[s], r) = "Ok", SubscribeFails(s, r, t)
  PROVE  DownstreamInv'
<1> DEFINE refused == [NewDownstream EXCEPT !.state = "Terminated"]
           route == [RouteOf(t) EXCEPT !.downstream_subs = Put(@, <<s, r>>, refused)]
           empty == NoActiveDownstream(route) /\ DOMAIN route.upstream_subs = {}
<1>1. TypeOK'
  BY SubscribeFailsType DEF DownstreamInv
<1>2. RouteOK(RouteOf(t))
  BY RouteOfType DEF DownstreamInv
<1>3. /\ tracks' = StoreRoute(t, route, empty)
      /\ downstream_request_index' = Drop(downstream_request_index, {<<s, r>>})
  BY DEF SubscribeFails
<1>4. <<s, r>> \notin DOMAIN RouteOf(t).downstream_subs
  BY FreshRequest, ActiveNewRoute DEF RouteOf
<1>5. route.downstream_subs = Put(RouteOf(t).downstream_subs, <<s, r>>, refused)
  BY <1>2 DEF RouteOK
<1>6. /\ Active(route) = Active(RouteOf(t)) \ {<<s, r>>}
      /\ DOMAIN route.downstream_subs = DOMAIN RouteOf(t).downstream_subs \cup {<<s, r>>}
  <2>1. refused.state = "Terminated"
    BY DEF NewDownstream
  <2> HIDE DEF refused, route
  <2>2. /\ Active(route) = Active(RouteOf(t))
        /\ DOMAIN route.downstream_subs = DOMAIN RouteOf(t).downstream_subs \cup {<<s, r>>}
    BY <1>4, <1>5, <2>1 DEF Active, DownstreamIn, Put
  <2> QED BY <1>4, <2>2 DEF Active, DownstreamIn
<1>7. ASSUME NEW x \in DOMAIN sessions
      PROVE  /\ x \in DOMAIN sessions'
             /\ sessions'[x].peer_next_expected =
                  IF x = s THEN r + 2 ELSE sessions[x].peer_next_expected
  BY DEF SubscribeFails, DownstreamInv, TypeOK, IsMap, Session
<1>8. /\ \A d \in {<<s, r>>} : d[1] \in DOMAIN sessions'
                              /\ d[2] < sessions'[d[1]].peer_next_expected
      /\ \A x \in DOMAIN sessions :
           /\ x \in DOMAIN sessions'
           /\ sessions[x].peer_next_expected <= sessions'[x].peer_next_expected
  BY <1>7, AcceptedIdSpent
<1>9. empty \in BOOLEAN /\ (empty => Active(route) = {})
  BY DEF NoActiveDownstream, Active
<1> HIDE DEF route, empty
<1>10. DownstreamIndexExact'
  BY <1>3, <1>6, <1>9, FreshRequest, EndingKeepsIndex
<1>11. DownstreamIdsSpent'
  <2>1. tracks' = Put(tracks, t, route) \/ tracks' = Drop(tracks, {t})
    BY <1>3 DEF StoreRoute
  <2> QED BY <1>1, <1>6, <1>8, <2>1, SpentOneRoute
<1> QED BY <1>1, <1>10, <1>11 DEF DownstreamInv

LEMMA SubscribeFansOutDownstream ==
  ASSUME DownstreamInv, NEW s \in DOMAIN sessions, NEW r \in RequestIds, NEW t \in Tracks,
         PeerRequestIdVerdict(sessions[s], r) = "Ok", SubscribeFansOut(s, r, t)
  PROVE  DownstreamInv'
<1> DEFINE targets == FanOutTargets(t)
           legs == Merge(RouteOf(t).upstream_subs,
                         [p \in targets |-> NewLeg(sessions[p].local_next)])
           route == [downstream_subs |-> Put(RouteOf(t).downstream_subs, <<s, r>>, NewDownstream),
                     upstream_subs |-> legs]
<1>1. TypeOK'
  BY SubscribeFansOutType DEF DownstreamInv
<1>2. RouteOK(RouteOf(t))
  BY RouteOfType DEF DownstreamInv
<1>3. /\ tracks' = Put(tracks, t, route)
      /\ downstream_request_index' = Put(downstream_request_index, <<s, r>>, t)
  BY DEF SubscribeFansOut
<1>4. <<s, r>> \notin DOMAIN RouteOf(t).downstream_subs
  BY FreshRequest, ActiveNewRoute DEF RouteOf
<1>5. /\ Active(route) = Active(RouteOf(t)) \cup {<<s, r>>}
      /\ DOMAIN route.downstream_subs = DOMAIN RouteOf(t).downstream_subs \cup {<<s, r>>}
  <2>1. NewDownstream.state = "Pending"
    BY DEF NewDownstream
  <2>2. route.downstream_subs = Put(RouteOf(t).downstream_subs, <<s, r>>, NewDownstream)
    OBVIOUS
  <2> HIDE DEF route
  <2> QED BY <1>4, <2>1, <2>2 DEF Active, DownstreamIn, Put
<1>6. ASSUME NEW x \in DOMAIN sessions
      PROVE  /\ x \in DOMAIN sessions'
             /\ sessions'[x].peer_next_expected =
                  IF x = s THEN r + 2 ELSE sessions[x].peer_next_expected
  BY DEF SubscribeFansOut, DownstreamInv, TypeOK, IsMap, Session
<1>7. /\ \A d \in {<<s, r>>} : d[1] \in DOMAIN sessions'
                              /\ d[2] < sessions'[d[1]].peer_next_expected
      /\ \A x \in DOMAIN sessions :
           /\ x \in DOMAIN sessions'
           /\ sessions[x].peer_next_expected <= sessions'[x].peer_next_expected
  BY <1>6, AcceptedIdSpent
<1> HIDE DEF route
<1>8. DownstreamIndexExact'
  BY <1>3, <1>5, FreshRequest, AddingKeepsIndex
<1>9. DownstreamIdsSpent'
  <2>1. tracks' = Put(tracks, t, route) \/ tracks' = Drop(tracks, {t})
    BY <1>3
  <2> QED BY <1>1, <1>5, <1>7, <2>1, SpentOneRoute
<1> QED BY <1>1, <1>8, <1>9 DEF DownstreamInv

LEMMA HandleSubscribeDownstream ==
  ASSUME DownstreamInv, NEW s \in Sessions, NEW r \in RequestIds, NEW t \in Tracks,
         HandleSubscribe(s, r, t)
  PROVE  DownstreamInv'
BY UnchangedDownstream, SubscribeJoinsDownstream, SubscribeFailsDownstream,
   SubscribeFansOutDownstream DEF HandleSubscribe, Receives, Refuse

---------------------------------------------------------------------------
(* SUBSCRIBE_OK.                                                           *)

LEMMA SubscribeOkDuplicateAliasDownstream ==
  ASSUME DownstreamInv, NEW t \in DOMAIN tracks, NEW p \in DOMAIN tracks[t].upstream_subs,
         NEW alias \in InboundAliases, SubscribeOkDuplicateAlias(p, t, alias)
  PROVE  DownstreamInv'
<1>1. TypeOK'
  BY SubscribeOkDuplicateAliasType DEF DownstreamInv
<1>2. RouteOK(tracks[t])
  BY DEF DownstreamInv, TypeOK, RoutesOK
<1>3. /\ DOMAIN tracks' = DOMAIN tracks
      /\ \A u \in DOMAIN tracks : tracks'[u].downstream_subs = tracks[u].downstream_subs
  BY <1>2, LegsLeaveDownstream DEF SubscribeOkDuplicateAlias, Put
<1>4. \A x \in DOMAIN sessions : sessions[x].peer_next_expected \in Nat
  BY DEF DownstreamInv, TypeOK, IsMap, Session
<1> QED BY <1>1, <1>3, <1>4, SameDownstream
     DEF SubscribeOkDuplicateAlias, Active, DownstreamIn

LEMMA SubscribeOkForwardedDownstream ==
  ASSUME DownstreamInv, NEW t \in DOMAIN tracks, NEW p \in DOMAIN tracks[t].upstream_subs,
         NEW alias \in InboundAliases, SubscribeOkForwarded(p, t, alias)
  PROVE  DownstreamInv'
<1> DEFINE waiting == AwaitingSubscribers(t)
<1>1. TypeOK'
  BY SubscribeOkForwardedType DEF DownstreamInv
<1>2. PICK aliasOf :
       /\ sessions' =
            [s \in DOMAIN sessions |->
               [sessions[s] EXCEPT
                  !.inbound_aliases = IF s = p THEN Put(@, alias, t) ELSE @,
                  !.next_outbound = @ + Cardinality({d \in waiting : d[1] = s})]]
       /\ tracks' = Put(tracks, t,
            [EstablishLeg(tracks[t], p, alias) EXCEPT !.downstream_subs =
               Merge(@, [d \in waiting |->
                           [state |-> "Established", forward_desired |-> FALSE,
                            outbound_alias |-> aliasOf[d]]])])
       /\ UNCHANGED downstream_request_index
  BY DEF SubscribeOkForwarded
<1>3. RouteOK(tracks[t]) /\ RouteOK(EstablishLeg(tracks[t], p, alias))
  BY EstablishLegType DEF DownstreamInv, TypeOK, RoutesOK
<1>4. tracks'[t].downstream_subs =
        Merge(tracks[t].downstream_subs,
              [d \in waiting |-> [state |-> "Established", forward_desired |-> FALSE,
                                  outbound_alias |-> aliasOf[d]]])
  <2> DEFINE established == EstablishLeg(tracks[t], p, alias)
             accepted == [d \in waiting |->
                            [state |-> "Established", forward_desired |-> FALSE,
                             outbound_alias |-> aliasOf[d]]]
  <2>1. tracks'[t] = [established EXCEPT !.downstream_subs = Merge(@, accepted)]
    BY <1>2 DEF Put
  <2>2. established.downstream_subs = tracks[t].downstream_subs
    BY <1>3, LegsLeaveDownstream
  <2> HIDE DEF established, accepted
  <2>3. tracks'[t].downstream_subs = Merge(tracks[t].downstream_subs, accepted)
    BY <1>3, <2>1, <2>2 DEF RouteOK, established
  <2> QED BY <2>3 DEF accepted
<1>5. \A d \in waiting : d \in Active(tracks[t])
  BY DEF AwaitingSubscribers, Active, DownstreamIn
<1>6. /\ Active(tracks'[t]) = Active(tracks[t])
      /\ DOMAIN tracks'[t].downstream_subs = DOMAIN tracks[t].downstream_subs
  <2> HIDE DEF waiting
  <2> QED BY <1>4, <1>5 DEF Active, DownstreamIn, Merge
<1>7. /\ DOMAIN tracks' = DOMAIN tracks
      /\ \A u \in DOMAIN tracks : u # t => tracks'[u] = tracks[u]
  BY <1>2 DEF Put
<1>8. ASSUME NEW x \in DOMAIN sessions
      PROVE  /\ x \in DOMAIN sessions'
             /\ sessions[x].peer_next_expected <= sessions'[x].peer_next_expected
  <2>1. sessions[x] \in Session /\ sessions[x].peer_next_expected \in Nat
    BY DEF DownstreamInv, TypeOK, IsMap, Session
  <2>2. sessions'[x].peer_next_expected = sessions[x].peer_next_expected
    <3> DEFINE bound == IF x = p THEN Put(sessions[x].inbound_aliases, alias, t)
                        ELSE sessions[x].inbound_aliases
               next == sessions[x].next_outbound + Cardinality({d \in waiting : d[1] = x})
    <3>1. sessions'[x] = [sessions[x] EXCEPT !.inbound_aliases = bound, !.next_outbound = next]
      BY <1>2, <2>1 DEF Session
    <3> HIDE DEF bound, next
    <3> QED BY <2>1, <3>1 DEF Session
  <2>3. x \in DOMAIN sessions'
    BY <1>2
  <2> QED BY <2>1, <2>2, <2>3
<1>9. \A u \in DOMAIN tracks :
        /\ Active(tracks'[u]) = Active(tracks[u])
        /\ DOMAIN tracks'[u].downstream_subs = DOMAIN tracks[u].downstream_subs
  BY <1>6, <1>7
<1> QED BY <1>1, <1>2, <1>7, <1>8, <1>9, SameDownstream

LEMMA HandleSubscribeOkDownstream ==
  ASSUME DownstreamInv, NEW p \in Sessions, NEW r \in RequestIds, NEW alias \in InboundAliases,
         HandleSubscribeOk(p, r, alias)
  PROVE  DownstreamInv'
BY UnchangedDownstream, SubscribeOkDuplicateAliasDownstream, SubscribeOkForwardedDownstream
   DEF HandleSubscribeOk, Refuse, AwaitsSubscribeOk

---------------------------------------------------------------------------
(* The end of subscriptions.                                               *)

\* What REQUEST_ERROR, PUBLISH_DONE and UNSUBSCRIBE have in common: some active
\* subscriptions of one route end, and leave the index.
LEMMA EndingDownstream ==
  ASSUME DownstreamInv, TypeOK', NEW t \in DOMAIN tracks, NEW route, RouteOK(route),
         route.downstream_subs = tracks[t].downstream_subs,
         NEW ended, ended \subseteq Active(route), NEW empty \in BOOLEAN,
         empty => NoActiveDownstream(TerminateDownstream(route, ended)),
         tracks' = StoreRoute(t, TerminateDownstream(route, ended), empty),
         downstream_request_index' = Drop(downstream_request_index, ended),
         UNCHANGED sessions
  PROVE  DownstreamInv'
<1> DEFINE left == TerminateDownstream(route, ended)
<1>1. /\ t \in Tracks
      /\ RouteOf(t) = tracks[t]
      /\ Active(route) = Active(RouteOf(t))
  BY DEF DownstreamInv, TypeOK, RoutesOK, RouteOf, Active, DownstreamIn
<1>2. /\ Active(left) = Active(RouteOf(t)) \ ended
      /\ DOMAIN left.downstream_subs = DOMAIN RouteOf(t).downstream_subs
  BY <1>1, ActiveTerminateDownstream
<1>3. empty => Active(left) = {}
  BY DEF NoActiveDownstream, Active
<1>4. \A d \in ended : d \in DOMAIN downstream_request_index
                          => downstream_request_index[d] = t
  BY <1>1 DEF DownstreamInv, DownstreamIndexExact, Active
<1> HIDE DEF left
<1>5. DownstreamIndexExact'
  BY <1>1, <1>2, <1>3, <1>4, EndingKeepsIndex DEF left
<1>6. \A x \in DOMAIN sessions :
        /\ x \in DOMAIN sessions'
        /\ sessions[x].peer_next_expected <= sessions'[x].peer_next_expected
  BY DEF DownstreamInv, TypeOK, IsMap, Session
<1>7. tracks' = Put(tracks, t, left) \/ tracks' = Drop(tracks, {t})
  BY DEF StoreRoute, left
<1>8. DownstreamIdsSpent'
  <2> DEFINE fresh == {}
  <2>1. DOMAIN left.downstream_subs \subseteq DOMAIN RouteOf(t).downstream_subs \cup fresh
    BY <1>2
  <2>2. \A d \in fresh : d[1] \in DOMAIN sessions' /\ d[2] < sessions'[d[1]].peer_next_expected
    OBVIOUS
  <2> HIDE DEF fresh
  <2> QED BY <1>1, <1>6, <1>7, <2>1, <2>2, SpentOneRoute
<1> QED BY <1>5, <1>8 DEF DownstreamInv

LEMMA HandleRequestErrorDownstream ==
  ASSUME DownstreamInv, NEW p \in Sessions, NEW r \in RequestIds, HandleRequestError(p, r)
  PROVE  DownstreamInv'
<1>1. CASE UNCHANGED relayVars
  BY <1>1, UnchangedDownstream
<1>2. CASE ~UNCHANGED relayVars
  <2> DEFINE t == upstream_request_index[<<p, r>>]
             route == TerminateLegs(tracks[t], {p})
             failed == IF AllUpstreamTerminated(route)
                       THEN DownstreamIn(route, {"Pending"}) ELSE {}
             left == TerminateDownstream(route, failed)
             empty == AllUpstreamTerminated(route) /\ NoActiveDownstream(left)
  <2>1. /\ KnownUpstream(p, r)
        /\ tracks' = StoreRoute(t, left, empty)
        /\ downstream_request_index' = Drop(downstream_request_index, failed)
        /\ UNCHANGED sessions
    BY <1>2 DEF HandleRequestError, Refuse, Ignore
  <2>2. t \in DOMAIN tracks /\ RouteOK(tracks[t])
    BY <2>1 DEF KnownUpstream, DownstreamInv, TypeOK, RoutesOK
  <2>3. RouteOK(route) /\ route.downstream_subs = tracks[t].downstream_subs
    BY <2>2, TerminateLegsType, LegsLeaveDownstream
  <2>4. failed \subseteq Active(route)
    BY DEF Active, DownstreamIn
  <2>5. TypeOK'
    BY HandleRequestErrorType DEF DownstreamInv
  <2>6. empty \in BOOLEAN /\ (empty => NoActiveDownstream(left))
    BY DEF AllUpstreamTerminated, NoActiveDownstream
  <2> HIDE DEF t, route, failed, empty
  <2> QED BY <2>1, <2>2, <2>3, <2>4, <2>5, <2>6, EndingDownstream
<1> QED BY <1>1, <1>2

LEMMA HandlePublishDoneDownstream ==
  ASSUME DownstreamInv, NEW p \in Sessions, NEW r \in RequestIds, HandlePublishDone(p, r)
  PROVE  DownstreamInv'
<1>1. CASE UNCHANGED relayVars
  BY <1>1, UnchangedDownstream
<1>2. CASE ~UNCHANGED relayVars
  <2> DEFINE t == upstream_request_index[<<p, r>>]
             route == TerminateLegs(tracks[t], {p})
             done == DownstreamIn(route, {"Established"})
             failed == IF AllUpstreamTerminated(route)
                       THEN DownstreamIn(route, {"Pending"}) ELSE {}
             ended == done \cup failed
             left == TerminateDownstream(route, ended)
             empty == NoActiveDownstream(left) /\ LiveLegs(left) = {}
  <2>1. /\ KnownUpstream(p, r)
        /\ tracks' = StoreRoute(t, left, empty)
        /\ downstream_request_index' = Drop(downstream_request_index, ended)
        /\ UNCHANGED sessions
    BY <1>2 DEF HandlePublishDone, Refuse, Ignore
  <2>2. t \in DOMAIN tracks /\ RouteOK(tracks[t])
    BY <2>1 DEF KnownUpstream, DownstreamInv, TypeOK, RoutesOK
  <2>3. RouteOK(route) /\ route.downstream_subs = tracks[t].downstream_subs
    BY <2>2, TerminateLegsType, LegsLeaveDownstream
  <2>4. ended \subseteq Active(route)
    BY DEF Active, DownstreamIn
  <2>5. TypeOK'
    BY HandlePublishDoneType DEF DownstreamInv
  <2>6. empty \in BOOLEAN /\ (empty => NoActiveDownstream(left))
    BY DEF NoActiveDownstream
  <2> HIDE DEF t, route, ended, empty
  <2> QED BY <2>1, <2>2, <2>3, <2>4, <2>5, <2>6, EndingDownstream
<1> QED BY <1>1, <1>2

LEMMA HandleUnsubscribeDownstream ==
  ASSUME DownstreamInv, NEW s \in Sessions, NEW r \in RequestIds, HandleUnsubscribe(s, r)
  PROVE  DownstreamInv'
<1>1. CASE UNCHANGED relayVars
  BY <1>1, UnchangedDownstream
<1>2. CASE ~UNCHANGED relayVars
  <2> DEFINE t == downstream_request_index[<<s, r>>]
             ended == {<<s, r>>}
             empty == NoActiveDownstream(TerminateDownstream(tracks[t], ended))
  <2>1. /\ <<s, r>> \in DOMAIN downstream_request_index
        /\ t \in DOMAIN tracks
        /\ tracks' = StoreRoute(t, TerminateDownstream(tracks[t], ended), empty)
        /\ downstream_request_index' = Drop(downstream_request_index, ended)
        /\ UNCHANGED sessions
    BY <1>2 DEF HandleUnsubscribe, Refuse, Ignore
  <2>2. RouteOK(tracks[t])
    BY <2>1 DEF DownstreamInv, TypeOK, RoutesOK
  <2>3. ended \subseteq Active(tracks[t])
    BY <2>1 DEF DownstreamInv, DownstreamIndexExact, Active
  <2>4. TypeOK'
    BY HandleUnsubscribeType DEF DownstreamInv
  <2>5. empty \in BOOLEAN
    BY DEF NoActiveDownstream
  <2> DEFINE route == tracks[t]
  <2> HIDE DEF t, ended
  <2> QED BY <2>1, <2>2, <2>3, <2>4, <2>5, EndingDownstream
<1> QED BY <1>1, <1>2

---------------------------------------------------------------------------

LEMMA InitDownstream ==
  ASSUME Init
  PROVE  DownstreamInv
BY InitType DEF Init, DownstreamInv, DownstreamIndexExact, DownstreamIdsSpent, EmptyMap

LEMMA NextDownstream ==
  ASSUME DownstreamInv, [Next]_vars
  PROVE  DownstreamInv'
<1>1. CASE UNCHANGED vars
  BY <1>1, UnchangedDownstream DEF vars, relayVars
<1>2. ASSUME NEW s \in Sessions, SessionEvent(s)
      PROVE  DownstreamInv'
  BY <1>2, OnSessionOpenedDownstream, OnSessionClosedDownstream, UnchangedDownstream
     DEF SessionEvent, MessageFromUnknownSession, Refuse
<1>3. ASSUME NEW s \in Sessions, PublisherMessage(s)
      PROVE  DownstreamInv'
  BY <1>3, HandlePublishNamespaceDownstream, HandleSubscribeOkDownstream,
     HandleRequestErrorDownstream, HandlePublishDoneDownstream DEF PublisherMessage
<1>4. ASSUME NEW s \in Sessions, SubscriberMessage(s)
      PROVE  DownstreamInv'
  BY <1>4, HandleSubscribeDownstream, HandleUnsubscribeDownstream DEF SubscriberMessage
<1>5. ASSUME NEW s \in Sessions, NEW alias \in InboundAliases, OnSubscriptionObject(s, alias)
      PROVE  DownstreamInv'
  BY <1>5, UnchangedDownstream DEF OnSubscriptionObject, Refuse
<1> QED BY <1>1, <1>2, <1>3, <1>4, <1>5, SetupMessageDownstream DEF Next

\* In every behaviour of the relay, a subscription can be cancelled exactly while it
\* is Pending or Established: handle_unsubscribe (relay.rs:938) finds it, and
\* finds nothing for a request that was refused, ended or never made.
THEOREM DownstreamIndexCorrect == Spec => []DownstreamIndexExact
<1>1. Init => DownstreamInv
  BY InitDownstream
<1>2. DownstreamInv /\ [Next]_vars => DownstreamInv'
  BY NextDownstream
<1>3. DownstreamInv => DownstreamIndexExact
  BY DEF DownstreamInv
<1> QED BY <1>1, <1>2, <1>3, PTL DEF Spec

=============================================================================
