---------------------------- MODULE NetworkViews ----------------------------
(***************************************************************************)
(* That the relay and its peers agree once all messages have arrived.      *)
(* While messages are in flight the two sides differ, and the messages     *)
(* account for the difference: SubscriberView and PublisherView say for    *)
(* each request which of them must be under way, in which order, and which *)
(* must not.  With nothing under way only agreement is left.               *)
(*                                                                         *)
(* Relay's invariants give one half of every step: the status of a request *)
(* changes as Subscription allows.  This module does the same for the      *)
(* requests of the relay to publishers (LegStep), and then takes each step *)
(* of a peer and of the relay through both views.                          *)
(***************************************************************************)
EXTENDS RelayNetwork, RelayPromise, SequenceTheorems

\* No session ended and none is about to.
Calm == closing = {} /\ lost = {}

---------------------------------------------------------------------------
(* Messages under way.                                                     *)

\* The message q[i] is of this kind and about the request `r'.
Concerns(q, i, kind, r) == q[i].kind = kind /\ q[i].id = r

OnItsWay(q, kind, r) == \E i \in DOMAIN q : Concerns(q, i, kind, r)

Once(q, kind, r) ==
  \A i, j \in DOMAIN q : Concerns(q, i, kind, r) /\ Concerns(q, j, kind, r) => i = j

Follows(q, first, second, r) ==
  \E i, j \in DOMAIN q : i < j /\ Concerns(q, i, first, r) /\ Concerns(q, j, second, r)

\* What messages of this kind say about `r' in a field.
Carries(q, kind, r, field, value) ==
  \A i \in DOMAIN q : Concerns(q, i, kind, r) => q[i][field] = value

---------------------------------------------------------------------------
(* A subscription as its subscriber and the relay see it: `S' and `t' are  *)
(* the relay's status and track, `mine' is the subscriber's record, `up'   *)
(* and `down' what is under way to the relay and to the subscriber.        *)

ActiveStates == {"Pending", "Established"}

\* The subscriber has not used `r' for a subscription.
NotSubscribed(S, r, up, down) ==
  /\ S \in {"Unused", "Ended"}
  /\ ~OnItsWay(up, "SUBSCRIBE", r) /\ ~OnItsWay(up, "UNSUBSCRIBE", r)
  /\ S = "Unused" => \A kind \in {"SUBSCRIBE_OK", "REQUEST_ERROR", "PUBLISH_DONE"} :
                       ~OnItsWay(down, kind, r)

Subscribed(S, t, mine, r, up, down) ==
  /\ ~OnItsWay(up, "PUBLISH_NAMESPACE", r)
  /\ Carries(up, "SUBSCRIBE", r, "track", mine.track)
  /\ S = "Unused" => OnItsWay(up, "SUBSCRIBE", r)
  /\ S \in {"Unused", "Pending"} =>
       mine.state # "Established" /\ ~OnItsWay(down, "SUBSCRIBE_OK", r)
  /\ S \in ActiveStates => mine.track = t
  /\ S # "Ended" => /\ ~OnItsWay(down, "REQUEST_ERROR", r)
                    /\ ~OnItsWay(down, "PUBLISH_DONE", r)
                    /\ mine.state = "Ended" => OnItsWay(up, "UNSUBSCRIBE", r)
  /\ OnItsWay(up, "UNSUBSCRIBE", r) => mine.state = "Ended"
  /\ S = "Established" /\ mine.state = "Pending" => OnItsWay(down, "SUBSCRIBE_OK", r)
  /\ S = "Ended" /\ mine.state = "Pending" =>
       \/ OnItsWay(down, "REQUEST_ERROR", r) /\ ~OnItsWay(down, "SUBSCRIBE_OK", r)
       \/ Follows(down, "SUBSCRIBE_OK", "PUBLISH_DONE", r)
  /\ S = "Ended" /\ mine.state = "Established" => OnItsWay(down, "PUBLISH_DONE", r)

SubscriberView(s, r) ==
  IF r \in DOMAIN peer[s].requests
  THEN /\ r + 2 <= peer[s].next
       /\ Subscribed(StatusOf(s, r), downstream_request_index[<<s, r>>],
                     peer[s].requests[r], r, toRelay[s], toPeer[s])
  ELSE NotSubscribed(StatusOf(s, r), r, toRelay[s], toPeer[s])

---------------------------------------------------------------------------
(* A request of the relay as the publisher and the relay see it: `L', `t'  *)
(* and `a' are state, track and alias of the relay's leg, `mine' is the    *)
(* publisher's record.                                                     *)

\* The leg that the relay's request `k' is for.
AskedLeg(k) == tracks[upstream_request_index[k]].upstream_subs[k[1]]

\* A request that was used and is in no index any more has ended.
LegState(p, r) ==
  IF <<p, r>> \in DOMAIN upstream_request_index THEN AskedLeg(<<p, r>>).state
  ELSE IF r < sessions[p].local_next THEN "Ended" ELSE "Unused"

\* What the relay has sent fits its leg.
Asked(L, t, a, r, down) ==
  /\ Once(down, "SUBSCRIBE", r)
  /\ OnItsWay(down, "SUBSCRIBE", r) => L # "Unused"
  /\ OnItsWay(down, "UNSUBSCRIBE", r) => L = "Ended"
  /\ L = "Ended" /\ OnItsWay(down, "SUBSCRIBE", r) =>
       Follows(down, "SUBSCRIBE", "UNSUBSCRIBE", r)
  /\ L \in ActiveStates => Carries(down, "SUBSCRIBE", r, "track", t)
  /\ L = "Pending" => a = NoAlias

\* The publisher has not seen the request.
NotServed(L, r, up, down) ==
  /\ \A kind \in {"SUBSCRIBE_OK", "REQUEST_ERROR", "PUBLISH_DONE"} : ~OnItsWay(up, kind, r)
  /\ L \in ActiveStates => L = "Pending" /\ OnItsWay(down, "SUBSCRIBE", r)

Served(L, t, a, mine, r, up, down) ==
  /\ L # "Unused" /\ ~OnItsWay(down, "SUBSCRIBE", r)
  /\ OnItsWay(up, "SUBSCRIBE_OK", r) => mine.state # "Pending"
  /\ Carries(up, "SUBSCRIBE_OK", r, "alias", mine.alias)
  /\ OnItsWay(up, "REQUEST_ERROR", r) \/ OnItsWay(up, "PUBLISH_DONE", r) =>
       mine.state \in {"Ended", "Done"}
  /\ L \in ActiveStates =>
       /\ mine.track = t
       /\ mine.state \in {"Ended", "Done"} =>
            OnItsWay(up, "REQUEST_ERROR", r) \/ OnItsWay(up, "PUBLISH_DONE", r)
  /\ L = "Pending" /\ mine.state = "Established" => OnItsWay(up, "SUBSCRIBE_OK", r)
  /\ L = "Established" => mine.state # "Pending" /\ mine.alias = a
  /\ L = "Ended" /\ mine.state \in ActiveStates => OnItsWay(down, "UNSUBSCRIBE", r)
  /\ mine.state = "Pending" => mine.alias = NoAlias

PublisherView(p, r) ==
  LET L == LegState(p, r)
      t == upstream_request_index[<<p, r>>]
      a == AskedLeg(<<p, r>>).inbound_alias
  IN /\ Asked(L, t, a, r, toPeer[p])
     /\ IF r \in DOMAIN peer[p].serves
        THEN Served(L, t, a, peer[p].serves[r], r, toRelay[p], toPeer[p])
        ELSE NotServed(L, r, toRelay[p], toPeer[p])

---------------------------------------------------------------------------
(* The invariant.                                                          *)

\* While no session ends every entry of upstream_request_index leads to the live leg
\* its request was sent for.  (When one does, on_session_closed leaves entries behind.)
Exact(k) ==
  LET t == upstream_request_index[k]
  IN /\ t \in DOMAIN tracks /\ k[1] \in DOMAIN tracks[t].upstream_subs
     /\ IsLive(AskedLeg(k)) /\ AskedLeg(k).request_id = k[2]

UpstreamIndexExact == \A k \in DOMAIN upstream_request_index : Exact(k)

\* All sessions are open, as server, under the configured limit.
AllOpen ==
  /\ DOMAIN sessions = Sessions
  /\ \A s \in Sessions : /\ sessions[s].role = "Server"
                         /\ sessions[s].peer_max_exclusive = InitialPeerMax

ToRelayMessage ==
  [kind : {"PUBLISH_NAMESPACE"}, id : RequestIds, namespace : Namespaces]
  \cup [kind : {"SUBSCRIBE"}, id : RequestIds, track : Tracks]
  \cup [kind : {"UNSUBSCRIBE", "REQUEST_ERROR", "PUBLISH_DONE"}, id : RequestIds]
  \cup [kind : {"SUBSCRIBE_OK"}, id : RequestIds, alias : InboundAliases]

PeerKinds == {"REQUEST_OK", "SUBSCRIBE", "UNSUBSCRIBE",
              "SUBSCRIBE_OK", "REQUEST_ERROR", "PUBLISH_DONE"}

\* A message to a peer, and what is under way to it.
ToPeerMessage(m) ==
  m.kind \in PeerKinds /\ (m.kind = "SUBSCRIBE" => m.id \in RequestIds /\ m.track \in Tracks)

ToPeerOK(q) == q \in Seq(Range(q)) /\ \A i \in DOMAIN q : ToPeerMessage(q[i])

Requested == [track : Tracks, state : {"Pending", "Established", "Ended"}]
Service == [track : Tracks, state : {"Pending", "Established", "Ended", "Done"},
            alias : InboundAliases \cup {NoAlias}]

PeerOK(record) ==
  /\ record = [next |-> record.next, announced |-> record.announced,
               requests |-> record.requests, serves |-> record.serves]
  /\ record.next \in Nat
  /\ IsMap(record.requests, RequestIds, Requested)
  /\ IsMap(record.serves, RequestIds, Service)

NetworkTypes ==
  /\ DOMAIN peer = Sessions /\ \A s \in Sessions : PeerOK(peer[s])
  /\ toRelay \in [Sessions -> Seq(ToRelayMessage)]
  /\ DOMAIN toPeer = Sessions
  /\ \A s \in Sessions : ToPeerOK(toPeer[s])

\* The relay is not ahead of the peer in counting the peer's requests.
RequestsCounted(s) ==
  /\ sessions[s].peer_next_expected <= peer[s].next
  /\ \A i \in DOMAIN toRelay[s] :
       toRelay[s][i].kind \in {"SUBSCRIBE", "PUBLISH_NAMESPACE"} =>
         toRelay[s][i].id + 2 <= peer[s].next

ViewsOf(s) ==
  /\ RequestsCounted(s)
  /\ \A r \in RequestIds : SubscriberView(s, r) /\ PublisherView(s, r)

Settled ==
  /\ ToldInv /\ UpstreamIndexExact /\ AllOpen /\ NetworkTypes
  /\ \A s \in Sessions : ViewsOf(s)

NetworkInv == Calm => Settled

---------------------------------------------------------------------------
(* What reading and sending does to the messages under way.                *)

\* No message is read.
NoMessage == [kind |-> "NONE", id |-> 0]

\* The kind of `m' if it is about `r'.
KindFor(m, r) == IF m.id = r THEN m.kind ELSE "NONE"

\* `rest' is `q' after its first message `m' was read, if one was.
Read(q, rest, m, r) ==
  /\ \A K : OnItsWay(rest, K, r) => OnItsWay(q, K, r)
  /\ \A K : K # KindFor(m, r) /\ OnItsWay(q, K, r) => OnItsWay(rest, K, r)
  /\ \A K, f, v : Carries(q, K, r, f, v) => Carries(rest, K, r, f, v)
  /\ \A K, L : Follows(q, K, L, r) =>
                 OnItsWay(rest, L, r) /\ (K # KindFor(m, r) => Follows(rest, K, L, r))
  /\ \A K : Once(q, K, r) => Once(rest, K, r)
  /\ KindFor(m, r) # "NONE" =>
       /\ OnItsWay(q, KindFor(m, r), r)
       /\ Once(q, KindFor(m, r), r) => ~OnItsWay(rest, KindFor(m, r), r)
       /\ \A f, v : Carries(q, KindFor(m, r), r, f, v) => m[f] = v

\* A queue that nothing is read from is read as it is.
LEMMA ReadNothing ==
  ASSUME NEW q, NEW r
  PROVE  Read(q, q, NoMessage, r)
<1>1. KindFor(NoMessage, r) = "NONE"
  BY DEF KindFor, NoMessage
<1> QED BY <1>1 DEF Read, Follows, OnItsWay

\* Taking the head of a queue takes at most one message about `r', the first.
LEMMA ReadFirst ==
  ASSUME NEW S, NEW q \in Seq(S), q # <<>>, NEW r, Head(q).kind # "NONE"
  PROVE  Read(q, Tail(q), Head(q), r)
<1> DEFINE m == Head(q)
           rest == Tail(q)
<1>1. /\ Len(q) \in Nat /\ Len(q) > 0 /\ DOMAIN q = 1 .. Len(q)
      /\ m = q[1] /\ 1 \in DOMAIN q
  BY EmptySeq, LenProperties
<1>2. /\ DOMAIN rest = 1 .. (Len(q) - 1)
      /\ \A i \in DOMAIN rest : rest[i] = q[i + 1] /\ i + 1 \in DOMAIN q
  BY <1>1, HeadTailProperties, LenProperties
<1>3. \A i \in DOMAIN q : i = 1 \/ (i - 1 \in DOMAIN rest /\ rest[i - 1] = q[i])
  BY <1>1, <1>2
<1>4. \A K, i : i \in DOMAIN rest => (Concerns(rest, i, K, r) <=> Concerns(q, i + 1, K, r))
  BY <1>2 DEF Concerns
<1>5. \A K : Concerns(q, 1, K, r) => K = KindFor(m, r)
  BY <1>1 DEF Concerns, KindFor
<1>6. KindFor(m, r) # "NONE" => Concerns(q, 1, KindFor(m, r), r)
  BY <1>1 DEF Concerns, KindFor
<1>7. \A K, i : i \in DOMAIN q /\ Concerns(q, i, K, r) /\ i # 1 =>
               i - 1 \in DOMAIN rest /\ Concerns(rest, i - 1, K, r)
  BY <1>3 DEF Concerns
<1> HIDE DEF rest
<1>8. /\ \A K : OnItsWay(rest, K, r) => OnItsWay(q, K, r)
      /\ \A K : K # KindFor(m, r) /\ OnItsWay(q, K, r) => OnItsWay(rest, K, r)
  BY <1>2, <1>4, <1>5, <1>7 DEF OnItsWay
<1>9. \A K, f, v : Carries(q, K, r, f, v) => Carries(rest, K, r, f, v)
  BY <1>2, <1>4 DEF Carries
<1>10. ASSUME NEW K, NEW L, Follows(q, K, L, r)
       PROVE  OnItsWay(rest, L, r) /\ (K # KindFor(m, r) => Follows(rest, K, L, r))
  <2>1. PICK i, j \in DOMAIN q : i < j /\ Concerns(q, i, K, r) /\ Concerns(q, j, L, r)
    BY <1>10 DEF Follows
  <2>2. j # 1 /\ i \in Int /\ j \in Int
    BY <1>1, <2>1
  <2>3. j - 1 \in DOMAIN rest /\ Concerns(rest, j - 1, L, r)
    BY <1>7, <2>1, <2>2
  <2>4. ASSUME K # KindFor(m, r)
        PROVE  Follows(rest, K, L, r)
    <3>1. i - 1 \in DOMAIN rest /\ Concerns(rest, i - 1, K, r)
      BY <1>5, <1>7, <2>1, <2>4
    <3>2. i - 1 < j - 1
      BY <2>1, <2>2
    <3> QED BY <2>3, <3>1, <3>2 DEF Follows
  <2> QED BY <2>3, <2>4 DEF OnItsWay
<1>11. \A K : Once(q, K, r) => Once(rest, K, r)
  <2> SUFFICES ASSUME NEW K, Once(q, K, r), NEW i \in DOMAIN rest, NEW j \in DOMAIN rest,
                      Concerns(rest, i, K, r), Concerns(rest, j, K, r)
               PROVE  i = j
    BY DEF Once
  <2>1. i + 1 = j + 1
    BY <1>2, <1>4 DEF Once
  <2> QED BY <1>1, <1>2, <2>1
<1>12. ASSUME KindFor(m, r) # "NONE"
       PROVE  /\ OnItsWay(q, KindFor(m, r), r)
              /\ Once(q, KindFor(m, r), r) => ~OnItsWay(rest, KindFor(m, r), r)
              /\ \A f, v : Carries(q, KindFor(m, r), r, f, v) => m[f] = v
  <2>1. \A i \in DOMAIN rest : i + 1 # 1
    BY <1>1, <1>2
  <2> QED BY <1>1, <1>2, <1>4, <1>6, <1>12, <2>1 DEF OnItsWay, Once, Carries
<1> QED BY <1>8, <1>9, <1>10, <1>11, <1>12 DEF Read, rest

\* `more' is `q' after `p' was sent.
Grown(q, p, more, r) ==
  /\ \A K : OnItsWay(more, K, r) <=> OnItsWay(q, K, r) \/ OnItsWay(p, K, r)
  /\ \A K, f, v : Carries(more, K, r, f, v) <=> Carries(q, K, r, f, v) /\ Carries(p, K, r, f, v)
  /\ \A K, L : Follows(q, K, L, r) \/ (OnItsWay(q, K, r) /\ OnItsWay(p, L, r)) =>
                 Follows(more, K, L, r)
  /\ \A K : \/ Once(q, K, r) /\ ~OnItsWay(p, K, r)
            \/ ~OnItsWay(q, K, r) /\ Once(p, K, r)
            => Once(more, K, r)

\* A queue grows by what is put behind it.
LEMMA Concatenated ==
  ASSUME NEW S, NEW q \in Seq(S), NEW p \in Seq(S), NEW r
  PROVE  Grown(q, p, q \o p, r)
<1> DEFINE n == Len(q)
           more == q \o p
<1>1. /\ n \in Nat /\ Len(p) \in Nat
      /\ DOMAIN q = 1 .. n /\ DOMAIN p = 1 .. Len(p)
      /\ DOMAIN more = 1 .. (n + Len(p))
      /\ \A i \in 1 .. n + Len(p) : more[i] = IF i <= n THEN q[i] ELSE p[i - n]
  BY LenProperties, ConcatProperties
<1>2. \A i \in DOMAIN q : i \in DOMAIN more /\ more[i] = q[i] /\ i <= n /\ i \in Int
  BY <1>1
<1>3. \A i \in DOMAIN p : i + n \in DOMAIN more /\ more[i + n] = p[i] /\ i + n > n /\ i \in Int
  BY <1>1
<1>4. \A i \in DOMAIN more : \/ i \in DOMAIN q
                             \/ i - n \in DOMAIN p /\ (i - n) + n = i
  BY <1>1
<1> HIDE DEF more
<1>5. \A K, i : i \in DOMAIN q => (Concerns(more, i, K, r) <=> Concerns(q, i, K, r))
  BY <1>2 DEF Concerns
<1>6. \A K, i : i \in DOMAIN p => (Concerns(more, i + n, K, r) <=> Concerns(p, i, K, r))
  BY <1>3 DEF Concerns
<1>7. \A K : OnItsWay(more, K, r) <=> OnItsWay(q, K, r) \/ OnItsWay(p, K, r)
  BY <1>2, <1>3, <1>4, <1>5, <1>6 DEF OnItsWay
<1>8. ASSUME NEW K, NEW f, NEW v
      PROVE  Carries(more, K, r, f, v) <=> Carries(q, K, r, f, v) /\ Carries(p, K, r, f, v)
  BY <1>2, <1>3, <1>4, <1>5, <1>6 DEF Carries
<1>9. \A K, L : Follows(q, K, L, r) => Follows(more, K, L, r)
  BY <1>2, <1>5 DEF Follows
<1>10. \A K, L : OnItsWay(q, K, r) /\ OnItsWay(p, L, r) => Follows(more, K, L, r)
  <2> SUFFICES ASSUME NEW K, NEW L, NEW i \in DOMAIN q, NEW j \in DOMAIN p,
                      Concerns(q, i, K, r), Concerns(p, j, L, r)
               PROVE  Follows(more, K, L, r)
    BY DEF OnItsWay
  <2>1. i < j + n
    BY <1>1
  <2> QED BY <1>2, <1>3, <1>5, <1>6, <2>1 DEF Follows
<1>11. ASSUME NEW K, \/ Once(q, K, r) /\ ~OnItsWay(p, K, r)
                     \/ ~OnItsWay(q, K, r) /\ Once(p, K, r)
       PROVE  Once(more, K, r)
  <2> SUFFICES ASSUME NEW i \in DOMAIN more, NEW j \in DOMAIN more,
                      Concerns(more, i, K, r), Concerns(more, j, K, r)
               PROVE  i = j
    BY DEF Once
  <2>1. CASE Once(q, K, r) /\ ~OnItsWay(p, K, r)
    <3>1. \A k \in DOMAIN more : Concerns(more, k, K, r) => k \in DOMAIN q /\ Concerns(q, k, K, r)
      BY <1>4, <1>5, <1>6, <2>1 DEF OnItsWay
    <3> QED BY <2>1, <3>1 DEF Once
  <2>2. CASE ~OnItsWay(q, K, r) /\ Once(p, K, r)
    <3>1. \A k \in DOMAIN more : Concerns(more, k, K, r) =>
             k - n \in DOMAIN p /\ Concerns(p, k - n, K, r)
      BY <1>4, <1>5, <1>6, <2>2 DEF OnItsWay
    <3>2. i - n = j - n
      BY <2>2, <3>1 DEF Once
    <3> QED BY <1>1, <3>2
  <2> QED BY <1>11, <2>1, <2>2
<1> QED BY <1>7, <1>8, <1>9, <1>10, <1>11 DEF Grown, more

\* One message that is sent.
LEMMA OneMessage ==
  ASSUME NEW m, NEW r
  PROVE  /\ \A K : OnItsWay(<<m>>, K, r) <=> m.kind = K /\ m.id = r
         /\ \A K, f, v : Carries(<<m>>, K, r, f, v) <=> (m.kind = K /\ m.id = r => m[f] = v)
<1>1. DOMAIN <<m>> = {1} /\ <<m>>[1] = m
  OBVIOUS
<1> QED BY <1>1 DEF OnItsWay, Carries, Concerns

\* A queue grows by the one message that is appended.
LEMMA Appended ==
  ASSUME NEW S, NEW q \in Seq(S), NEW m, NEW r
  PROVE  Grown(q, <<m>>, Append(q, m), r)
<1>1. q \in Seq(S \cup {m}) /\ <<m>> \in Seq(S \cup {m})
  BY SeqMonotonic
<1>2. Append(q, m) = q \o <<m>>
  BY <1>1
<1> QED BY <1>1, <1>2, Concatenated

---------------------------------------------------------------------------
(* A step of the relay in the subscriber's view.                           *)

Replies == {"SUBSCRIBE_OK", "REQUEST_ERROR", "PUBLISH_DONE"}

\* What a step in which the relay reads `m' from the subscriber's session does to a
\* request: a message about it starts, spends or cancels it, any other accepts it or
\* ends it with a reply.
SubscriptionStep(S, S2, t, t2, told, m, r) ==
  \/ /\ KindFor(m, r) = "SUBSCRIBE" /\ S = "Unused"
     /\ S2 \in ActiveStates => t2 = m.track
     /\ \/ S2 = "Pending" /\ told = {}
        \/ S2 = "Established" /\ told = {"SUBSCRIBE_OK"}
        \/ S2 = "Ended" /\ told = {"REQUEST_ERROR"}
  \/ /\ KindFor(m, r) = "PUBLISH_NAMESPACE"
     /\ S = "Unused" /\ S2 = "Ended" /\ told = {}
  \/ /\ KindFor(m, r) = "UNSUBSCRIBE"
     /\ S \in ActiveStates /\ S2 = "Ended" /\ told = {}
  \/ /\ KindFor(m, r) \notin {"SUBSCRIBE", "PUBLISH_NAMESPACE", "UNSUBSCRIBE"}
     /\ S \in ActiveStates /\ S2 \in ActiveStates => t2 = t
     /\ \/ S2 = S /\ told = {}
        \/ S = "Pending" /\ S2 = "Established" /\ told = {"SUBSCRIBE_OK"}
        \/ S = "Pending" /\ S2 = "Ended" /\ told = {"REQUEST_ERROR"}
        \/ S = "Established" /\ S2 = "Ended" /\ told = {"PUBLISH_DONE"}

Statuses == {"Unused", "Pending", "Established", "Ended"}

\* A step of the relay keeps the subscriber's view of a subscription it made.
LEMMA StillSubscribed ==
  ASSUME NEW S \in Statuses, NEW S2 \in Statuses, NEW t, NEW t2, NEW told \in SUBSET Replies,
         NEW mine, mine.state \in {"Pending", "Established", "Ended"}, NEW m, NEW r,
         NEW up, NEW up2, Read(up, up2, m, r),
         NEW down, NEW p, NEW down2, Grown(down, p, down2, r),
         \A K \in Replies : OnItsWay(p, K, r) <=> K \in told,
         SubscriptionStep(S, S2, t, t2, told, m, r),
         Subscribed(S, t, mine, r, up, down)
  PROVE  Subscribed(S2, t2, mine, r, up2, down2)
<1> DEFINE Up(K) == OnItsWay(up, K, r)
           Up2(K) == OnItsWay(up2, K, r)
           Down(K) == OnItsWay(down, K, r)
           Down2(K) == OnItsWay(down2, K, r)
           kind == KindFor(m, r)
<1>1. \A K \in {"SUBSCRIBE", "UNSUBSCRIBE", "PUBLISH_NAMESPACE"} :
        /\ Up2(K) => Up(K)
        /\ K # kind /\ Up(K) => Up2(K)
        /\ K = kind => Up(K)
  BY DEF Read
<1>2. /\ Carries(up2, "SUBSCRIBE", r, "track", mine.track)
      /\ kind = "SUBSCRIBE" => m.track = mine.track
  BY DEF Read, Subscribed
<1>3. \A K \in Replies : Down2(K) <=> Down(K) \/ K \in told
  BY DEF Grown
<1>4. /\ Follows(down, "SUBSCRIBE_OK", "PUBLISH_DONE", r) =>
           Follows(down2, "SUBSCRIBE_OK", "PUBLISH_DONE", r)
      /\ Down("SUBSCRIBE_OK") /\ "PUBLISH_DONE" \in told =>
           Follows(down2, "SUBSCRIBE_OK", "PUBLISH_DONE", r)
  BY DEF Grown, Replies
<1> DEFINE Old == Follows(down, "SUBSCRIBE_OK", "PUBLISH_DONE", r)
           New == Follows(down2, "SUBSCRIBE_OK", "PUBLISH_DONE", r)
<1>5. /\ ~Up("PUBLISH_NAMESPACE")
      /\ S = "Unused" => Up("SUBSCRIBE")
      /\ S \in {"Unused", "Pending"} => mine.state # "Established" /\ ~Down("SUBSCRIBE_OK")
      /\ S \in ActiveStates => mine.track = t
      /\ S # "Ended" => /\ ~Down("REQUEST_ERROR") /\ ~Down("PUBLISH_DONE")
                        /\ mine.state = "Ended" => Up("UNSUBSCRIBE")
      /\ Up("UNSUBSCRIBE") => mine.state = "Ended"
      /\ S = "Established" /\ mine.state = "Pending" => Down("SUBSCRIBE_OK")
      /\ S = "Ended" /\ mine.state = "Pending" =>
           (Down("REQUEST_ERROR") /\ ~Down("SUBSCRIBE_OK")) \/ Old
      /\ S = "Ended" /\ mine.state = "Established" => Down("PUBLISH_DONE")
  BY DEF Subscribed
<1> SUFFICES
      /\ ~Up2("PUBLISH_NAMESPACE")
      /\ S2 = "Unused" => Up2("SUBSCRIBE")
      /\ S2 \in {"Unused", "Pending"} => mine.state # "Established" /\ ~Down2("SUBSCRIBE_OK")
      /\ S2 \in ActiveStates => mine.track = t2
      /\ S2 # "Ended" => /\ ~Down2("REQUEST_ERROR") /\ ~Down2("PUBLISH_DONE")
                         /\ mine.state = "Ended" => Up2("UNSUBSCRIBE")
      /\ Up2("UNSUBSCRIBE") => mine.state = "Ended"
      /\ S2 = "Established" /\ mine.state = "Pending" => Down2("SUBSCRIBE_OK")
      /\ S2 = "Ended" /\ mine.state = "Pending" =>
           (Down2("REQUEST_ERROR") /\ ~Down2("SUBSCRIBE_OK")) \/ New
      /\ S2 = "Ended" /\ mine.state = "Established" => Down2("PUBLISH_DONE")
  BY <1>2 DEF Subscribed
<1>6. Old => New
  BY <1>4
<1>7. Down("SUBSCRIBE_OK") /\ "PUBLISH_DONE" \in told => New
  BY <1>4
<1> HIDE DEF Up, Up2, Down, Down2, kind, Old, New
<1>8. CASE kind = "SUBSCRIBE"
  BY <1>1, <1>2, <1>3, <1>5, <1>8 DEF SubscriptionStep, ActiveStates, Replies, kind
<1>9. CASE kind = "UNSUBSCRIBE"
  BY <1>1, <1>3, <1>5, <1>9 DEF SubscriptionStep, ActiveStates, Replies, kind
<1>10. kind # "PUBLISH_NAMESPACE"
  BY <1>1, <1>5
<1>11. CASE kind \notin {"SUBSCRIBE", "UNSUBSCRIBE"}
  <2>1. /\ S \in ActiveStates /\ S2 \in ActiveStates => t2 = t
        /\ \/ S2 = S /\ told = {}
           \/ S = "Pending" /\ S2 = "Established" /\ told = {"SUBSCRIBE_OK"}
           \/ S = "Pending" /\ S2 = "Ended" /\ told = {"REQUEST_ERROR"}
           \/ S = "Established" /\ S2 = "Ended" /\ told = {"PUBLISH_DONE"}
    BY <1>10, <1>11 DEF SubscriptionStep, kind
  <2> QED BY <1>1, <1>3, <1>5, <1>6, <1>7, <1>11, <2>1 DEF ActiveStates, Replies, Statuses
<1> QED BY <1>8, <1>9, <1>11

\* A step of the relay keeps the view of an id the subscriber has not used.
LEMMA StillNotSubscribed ==
  ASSUME NEW S \in Statuses, NEW S2 \in Statuses, NEW t, NEW t2, NEW told \in SUBSET Replies,
         NEW m, NEW r, NEW up, NEW up2, Read(up, up2, m, r),
         NEW down, NEW p, NEW down2, Grown(down, p, down2, r),
         \A K \in Replies : OnItsWay(p, K, r) <=> K \in told,
         SubscriptionStep(S, S2, t, t2, told, m, r),
         NotSubscribed(S, r, up, down)
  PROVE  NotSubscribed(S2, r, up2, down2)
<1>1. /\ ~OnItsWay(up, "SUBSCRIBE", r) /\ ~OnItsWay(up, "UNSUBSCRIBE", r)
      /\ S \in {"Unused", "Ended"}
      /\ S = "Unused" => \A K \in Replies : ~OnItsWay(down, K, r)
  BY DEF NotSubscribed, Replies
<1>2. KindFor(m, r) \notin {"SUBSCRIBE", "UNSUBSCRIBE"}
  BY <1>1 DEF Read
<1>3. ~OnItsWay(up2, "SUBSCRIBE", r) /\ ~OnItsWay(up2, "UNSUBSCRIBE", r)
  BY <1>1 DEF Read
<1>4. \/ S2 = "Ended"
      \/ S2 = "Unused" /\ S = "Unused" /\ told = {}
  BY <1>1, <1>2 DEF SubscriptionStep, ActiveStates
<1>5. S2 = "Unused" => \A K \in Replies : ~OnItsWay(down2, K, r)
  BY <1>1, <1>4 DEF Grown
<1> QED BY <1>3, <1>4, <1>5 DEF NotSubscribed, Replies

---------------------------------------------------------------------------
(* Steps of the subscriber.                                                *)

\* Another message of the peer, or about another request, is sent.
LEMMA SubscribedSends ==
  ASSUME NEW S, NEW t, NEW mine, NEW m, NEW r, NEW up, NEW up2, NEW down,
         Grown(up, <<m>>, up2, r),
         m.id = r => m.kind \notin {"PUBLISH_NAMESPACE", "SUBSCRIBE", "UNSUBSCRIBE"}
  PROVE  /\ Subscribed(S, t, mine, r, up, down) => Subscribed(S, t, mine, r, up2, down)
         /\ NotSubscribed(S, r, up, down) => NotSubscribed(S, r, up2, down)
<1>1. \A K \in {"PUBLISH_NAMESPACE", "SUBSCRIBE", "UNSUBSCRIBE"} :
        OnItsWay(up2, K, r) <=> OnItsWay(up, K, r)
  BY OneMessage DEF Grown
<1>2. \A f, v : Carries(up2, "SUBSCRIBE", r, f, v) <=> Carries(up, "SUBSCRIBE", r, f, v)
  BY OneMessage DEF Grown
<1>3. /\ OnItsWay(up2, "PUBLISH_NAMESPACE", r) <=> OnItsWay(up, "PUBLISH_NAMESPACE", r)
      /\ OnItsWay(up2, "SUBSCRIBE", r) <=> OnItsWay(up, "SUBSCRIBE", r)
      /\ OnItsWay(up2, "UNSUBSCRIBE", r) <=> OnItsWay(up, "UNSUBSCRIBE", r)
  BY <1>1
<1> QED BY <1>2, <1>3 DEF Subscribed, NotSubscribed

\* An announcement uses an id that is not used for a subscription.
LEMMA NotSubscribedAnnounces ==
  ASSUME NEW S, NEW m, NEW r, NEW up, NEW up2, NEW down, Grown(up, <<m>>, up2, r),
         m.kind = "PUBLISH_NAMESPACE", NotSubscribed(S, r, up, down)
  PROVE  NotSubscribed(S, r, up2, down)
<1>1. /\ OnItsWay(up2, "SUBSCRIBE", r) <=> OnItsWay(up, "SUBSCRIBE", r)
      /\ OnItsWay(up2, "UNSUBSCRIBE", r) <=> OnItsWay(up, "UNSUBSCRIBE", r)
  BY OneMessage DEF Grown
<1> QED BY <1>1 DEF NotSubscribed

\* A subscriber that sends SUBSCRIBE with an unused id has a subscription in its view.
LEMMA NewSubscribed ==
  ASSUME NEW t, NEW u, NEW m, NEW r, NEW up, NEW up2, NEW down, Grown(up, <<m>>, up2, r),
         m.kind = "SUBSCRIBE", m.id = r, m.track = u,
         NotSubscribed("Unused", r, up, down), ~OnItsWay(up, "PUBLISH_NAMESPACE", r)
  PROVE  Subscribed("Unused", t, [track |-> u, state |-> "Pending"], r, up2, down)
<1>1. /\ OnItsWay(up2, "SUBSCRIBE", r) /\ ~OnItsWay(up2, "UNSUBSCRIBE", r)
      /\ ~OnItsWay(up2, "PUBLISH_NAMESPACE", r)
  BY OneMessage DEF Grown, NotSubscribed
<1>2. Carries(up, "SUBSCRIBE", r, "track", u)
  BY DEF NotSubscribed, Carries, OnItsWay
<1>3. Carries(up2, "SUBSCRIBE", r, "track", u)
  BY <1>2, OneMessage DEF Grown
<1> QED BY <1>1, <1>3 DEF Subscribed, NotSubscribed, ActiveStates

\* A subscriber that sends UNSUBSCRIBE has an ended one.
LEMMA EndedSubscribed ==
  ASSUME NEW S, NEW t, NEW mine, NEW ended, NEW m, NEW r, NEW up, NEW up2, NEW down,
         Grown(up, <<m>>, up2, r), m.kind = "UNSUBSCRIBE", m.id = r,
         ended.track = mine.track, ended.state = "Ended",
         Subscribed(S, t, mine, r, up, down)
  PROVE  Subscribed(S, t, ended, r, up2, down)
<1>1. /\ OnItsWay(up2, "SUBSCRIBE", r) <=> OnItsWay(up, "SUBSCRIBE", r)
      /\ OnItsWay(up2, "PUBLISH_NAMESPACE", r) <=> OnItsWay(up, "PUBLISH_NAMESPACE", r)
      /\ OnItsWay(up2, "UNSUBSCRIBE", r)
  BY OneMessage DEF Grown
<1>2. Carries(up2, "SUBSCRIBE", r, "track", mine.track)
  BY OneMessage DEF Grown, Subscribed
<1> QED BY <1>1, <1>2 DEF Subscribed

\* What a reply does to the subscriber's record.
AfterReply(state, kind) ==
  IF kind = "SUBSCRIBE_OK" /\ state = "Pending" THEN "Established"
  ELSE IF kind = "REQUEST_ERROR" /\ state = "Pending" THEN "Ended"
  ELSE IF kind = "PUBLISH_DONE" /\ state = "Established" THEN "Ended"
  ELSE state

\* A subscriber that reads a reply keeps its view: the reply is what the relay's status had
\* been waiting for it to learn.
LEMMA SubscribedHears ==
  ASSUME NEW S \in Statuses, NEW t, NEW mine,
         mine.state \in {"Pending", "Established", "Ended"}, NEW after, NEW m, NEW r,
         NEW up, NEW down, NEW down2, Read(down, down2, m, r),
         after.track = mine.track, after.state = AfterReply(mine.state, KindFor(m, r)),
         Subscribed(S, t, mine, r, up, down)
  PROVE  Subscribed(S, t, after, r, up, down2)
<1> DEFINE Up(K) == OnItsWay(up, K, r)
           Down(K) == OnItsWay(down, K, r)
           Down2(K) == OnItsWay(down2, K, r)
           Old == Follows(down, "SUBSCRIBE_OK", "PUBLISH_DONE", r)
           New == Follows(down2, "SUBSCRIBE_OK", "PUBLISH_DONE", r)
           kind == KindFor(m, r)
<1>1. \A K \in Replies : /\ Down2(K) => Down(K)
                         /\ K # kind /\ Down(K) => Down2(K)
                         /\ K = kind => Down(K)
  BY DEF Read, Replies
<1>2. Old => Down2("PUBLISH_DONE") /\ (kind # "SUBSCRIBE_OK" => New)
  BY DEF Read
<1>3. /\ S \in {"Unused", "Pending"} => mine.state # "Established" /\ ~Down("SUBSCRIBE_OK")
      /\ S # "Ended" => /\ ~Down("REQUEST_ERROR") /\ ~Down("PUBLISH_DONE")
                        /\ mine.state = "Ended" => Up("UNSUBSCRIBE")
      /\ Up("UNSUBSCRIBE") => mine.state = "Ended"
      /\ S = "Established" /\ mine.state = "Pending" => Down("SUBSCRIBE_OK")
      /\ S = "Ended" /\ mine.state = "Pending" =>
           (Down("REQUEST_ERROR") /\ ~Down("SUBSCRIBE_OK")) \/ Old
      /\ S = "Ended" /\ mine.state = "Established" => Down("PUBLISH_DONE")
  BY DEF Subscribed
<1> SUFFICES
      /\ S \in {"Unused", "Pending"} => after.state # "Established" /\ ~Down2("SUBSCRIBE_OK")
      /\ S # "Ended" => /\ ~Down2("REQUEST_ERROR") /\ ~Down2("PUBLISH_DONE")
                        /\ after.state = "Ended" => Up("UNSUBSCRIBE")
      /\ Up("UNSUBSCRIBE") => after.state = "Ended"
      /\ S = "Established" /\ after.state = "Pending" => Down2("SUBSCRIBE_OK")
      /\ S = "Ended" /\ after.state = "Pending" =>
           (Down2("REQUEST_ERROR") /\ ~Down2("SUBSCRIBE_OK")) \/ New
      /\ S = "Ended" /\ after.state = "Established" => Down2("PUBLISH_DONE")
  BY DEF Subscribed
<1> HIDE DEF Up, Down, Down2, Old, New, kind
<1>4. CASE kind \in Replies
  BY <1>1, <1>2, <1>3, <1>4 DEF Replies, AfterReply, Statuses, kind
<1>5. CASE kind \notin Replies
  BY <1>1, <1>2, <1>3, <1>5 DEF Replies, AfterReply, Statuses, kind
<1> QED BY <1>4, <1>5

\* What a subscriber reads does not touch an id it has not used.
LEMMA NotSubscribedHears ==
  ASSUME NEW S, NEW m, NEW r, NEW up, NEW down, NEW down2, Read(down, down2, m, r),
         NotSubscribed(S, r, up, down)
  PROVE  NotSubscribed(S, r, up, down2)
BY DEF NotSubscribed, Read

---------------------------------------------------------------------------
(* A step of the relay in the publisher's view.                            *)

\* What a step in which the relay reads `m' from the publisher's session does to one of
\* its own requests: nothing, or the id is passed over, asked for, cancelled, ended by
\* the publisher or confirmed.  `said' are the kinds of message it sends about it.
LegStep(L, L2, t, t2, a, a2, said, m, r) ==
  \/ /\ L2 = L /\ said = {} /\ KindFor(m, r) # "SUBSCRIBE_OK"
     /\ L \in ActiveStates => /\ t2 = t /\ a2 = a
                              /\ KindFor(m, r) \notin {"REQUEST_ERROR", "PUBLISH_DONE"}
  \/ L = "Unused" /\ L2 = "Ended" /\ said = {}
  \/ L = "Unused" /\ L2 = "Pending" /\ said = {"SUBSCRIBE"} /\ a2 = NoAlias
  \/ L \in ActiveStates /\ L2 = "Ended" /\ said = {"UNSUBSCRIBE"}
  \/ /\ L \in ActiveStates /\ L2 = "Ended" /\ said = {}
     /\ KindFor(m, r) \in {"REQUEST_ERROR", "PUBLISH_DONE"}
  \/ /\ L = "Pending" /\ L2 = "Established" /\ t2 = t /\ said = {}
     /\ KindFor(m, r) = "SUBSCRIBE_OK" /\ a2 = m.alias

\* `p' is what the relay sends to the publisher.
Says(p, said, t, r) ==
  /\ \A K \in {"SUBSCRIBE", "UNSUBSCRIBE"} : OnItsWay(p, K, r) <=> K \in said
  /\ Once(p, "SUBSCRIBE", r)
  /\ Carries(p, "SUBSCRIBE", r, "track", t)

\* A step of the relay keeps the view of a request it sent and the publisher has not read.
LEMMA StillAsked ==
  ASSUME NEW L \in Statuses, NEW L2 \in Statuses, NEW t, NEW t2, NEW a, NEW a2,
         NEW said \in SUBSET {"SUBSCRIBE", "UNSUBSCRIBE"}, NEW m, NEW r,
         NEW down, NEW p, NEW down2, Grown(down, p, down2, r), Says(p, said, t2, r),
         LegStep(L, L2, t, t2, a, a2, said, m, r),
         KindFor(m, r) \in {"REQUEST_ERROR", "PUBLISH_DONE"} /\ L \in ActiveStates =>
           ~OnItsWay(down, "SUBSCRIBE", r),
         Asked(L, t, a, r, down)
  PROVE  Asked(L2, t2, a2, r, down2)
<1> DEFINE Ask == OnItsWay(down, "SUBSCRIBE", r)
           Ask2 == OnItsWay(down2, "SUBSCRIBE", r)
           Take == OnItsWay(down, "UNSUBSCRIBE", r)
           Take2 == OnItsWay(down2, "UNSUBSCRIBE", r)
           Old == Follows(down, "SUBSCRIBE", "UNSUBSCRIBE", r)
           New == Follows(down2, "SUBSCRIBE", "UNSUBSCRIBE", r)
           Mine(u) == Carries(down, "SUBSCRIBE", r, "track", u)
           Mine2(u) == Carries(down2, "SUBSCRIBE", r, "track", u)
           kind == KindFor(m, r)
<1>1. /\ Ask2 <=> Ask \/ "SUBSCRIBE" \in said
      /\ Take2 <=> Take \/ "UNSUBSCRIBE" \in said
  BY DEF Grown, Says
<1>2. Old \/ (Ask /\ "UNSUBSCRIBE" \in said) => New
  BY DEF Grown, Says
<1>3. ~Ask \/ "SUBSCRIBE" \notin said => Once(down2, "SUBSCRIBE", r)
  BY DEF Grown, Says, Asked
<1>4. Mine(t2) => Mine2(t2)
  BY DEF Grown, Says
<1>5. ~Ask => Mine(t2)
  BY DEF OnItsWay, Carries
<1>6. /\ Ask => L # "Unused"
      /\ Take => L = "Ended"
      /\ L = "Ended" /\ Ask => Old
      /\ L \in ActiveStates => Mine(t)
      /\ L = "Pending" => a = NoAlias
      /\ kind \in {"REQUEST_ERROR", "PUBLISH_DONE"} /\ L \in ActiveStates => ~Ask
  BY DEF Asked
<1>7. LegStep(L, L2, t, t2, a, a2, said, m, r)
  OBVIOUS
<1>8. SUFFICES /\ ~Ask \/ "SUBSCRIBE" \notin said
               /\ Ask2 => L2 # "Unused"
               /\ Take2 => L2 = "Ended"
               /\ L2 = "Ended" /\ Ask2 => New
               /\ L2 \in ActiveStates => Mine2(t2)
               /\ L2 = "Pending" => a2 = NoAlias
  BY <1>3 DEF Asked
<1> HIDE DEF Ask, Ask2, Take, Take2, Old, New, Mine, Mine2, kind
<1>9. /\ ~Ask \/ "SUBSCRIBE" \notin said
      /\ Ask2 => L2 # "Unused"
      /\ Take2 => L2 = "Ended"
  BY <1>1, <1>6, <1>7 DEF LegStep, ActiveStates
<1>10. L2 = "Ended" /\ Ask2 => New
  BY <1>1, <1>2, <1>6, <1>7 DEF LegStep, ActiveStates, Statuses, kind
<1>11. L2 \in ActiveStates => Mine2(t2) /\ (L2 = "Pending" => a2 = NoAlias)
  BY <1>4, <1>5, <1>6, <1>7, <1>9 DEF LegStep, ActiveStates
<1> QED BY <1>9, <1>10, <1>11 DEF ActiveStates

\* A step of the relay keeps the view of a request the publisher serves.
LEMMA StillServed ==
  ASSUME NEW L \in Statuses, NEW L2 \in Statuses, NEW t, NEW t2, NEW a, NEW a2,
         NEW said \in SUBSET {"SUBSCRIBE", "UNSUBSCRIBE"}, NEW mine, NEW m, NEW r,
         mine.state \in {"Pending", "Established", "Ended", "Done"},
         NEW up, NEW up2, Read(up, up2, m, r),
         NEW down, NEW p, NEW down2, Grown(down, p, down2, r), Says(p, said, t2, r),
         LegStep(L, L2, t, t2, a, a2, said, m, r),
         Served(L, t, a, mine, r, up, down)
  PROVE  Served(L2, t2, a2, mine, r, up2, down2)
<1> DEFINE Up(K) == OnItsWay(up, K, r)
           Up2(K) == OnItsWay(up2, K, r)
           kind == KindFor(m, r)
           Ask2 == OnItsWay(down2, "SUBSCRIBE", r)
           Take == OnItsWay(down, "UNSUBSCRIBE", r)
           Take2 == OnItsWay(down2, "UNSUBSCRIBE", r)
<1>1. \A K \in Replies : /\ Up2(K) => Up(K)
                         /\ K # kind /\ Up(K) => Up2(K)
                         /\ K = kind => Up(K)
  BY DEF Read, Replies
<1>2. /\ Carries(up2, "SUBSCRIBE_OK", r, "alias", mine.alias)
      /\ kind = "SUBSCRIBE_OK" => m.alias = mine.alias
  BY DEF Read, Served
<1>3. /\ Ask2 <=> "SUBSCRIBE" \in said
      /\ Take2 <=> Take \/ "UNSUBSCRIBE" \in said
  BY DEF Grown, Says, Served
<1>4. /\ L # "Unused"
      /\ Up("SUBSCRIBE_OK") => mine.state # "Pending"
      /\ Up("REQUEST_ERROR") \/ Up("PUBLISH_DONE") => mine.state \in {"Ended", "Done"}
      /\ L \in ActiveStates =>
           /\ mine.track = t
           /\ mine.state \in {"Ended", "Done"} => Up("REQUEST_ERROR") \/ Up("PUBLISH_DONE")
      /\ L = "Pending" /\ mine.state = "Established" => Up("SUBSCRIBE_OK")
      /\ L = "Established" => mine.state # "Pending" /\ mine.alias = a
      /\ L = "Ended" /\ mine.state \in ActiveStates => Take
      /\ mine.state = "Pending" => mine.alias = NoAlias
  BY DEF Served
<1>5. LegStep(L, L2, t, t2, a, a2, said, m, r)
  OBVIOUS
<1>6. SUFFICES
      /\ L2 # "Unused" /\ ~Ask2
      /\ Up2("SUBSCRIBE_OK") => mine.state # "Pending"
      /\ Up2("REQUEST_ERROR") \/ Up2("PUBLISH_DONE") => mine.state \in {"Ended", "Done"}
      /\ L2 \in ActiveStates =>
           /\ mine.track = t2
           /\ mine.state \in {"Ended", "Done"} => Up2("REQUEST_ERROR") \/ Up2("PUBLISH_DONE")
      /\ L2 = "Pending" /\ mine.state = "Established" => Up2("SUBSCRIBE_OK")
      /\ L2 = "Established" => mine.state # "Pending" /\ mine.alias = a2
      /\ L2 = "Ended" /\ mine.state \in ActiveStates => Take2
  BY <1>2, <1>4 DEF Served
<1> HIDE DEF Up, Up2, Ask2, Take, Take2, kind
<1>7. /\ Up2("SUBSCRIBE_OK") => mine.state # "Pending"
      /\ Up2("REQUEST_ERROR") \/ Up2("PUBLISH_DONE") => mine.state \in {"Ended", "Done"}
  BY <1>1, <1>4 DEF Replies
<1>8. CASE kind = "SUBSCRIBE_OK"
  BY <1>1, <1>2, <1>3, <1>4, <1>5, <1>7, <1>8 DEF LegStep, ActiveStates, Replies, kind
<1>9. CASE kind # "SUBSCRIBE_OK"
  BY <1>1, <1>3, <1>4, <1>5, <1>7, <1>9 DEF LegStep, ActiveStates, Replies, kind
<1> QED BY <1>8, <1>9

\* A step of the relay keeps the view of an id the publisher has not seen.
LEMMA StillNotServed ==
  ASSUME NEW L \in Statuses, NEW L2 \in Statuses, NEW t, NEW t2, NEW a, NEW a2,
         NEW said \in SUBSET {"SUBSCRIBE", "UNSUBSCRIBE"}, NEW m, NEW r,
         NEW up, NEW up2, Read(up, up2, m, r),
         NEW down, NEW p, NEW down2, Grown(down, p, down2, r), Says(p, said, t2, r),
         LegStep(L, L2, t, t2, a, a2, said, m, r),
         NotServed(L, r, up, down)
  PROVE  NotServed(L2, r, up2, down2)
<1>1. \A K \in Replies : ~OnItsWay(up, K, r) /\ ~OnItsWay(up2, K, r) /\ KindFor(m, r) # K
  BY DEF Read, NotServed, Replies
<1>2. OnItsWay(down2, "SUBSCRIBE", r) <=> OnItsWay(down, "SUBSCRIBE", r) \/ "SUBSCRIBE" \in said
  BY DEF Grown, Says
<1>3. L2 \in ActiveStates => L2 = "Pending" /\ OnItsWay(down2, "SUBSCRIBE", r)
  BY <1>1, <1>2 DEF LegStep, NotServed, ActiveStates, Replies
<1> QED BY <1>1, <1>3 DEF NotServed, Replies

---------------------------------------------------------------------------
(* Steps of the publisher.                                                 *)

\* A message that is no reply, or about another request, is sent.
LEMMA ServedSends ==
  ASSUME NEW L, NEW t, NEW a, NEW mine, NEW m, NEW r, NEW up, NEW up2, NEW down,
         Grown(up, <<m>>, up2, r), m.id = r => m.kind \notin Replies
  PROVE  /\ Served(L, t, a, mine, r, up, down) => Served(L, t, a, mine, r, up2, down)
         /\ NotServed(L, r, up, down) => NotServed(L, r, up2, down)
<1>1. /\ OnItsWay(up2, "SUBSCRIBE_OK", r) <=> OnItsWay(up, "SUBSCRIBE_OK", r)
      /\ OnItsWay(up2, "REQUEST_ERROR", r) <=> OnItsWay(up, "REQUEST_ERROR", r)
      /\ OnItsWay(up2, "PUBLISH_DONE", r) <=> OnItsWay(up, "PUBLISH_DONE", r)
  BY OneMessage DEF Grown, Replies
<1>2. \A f, v : Carries(up2, "SUBSCRIBE_OK", r, f, v) <=> Carries(up, "SUBSCRIBE_OK", r, f, v)
  BY OneMessage DEF Grown, Replies
<1> QED BY <1>1, <1>2 DEF Served, NotServed

\* A reply is sent.
LEMMA ServedReplies ==
  ASSUME NEW L \in Statuses, NEW t, NEW a, NEW mine, NEW after, NEW m, NEW r,
         NEW up, NEW up2, NEW down, Grown(up, <<m>>, up2, r), m.id = r,
         \/ /\ m.kind = "SUBSCRIBE_OK" /\ mine.state = "Pending"
            /\ after.state = "Established" /\ after.alias = m.alias
         \/ /\ m.kind = "REQUEST_ERROR" /\ mine.state = "Pending"
            /\ after.state = "Ended" /\ after.alias = mine.alias
         \/ /\ m.kind = "PUBLISH_DONE" /\ mine.state = "Established"
            /\ after.state = "Done" /\ after.alias = mine.alias,
         after.track = mine.track,
         Served(L, t, a, mine, r, up, down)
  PROVE  Served(L, t, a, after, r, up2, down)
<1> DEFINE Up(K) == OnItsWay(up, K, r)
           Up2(K) == OnItsWay(up2, K, r)
           Ok(v) == Carries(up, "SUBSCRIBE_OK", r, "alias", v)
           Ok2(v) == Carries(up2, "SUBSCRIBE_OK", r, "alias", v)
           Take == OnItsWay(down, "UNSUBSCRIBE", r)
<1>1. \A K \in Replies : Up2(K) <=> Up(K) \/ K = m.kind
  BY OneMessage DEF Grown
<1>2. \A v : Ok2(v) <=> Ok(v) /\ (m.kind = "SUBSCRIBE_OK" => m.alias = v)
  BY OneMessage DEF Grown
<1>3. ~Up("SUBSCRIBE_OK") => \A v : Ok(v)
  BY DEF OnItsWay, Carries
<1>4. /\ L # "Unused"
      /\ Up("SUBSCRIBE_OK") => mine.state # "Pending"
      /\ Ok(mine.alias)
      /\ Up("REQUEST_ERROR") \/ Up("PUBLISH_DONE") => mine.state \in {"Ended", "Done"}
      /\ L \in ActiveStates => mine.track = t
      /\ L = "Pending" /\ mine.state = "Established" => Up("SUBSCRIBE_OK")
      /\ L = "Established" => mine.state # "Pending" /\ mine.alias = a
      /\ L = "Ended" /\ mine.state \in ActiveStates => Take
      /\ ~OnItsWay(down, "SUBSCRIBE", r)
  BY DEF Served
<1>5. SUFFICES
      /\ Up2("SUBSCRIBE_OK") => after.state # "Pending"
      /\ Ok2(after.alias)
      /\ Up2("REQUEST_ERROR") \/ Up2("PUBLISH_DONE") => after.state \in {"Ended", "Done"}
      /\ L \in ActiveStates /\ after.state \in {"Ended", "Done"} =>
           Up2("REQUEST_ERROR") \/ Up2("PUBLISH_DONE")
      /\ L = "Pending" /\ after.state = "Established" => Up2("SUBSCRIBE_OK")
      /\ L = "Established" => after.state # "Pending" /\ after.alias = a
      /\ L = "Ended" /\ after.state \in ActiveStates => Take
      /\ after.state = "Pending" => after.alias = NoAlias
  BY <1>4 DEF Served
<1> HIDE DEF Up, Up2, Ok, Ok2, Take
<1> QED BY <1>1, <1>2, <1>3, <1>4 DEF ActiveStates, Replies

\* A message that is not about the relay's request is read.
LEMMA ServedHears ==
  ASSUME NEW L, NEW t, NEW a, NEW mine, NEW m, NEW r, NEW up, NEW down, NEW down2,
         Read(down, down2, m, r), KindFor(m, r) \notin {"SUBSCRIBE", "UNSUBSCRIBE"}
  PROVE  /\ Asked(L, t, a, r, down) => Asked(L, t, a, r, down2)
         /\ Served(L, t, a, mine, r, up, down) => Served(L, t, a, mine, r, up, down2)
         /\ NotServed(L, r, up, down) => NotServed(L, r, up, down2)
<1>1. /\ OnItsWay(down2, "SUBSCRIBE", r) <=> OnItsWay(down, "SUBSCRIBE", r)
      /\ OnItsWay(down2, "UNSUBSCRIBE", r) <=> OnItsWay(down, "UNSUBSCRIBE", r)
      /\ Follows(down, "SUBSCRIBE", "UNSUBSCRIBE", r) => Follows(down2, "SUBSCRIBE", "UNSUBSCRIBE", r)
      /\ Once(down, "SUBSCRIBE", r) => Once(down2, "SUBSCRIBE", r)
      /\ Carries(down, "SUBSCRIBE", r, "track", t) => Carries(down2, "SUBSCRIBE", r, "track", t)
  BY DEF Read
<1> QED BY <1>1 DEF Asked, Served, NotServed

\* A SUBSCRIBE is read: it is the first message about the request.
LEMMA ServedAnew ==
  ASSUME NEW L \in Statuses, NEW t, NEW a, NEW m, NEW r, NEW up, NEW down, NEW down2,
         Read(down, down2, m, r), KindFor(m, r) = "SUBSCRIBE", Asked(L, t, a, r, down)
  PROVE  /\ Asked(L, t, a, r, down2)
         /\ \A mine : ~Served(L, t, a, mine, r, up, down)
         /\ NotServed(L, r, up, down) =>
              Served(L, t, a, [track |-> m.track, state |-> "Pending", alias |-> NoAlias],
                     r, up, down2)
<1>1. /\ OnItsWay(down, "SUBSCRIBE", r) /\ ~OnItsWay(down2, "SUBSCRIBE", r)
      /\ OnItsWay(down2, "UNSUBSCRIBE", r) => OnItsWay(down, "UNSUBSCRIBE", r)
      /\ Follows(down, "SUBSCRIBE", "UNSUBSCRIBE", r) => OnItsWay(down2, "UNSUBSCRIBE", r)
      /\ Once(down2, "SUBSCRIBE", r)
      /\ \A v : Carries(down, "SUBSCRIBE", r, "track", v) =>
                  m.track = v /\ Carries(down2, "SUBSCRIBE", r, "track", v)
  BY DEF Read, Asked
<1>2. Carries(up, "SUBSCRIBE_OK", r, "alias", NoAlias) \/ OnItsWay(up, "SUBSCRIBE_OK", r)
  BY DEF Carries, OnItsWay
<1> QED BY <1>1, <1>2 DEF Asked, Served, NotServed, ActiveStates, Statuses

\* An UNSUBSCRIBE is read.
LEMMA ServedNoMore ==
  ASSUME NEW L \in Statuses, NEW t, NEW a, NEW mine, NEW after, NEW m, NEW r,
         mine.state \in {"Pending", "Established", "Ended", "Done"},
         NEW up, NEW down, NEW down2,
         Read(down, down2, m, r), KindFor(m, r) = "UNSUBSCRIBE", Asked(L, t, a, r, down),
         after.track = mine.track, after.alias = mine.alias,
         after.state = IF mine.state \in ActiveStates THEN "Ended" ELSE mine.state
  PROVE  /\ Asked(L, t, a, r, down2)
         /\ Served(L, t, a, mine, r, up, down) => Served(L, t, a, after, r, up, down2)
         /\ NotServed(L, r, up, down) => NotServed(L, r, up, down2)
<1>1. /\ OnItsWay(down2, "SUBSCRIBE", r) <=> OnItsWay(down, "SUBSCRIBE", r)
      /\ OnItsWay(down, "UNSUBSCRIBE", r)
      /\ OnItsWay(down2, "UNSUBSCRIBE", r) => OnItsWay(down, "UNSUBSCRIBE", r)
      /\ Once(down2, "SUBSCRIBE", r)
      /\ \A v : Carries(down, "SUBSCRIBE", r, "track", v) =>
                  Carries(down2, "SUBSCRIBE", r, "track", v)
      /\ Follows(down, "SUBSCRIBE", "UNSUBSCRIBE", r) => Follows(down2, "SUBSCRIBE", "UNSUBSCRIBE", r)
  BY DEF Read, Asked
<1> QED BY <1>1 DEF Asked, Served, NotServed, ActiveStates, Statuses

---------------------------------------------------------------------------
(* What a handler does to the sessions and the subscribers' requests.      *)

\* The relay reads the message `m' from `s' and asks for no session to be closed.
Reads(s, m) ==
  /\ m \in ToRelayMessage /\ Handle(s, m)
  /\ \A e \in out' : e.kind # "CLOSE"

\* The handler and where it went.
Outcome(s, m) ==
  \/ /\ m.kind = "PUBLISH_NAMESPACE" /\ m.namespace \in Namespaces
     /\ HandlePublishNamespace(s, m.id, m.namespace)
     /\ PeerRequestIdVerdict(sessions[s], m.id) = "Ok"
  \/ /\ m.kind = "SUBSCRIBE" /\ m.track \in Tracks
     /\ PeerRequestIdVerdict(sessions[s], m.id) = "Ok"
     /\ \/ SubscribeJoins(s, m.id, m.track) \/ SubscribeFails(s, m.id, m.track)
        \/ SubscribeFansOut(s, m.id, m.track)
  \/ /\ m.kind = "SUBSCRIBE_OK" /\ m.alias \in InboundAliases
     /\ AwaitsSubscribeOk(s, m.id)
     /\ SubscribeOkForwarded(s, upstream_request_index[<<s, m.id>>], m.alias)
  \/ m.kind = "REQUEST_ERROR" /\ HandleRequestError(s, m.id)
  \/ m.kind = "PUBLISH_DONE" /\ HandlePublishDone(s, m.id)
  \/ m.kind = "UNSUBSCRIBE" /\ HandleUnsubscribe(s, m.id)

\* A message of a peer that is not closed by it was accepted: one of the handlers ran to its
\* end or ignored it.
LEMMA ReadsOutcome ==
  ASSUME NEW s, NEW m, Reads(s, m)
  PROVE  /\ ~\E y, error : Refuse(y, error)
         /\ s \in DOMAIN sessions /\ m.id \in RequestIds
         /\ Outcome(s, m)
<1> DEFINE NoClose == \A e \in out' : e.kind # "CLOSE"
<1>0. NoClose /\ \A y, error : CloseSession(y, error).kind = "CLOSE"
  BY DEF Reads, CloseSession
<1>1. ~\E y, error : Refuse(y, error)
  <2> HIDE DEF NoClose
  <2>1. \A y, error : Refuse(y, error) => CloseSession(y, error) \in out'
    BY DEF Refuse
  <2> QED BY <1>0, <2>1 DEF NoClose
<1>2. /\ m.id \in RequestIds
      /\ \/ /\ m.kind = "PUBLISH_NAMESPACE" /\ m.namespace \in Namespaces
            /\ HandlePublishNamespace(s, m.id, m.namespace)
         \/ m.kind = "SUBSCRIBE" /\ m.track \in Tracks /\ HandleSubscribe(s, m.id, m.track)
         \/ m.kind = "UNSUBSCRIBE" /\ HandleUnsubscribe(s, m.id)
         \/ /\ m.kind = "SUBSCRIBE_OK" /\ m.alias \in InboundAliases
            /\ HandleSubscribeOk(s, m.id, m.alias)
         \/ m.kind = "REQUEST_ERROR" /\ HandleRequestError(s, m.id)
         \/ m.kind = "PUBLISH_DONE" /\ HandlePublishDone(s, m.id)
  BY DEF Reads, Handle, ToRelayMessage
<1>3. ASSUME HandlePublishNamespace(s, m.id, m.namespace)
      PROVE  s \in DOMAIN sessions /\ PeerRequestIdVerdict(sessions[s], m.id) = "Ok"
  BY <1>1, <1>3 DEF HandlePublishNamespace, Receives
<1>4. ASSUME HandleSubscribe(s, m.id, m.track)
      PROVE  /\ s \in DOMAIN sessions /\ PeerRequestIdVerdict(sessions[s], m.id) = "Ok"
             /\ \/ SubscribeJoins(s, m.id, m.track) \/ SubscribeFails(s, m.id, m.track)
                \/ SubscribeFansOut(s, m.id, m.track)
  BY <1>1, <1>4 DEF HandleSubscribe, Receives
<1>5. ASSUME HandleSubscribeOk(s, m.id, m.alias)
      PROVE  /\ s \in DOMAIN sessions /\ AwaitsSubscribeOk(s, m.id)
             /\ SubscribeOkForwarded(s, upstream_request_index[<<s, m.id>>], m.alias)
  <2>1. ~SubscribeOkDuplicateAlias(s, upstream_request_index[<<s, m.id>>], m.alias)
    <3> DEFINE close == CloseSession(s, "DuplicateTrackAlias")
    <3>1. SubscribeOkDuplicateAlias(s, upstream_request_index[<<s, m.id>>], m.alias) => close \in out'
      BY DEF SubscribeOkDuplicateAlias
    <3> QED BY <1>0, <3>1
  <2> QED BY <1>1, <1>5, <2>1 DEF HandleSubscribeOk, Receives
<1>6. HandleUnsubscribe(s, m.id) \/ HandleRequestError(s, m.id) \/ HandlePublishDone(s, m.id) =>
        s \in DOMAIN sessions
  BY DEF HandleUnsubscribe, HandleRequestError, HandlePublishDone, Receives
<1>7. Outcome(s, m)
  BY <1>2, <1>3, <1>4, <1>5 DEF Outcome
<1> QED BY <1>1, <1>2, <1>3, <1>4, <1>5, <1>6, <1>7

\* The limits of the sessions stay as they are.
LEMMA LimitsStay ==
  ASSUME PromiseInv, NEW s \in Sessions, NEW m, Reads(s, m), NEW y \in DOMAIN sessions
  PROVE  sessions'[y].peer_max_exclusive = sessions[y].peer_max_exclusive
<1>1. sessions[y] \in Session
  BY DEF PromiseInv, SessionsInv, DownstreamInv, TypeOK, IsMap
<1>2. /\ ~\E z, error : Refuse(z, error)
      /\ s \in DOMAIN sessions /\ Outcome(s, m)
  BY ReadsOutcome
<1>3. ASSUME HandlePublishNamespace(s, m.id, m.namespace)
      PROVE  sessions'[y].peer_max_exclusive = sessions[y].peer_max_exclusive
  <2>1. PICK n : NamespaceServed(s, m.id, m.namespace, n)
    BY <1>2, <1>3, PublishNamespaceAsks
  <2> QED BY <1>1, <1>2, <2>1 DEF Session, NamespaceServed
<1>4. ASSUME SubscribeJoins(s, m.id, m.track)
      PROVE  sessions'[y].peer_max_exclusive = sessions[y].peer_max_exclusive
  <2>1. sessions' = [sessions EXCEPT ![s].peer_next_expected = m.id + 2,
                                     ![s].next_outbound = @ + 1]
    BY <1>4 DEF SubscribeJoins
  <2> QED BY <1>1, <2>1 DEF Session
<1>5. ASSUME SubscribeFails(s, m.id, m.track)
      PROVE  sessions'[y].peer_max_exclusive = sessions[y].peer_max_exclusive
  <2>1. sessions' = [sessions EXCEPT ![s].peer_next_expected = m.id + 2]
    BY <1>5 DEF SubscribeFails
  <2> QED BY <1>1, <2>1 DEF Session
<1>6. ASSUME SubscribeFansOut(s, m.id, m.track)
      PROVE  sessions'[y].peer_max_exclusive = sessions[y].peer_max_exclusive
  <2> DEFINE expected == IF y = s THEN m.id + 2 ELSE sessions[y].peer_next_expected
             local == IF y \in FanOutTargets(m.track) THEN sessions[y].local_next + 2
                      ELSE sessions[y].local_next
  <2>1. sessions' = [z \in DOMAIN sessions |->
          [sessions[z] EXCEPT
             !.peer_next_expected = IF z = s THEN m.id + 2 ELSE @,
             !.local_next = IF z \in FanOutTargets(m.track) THEN @ + 2 ELSE @]]
    BY <1>6 DEF SubscribeFansOut
  <2>2. sessions'[y] = [sessions[y] EXCEPT !.peer_next_expected = expected,
                                           !.local_next = local]
    BY <2>1
  <2> HIDE DEF expected, local
  <2> QED BY <1>1, <2>2 DEF Session
<1>7. ASSUME NEW t, NEW alias, SubscribeOkForwarded(s, t, alias)
      PROVE  sessions'[y].peer_max_exclusive = sessions[y].peer_max_exclusive
  <2> DEFINE Count(z) == Cardinality({d \in AwaitingSubscribers(t) : d[1] = z})
             bound == IF y = s THEN Put(sessions[y].inbound_aliases, alias, t)
                      ELSE sessions[y].inbound_aliases
             next == sessions[y].next_outbound + Count(y)
  <2>1. sessions' =
          [z \in DOMAIN sessions |->
             [sessions[z] EXCEPT
                !.inbound_aliases = IF z = s THEN Put(@, alias, t) ELSE @,
                !.next_outbound = @ + Count(z)]]
    BY <1>7 DEF SubscribeOkForwarded
  <2> HIDE DEF Count
  <2>2. sessions'[y] = [sessions[y] EXCEPT !.inbound_aliases = bound, !.next_outbound = next]
    BY <1>1, <2>1 DEF Session
  <2> HIDE DEF bound, next
  <2> QED BY <1>1, <2>2 DEF Session
<1>8. ASSUME HandleRequestError(s, m.id) \/ HandlePublishDone(s, m.id) \/ HandleUnsubscribe(s, m.id)
      PROVE  sessions'[y].peer_max_exclusive = sessions[y].peer_max_exclusive
  <2>1. UNCHANGED sessions
    BY <1>2, <1>8 DEF HandleRequestError, HandlePublishDone, HandleUnsubscribe, Ignore, relayVars
  <2> QED BY <2>1
<1> QED BY <1>2, <1>3, <1>4, <1>5, <1>6, <1>7, <1>8 DEF Outcome

\* What the step does to the counters.
LEMMA CountersStay ==
  ASSUME PromiseInv, NEW s \in Sessions, NEW m, Reads(s, m)
  PROVE  /\ DOMAIN sessions' = DOMAIN sessions
         /\ \A y \in DOMAIN sessions : /\ sessions'[y].role = sessions[y].role
                                       /\ sessions[y].local_next <= sessions'[y].local_next
         /\ IF m.kind \in {"SUBSCRIBE", "PUBLISH_NAMESPACE"} THEN Spends(s, m.id)
            ELSE \A y \in DOMAIN sessions :
                   sessions'[y].peer_next_expected = sessions[y].peer_next_expected
<1>1. /\ ~\E z, error : Refuse(z, error)
      /\ s \in DOMAIN sessions /\ m.id \in RequestIds /\ Outcome(s, m)
  BY ReadsOutcome
<1>2. \A y \in DOMAIN sessions : sessions[y].local_next \in Nat
  BY CounterTypes DEF PromiseInv
<1>3. CASE m.kind = "PUBLISH_NAMESPACE"
  <2>1. HandlePublishNamespace(s, m.id, m.namespace)
    BY <1>1, <1>3 DEF Outcome
  <2>2. Spends(s, m.id)
    BY <1>1, <2>1, PublishNamespaceSpends
  <2>3. PICK n \in Nat : NamespaceServed(s, m.id, m.namespace, n)
    BY <1>1, <2>1, PublishNamespaceAsks
  <2>4. \A y \in DOMAIN sessions :
          sessions'[y].local_next =
            IF y = s THEN sessions[y].local_next + 2 * n ELSE sessions[y].local_next
    BY <1>1, <2>3, PublishNamespaceCounters DEF PromiseInv
  <2>5. ASSUME NEW y \in DOMAIN sessions
        PROVE  sessions[y].local_next <= sessions'[y].local_next
    BY <1>2, <2>4
  <2> QED BY <1>3, <2>2, <2>5 DEF Spends
<1>4. CASE m.kind = "SUBSCRIBE"
  <2>1. /\ m.track \in Tracks
        /\ \/ SubscribeJoins(s, m.id, m.track) \/ SubscribeFails(s, m.id, m.track)
           \/ SubscribeFansOut(s, m.id, m.track)
    BY <1>1, <1>4 DEF Outcome
  <2>2. Spends(s, m.id)
    BY <1>1, <2>1, SubscribeSpends
  <2>3. ASSUME NEW y \in DOMAIN sessions
        PROVE  sessions[y].local_next <= sessions'[y].local_next
    <3>1. \/ sessions'[y].local_next = sessions[y].local_next
          \/ sessions'[y].local_next = sessions[y].local_next + 2
      BY <1>1, <2>1, JoinsCounters, FailsCounters, FansOutCounters DEF PromiseInv
    <3> QED BY <1>2, <3>1
  <2> QED BY <1>4, <2>2, <2>3 DEF Spends
<1>5. CASE m.kind = "SUBSCRIBE_OK"
  <2>1. PICK t : SubscribeOkForwarded(s, t, m.alias)
    BY <1>1, <1>5 DEF Outcome
  <2>2. DOMAIN sessions' = DOMAIN sessions
    BY <2>1 DEF SubscribeOkForwarded
  <2>3. ASSUME NEW y \in DOMAIN sessions
        PROVE  /\ sessions'[y].role = sessions[y].role
               /\ sessions'[y].peer_next_expected = sessions[y].peer_next_expected
               /\ sessions'[y].local_next = sessions[y].local_next
    BY <2>1, ForwardedKeeps, ForwardedCounters DEF PromiseInv
  <2> QED BY <1>2, <1>5, <2>2, <2>3
<1>6. CASE m.kind \notin {"PUBLISH_NAMESPACE", "SUBSCRIBE", "SUBSCRIBE_OK"}
  <2>1. UNCHANGED sessions
    BY <1>1, <1>6 DEF Outcome, HandleRequestError, HandlePublishDone, HandleUnsubscribe, Ignore,
                      relayVars
  <2> QED BY <1>2, <1>6, <2>1
<1> QED BY <1>3, <1>4, <1>5, <1>6


\* What the step does to the index of the subscribers' requests: only the request that
\* was read is new, and one that is gone was cancelled or told.
DownstreamStep(s, m) ==
  /\ m.kind \in {"SUBSCRIBE", "PUBLISH_NAMESPACE"} =>
       PeerRequestIdVerdict(sessions[s], m.id) = "Ok"
  /\ \A k \in DOMAIN downstream_request_index' :
       \/ /\ k \in DOMAIN downstream_request_index
          /\ downstream_request_index'[k] = downstream_request_index[k]
       \/ m.kind = "SUBSCRIBE" /\ k = <<s, m.id>> /\ downstream_request_index'[k] = m.track
  /\ \A k \in DOMAIN downstream_request_index \ DOMAIN downstream_request_index' :
       (m.kind = "UNSUBSCRIBE" /\ k = <<s, m.id>>) \/ ToldTo(k[1], k[2])' # {}
  /\ m.kind \in {"UNSUBSCRIBE", "PUBLISH_NAMESPACE"} => \A x, q : ToldTo(x, q)' = {}
  /\ m.kind = "UNSUBSCRIBE" =>
       <<s, m.id>> \in DOMAIN downstream_request_index \ DOMAIN downstream_request_index'
  /\ m.kind = "SUBSCRIBE" /\ <<s, m.id>> \notin DOMAIN downstream_request_index' =>
       ToldTo(s, m.id)' # {}

\* A reply in the events of the step.
LEMMA ToldByEvent ==
  ASSUME NEW e \in out', e.kind \in Replies, NEW x, NEW q, e.to = x, e.id = q
  PROVE  ToldTo(x, q)' # {}
<1>1. e.kind \in ToldTo(x, q)'
  BY DEF ToldTo, Replies
<1> QED BY <1>1

\* A step that ends the requests `ended', each with a reply.
LEMMA EndedStep ==
  ASSUME PromiseInv, NEW s, NEW m, m.kind \in {"REQUEST_ERROR", "PUBLISH_DONE"}, NEW ended,
         downstream_request_index' = Drop(downstream_request_index, ended),
         \A d \in ended : SendPublishDone(d[1], d[2]) \in out' \/ SendRequestError(d[1], d[2]) \in out'
  PROVE  DownstreamStep(s, m)
<1>1. \A k \in DOMAIN downstream_request_index' :
        /\ k \in DOMAIN downstream_request_index
        /\ downstream_request_index'[k] = downstream_request_index[k]
  BY DEF Drop, Restrict
<1>2. ASSUME NEW k \in DOMAIN downstream_request_index \ DOMAIN downstream_request_index'
      PROVE  ToldTo(k[1], k[2])' # {}
  <2>1. k \in ended
    BY DEF Drop, Restrict
  <2>2. CASE SendPublishDone(k[1], k[2]) \in out'
    BY <2>2, ToldByEvent DEF SendPublishDone, Replies
  <2>3. CASE SendRequestError(k[1], k[2]) \in out'
    BY <2>3, ToldByEvent DEF SendRequestError, Replies
  <2> QED BY <2>1, <2>2, <2>3
<1> QED BY <1>1, <1>2 DEF DownstreamStep

\* Every handler does downstream what its message allows.
LEMMA ReadsDownstream ==
  ASSUME PromiseInv, NEW s \in Sessions, NEW m, Reads(s, m)
  PROVE  DownstreamStep(s, m)
<1>1. /\ ~\E z, error : Refuse(z, error)
      /\ s \in DOMAIN sessions /\ m.id \in RequestIds /\ Outcome(s, m)
  BY ReadsOutcome
<1>2. ASSUME m.kind \in {"SUBSCRIBE", "PUBLISH_NAMESPACE"}
      PROVE  /\ PeerRequestIdVerdict(sessions[s], m.id) = "Ok"
             /\ <<s, m.id>> \notin DOMAIN downstream_request_index
  BY <1>1, <1>2, FreshRequest DEF Outcome, PromiseInv, SessionsInv
<1>3. CASE m.kind = "PUBLISH_NAMESPACE"
  <2>1. HandlePublishNamespace(s, m.id, m.namespace)
    BY <1>1, <1>3 DEF Outcome
  <2>2. UNCHANGED downstream_request_index
    BY <1>1, <2>1 DEF HandlePublishNamespace
  <2>3. \A x, q : ToldTo(x, q)' = {}
    BY <2>1, PublishNamespaceKinds, NotTold DEF OnlyKinds
  <2> QED BY <1>2, <1>3, <2>2, <2>3 DEF DownstreamStep
<1>4. CASE m.kind = "SUBSCRIBE"
  <2>1. CASE SubscribeJoins(s, m.id, m.track) \/ SubscribeFansOut(s, m.id, m.track)
    <3>1. downstream_request_index' = Put(downstream_request_index, <<s, m.id>>, m.track)
      BY <2>1 DEF SubscribeJoins, SubscribeFansOut
    <3> QED BY <1>2, <1>4, <3>1 DEF DownstreamStep, Put
  <2>2. CASE SubscribeFails(s, m.id, m.track)
    <3>1. /\ downstream_request_index' = Drop(downstream_request_index, {<<s, m.id>>})
          /\ SendRequestError(s, m.id) \in out'
      BY <2>2 DEF SubscribeFails
    <3>2. ToldTo(s, m.id)' # {}
      BY <3>1, ToldByEvent DEF SendRequestError, Replies
    <3> QED BY <1>2, <1>4, <3>1, <3>2 DEF DownstreamStep, Drop, Restrict
  <2> QED BY <1>1, <1>4, <2>1, <2>2 DEF Outcome
<1>5. CASE m.kind = "SUBSCRIBE_OK"
  <2>1. UNCHANGED downstream_request_index
    BY <1>1, <1>5 DEF Outcome, SubscribeOkForwarded
  <2> QED BY <1>5, <2>1 DEF DownstreamStep
<1>6. CASE m.kind = "REQUEST_ERROR"
  <2>1. CASE Ignore
    BY <1>6, <2>1 DEF Ignore, relayVars, DownstreamStep
  <2>2. CASE ~Ignore
    <3> DEFINE route == TerminateLegs(tracks[upstream_request_index[<<s, m.id>>]], {s})
               failed == IF AllUpstreamTerminated(route)
                         THEN DownstreamIn(route, {"Pending"}) ELSE {}
    <3>1. /\ downstream_request_index' = Drop(downstream_request_index, failed)
          /\ \A d \in failed : SendRequestError(d[1], d[2]) \in out'
      BY <1>1, <1>6, <2>2 DEF Outcome, HandleRequestError
    <3> HIDE DEF failed
    <3> QED BY <1>6, <3>1, EndedStep
  <2> QED BY <2>1, <2>2
<1>7. CASE m.kind = "PUBLISH_DONE"
  <2>1. CASE Ignore
    BY <1>7, <2>1 DEF Ignore, relayVars, DownstreamStep
  <2>2. CASE ~Ignore
    <3> DEFINE route == TerminateLegs(tracks[upstream_request_index[<<s, m.id>>]], {s})
               done == DownstreamIn(route, {"Established"})
               failed == IF AllUpstreamTerminated(route)
                         THEN DownstreamIn(route, {"Pending"}) ELSE {}
               ended == done \cup failed
    <3>1. /\ downstream_request_index' = Drop(downstream_request_index, ended)
          /\ \A d \in done : SendPublishDone(d[1], d[2]) \in out'
          /\ \A d \in failed : SendRequestError(d[1], d[2]) \in out'
      BY <1>1, <1>7, <2>2 DEF Outcome, HandlePublishDone
    <3> HIDE DEF done, failed
    <3>2. \A d \in ended : SendPublishDone(d[1], d[2]) \in out' \/ SendRequestError(d[1], d[2]) \in out'
      BY <3>1
    <3> HIDE DEF ended
    <3> QED BY <1>7, <3>1, <3>2, EndedStep
  <2> QED BY <2>1, <2>2
<1>8. CASE m.kind = "UNSUBSCRIBE"
  <2>1. HandleUnsubscribe(s, m.id)
    BY <1>1, <1>8 DEF Outcome
  <2>2. /\ <<s, m.id>> \in DOMAIN downstream_request_index
        /\ downstream_request_index[<<s, m.id>>] \in DOMAIN tracks
    BY <1>1, <2>1, Indexed DEF HandleUnsubscribe
  <2>3. downstream_request_index' = Drop(downstream_request_index, {<<s, m.id>>})
    BY <1>1, <2>1, <2>2 DEF HandleUnsubscribe
  <2>4. \A x, q : ToldTo(x, q)' = {}
    BY <2>1, UnsubscribeKinds, NotTold DEF OnlyKinds
  <2> QED BY <1>8, <2>2, <2>3, <2>4 DEF DownstreamStep, Drop, Restrict
<1> QED BY <1>1, <1>3, <1>4, <1>5, <1>6, <1>7, <1>8 DEF Outcome

---------------------------------------------------------------------------
(* The status of a subscriber's request.                                   *)

\* The message read, as the session `x' sees it.
ReadFrom(x, s, m) == IF x = s THEN m ELSE NoMessage

StatusFacts(x, q) ==
  /\ StatusOf(x, q) \in Statuses
  /\ StatusOf(x, q) \in ActiveStates <=> <<x, q>> \in DOMAIN downstream_request_index
  /\ x \in DOMAIN sessions /\ q % 2 = PeerParity(sessions[x].role) =>
       (StatusOf(x, q) = "Unused" <=> ~(q < sessions[x].peer_next_expected))
  /\ StatusOf(x, q) # "Unused" =>
       /\ x \in DOMAIN sessions /\ q % 2 = PeerParity(sessions[x].role)
       /\ q < sessions[x].peer_next_expected

\* What the invariant says of a request with its status.
LEMMA StatusIs ==
  PromiseInv => \A x \in Sessions, q \in RequestIds : StatusFacts(x, q)
<1> SUFFICES ASSUME PromiseInv, NEW x \in Sessions, NEW q \in RequestIds
             PROVE  StatusFacts(x, q)
  OBVIOUS
<1>1. CASE <<x, q>> \in DOMAIN downstream_request_index
  <2> DEFINE k == <<x, q>>
             t == downstream_request_index[k]
  <2>1. /\ x \in DOMAIN sessions /\ q % 2 = PeerParity(sessions[x].role)
        /\ q < sessions[x].peer_next_expected
        /\ k \in Active(tracks[t])
    BY <1>1, Indexed
  <2>2. StatusOf(x, q) = tracks[t].downstream_subs[k].state
    BY <1>1, <2>1 DEF StatusOf
  <2>3. tracks[t].downstream_subs[k].state \in {"Pending", "Established"}
    BY <2>1 DEF Active, DownstreamIn
  <2> QED BY <1>1, <2>1, <2>2, <2>3 DEF StatusFacts, Statuses, ActiveStates
<1>2. CASE <<x, q>> \notin DOMAIN downstream_request_index
  BY <1>2 DEF StatusFacts, StatusOf, Statuses, ActiveStates
<1> QED BY <1>1, <1>2

\* The same of the next state.
LEMMA StatusIsNext ==
  (PromiseInv => \A x \in Sessions, q \in RequestIds : StatusFacts(x, q))'
BY StatusIs, PTL

\* The step of a request's status, from what the handler promises and what it does to
\* the index.
LEMMA RequestSteps ==
  ASSUME PromiseInv, PromiseInv', NEW s \in Sessions, NEW m, Reads(s, m),
         DownstreamStep(s, m), NEW x \in Sessions, NEW q \in RequestIds, Promise(x, q)!Next
  PROVE  SubscriptionStep(StatusOf(x, q), StatusOf(x, q)', downstream_request_index[<<x, q>>],
                          downstream_request_index'[<<x, q>>], ToldTo(x, q)',
                          ReadFrom(x, s, m), q)
<1> DEFINE k == <<x, q>>
           kind == KindFor(ReadFrom(x, s, m), q)
<1>1. PICK S, S2, told : /\ S = StatusOf(x, q) /\ S2 = StatusOf(x, q)'
                         /\ told = ToldTo(x, q)'
  OBVIOUS
<1>2. /\ s \in DOMAIN sessions /\ m.id \in RequestIds /\ m.kind # "NONE"
      /\ DOMAIN sessions' = DOMAIN sessions
      /\ \A y \in DOMAIN sessions : sessions'[y].role = sessions[y].role
      /\ IF m.kind \in {"SUBSCRIBE", "PUBLISH_NAMESPACE"} THEN Spends(s, m.id)
         ELSE \A y \in DOMAIN sessions :
                sessions'[y].peer_next_expected = sessions[y].peer_next_expected
  <2>1. m.kind # "NONE"
    BY DEF Reads, ToRelayMessage
  <2> QED BY <2>1, ReadsOutcome, CountersStay
<1>3. /\ kind = IF x = s /\ q = m.id THEN m.kind ELSE "NONE"
      /\ x = s /\ q = m.id <=> k = <<s, m.id>>
      /\ kind # "NONE" => ReadFrom(x, s, m) = m
  BY <1>2 DEF KindFor, ReadFrom, NoMessage
<1>4. /\ S \in Statuses /\ S2 \in Statuses
      /\ S \in ActiveStates <=> k \in DOMAIN downstream_request_index
      /\ S2 \in ActiveStates <=> k \in DOMAIN downstream_request_index'
      /\ S # "Unused" =>
           /\ x \in DOMAIN sessions /\ q % 2 = PeerParity(sessions[x].role)
           /\ q < sessions[x].peer_next_expected
      /\ S2 # "Unused" =>
           /\ x \in DOMAIN sessions' /\ q % 2 = PeerParity(sessions'[x].role)
           /\ q < sessions'[x].peer_next_expected
      /\ x \in DOMAIN sessions /\ q % 2 = PeerParity(sessions[x].role) =>
           (S = "Unused" <=> ~(q < sessions[x].peer_next_expected))
      /\ x \in DOMAIN sessions' /\ q % 2 = PeerParity(sessions'[x].role) =>
           (S2 = "Unused" <=> ~(q < sessions'[x].peer_next_expected))
  <2>1. StatusFacts(x, q) /\ StatusFacts(x, q)'
    BY StatusIs, StatusIsNext
  <2> QED BY <1>1, <2>1 DEF StatusFacts, PeerParity
<1>5. S # "Unused" => S2 # "Unused"
  <2> SUFFICES ASSUME S # "Unused"
               PROVE  q < sessions'[x].peer_next_expected
    BY <1>2, <1>4
  <2>1. CASE m.kind \in {"SUBSCRIBE", "PUBLISH_NAMESPACE"} /\ x = s
    <3>1. sessions[s].peer_next_expected = m.id /\ sessions'[s].peer_next_expected = m.id + 2
      BY <1>2, <2>1 DEF Spends, DownstreamStep, PeerRequestIdVerdict
    <3>2. q \in Nat /\ m.id \in Nat
      BY <1>2, LimitsAssumption
    <3> QED BY <1>4, <2>1, <3>1, <3>2
  <2>2. CASE ~(m.kind \in {"SUBSCRIBE", "PUBLISH_NAMESPACE"} /\ x = s)
    <3>1. sessions'[x].peer_next_expected = sessions[x].peer_next_expected
      BY <1>2, <1>4, <2>2 DEF Spends
    <3> QED BY <1>4, <3>1
  <2> QED BY <2>1, <2>2
<1>6. S = "Unused" /\ S2 # "Unused" =>
        m.kind \in {"SUBSCRIBE", "PUBLISH_NAMESPACE"} /\ x = s /\ q = m.id
  <2> SUFFICES ASSUME S = "Unused", S2 # "Unused"
               PROVE  m.kind \in {"SUBSCRIBE", "PUBLISH_NAMESPACE"} /\ x = s /\ q = m.id
    OBVIOUS
  <2>1. /\ x \in DOMAIN sessions /\ q % 2 = PeerParity(sessions[x].role)
        /\ q < sessions'[x].peer_next_expected /\ ~(q < sessions[x].peer_next_expected)
    BY <1>2, <1>4
  <2>2. m.kind \in {"SUBSCRIBE", "PUBLISH_NAMESPACE"} /\ x = s
    BY <1>2, <2>1 DEF Spends
  <2>3. /\ sessions[s].peer_next_expected = m.id /\ sessions'[s].peer_next_expected = m.id + 2
        /\ m.id % 2 = PeerParity(sessions[s].role)
    BY <1>2, <2>2 DEF Spends, DownstreamStep, PeerRequestIdVerdict
  <2>4. q \in Nat /\ m.id \in Nat
    BY <1>2, LimitsAssumption
  <2>5. q # m.id + 1
    BY <2>1, <2>2, <2>3, <2>4 DEF PeerParity
  <2> QED BY <2>1, <2>2, <2>3, <2>4, <2>5
<1>7. m.kind \in {"SUBSCRIBE", "PUBLISH_NAMESPACE"} /\ x = s /\ q = m.id =>
        S = "Unused" /\ S2 # "Unused"
  <2> SUFFICES ASSUME m.kind \in {"SUBSCRIBE", "PUBLISH_NAMESPACE"}, x = s, q = m.id
               PROVE  S = "Unused" /\ S2 # "Unused"
    OBVIOUS
  <2>1. /\ sessions[s].peer_next_expected = q /\ sessions'[s].peer_next_expected = q + 2
        /\ q % 2 = PeerParity(sessions[s].role)
    BY <1>2 DEF Spends, DownstreamStep, PeerRequestIdVerdict
  <2>2. q \in Nat
    BY LimitsAssumption
  <2> QED BY <1>2, <1>4, <2>1, <2>2
<1>8. \/ S2 = S /\ told = {}
      \/ S = "Unused" /\ S2 = "Pending" /\ told = {}
      \/ S = "Unused" /\ S2 = "Established" /\ told = {"SUBSCRIBE_OK"}
      \/ S = "Unused" /\ S2 = "Ended" /\ told \in {{"REQUEST_ERROR"}, {}}
      \/ S = "Pending" /\ S2 = "Established" /\ told = {"SUBSCRIBE_OK"}
      \/ S = "Pending" /\ S2 = "Ended" /\ told = {"REQUEST_ERROR"}
      \/ S = "Established" /\ S2 = "Ended" /\ told = {"PUBLISH_DONE"}
      \/ S \in ActiveStates /\ S2 = "Ended" /\ told = {}
      \/ S2 = "Unused" /\ told = {}
  BY <1>1 DEF Promise!Next, Promise!Elsewhere, Promise!Request, Promise!Accept, Promise!Fail,
              Promise!Finish, Promise!Cancel, Promise!Disconnect, ActiveStates
<1>9. /\ k \in DOMAIN downstream_request_index /\ k \notin DOMAIN downstream_request_index' =>
           (m.kind = "UNSUBSCRIBE" /\ k = <<s, m.id>>) \/ told # {}
      /\ m.kind \in {"UNSUBSCRIBE", "PUBLISH_NAMESPACE"} => told = {}
      /\ m.kind = "UNSUBSCRIBE" /\ k = <<s, m.id>> =>
           k \in DOMAIN downstream_request_index /\ k \notin DOMAIN downstream_request_index'
      /\ m.kind = "SUBSCRIBE" /\ k = <<s, m.id>> /\ k \notin DOMAIN downstream_request_index' =>
           told # {}
  <2>1. k[1] = x /\ k[2] = q
    OBVIOUS
  <2> QED BY <1>1, <1>3, <2>1 DEF DownstreamStep
<1> DEFINE t == downstream_request_index[k]
           t2 == downstream_request_index'[k]
<1>10. k \in DOMAIN downstream_request_index' =>
         \/ k \in DOMAIN downstream_request_index /\ t2 = t
         \/ m.kind = "SUBSCRIBE" /\ k = <<s, m.id>> /\ t2 = m.track
  BY DEF DownstreamStep
<1> HIDE DEF t, t2, k
<1>11. SubscriptionStep(S, S2, t, t2, told, ReadFrom(x, s, m), q)
  <2>1. CASE kind = "SUBSCRIBE"
    BY <1>3, <1>4, <1>7, <1>8, <1>9, <1>10, <2>1 DEF SubscriptionStep, ActiveStates, Statuses
  <2>2. CASE kind = "PUBLISH_NAMESPACE"
    BY <1>3, <1>4, <1>7, <1>8, <1>9, <1>10, <2>2 DEF SubscriptionStep, ActiveStates, Statuses
  <2>3. CASE kind = "UNSUBSCRIBE"
    BY <1>3, <1>4, <1>5, <1>8, <1>9, <1>10, <2>3 DEF SubscriptionStep, ActiveStates, Statuses
  <2>4. CASE kind \notin {"SUBSCRIBE", "PUBLISH_NAMESPACE", "UNSUBSCRIBE"}
    BY <1>3, <1>4, <1>5, <1>6, <1>8, <1>9, <1>10, <2>4 DEF SubscriptionStep, ActiveStates, Statuses
  <2> QED BY <2>1, <2>2, <2>3, <2>4
<1> QED BY <1>1, <1>11 DEF t, t2, k


---------------------------------------------------------------------------
(* What a handler does to the requests to publishers.                      *)

\* The leg of a request that stays is confirmed or left alone; a new request is a new
\* leg, and its publisher is asked; one that is gone ended with the message read, or its
\* publisher is told.
KeptLeg(s, m, k) ==
  /\ upstream_request_index'[k] = upstream_request_index[k]
  /\ IF m.kind = "SUBSCRIBE_OK" /\ k = <<s, m.id>>
     THEN /\ AskedLeg(k).state = "Pending" /\ AskedLeg(k)'.state = "Established"
          /\ AskedLeg(k)'.inbound_alias = m.alias
     ELSE AskedLeg(k)' = AskedLeg(k)

FreshLeg(k) ==
  /\ AskedLeg(k)' = NewLeg(k[2])
  /\ sessions[k[1]].local_next <= k[2] /\ k[2] < sessions'[k[1]].local_next
  /\ SendSubscribe(k[1], k[2], upstream_request_index'[k]) \in out'

UpstreamStep(s, m) ==
  /\ \A k \in DOMAIN upstream_request_index' :
       /\ Exact(k)'
       /\ IF k \in DOMAIN upstream_request_index THEN KeptLeg(s, m, k) ELSE FreshLeg(k)
  /\ \A k \in DOMAIN upstream_request_index \ DOMAIN upstream_request_index' :
       \/ m.kind \in {"REQUEST_ERROR", "PUBLISH_DONE"} /\ k = <<s, m.id>>
       \/ SendUnsubscribe(k[1], k[2]) \in out'
  /\ \A e \in out' :
       LET k == <<e.to, e.id>>
       IN /\ e.kind = "SUBSCRIBE" =>
               /\ k \in DOMAIN upstream_request_index' \ DOMAIN upstream_request_index
               /\ e = SendSubscribe(e.to, e.id, upstream_request_index'[k])
          /\ e.kind = "UNSUBSCRIBE" =>
               /\ k \in DOMAIN upstream_request_index \ DOMAIN upstream_request_index'
               /\ m.kind \notin {"REQUEST_ERROR", "PUBLISH_DONE"}
  /\ m.kind \in {"REQUEST_ERROR", "PUBLISH_DONE"} => <<s, m.id>> \notin DOMAIN upstream_request_index'
  /\ m.kind = "SUBSCRIBE_OK" =>
       /\ <<s, m.id>> \in DOMAIN upstream_request_index
       /\ <<s, m.id>> \in DOMAIN upstream_request_index'

\* What the invariant says of a request in the index.
LEMMA ExactFacts ==
  ASSUME ToldInv, UpstreamIndexExact, NEW k \in DOMAIN upstream_request_index
  PROVE  /\ k = <<k[1], k[2]>> /\ k[1] \in Sessions /\ k[2] \in Nat
         /\ upstream_request_index[k] \in DOMAIN tracks
         /\ RouteOK(tracks[upstream_request_index[k]])
         /\ k[1] \in LiveLegs(tracks[upstream_request_index[k]])
         /\ tracks[upstream_request_index[k]].upstream_subs[k[1]].request_id = k[2]
         /\ k[1] \in DOMAIN sessions /\ k[2] < sessions[k[1]].local_next
<1>1. k \in Sessions \X Nat
  BY DEF ToldInv, PromiseInv, SessionsInv, DownstreamInv, TypeOK, IsMap
<1>2. Exact(k)
  BY DEF UpstreamIndexExact
<1> DEFINE t == upstream_request_index[k]
<1>3. /\ t \in DOMAIN tracks /\ k[1] \in LiveLegs(tracks[t])
      /\ tracks[t].upstream_subs[k[1]].request_id = k[2]
  BY <1>2 DEF Exact, AskedLeg, LiveLegs
<1>4. RouteOK(tracks[t]) /\ LiveLegs(tracks[t]) \subseteq DOMAIN sessions
  BY <1>3, CounterTypes DEF ToldInv, PromiseInv
<1>5. k[2] < sessions[k[1]].local_next
  BY <1>3 DEF ToldInv, HandedOutInv, LegsInv, LegIdsBelow
<1> HIDE DEF t
<1> QED BY <1>1, <1>3, <1>4, <1>5 DEF t

\* A live leg is for one request.
LEMMA OneRequestPerLeg ==
  ASSUME ToldInv, UpstreamIndexExact, NEW k \in DOMAIN upstream_request_index,
         NEW l \in DOMAIN upstream_request_index,
         upstream_request_index[k] = upstream_request_index[l], k[1] = l[1]
  PROVE  k = l
BY ExactFacts

\* A step that changes one route, or drops it.
LEMMA LegKept ==
  ASSUME UpstreamIndexExact, NEW k \in DOMAIN upstream_request_index,
         upstream_request_index'[k] = upstream_request_index[k],
         NEW t, NEW route, tracks' = Put(tracks, t, route) \/ tracks' = Drop(tracks, {t}),
         upstream_request_index[k] = t =>
           /\ tracks' = Put(tracks, t, route) /\ k[1] \in DOMAIN route.upstream_subs
           /\ route.upstream_subs[k[1]] = tracks[t].upstream_subs[k[1]]
  PROVE  Exact(k)' /\ AskedLeg(k)' = AskedLeg(k)
<1> DEFINE u == upstream_request_index[k]
<1>1. u \in DOMAIN tracks /\ k[1] \in DOMAIN tracks[u].upstream_subs
  BY DEF UpstreamIndexExact, Exact
<1>2. /\ u \in DOMAIN tracks' /\ k[1] \in DOMAIN tracks'[u].upstream_subs
      /\ tracks'[u].upstream_subs[k[1]] = tracks[u].upstream_subs[k[1]]
  BY <1>1 DEF Put, Drop, Restrict
<1>3. AskedLeg(k)' = AskedLeg(k)
  BY <1>2 DEF AskedLeg
<1>4. IsLive(AskedLeg(k)) /\ AskedLeg(k).request_id = k[2]
  BY DEF UpstreamIndexExact, Exact
<1>5. IsLive(AskedLeg(k))' /\ AskedLeg(k)'.request_id = k[2]
  BY <1>3, <1>4 DEF IsLive
<1> QED BY <1>2, <1>3, <1>5 DEF Exact

\* A step that leaves the index and says nothing to publishers.
LEMMA IndexStays ==
  ASSUME NEW s, NEW m, m.kind \notin {"SUBSCRIBE_OK", "REQUEST_ERROR", "PUBLISH_DONE"},
         UNCHANGED upstream_request_index, OnlyKinds({"SUBSCRIBE_OK", "REQUEST_ERROR"}),
         \A k \in DOMAIN upstream_request_index : Exact(k)' /\ AskedLeg(k)' = AskedLeg(k)
  PROVE  UpstreamStep(s, m)
<1>1. \A k \in DOMAIN upstream_request_index : KeptLeg(s, m, k)
  BY DEF KeptLeg
<1>2. \A e \in out' : e.kind # "SUBSCRIBE" /\ e.kind # "UNSUBSCRIBE"
  BY DEF OnlyKinds
<1> QED BY <1>1, <1>2 DEF UpstreamStep

\* A SUBSCRIBE that joins a route leaves the requests upstream alone.
LEMMA JoinsUpstream ==
  ASSUME ToldInv, UpstreamIndexExact, NEW s \in DOMAIN sessions, NEW m, m.kind = "SUBSCRIBE",
         m.track \in Tracks, SubscribeJoins(s, m.id, m.track)
  PROVE  UpstreamStep(s, m)
<1> DEFINE joined == [state |-> "Established", forward_desired |-> FALSE,
                      outbound_alias |-> sessions[s].next_outbound]
           t == m.track
           route == [RouteOf(t) EXCEPT !.downstream_subs = Put(@, <<s, m.id>>, joined)]
<1>1. tracks' = Put(tracks, t, route) /\ UNCHANGED upstream_request_index
  BY DEF SubscribeJoins
<1>2. route.upstream_subs = RouteOf(t).upstream_subs
  <2>1. RouteOK(RouteOf(t))
    BY RouteOfType DEF ToldInv, PromiseInv, SessionsInv, DownstreamInv, TypeOK
  <2> QED BY <2>1 DEF RouteOK
<1>3. OnlyKinds({"SUBSCRIBE_OK", "REQUEST_ERROR"})
  BY SubscribeKinds DEF OnlyKinds
<1> HIDE DEF route, t
<1>4. ASSUME NEW k \in DOMAIN upstream_request_index
      PROVE  Exact(k)' /\ AskedLeg(k)' = AskedLeg(k)
  <2>1. upstream_request_index[k] = t =>
          /\ k[1] \in DOMAIN route.upstream_subs
          /\ route.upstream_subs[k[1]] = tracks[t].upstream_subs[k[1]]
    BY <1>2, ExactFacts DEF RouteOf, LiveLegs
  <2> QED BY <1>1, <2>1, LegKept
<1> QED BY <1>1, <1>3, <1>4, IndexStays

\* So does one that finds no publisher.
LEMMA FailsUpstream ==
  ASSUME ToldInv, UpstreamIndexExact, NEW s \in DOMAIN sessions, NEW m, m.kind = "SUBSCRIBE",
         m.track \in Tracks, SubscribeFails(s, m.id, m.track)
  PROVE  UpstreamStep(s, m)
<1> DEFINE refused == [NewDownstream EXCEPT !.state = "Terminated"]
           t == m.track
           route == [RouteOf(t) EXCEPT !.downstream_subs = Put(@, <<s, m.id>>, refused)]
           empty == NoActiveDownstream(route) /\ DOMAIN route.upstream_subs = {}
<1>1. tracks' = StoreRoute(t, route, empty) /\ UNCHANGED upstream_request_index
  BY DEF SubscribeFails
<1>2. route.upstream_subs = RouteOf(t).upstream_subs
  <2>1. RouteOK(RouteOf(t))
    BY RouteOfType DEF ToldInv, PromiseInv, SessionsInv, DownstreamInv, TypeOK
  <2> QED BY <2>1 DEF RouteOK
<1>3. OnlyKinds({"SUBSCRIBE_OK", "REQUEST_ERROR"})
  BY SubscribeKinds DEF OnlyKinds
<1>4. empty => DOMAIN route.upstream_subs = {}
  OBVIOUS
<1> HIDE DEF route, t, empty
<1>5. /\ tracks' = Put(tracks, t, route) \/ tracks' = Drop(tracks, {t})
      /\ ~empty => tracks' = Put(tracks, t, route)
  BY <1>1 DEF StoreRoute
<1>6. ASSUME NEW k \in DOMAIN upstream_request_index
      PROVE  Exact(k)' /\ AskedLeg(k)' = AskedLeg(k)
  <2>1. upstream_request_index[k] = t =>
          /\ k[1] \in DOMAIN route.upstream_subs
          /\ route.upstream_subs[k[1]] = tracks[t].upstream_subs[k[1]]
    BY <1>2, ExactFacts DEF RouteOf, LiveLegs
  <2>2. upstream_request_index[k] = t => tracks' = Put(tracks, t, route)
    BY <1>4, <1>5, <2>1
  <2> QED BY <1>1, <1>5, <2>1, <2>2, LegKept
<1> QED BY <1>1, <1>3, <1>6, IndexStays

\* New requests: one for each track and publisher in `asked', a function from keys of
\* the index to tracks.
LEMMA AskedStep ==
  ASSUME NEW s, NEW m, m.kind \notin {"SUBSCRIBE_OK", "REQUEST_ERROR", "PUBLISH_DONE"},
         NEW asked, DOMAIN asked \cap DOMAIN upstream_request_index = {},
         upstream_request_index' = Merge(upstream_request_index, asked),
         \A k \in DOMAIN asked :
           /\ k = <<k[1], k[2]>>
           /\ asked[k] \in DOMAIN tracks' /\ k[1] \in DOMAIN tracks'[asked[k]].upstream_subs
           /\ tracks'[asked[k]].upstream_subs[k[1]] = NewLeg(k[2])
           /\ sessions[k[1]].local_next <= k[2] /\ k[2] < sessions'[k[1]].local_next
           /\ SendSubscribe(k[1], k[2], asked[k]) \in out',
         \A e \in out' : \/ e.kind \notin {"SUBSCRIBE", "UNSUBSCRIBE"}
                         \/ /\ e.kind = "SUBSCRIBE" /\ <<e.to, e.id>> \in DOMAIN asked
                            /\ e = SendSubscribe(e.to, e.id, asked[<<e.to, e.id>>]),
         \A k \in DOMAIN upstream_request_index :
           upstream_request_index'[k] = upstream_request_index[k] =>
             Exact(k)' /\ AskedLeg(k)' = AskedLeg(k)
  PROVE  UpstreamStep(s, m)
<1>1. /\ DOMAIN upstream_request_index' = DOMAIN upstream_request_index \cup DOMAIN asked
      /\ \A k \in DOMAIN asked : upstream_request_index'[k] = asked[k]
      /\ \A k \in DOMAIN upstream_request_index :
           /\ k \notin DOMAIN asked
           /\ upstream_request_index'[k] = upstream_request_index[k]
  BY DEF Merge
<1>2. \A k \in DOMAIN upstream_request_index : Exact(k)' /\ KeptLeg(s, m, k)
  BY <1>1 DEF KeptLeg
<1>3. ASSUME NEW k \in DOMAIN asked
      PROVE  Exact(k)' /\ FreshLeg(k)
  <2>1. AskedLeg(k)' = NewLeg(k[2])
    BY <1>1 DEF AskedLeg
  <2>2. NewLeg(k[2]).state = "Pending" /\ NewLeg(k[2]).request_id = k[2]
    BY DEF NewLeg
  <2>3. Exact(k)'
    BY <1>1, <2>1, <2>2 DEF Exact, IsLive
  <2>4. FreshLeg(k)
    BY <1>1, <2>1 DEF FreshLeg
  <2> QED BY <2>3, <2>4
<1>4. ASSUME NEW e \in out'
      PROVE  /\ e.kind = "SUBSCRIBE" =>
                  /\ <<e.to, e.id>> \in DOMAIN upstream_request_index' \ DOMAIN upstream_request_index
                  /\ e = SendSubscribe(e.to, e.id, upstream_request_index'[<<e.to, e.id>>])
             /\ e.kind # "UNSUBSCRIBE"
  <2>1. CASE e.kind \notin {"SUBSCRIBE", "UNSUBSCRIBE"}
    BY <2>1
  <2>2. CASE /\ e.kind = "SUBSCRIBE" /\ <<e.to, e.id>> \in DOMAIN asked
             /\ e = SendSubscribe(e.to, e.id, asked[<<e.to, e.id>>])
    BY <1>1, <2>2
  <2> QED BY <2>1, <2>2
<1> QED BY <1>1, <1>2, <1>3, <1>4 DEF UpstreamStep


\* The ids of new requests are not in the index.
LEMMA NotYetAsked ==
  ASSUME ToldInv, UpstreamIndexExact, NEW p \in DOMAIN sessions, NEW r \in Nat,
         sessions[p].local_next <= r
  PROVE  <<p, r>> \notin DOMAIN upstream_request_index
<1> SUFFICES ASSUME <<p, r>> \in DOMAIN upstream_request_index
             PROVE  FALSE
  OBVIOUS
<1>1. <<p, r>>[1] = p /\ <<p, r>>[2] = r
  OBVIOUS
<1>2. r < sessions[p].local_next
  BY <1>1, ExactFacts
<1>3. sessions[p].local_next \in Nat
  BY CounterTypes DEF ToldInv, PromiseInv
<1> QED BY <1>2, <1>3

\* A SUBSCRIBE that fans out asks each publisher with a new id and touches no older request.
LEMMA FansOutUpstream ==
  ASSUME ToldInv, UpstreamIndexExact, NEW s \in DOMAIN sessions, NEW m, m.kind = "SUBSCRIBE",
         m.track \in Tracks, SubscribeFansOut(s, m.id, m.track)
  PROVE  UpstreamStep(s, m)
<1> DEFINE t == m.track
           targets == FanOutTargets(t)
           Id(p) == sessions[p].local_next
           keys == {<<p, Id(p)>> : p \in targets}
           asked == [k \in keys |-> t]
           legs == Merge(RouteOf(t).upstream_subs, [p \in targets |-> NewLeg(Id(p))])
           route == [downstream_subs |-> Put(RouteOf(t).downstream_subs, <<s, m.id>>, NewDownstream),
                     upstream_subs |-> legs]
<1>1. /\ tracks' = Put(tracks, t, route)
      /\ upstream_request_index' = Merge(upstream_request_index, asked)
      /\ out' = {SendSubscribe(p, Id(p), t) : p \in targets}
  BY DEF SubscribeFansOut
<1>2. \A p \in targets : p \in DOMAIN sessions /\ p \notin DOMAIN RouteOf(t).upstream_subs
  BY DEF FanOutTargets
<1>3. \A p \in targets : Id(p) \in Nat /\ sessions'[p].local_next = Id(p) + 2
  BY <1>2, FansOutCounters, CounterTypes DEF ToldInv, PromiseInv
<1>4. DOMAIN asked \cap DOMAIN upstream_request_index = {}
  <2> SUFFICES ASSUME NEW p \in targets
               PROVE  <<p, Id(p)>> \notin DOMAIN upstream_request_index
    OBVIOUS
  <2>1. Id(p) <= Id(p)
    BY <1>3
  <2> QED BY <1>2, <1>3, <2>1, NotYetAsked
<1>5. /\ t \in DOMAIN tracks' /\ tracks'[t].upstream_subs = legs
      /\ \A p \in targets : p \in DOMAIN legs /\ legs[p] = NewLeg(Id(p))
      /\ \A p \in DOMAIN RouteOf(t).upstream_subs : p \in DOMAIN legs
      /\ \A p \in DOMAIN RouteOf(t).upstream_subs \ targets : legs[p] = RouteOf(t).upstream_subs[p]
  BY <1>1 DEF Put, Merge
<1> HIDE DEF t, targets, legs, route, Id
<1>6. ASSUME NEW k \in DOMAIN asked
      PROVE  /\ k = <<k[1], k[2]>>
             /\ asked[k] \in DOMAIN tracks' /\ k[1] \in DOMAIN tracks'[asked[k]].upstream_subs
             /\ tracks'[asked[k]].upstream_subs[k[1]] = NewLeg(k[2])
             /\ sessions[k[1]].local_next <= k[2] /\ k[2] < sessions'[k[1]].local_next
             /\ SendSubscribe(k[1], k[2], asked[k]) \in out'
  <2>1. PICK p \in targets : k = <<p, Id(p)>>
    OBVIOUS
  <2>2. k[1] = p /\ k[2] = Id(p) /\ asked[k] = t
    BY <2>1
  <2>3. sessions[p].local_next <= Id(p) /\ Id(p) < sessions'[p].local_next
    BY <1>3 DEF Id
  <2> QED BY <1>1, <1>5, <2>1, <2>2, <2>3
<1>7. ASSUME NEW e \in out'
      PROVE  /\ e.kind = "SUBSCRIBE" /\ <<e.to, e.id>> \in DOMAIN asked
             /\ e = SendSubscribe(e.to, e.id, asked[<<e.to, e.id>>])
  <2>1. PICK p \in targets : e = SendSubscribe(p, Id(p), t)
    BY <1>1
  <2>2. e.kind = "SUBSCRIBE" /\ e.to = p /\ e.id = Id(p)
    BY <2>1 DEF SendSubscribe
  <2>3. <<p, Id(p)>> \in keys
    OBVIOUS
  <2> QED BY <2>1, <2>2, <2>3
<1>8. ASSUME NEW k \in DOMAIN upstream_request_index,
             upstream_request_index'[k] = upstream_request_index[k]
      PROVE  Exact(k)' /\ AskedLeg(k)' = AskedLeg(k)
  <2>1. upstream_request_index[k] = t =>
          /\ k[1] \in DOMAIN legs /\ legs[k[1]] = tracks[t].upstream_subs[k[1]]
    BY <1>2, <1>5, ExactFacts DEF RouteOf, LiveLegs
  <2>2. route.upstream_subs = legs
    BY DEF route
  <2> QED BY <1>1, <1>8, <2>1, <2>2, LegKept
<1> HIDE DEF asked
<1> QED BY <1>1, <1>4, <1>6, <1>7, <1>8, AskedStep

\* PUBLISH_NAMESPACE asks its publisher for the tracks that wait, each with a new id.
LEMMA PublishNamespaceUpstream ==
  ASSUME ToldInv, UpstreamIndexExact, NEW s \in DOMAIN sessions, NEW m,
         m.kind = "PUBLISH_NAMESPACE", ~\E y, error : Refuse(y, error),
         HandlePublishNamespace(s, m.id, m.namespace)
  PROVE  UpstreamStep(s, m)
<1> DEFINE wanting == TracksWanting(s, m.namespace)
<1>1. IsFiniteSet(wanting) /\ sessions[s] \in Session
  BY PublishNamespaceAsks DEF ToldInv, PromiseInv, SessionsInv, DownstreamInv, TypeOK, IsMap
<1>2. PICK idOf \in Allocations(sessions[s], wanting) :
        /\ NamespaceServed(s, m.id, m.namespace, Cardinality(DOMAIN idOf))
        /\ tracks' = [t \in DOMAIN tracks |->
             IF t \in DOMAIN idOf
             THEN [tracks[t] EXCEPT !.upstream_subs = Put(@, s, NewLeg(idOf[t]))]
             ELSE tracks[t]]
        /\ upstream_request_index' =
             Merge(upstream_request_index,
                   [k \in {<<s, idOf[t]>> : t \in DOMAIN idOf} |->
                      CHOOSE t \in DOMAIN idOf : idOf[t] = k[2]])
        /\ out' = {SendRequestOk(s, m.id)} \cup
                  {SendSubscribe(s, idOf[t], t) : t \in DOMAIN idOf}
  BY DEF HandlePublishNamespace, NamespaceServed
<1> DEFINE keys == {<<s, idOf[t]>> : t \in DOMAIN idOf}
           asked == [k \in keys |-> CHOOSE t \in DOMAIN idOf : idOf[t] = k[2]]
           n == Cardinality(DOMAIN idOf)
<1>3. /\ \A t \in DOMAIN idOf : /\ idOf[t] \in Nat
                                /\ sessions[s].local_next <= idOf[t]
                                /\ idOf[t] < sessions[s].local_next + 2 * n
      /\ \A t, u \in DOMAIN idOf : idOf[t] = idOf[u] => t = u
  BY <1>1, AllocationsFresh
<1>4. DOMAIN idOf \subseteq wanting /\ n \in Nat
  BY <1>1, AllocationsType, FS_CardinalityType
<1>5. sessions'[s].local_next = sessions[s].local_next + 2 * n
  <2> HIDE DEF n
  <2>1. NamespaceServed(s, m.id, m.namespace, n)
    BY <1>2 DEF n
  <2> QED BY <1>4, <2>1, PublishNamespaceCounters DEF ToldInv, PromiseInv
<1>6. DOMAIN asked \cap DOMAIN upstream_request_index = {}
  <2> SUFFICES ASSUME NEW t \in DOMAIN idOf
               PROVE  <<s, idOf[t]>> \notin DOMAIN upstream_request_index
    OBVIOUS
  <2> QED BY <1>3, NotYetAsked
<1>7. \A t \in DOMAIN idOf : /\ <<s, idOf[t]>> \in DOMAIN asked
                             /\ asked[<<s, idOf[t]>>] = t
  BY <1>3
<1>8. \A t \in DOMAIN idOf : t \in DOMAIN tracks /\ s \notin DOMAIN tracks[t].upstream_subs
  BY <1>4 DEF TracksWanting
<1>9. \A t \in DOMAIN tracks : RouteOK(tracks[t])
  BY CounterTypes DEF ToldInv, PromiseInv
<1>10. /\ DOMAIN tracks' = DOMAIN tracks
       /\ \A t \in DOMAIN tracks \ DOMAIN idOf : tracks'[t] = tracks[t]
       /\ \A t \in DOMAIN idOf :
            tracks'[t].upstream_subs = Put(tracks[t].upstream_subs, s, NewLeg(idOf[t]))
  BY <1>2, <1>8, <1>9 DEF RouteOK
<1>11. ASSUME NEW k \in DOMAIN asked
       PROVE  /\ k = <<k[1], k[2]>>
              /\ asked[k] \in DOMAIN tracks' /\ k[1] \in DOMAIN tracks'[asked[k]].upstream_subs
              /\ tracks'[asked[k]].upstream_subs[k[1]] = NewLeg(k[2])
              /\ sessions[k[1]].local_next <= k[2] /\ k[2] < sessions'[k[1]].local_next
              /\ SendSubscribe(k[1], k[2], asked[k]) \in out'
  <2>1. PICK t \in DOMAIN idOf : k = <<s, idOf[t]>>
    OBVIOUS
  <2>2. k[1] = s /\ k[2] = idOf[t] /\ asked[k] = t
    BY <1>7, <2>1
  <2>3. t \in DOMAIN tracks' /\ s \in DOMAIN tracks'[t].upstream_subs
        /\ tracks'[t].upstream_subs[s] = NewLeg(idOf[t])
    <3>1. PICK legs, leg : legs = tracks[t].upstream_subs /\ leg = NewLeg(idOf[t])
      OBVIOUS
    <3>2. t \in DOMAIN tracks' /\ tracks'[t].upstream_subs = Put(legs, s, leg)
      BY <1>8, <1>10, <3>1
    <3>3. s \in DOMAIN Put(legs, s, leg) /\ Put(legs, s, leg)[s] = leg
      BY DEF Put
    <3> QED BY <3>1, <3>2, <3>3
  <2>4. SendSubscribe(s, idOf[t], t) \in out'
    BY <1>2
  <2> QED BY <1>3, <1>5, <2>1, <2>2, <2>3, <2>4
<1>12. ASSUME NEW e \in out'
       PROVE  \/ e.kind \notin {"SUBSCRIBE", "UNSUBSCRIBE"}
              \/ /\ e.kind = "SUBSCRIBE" /\ <<e.to, e.id>> \in DOMAIN asked
                 /\ e = SendSubscribe(e.to, e.id, asked[<<e.to, e.id>>])
  <2>1. CASE e = SendRequestOk(s, m.id)
    BY <2>1 DEF SendRequestOk
  <2>2. ASSUME NEW t \in DOMAIN idOf, e = SendSubscribe(s, idOf[t], t)
        PROVE  /\ e.kind = "SUBSCRIBE" /\ <<e.to, e.id>> \in DOMAIN asked
               /\ e = SendSubscribe(e.to, e.id, asked[<<e.to, e.id>>])
    <3>1. e.kind = "SUBSCRIBE" /\ e.to = s /\ e.id = idOf[t]
      BY <2>2 DEF SendSubscribe
    <3> HIDE DEF asked
    <3> QED BY <1>7, <2>2, <3>1
  <2> HIDE DEF asked
  <2> QED BY <1>2, <2>1, <2>2
<1>13. ASSUME NEW k \in DOMAIN upstream_request_index,
              upstream_request_index'[k] = upstream_request_index[k]
       PROVE  Exact(k)' /\ AskedLeg(k)' = AskedLeg(k)
  <2> DEFINE t == upstream_request_index[k]
             route == tracks'[t]
  <2>1. t \in DOMAIN tracks /\ k[1] \in DOMAIN tracks[t].upstream_subs
    BY ExactFacts DEF LiveLegs
  <2>2. /\ k[1] \in DOMAIN tracks'[t].upstream_subs
        /\ tracks'[t].upstream_subs[k[1]] = tracks[t].upstream_subs[k[1]]
    <3> HIDE DEF t
    <3>1. CASE t \in DOMAIN idOf
      <4>1. k[1] # s
        BY <1>8, <2>1, <3>1
      <4>2. tracks'[t].upstream_subs = Put(tracks[t].upstream_subs, s, NewLeg(idOf[t]))
        BY <1>10, <3>1
      <4> QED BY <2>1, <4>1, <4>2 DEF Put
    <3>2. CASE t \notin DOMAIN idOf
      BY <1>10, <2>1, <3>2
    <3> QED BY <3>1, <3>2
  <2>3. AskedLeg(k)' = AskedLeg(k)
    BY <1>13, <2>2 DEF AskedLeg
  <2>4. IsLive(AskedLeg(k)) /\ AskedLeg(k).request_id = k[2]
    BY DEF UpstreamIndexExact, Exact
  <2>5. t \in DOMAIN tracks'
    BY <1>10, <2>1
  <2> QED BY <1>13, <2>2, <2>3, <2>4, <2>5 DEF Exact, IsLive
<1>14. upstream_request_index' = Merge(upstream_request_index, asked)
  BY <1>2
<1> HIDE DEF asked
<1> QED BY <1>6, <1>11, <1>12, <1>13, <1>14, AskedStep


\* SUBSCRIBE_OK confirms the leg that waits for it.
LEMMA ForwardedUpstream ==
  ASSUME ToldInv, UpstreamIndexExact, NEW s \in DOMAIN sessions, NEW m,
         m.kind = "SUBSCRIBE_OK", m.id \in RequestIds, AwaitsSubscribeOk(s, m.id),
         SubscribeOkForwarded(s, upstream_request_index[<<s, m.id>>], m.alias)
  PROVE  UpstreamStep(s, m)
<1> DEFINE key == <<s, m.id>>
           t == upstream_request_index[key]
<1>1. PICK subs :
        /\ tracks' = Put(tracks, t, [EstablishLeg(tracks[t], s, m.alias) EXCEPT !.downstream_subs = subs])
        /\ UNCHANGED upstream_request_index
  BY ZenonT(60) DEF SubscribeOkForwarded
<1> DEFINE old == tracks[t].upstream_subs
           route == [EstablishLeg(tracks[t], s, m.alias) EXCEPT !.downstream_subs = subs]
           legs == route.upstream_subs
<1>2. key \in DOMAIN upstream_request_index /\ key[1] = s /\ key[2] = m.id
  BY DEF AwaitsSubscribeOk
<1>3. /\ t \in DOMAIN tracks /\ RouteOK(tracks[t]) /\ s \in DOMAIN old
      /\ old[s].request_id = m.id /\ old[s].state = "Pending"
  BY <1>2, ExactFacts DEF AwaitsSubscribeOk, LiveLegs
<1>4. /\ DOMAIN legs = DOMAIN old /\ \A p \in DOMAIN old \ {s} : legs[p] = old[p]
      /\ legs[s].request_id = m.id /\ legs[s].state = "Established" /\ legs[s].inbound_alias = m.alias
  <2>1. old[s] \in UpstreamSubscriptionLeg
    BY <1>3 DEF RouteOK, IsMap
  <2> DEFINE leg == [[old[s] EXCEPT !.state = "Established"] EXCEPT !.inbound_alias = m.alias]
  <2>2. legs = [old EXCEPT ![s] = leg]
    BY <1>3 DEF EstablishLeg, RouteOK, IsMap
  <2>3. /\ leg.request_id = m.id /\ leg.state = "Established" /\ leg.inbound_alias = m.alias
    BY <1>3, <2>1 DEF UpstreamSubscriptionLeg
  <2>4. DOMAIN legs = DOMAIN old /\ \A p \in DOMAIN old : legs[p] = IF p = s THEN leg ELSE old[p]
    <3> HIDE DEF leg, legs
    <3> QED BY <1>3, <2>2
  <2> HIDE DEF leg, legs, old
  <2> QED BY <1>3, <2>3, <2>4
<1>5. OnlyKinds({"SUBSCRIBE_OK"})
  BY SubscribeOkKinds
<1>6. tracks' = Put(tracks, t, route)
  BY <1>1
<1>7. t \in DOMAIN tracks' /\ tracks'[t].upstream_subs = legs
  <2> HIDE DEF route, t
  <2> QED BY <1>6 DEF Put
<1> HIDE DEF key, t, route, legs
<1>8. ASSUME NEW k \in DOMAIN upstream_request_index, k # key
      PROVE  Exact(k)' /\ AskedLeg(k)' = AskedLeg(k)
  <2>1. ASSUME upstream_request_index[k] = t
        PROVE  k[1] \in DOMAIN legs /\ legs[k[1]] = old[k[1]]
    <3>1. k[1] # s
      BY <1>2, <1>8, <2>1, OneRequestPerLeg DEF t
    <3>2. k[1] \in DOMAIN old
      BY <2>1, ExactFacts DEF LiveLegs
    <3> QED BY <1>4, <3>1, <3>2
  <2>2. route.upstream_subs = legs
    BY DEF legs
  <2> QED BY <1>1, <1>6, <2>1, <2>2, LegKept
<1>9. /\ AskedLeg(key)' = legs[s] /\ AskedLeg(key) = old[s]
      /\ upstream_request_index'[key] = upstream_request_index[key]
  BY <1>1, <1>2, <1>7 DEF AskedLeg, t
<1>10. Exact(key)' /\ KeptLeg(s, m, key)
  <2>1. upstream_request_index'[key] = t
    BY <1>9 DEF t
  <2>2. Exact(key)'
    BY <1>2, <1>3, <1>4, <1>7, <1>9, <2>1 DEF Exact, IsLive
  <2>3. KeptLeg(s, m, key)
    BY <1>3, <1>4, <1>9 DEF KeptLeg, key
  <2> QED BY <2>2, <2>3
<1>11. \A k \in DOMAIN upstream_request_index : Exact(k)' /\ KeptLeg(s, m, k)
  BY <1>1, <1>8, <1>10 DEF KeptLeg, key
<1>12. \A e \in out' : e.kind # "SUBSCRIBE" /\ e.kind # "UNSUBSCRIBE"
  BY <1>5 DEF OnlyKinds
<1> QED BY <1>1, <1>2, <1>11, <1>12 DEF UpstreamStep, key

\* REQUEST_ERROR and PUBLISH_DONE end the leg of the request they name, and a route is
\* only dropped when no other leg is live.
LEMMA LegEndsUpstream ==
  ASSUME ToldInv, UpstreamIndexExact, NEW s \in DOMAIN sessions, NEW m,
         m.kind \in {"REQUEST_ERROR", "PUBLISH_DONE"}, m.id \in RequestIds,
         <<s, m.id>> \in DOMAIN upstream_request_index,
         NEW t, t = upstream_request_index[<<s, m.id>>], NEW left,
         left.upstream_subs = TerminateLegs(tracks[t], {s}).upstream_subs,
         \/ tracks' = Put(tracks, t, left)
         \/ /\ tracks' = Drop(tracks, {t})
            /\ \A p \in DOMAIN left.upstream_subs : ~IsLive(left.upstream_subs[p]),
         upstream_request_index' = Drop(upstream_request_index, {<<s, m.id>>}),
         OnlyKinds({"CLOSE", "REQUEST_ERROR", "PUBLISH_DONE"})
  PROVE  UpstreamStep(s, m)
<1> DEFINE key == <<s, m.id>>
           old == tracks[t].upstream_subs
           legs == left.upstream_subs
<1>1. t \in DOMAIN tracks /\ RouteOK(tracks[t])
  BY ExactFacts
<1>2. /\ DOMAIN legs = DOMAIN old
      /\ \A p \in DOMAIN old \ {s} : legs[p] = old[p]
  BY <1>1 DEF TerminateLegs, RouteOK
<1>3. /\ DOMAIN upstream_request_index' = DOMAIN upstream_request_index \ {key}
      /\ \A k \in DOMAIN upstream_request_index' :
           upstream_request_index'[k] = upstream_request_index[k]
  BY DEF Drop, Restrict
<1>4. ASSUME NEW k \in DOMAIN upstream_request_index'
      PROVE  Exact(k)' /\ KeptLeg(s, m, k)
  <2>1. k \in DOMAIN upstream_request_index /\ k # key
    BY <1>3
  <2>2. ASSUME upstream_request_index[k] = t
        PROVE  /\ tracks' = Put(tracks, t, left) /\ k[1] \in DOMAIN legs
               /\ legs[k[1]] = old[k[1]]
    <3>1. key[1] = s
      OBVIOUS
    <3>2. k[1] # s
      BY <2>1, <2>2, <3>1, OneRequestPerLeg
    <3>3. k[1] \in DOMAIN old /\ IsLive(old[k[1]])
      BY <2>1, <2>2, ExactFacts DEF LiveLegs
    <3>4. k[1] \in DOMAIN legs /\ legs[k[1]] = old[k[1]]
      BY <1>2, <3>2, <3>3
    <3> QED BY <3>3, <3>4
  <2>3. Exact(k)' /\ AskedLeg(k)' = AskedLeg(k)
    BY <1>3, <2>1, <2>2, LegKept
  <2> QED BY <1>3, <2>3 DEF KeptLeg
<1>5. \A e \in out' : e.kind # "SUBSCRIBE" /\ e.kind # "UNSUBSCRIBE"
  BY DEF OnlyKinds
<1> QED BY <1>3, <1>4, <1>5 DEF UpstreamStep

\* A message about a request that has ended is ignored.
LEMMA IgnoredUpstream ==
  ASSUME ToldInv, UpstreamIndexExact, NEW s, NEW m,
         m.kind \in {"REQUEST_ERROR", "PUBLISH_DONE"},
         ~KnownUpstream(s, m.id), Ignore
  PROVE  UpstreamStep(s, m)
<1>1. <<s, m.id>> \notin DOMAIN upstream_request_index
  BY ExactFacts DEF KnownUpstream
<1>2. /\ UNCHANGED <<tracks, upstream_request_index>> /\ out' = {}
  BY DEF Ignore, relayVars
<1>3. \A k \in DOMAIN upstream_request_index : Exact(k)' /\ KeptLeg(s, m, k)
  BY <1>2 DEF UpstreamIndexExact, Exact, KeptLeg, AskedLeg, IsLive
<1> QED BY <1>1, <1>2, <1>3 DEF UpstreamStep

\* REQUEST_ERROR ends the leg that waits for it, and no other.
LEMMA RequestErrorUpstream ==
  ASSUME ToldInv, UpstreamIndexExact, NEW s \in DOMAIN sessions, NEW m,
         m.kind = "REQUEST_ERROR", m.id \in RequestIds, ~\E y, error : Refuse(y, error),
         HandleRequestError(s, m.id)
  PROVE  UpstreamStep(s, m)
<1>1. CASE ~KnownUpstream(s, m.id)
  BY <1>1, IgnoredUpstream DEF HandleRequestError
<1>2. CASE KnownUpstream(s, m.id)
  <2> DEFINE t == upstream_request_index[<<s, m.id>>]
             route == TerminateLegs(tracks[t], {s})
             failed == IF AllUpstreamTerminated(route)
                       THEN DownstreamIn(route, {"Pending"}) ELSE {}
             left == TerminateDownstream(route, failed)
             empty == AllUpstreamTerminated(route) /\ NoActiveDownstream(left)
  <2>1. /\ tracks' = StoreRoute(t, left, empty)
        /\ upstream_request_index' = Drop(upstream_request_index, {<<s, m.id>>})
    BY <1>2 DEF HandleRequestError
  <2>2. RouteOK(tracks[t])
    BY <1>2, CounterTypes DEF KnownUpstream, ToldInv, PromiseInv
  <2>3. left.upstream_subs = route.upstream_subs
    <3>1. RouteOK(route)
      BY <2>2, TerminateLegsType
    <3> HIDE DEF route, failed
    <3> QED BY <3>1 DEF TerminateDownstream, RouteOK
  <2>4. empty => \A p \in DOMAIN left.upstream_subs : ~IsLive(left.upstream_subs[p])
    <3> HIDE DEF left
    <3> QED BY <2>3 DEF AllUpstreamTerminated, IsLive
  <2>5. OnlyKinds({"CLOSE", "REQUEST_ERROR", "PUBLISH_DONE"})
    BY LegEndsKinds
  <2>6. <<s, m.id>> \in DOMAIN upstream_request_index
    BY <1>2 DEF KnownUpstream
  <2>7. \/ tracks' = Put(tracks, t, left)
        \/ /\ tracks' = Drop(tracks, {t})
           /\ \A p \in DOMAIN left.upstream_subs : ~IsLive(left.upstream_subs[p])
    <3> HIDE DEF left, empty
    <3> QED BY <2>1, <2>4 DEF StoreRoute
  <2>8. route.upstream_subs = TerminateLegs(tracks[t], {s}).upstream_subs
    OBVIOUS
  <2>9. /\ left.upstream_subs = TerminateLegs(tracks[t], {s}).upstream_subs
        /\ t = upstream_request_index[<<s, m.id>>]
        /\ m.kind \in {"REQUEST_ERROR", "PUBLISH_DONE"}
    BY <2>3, <2>8
  <2> HIDE DEF t, left, empty, route, failed
  <2> QED BY SMTT(40), <2>1, <2>5, <2>6, <2>7, <2>9, LegEndsUpstream
<1> QED BY <1>1, <1>2

\* PUBLISH_DONE ends the leg it names, and no other.
LEMMA PublishDoneUpstream ==
  ASSUME ToldInv, UpstreamIndexExact, NEW s \in DOMAIN sessions, NEW m,
         m.kind = "PUBLISH_DONE", m.id \in RequestIds, ~\E y, error : Refuse(y, error),
         HandlePublishDone(s, m.id)
  PROVE  UpstreamStep(s, m)
<1>1. CASE ~KnownUpstream(s, m.id)
  BY <1>1, IgnoredUpstream DEF HandlePublishDone
<1>2. CASE KnownUpstream(s, m.id)
  <2> DEFINE t == upstream_request_index[<<s, m.id>>]
             route == TerminateLegs(tracks[t], {s})
             done == DownstreamIn(route, {"Established"})
             failed == IF AllUpstreamTerminated(route)
                       THEN DownstreamIn(route, {"Pending"}) ELSE {}
             left == TerminateDownstream(route, done \cup failed)
             empty == NoActiveDownstream(left) /\ LiveLegs(left) = {}
  <2>1. /\ tracks' = StoreRoute(t, left, empty)
        /\ upstream_request_index' = Drop(upstream_request_index, {<<s, m.id>>})
    BY <1>2 DEF HandlePublishDone
  <2>2. RouteOK(tracks[t])
    BY <1>2, CounterTypes DEF KnownUpstream, ToldInv, PromiseInv
  <2>3. left.upstream_subs = route.upstream_subs
    <3>1. RouteOK(route)
      BY <2>2, TerminateLegsType
    <3> HIDE DEF route, failed, done
    <3> QED BY <3>1 DEF TerminateDownstream, RouteOK
  <2>4. empty => \A p \in DOMAIN left.upstream_subs : ~IsLive(left.upstream_subs[p])
    <3> HIDE DEF left
    <3> QED BY DEF LiveLegs
  <2>5. OnlyKinds({"CLOSE", "REQUEST_ERROR", "PUBLISH_DONE"})
    BY LegEndsKinds
  <2>6. <<s, m.id>> \in DOMAIN upstream_request_index
    BY <1>2 DEF KnownUpstream
  <2>7. \/ tracks' = Put(tracks, t, left)
        \/ /\ tracks' = Drop(tracks, {t})
           /\ \A p \in DOMAIN left.upstream_subs : ~IsLive(left.upstream_subs[p])
    <3> HIDE DEF left, empty
    <3> QED BY <2>1, <2>4 DEF StoreRoute
  <2>8. route.upstream_subs = TerminateLegs(tracks[t], {s}).upstream_subs
    OBVIOUS
  <2>9. /\ left.upstream_subs = TerminateLegs(tracks[t], {s}).upstream_subs
        /\ t = upstream_request_index[<<s, m.id>>]
        /\ m.kind \in {"REQUEST_ERROR", "PUBLISH_DONE"}
    BY <2>3, <2>8
  <2> HIDE DEF t, left, empty, route, done, failed
  <2> QED BY SMTT(40), <2>1, <2>5, <2>6, <2>7, <2>9, LegEndsUpstream
<1> QED BY <1>1, <1>2


\* The last subscription that is cancelled takes the route and the requests of its live
\* legs with it.
LEMMA LastLeavesUpstream ==
  ASSUME ToldInv, UpstreamIndexExact, NEW s \in DOMAIN sessions, NEW m, m.kind = "UNSUBSCRIBE",
         NEW t \in DOMAIN tracks, NEW route,
         route.upstream_subs = tracks[t].upstream_subs,
         tracks' = Drop(tracks, {t}),
         upstream_request_index' =
           Drop(upstream_request_index,
                {<<p, route.upstream_subs[p].request_id>> : p \in LiveLegs(route)}),
         out' = UnsubscribeLegs(route)
  PROVE  UpstreamStep(s, m)
<1> DEFINE Key(p) == <<p, route.upstream_subs[p].request_id>>
           keys == {Key(p) : p \in LiveLegs(route)}
<1>1. LiveLegs(route) = LiveLegs(tracks[t])
  BY DEF LiveLegs
<1>2. /\ DOMAIN upstream_request_index' = DOMAIN upstream_request_index \ keys
      /\ \A k \in DOMAIN upstream_request_index' :
           upstream_request_index'[k] = upstream_request_index[k]
  BY DEF Drop, Restrict
<1>3. ASSUME NEW k \in DOMAIN upstream_request_index, upstream_request_index[k] = t
      PROVE  k \in keys
  <2>1. k = Key(k[1]) /\ k[1] \in LiveLegs(route)
    BY <1>1, <1>3, ExactFacts
  <2> HIDE DEF Key
  <2> QED BY <2>1
<1>4. ASSUME NEW k \in keys
      PROVE  /\ k \in DOMAIN upstream_request_index
             /\ SendUnsubscribe(k[1], k[2]) \in out'
  <2>1. PICK p \in LiveLegs(route) : k = Key(p)
    OBVIOUS
  <2>2. Key(p) \in DOMAIN upstream_request_index
    BY <1>1 DEF ToldInv, HandedOutInv, LegsInv, LiveLegsIndexed
  <2>3. SendUnsubscribe(p, route.upstream_subs[p].request_id) \in out'
    BY DEF UnsubscribeLegs
  <2>4. k[1] = p /\ k[2] = route.upstream_subs[p].request_id
    BY <2>1
  <2> QED BY <2>1, <2>2, <2>3, <2>4
<1>5. ASSUME NEW k \in DOMAIN upstream_request_index'
      PROVE  k \in DOMAIN upstream_request_index /\ Exact(k)' /\ KeptLeg(s, m, k)
  <2>1. k \in DOMAIN upstream_request_index /\ upstream_request_index[k] # t
    BY <1>2, <1>3
  <2>2. Exact(k)' /\ AskedLeg(k)' = AskedLeg(k)
    BY <1>2, <2>1, LegKept
  <2> QED BY <1>2, <2>1, <2>2 DEF KeptLeg
<1>6. ASSUME NEW e \in out'
      PROVE  e.kind = "UNSUBSCRIBE" /\ <<e.to, e.id>> \in keys
  <2>1. PICK p \in LiveLegs(route) : e = SendUnsubscribe(p, route.upstream_subs[p].request_id)
    BY DEF UnsubscribeLegs
  <2>2. e.kind = "UNSUBSCRIBE" /\ e.to = p /\ e.id = route.upstream_subs[p].request_id
    BY <2>1 DEF SendUnsubscribe
  <2> QED BY <2>2
<1> HIDE DEF keys
<1> QED BY <1>2, <1>4, <1>5, <1>6 DEF UpstreamStep

\* UNSUBSCRIBE of the last subscription cancels every live leg of the route, and sends one
\* UNSUBSCRIBE for each.
LEMMA UnsubscribeUpstream ==
  ASSUME ToldInv, UpstreamIndexExact, NEW s \in DOMAIN sessions, NEW m,
         m.kind = "UNSUBSCRIBE", m.id \in RequestIds, ~\E y, error : Refuse(y, error),
         HandleUnsubscribe(s, m.id)
  PROVE  UpstreamStep(s, m)
<1> DEFINE key == <<s, m.id>>
           t == downstream_request_index[key]
           route == TerminateDownstream(tracks[t], {key})
           last == NoActiveDownstream(route)
<1>1. key \in DOMAIN downstream_request_index
  BY DEF HandleUnsubscribe
<1>2. t \in DOMAIN tracks /\ RouteOK(tracks[t])
  BY <1>1, Indexed, CounterTypes DEF ToldInv, PromiseInv
<1>3. /\ tracks' = StoreRoute(t, route, last)
      /\ upstream_request_index' =
           Drop(upstream_request_index,
                {<<p, route.upstream_subs[p].request_id>> :
                   p \in IF last THEN LiveLegs(route) ELSE {}})
      /\ out' = IF last THEN UnsubscribeLegs(route) ELSE {}
  BY <1>1, <1>2 DEF HandleUnsubscribe
<1>4. route.upstream_subs = tracks[t].upstream_subs
  BY <1>2 DEF TerminateDownstream, RouteOK
<1>5. CASE last
  <2>1. /\ tracks' = Drop(tracks, {t}) /\ out' = UnsubscribeLegs(route)
        /\ upstream_request_index' =
             Drop(upstream_request_index,
                  {<<p, route.upstream_subs[p].request_id>> : p \in LiveLegs(route)})
    <3> HIDE DEF route
    <3> QED BY <1>3, <1>5 DEF StoreRoute
  <2> HIDE DEF route, last, t
  <2> QED BY <1>2, <1>4, <2>1, LastLeavesUpstream
<1>6. CASE ~last
  <2>1. tracks' = Put(tracks, t, route) /\ out' = {}
    <3> HIDE DEF route
    <3> QED BY <1>3, <1>6 DEF StoreRoute
  <2>2. upstream_request_index' = Drop(upstream_request_index, {})
    <3> HIDE DEF route, last
    <3> QED BY <1>3, <1>6
  <2>3. UNCHANGED upstream_request_index
    <3>1. upstream_request_index = [k \in DOMAIN upstream_request_index |-> upstream_request_index[k]]
      BY DEF ToldInv, PromiseInv, SessionsInv, DownstreamInv, TypeOK, IsMap
    <3> QED BY <2>2, <3>1 DEF Drop, Restrict
  <2> HIDE DEF route, last, t
  <2>4. ASSUME NEW k \in DOMAIN upstream_request_index
        PROVE  Exact(k)' /\ AskedLeg(k)' = AskedLeg(k)
    <3>1. upstream_request_index[k] = t =>
            /\ k[1] \in DOMAIN route.upstream_subs
            /\ route.upstream_subs[k[1]] = tracks[t].upstream_subs[k[1]]
      BY <1>4, ExactFacts DEF LiveLegs
    <3> QED BY <2>1, <2>3, <3>1, LegKept
  <2>5. OnlyKinds({"SUBSCRIBE_OK", "REQUEST_ERROR"})
    BY <2>1 DEF OnlyKinds
  <2> QED BY <2>3, <2>4, <2>5, IndexStays
<1> QED BY <1>5, <1>6

\* Whatever the relay reads.
LEMMA ReadsUpstream ==
  ASSUME ToldInv, UpstreamIndexExact, NEW s \in Sessions, NEW m, Reads(s, m)
  PROVE  UpstreamStep(s, m)
<1>1. /\ ~\E y, error : Refuse(y, error)
      /\ s \in DOMAIN sessions /\ m.id \in RequestIds
      /\ Outcome(s, m)
  BY ReadsOutcome
<1>2. CASE m.kind = "PUBLISH_NAMESPACE"
  BY <1>1, <1>2, PublishNamespaceUpstream DEF Outcome
<1>3. CASE m.kind = "SUBSCRIBE"
  BY <1>1, <1>3, JoinsUpstream, FailsUpstream, FansOutUpstream DEF Outcome
<1>4. CASE m.kind = "SUBSCRIBE_OK"
  BY <1>1, <1>4, ForwardedUpstream DEF Outcome
<1>5. CASE m.kind = "REQUEST_ERROR"
  BY <1>1, <1>5, RequestErrorUpstream DEF Outcome
<1>6. CASE m.kind = "PUBLISH_DONE"
  BY <1>1, <1>6, PublishDoneUpstream DEF Outcome
<1>7. CASE m.kind = "UNSUBSCRIBE"
  BY <1>1, <1>7, UnsubscribeUpstream DEF Outcome
<1> QED BY <1>1, <1>2, <1>3, <1>4, <1>5, <1>6, <1>7 DEF Outcome


\* The kinds of message that tell the publisher `p' about the relay's request `r'.
SaidTo(p, r) ==
  {e.kind : e \in {x \in out : /\ x.kind \in {"SUBSCRIBE", "UNSUBSCRIBE"}
                               /\ x.to = p /\ x.id = r}}

\* The index stays exact.
LEMMA StillExact ==
  ASSUME NEW s, NEW m, UpstreamStep(s, m)
  PROVE  UpstreamIndexExact'
BY DEF UpstreamStep, UpstreamIndexExact

\* A request upstream has one of four states, and an active one if the index has it.
LEMMA LegStateIs ==
  UpstreamIndexExact =>
    \A p, r : /\ LegState(p, r) \in Statuses
              /\ LegState(p, r) \in ActiveStates <=> <<p, r>> \in DOMAIN upstream_request_index
BY DEF UpstreamIndexExact, Exact, IsLive, LegState, Statuses, ActiveStates

\* The same of the next state.
LEMMA LegStateIsNext ==
  (UpstreamIndexExact =>
     \A p, r : /\ LegState(p, r) \in Statuses
               /\ LegState(p, r) \in ActiveStates <=> <<p, r>> \in DOMAIN upstream_request_index)'
BY LegStateIs, PTL

\* A message of a peer is handled by a step of the relay.
LEMMA RelaySteps ==
  ASSUME NEW s \in Sessions, NEW m \in ToRelayMessage, Handle(s, m)
  PROVE  Next
<1>1. PublisherMessage(s) \/ SubscriberMessage(s)
  BY DEF Handle, ToRelayMessage, PublisherMessage, SubscriberMessage
<1> QED BY <1>1 DEF Next

\* The step of a request to a publisher, from what the handler does to the index.
LEMMA LegSteps ==
  ASSUME ToldInv, UpstreamIndexExact, AllOpen, NEW s \in Sessions, NEW m, Reads(s, m),
         UpstreamStep(s, m), NEW p \in Sessions, NEW r \in RequestIds
  PROVE  LegStep(LegState(p, r), LegState(p, r)',
                 upstream_request_index[<<p, r>>], upstream_request_index'[<<p, r>>],
                 AskedLeg(<<p, r>>).inbound_alias, AskedLeg(<<p, r>>)'.inbound_alias,
                 SaidTo(p, r)', ReadFrom(p, s, m), r)
<1> DEFINE k == <<p, r>>
           kind == KindFor(ReadFrom(p, s, m), r)
           old == DOMAIN upstream_request_index
           new == DOMAIN upstream_request_index'
<1>1. PICK L, L2, said, t, t2, leg, leg2 :
        /\ L = LegState(p, r) /\ L2 = LegState(p, r)' /\ said = SaidTo(p, r)'
        /\ t = upstream_request_index[k] /\ t2 = upstream_request_index'[k]
        /\ leg = AskedLeg(k) /\ leg2 = AskedLeg(k)'
  OBVIOUS
<1>2. /\ m.kind # "NONE" /\ m.id \in RequestIds /\ r \in Nat
      /\ k[1] = p /\ k[2] = r
  BY ReadsOutcome, LimitsAssumption DEF Reads, ToRelayMessage
<1>3. /\ kind = IF p = s /\ r = m.id THEN m.kind ELSE "NONE"
      /\ p = s /\ r = m.id <=> k = <<s, m.id>>
      /\ kind # "NONE" => ReadFrom(p, s, m) = m
  BY <1>2 DEF KindFor, ReadFrom, NoMessage
<1>4. /\ L = IF k \in old THEN leg.state
             ELSE IF r < sessions[p].local_next THEN "Ended" ELSE "Unused"
      /\ L2 = IF k \in new THEN leg2.state
              ELSE IF r < sessions'[p].local_next THEN "Ended" ELSE "Unused"
      /\ L \in ActiveStates <=> k \in old
      /\ L2 \in ActiveStates <=> k \in new
  BY <1>1, LegStateIs, LegStateIsNext, StillExact DEF LegState
<1>5. /\ sessions[p].local_next \in Nat /\ sessions'[p].local_next \in Nat
      /\ sessions[p].local_next <= sessions'[p].local_next
  <2>1. ToldInv'
    BY RelaySteps, NextTold DEF Reads
  <2>2. p \in DOMAIN sessions /\ p \in DOMAIN sessions'
    BY CountersStay DEF AllOpen, ToldInv
  <2>3. sessions[p] \in Session /\ sessions'[p] \in Session
    BY <2>1, <2>2 DEF ToldInv, PromiseInv, SessionsInv, DownstreamInv, TypeOK, IsMap, Session
  <2>4. sessions[p].local_next <= sessions'[p].local_next
    BY <2>2, CountersStay DEF ToldInv
  <2> QED BY <2>3, <2>4 DEF Session
<1>6. /\ "SUBSCRIBE" \in said => k \in new \ old
      /\ "UNSUBSCRIBE" \in said =>
           k \in old \ new /\ m.kind \notin {"REQUEST_ERROR", "PUBLISH_DONE"}
      /\ said \subseteq {"SUBSCRIBE", "UNSUBSCRIBE"}
  BY <1>1 DEF SaidTo, UpstreamStep
<1>7. CASE k \in old /\ k \in new
  <2>1. said = {}
    BY <1>6, <1>7
  <2>2. KeptLeg(s, m, k) /\ k = <<s, m.id>> => m.kind \notin {"REQUEST_ERROR", "PUBLISH_DONE"}
    BY <1>7 DEF UpstreamStep
  <2>3. KeptLeg(s, m, k)
    BY <1>7 DEF UpstreamStep
  <2>4. /\ t2 = t /\ L = leg.state /\ L2 = leg2.state
        /\ IF m.kind = "SUBSCRIBE_OK" /\ k = <<s, m.id>>
           THEN L = "Pending" /\ L2 = "Established" /\ leg2.inbound_alias = m.alias
           ELSE leg2 = leg
    BY <1>1, <1>4, <1>7, <2>3 DEF KeptLeg
  <2>5. CASE m.kind = "SUBSCRIBE_OK" /\ k = <<s, m.id>>
    <3>1. kind = "SUBSCRIBE_OK" /\ ReadFrom(p, s, m) = m
      BY <1>2, <1>3, <2>5
    <3> HIDE DEF kind
    <3> QED BY <1>1, <2>1, <2>4, <2>5, <3>1 DEF LegStep, kind
  <2>6. CASE ~(m.kind = "SUBSCRIBE_OK" /\ k = <<s, m.id>>)
    <3>1. kind \notin {"SUBSCRIBE_OK", "REQUEST_ERROR", "PUBLISH_DONE"}
      BY <1>3, <2>2, <2>3, <2>6
    <3>2. leg2 = leg /\ L2 = L
      BY <2>4, <2>6
    <3> HIDE DEF kind
    <3> QED BY <1>1, <2>1, <2>4, <3>1, <3>2 DEF LegStep, kind
  <2> QED BY <2>5, <2>6
<1>8. CASE k \in old /\ k \notin new
  <2>1. L2 = "Ended"
    <3>1. r < sessions[p].local_next
      BY <1>2, <1>8, ExactFacts
    <3> QED BY <1>2, <1>4, <1>5, <1>8, <3>1
  <2>2. \/ m.kind \in {"REQUEST_ERROR", "PUBLISH_DONE"} /\ k = <<s, m.id>>
        \/ SendUnsubscribe(p, r) \in out'
    BY <1>2, <1>8 DEF UpstreamStep
  <2>3. SendUnsubscribe(p, r) \in out' => "UNSUBSCRIBE" \in said
    BY <1>1 DEF SaidTo, SendUnsubscribe
  <2>4. said = {"UNSUBSCRIBE"} \/ (said = {} /\ kind \in {"REQUEST_ERROR", "PUBLISH_DONE"})
    BY <1>3, <1>6, <1>8, <2>2, <2>3
  <2> HIDE DEF k, kind
  <2> QED BY <1>1, <1>4, <1>8, <2>1, <2>4 DEF LegStep, kind, ActiveStates
<1>9. CASE k \notin old /\ k \in new
  <2>1. FreshLeg(k)
    BY <1>9 DEF UpstreamStep
  <2>2. L = "Unused"
    BY <1>2, <1>4, <1>5, <1>9, <2>1 DEF FreshLeg
  <2>3. L2 = "Pending" /\ leg2.inbound_alias = NoAlias
    BY <1>1, <1>4, <1>9, <2>1 DEF FreshLeg, NewLeg
  <2>4. "SUBSCRIBE" \in said
    <3>1. SendSubscribe(p, r, t2) \in out'
      BY <1>1, <1>2, <2>1 DEF FreshLeg
    <3> QED BY <1>1, <3>1 DEF SaidTo, SendSubscribe
  <2>5. said = {"SUBSCRIBE"}
    BY <1>6, <1>9, <2>4
  <2> HIDE DEF k, kind
  <2> QED BY <1>1, <2>2, <2>3, <2>5 DEF LegStep, k
<1>10. CASE k \notin old /\ k \notin new
  <2>1. said = {}
    BY <1>6, <1>10
  <2>2. kind # "SUBSCRIBE_OK"
    BY <1>3, <1>10 DEF UpstreamStep
  <2>3. \/ L2 = L
        \/ L = "Unused" /\ L2 = "Ended"
    BY <1>2, <1>4, <1>5, <1>10
  <2> HIDE DEF k, kind
  <2> QED BY <1>1, <1>4, <1>10, <2>1, <2>2, <2>3 DEF LegStep, kind, k, ActiveStates
<1> QED BY <1>7, <1>8, <1>9, <1>10


---------------------------------------------------------------------------
(* Carrying out what a handler returned.                                   *)

\* What is made of the elements of a finite set is finite.
LEMMA MadeFinite ==
  ASSUME NEW S, IsFiniteSet(S), NEW f, NEW T, \A y \in T : \E x \in S : y = f[x]
  PROVE  IsFiniteSet(T)
<1> DEFINE used == {x \in S : f[x] \in T}
           g == [x \in used |-> f[x]]
<1>1. IsFiniteSet(used)
  BY FS_Subset
<1>2. g \in Surjection(used, T)
  BY DEF Surjection
<1> HIDE DEF g, used
<1> QED BY <1>1, <1>2, FS_Surjection

\* A message to every publisher that is asked.
LEMMA FansOutSends ==
  ASSUME NEW s, NEW r, NEW t, SubscribeFansOut(s, r, t)
  PROVE  out' = {SendSubscribe(p, sessions[p].local_next, t) : p \in FanOutTargets(t)}
BY ZenonT(30) DEF SubscribeFansOut

\* A handler returns finitely many events.
LEMMA EventsFinite ==
  ASSUME ToldInv, NEW s \in Sessions, NEW m, Reads(s, m)
  PROVE  IsFiniteSet(out')
<1>1. /\ ~\E y, error : Refuse(y, error)
      /\ s \in DOMAIN sessions /\ m.id \in RequestIds /\ Outcome(s, m)
      /\ PromiseInv /\ TypeOK /\ \A t \in DOMAIN tracks : RouteOK(tracks[t])
  BY ReadsOutcome, CounterTypes DEF ToldInv, PromiseInv, SessionsInv, DownstreamInv
<1>2. CASE m.kind = "PUBLISH_NAMESPACE"
  <2>1. HandlePublishNamespace(s, m.id, m.namespace)
    BY <1>1, <1>2 DEF Outcome
  <2>2. PICK idOf \in Allocations(sessions[s], TracksWanting(s, m.namespace)) :
          /\ IsFiniteSet(TracksWanting(s, m.namespace))
          /\ Cardinality(DOMAIN idOf) \in Nat
          /\ NamespaceServed(s, m.id, m.namespace, Cardinality(DOMAIN idOf))
          /\ out' = {SendRequestOk(s, m.id)} \cup
                    {SendSubscribe(s, idOf[t], t) : t \in DOMAIN idOf}
    BY <1>1, <2>1, PublishNamespaceAsks
  <2>3. IsFiniteSet(DOMAIN idOf)
    <3>1. sessions[s] \in Session
      BY <1>1 DEF TypeOK, IsMap
    <3> QED BY <2>2, <3>1, AllocationsType
  <2> DEFINE f == [t \in DOMAIN idOf |-> SendSubscribe(s, idOf[t], t)]
             T == out' \ {SendRequestOk(s, m.id)}
  <2>4. \A e \in T : \E t \in DOMAIN idOf : e = f[t]
    BY <2>2
  <2>5. out' = T \cup {SendRequestOk(s, m.id)}
    BY <2>2
  <2> HIDE DEF f, T
  <2>6. IsFiniteSet(T)
    BY <2>3, <2>4, MadeFinite
  <2> QED BY <2>5, <2>6, FS_AddElement
<1>3. CASE m.kind = "SUBSCRIBE"
  <2>1. CASE SubscribeJoins(s, m.id, m.track)
    BY <2>1, FS_Singleton DEF SubscribeJoins
  <2>2. CASE SubscribeFails(s, m.id, m.track)
    BY <2>2, FS_Singleton DEF SubscribeFails
  <2>3. CASE SubscribeFansOut(s, m.id, m.track)
    <3> DEFINE ps == FanOutTargets(m.track)
               f == [p \in ps |-> SendSubscribe(p, sessions[p].local_next, m.track)]
    <3>1. \A e \in out' : \E p \in ps : e = f[p]
      <4>1. out' = {SendSubscribe(p, sessions[p].local_next, m.track) : p \in FanOutTargets(m.track)}
        BY <2>3, FansOutSends
      <4> QED BY <4>1
    <3>2. IsFiniteSet(ps)
      <4>1. ps \subseteq Sessions
        BY <1>1 DEF FanOutTargets, TypeOK, IsMap
      <4> QED BY <4>1, FiniteAssumption, FS_Subset
    <3> HIDE DEF f, ps
    <3> QED BY <3>1, <3>2, MadeFinite
  <2> QED BY <1>1, <1>3, <2>1, <2>2, <2>3 DEF Outcome
<1>4. CASE m.kind = "SUBSCRIBE_OK"
  <2> DEFINE t == upstream_request_index[<<s, m.id>>]
             ds == AwaitingSubscribers(t)
  <2>1. /\ SubscribeOkForwarded(s, t, m.alias)
        /\ t \in DOMAIN tracks
    BY <1>1, <1>4 DEF Outcome, AwaitsSubscribeOk
  <2> HIDE DEF t
  <2>2. PICK aliasOf : out' = {SendSubscribeOk(d[1], d[2], aliasOf[d]) : d \in ds}
    BY <2>1, ForwardedOut
  <2>3. IsFiniteSet(ds)
    BY <1>1, <2>1, AwaitingSubscribersType
  <2> DEFINE f == [d \in ds |-> SendSubscribeOk(d[1], d[2], aliasOf[d])]
  <2>4. \A e \in out' : \E d \in ds : e = f[d]
    BY <2>2
  <2> HIDE DEF f, ds
  <2> QED BY <2>3, <2>4, MadeFinite
<1>5. CASE m.kind \in {"REQUEST_ERROR", "PUBLISH_DONE"}
  <2>1. CASE out' = {}
    BY <2>1, FS_EmptySet
  <2>2. CASE out' # {}
    <3> DEFINE t == upstream_request_index[<<s, m.id>>]
               route == TerminateLegs(tracks[t], {s})
               established == DownstreamIn(route, {"Established"})
               pending == DownstreamIn(route, {"Pending"})
    <3>1. /\ t \in DOMAIN tracks
          /\ HandleRequestError(s, m.id) \/ HandlePublishDone(s, m.id)
          /\ KnownUpstream(s, m.id)
      BY <1>1, <1>5, <2>2 DEF Outcome, HandleRequestError, HandlePublishDone, Ignore, KnownUpstream
    <3>2. PICK done, failed :
            /\ done \in {{}, established} /\ failed \in {{}, pending}
            /\ out' = {SendPublishDone(d[1], d[2]) : d \in done} \cup
                      {SendRequestError(d[1], d[2]) : d \in failed}
      <4> DEFINE waiting == IF AllUpstreamTerminated(route) THEN pending ELSE {}
      <4>1. CASE HandleRequestError(s, m.id)
        <5>1. out' = {SendRequestError(d[1], d[2]) : d \in waiting}
          BY <1>1, <3>1, <4>1 DEF HandleRequestError
        <5>2. {SendPublishDone(d[1], d[2]) : d \in {}} = {}
          OBVIOUS
        <5>3. waiting \in {{}, pending}
          OBVIOUS
        <5> HIDE DEF waiting, pending, established
        <5>4. out' = {SendPublishDone(d[1], d[2]) : d \in {}} \cup
                     {SendRequestError(d[1], d[2]) : d \in waiting}
          BY <5>1, <5>2
        <5> QED BY <5>3, <5>4
      <4>2. CASE HandlePublishDone(s, m.id)
        <5>1. out' = {SendPublishDone(d[1], d[2]) : d \in established} \cup
                     {SendRequestError(d[1], d[2]) : d \in waiting}
          BY <1>1, <3>1, <4>2 DEF HandlePublishDone
        <5>2. waiting \in {{}, pending}
          OBVIOUS
        <5> HIDE DEF waiting, pending, established
        <5> QED BY <5>1, <5>2
      <4> QED BY <3>1, <4>1, <4>2
    <3>3. IsFiniteSet(DOMAIN route.downstream_subs)
      BY <1>1, <3>1, TerminateLegsType DEF RouteOK
    <3>4. done \subseteq DOMAIN route.downstream_subs /\ failed \subseteq DOMAIN route.downstream_subs
      BY <3>2 DEF DownstreamIn
    <3>5. IsFiniteSet(done) /\ IsFiniteSet(failed)
      BY <3>3, <3>4, FS_Subset
    <3> DEFINE f == [d \in done |-> SendPublishDone(d[1], d[2])]
               g == [d \in failed |-> SendRequestError(d[1], d[2])]
               T == {SendPublishDone(d[1], d[2]) : d \in done}
               U == {SendRequestError(d[1], d[2]) : d \in failed}
    <3>6. out' = T \cup U
      BY <3>2
    <3>7. /\ \A e \in T : \E d \in done : e = f[d]
          /\ \A e \in U : \E d \in failed : e = g[d]
      OBVIOUS
    <3> HIDE DEF f, g, T, U
    <3>8. IsFiniteSet(T) /\ IsFiniteSet(U)
      BY <3>5, <3>7, MadeFinite
    <3> QED BY <3>6, <3>8, FS_Union
  <2> QED BY <2>1, <2>2
<1>6. CASE m.kind = "UNSUBSCRIBE"
  <2>1. CASE out' = {}
    BY <2>1, FS_EmptySet
  <2>2. CASE out' # {}
    <3> DEFINE key == <<s, m.id>>
               t == downstream_request_index[key]
               route == TerminateDownstream(tracks[t], {key})
               ps == LiveLegs(route)
               f == [p \in ps |-> SendUnsubscribe(p, route.upstream_subs[p].request_id)]
    <3>1. t \in DOMAIN tracks /\ out' = UnsubscribeLegs(route)
      BY <1>1, <1>6, <2>2 DEF Outcome, HandleUnsubscribe, Ignore
    <3>2. ps \subseteq Sessions
      <4>1. route.upstream_subs = tracks[t].upstream_subs
        BY <1>1, <3>1 DEF TerminateDownstream, RouteOK
      <4> HIDE DEF route
      <4> QED BY <1>1, <3>1, <4>1 DEF LiveLegs, RouteOK, IsMap
    <3>3. IsFiniteSet(ps)
      BY <3>2, FiniteAssumption, FS_Subset
    <3>4. \A e \in out' : \E p \in ps : e = f[p]
      <4> HIDE DEF route
      <4> QED BY <3>1 DEF UnsubscribeLegs
    <3> HIDE DEF f, ps
    <3> QED BY <3>3, <3>4, MadeFinite
  <2> QED BY <2>1, <2>2
<1> QED BY <1>1, <1>2, <1>3, <1>4, <1>5, <1>6 DEF Outcome

\* An order of a finite set has each of its elements, once.
LEMMA InSomeOrder ==
  ASSUME NEW S, IsFiniteSet(S), NEW q \in SetToSeqs(S)
  PROVE  /\ q \in Seq(S)
         /\ \A e \in S : \E i \in DOMAIN q : q[i] = e
         /\ \A i, j \in DOMAIN q : q[i] = q[j] => i = j
<1> DEFINE n == Cardinality(S)
<1>1. n \in Nat
  BY FS_CardinalityType
<1>2. /\ q \in [1 .. n -> S]
      /\ \A i, j \in 1 .. n : i # j => q[i] # q[j]
  BY DEF SetToSeqs
<1>3. q \in Injection(1 .. n, S)
  BY <1>2 DEF Injection, IsInjective
<1>4. Cardinality(1 .. n) = n
  BY <1>1, FS_Interval
<1>5. q \in Surjection(1 .. n, S)
  <2> HIDE DEF n
  <2>1. Cardinality(1 .. n) = Cardinality(S)
    BY <1>4 DEF n
  <2> QED BY <1>3, <2>1, FS_Injection
<1>6. q \in Seq(S)
  BY <1>1, <1>2
<1> HIDE DEF n
<1> QED BY <1>2, <1>5, <1>6 DEF Surjection

\* `p' is what the driver sends to `x' of what the handler returned.
Delivered(x, p) ==
  /\ p \in Seq(out')
  /\ \A i \in DOMAIN p : p[i].to = x
  /\ \A e \in out' : e.to = x /\ e.kind \notin {"OBJECT", "CLOSE"} => \E i \in DOMAIN p : p[i] = e
  /\ \A i, j \in DOMAIN p : p[i] = p[j] => i = j

\* The driver puts what the handler returned behind what was under way, each message once.
LEMMA CarriedOut ==
  ASSUME CarryOut, lost' = {}, IsFiniteSet(out')
  PROVE  /\ DOMAIN toPeer' = Sessions
         /\ \A x \in Sessions : \E p : Delivered(x, p) /\ toPeer'[x] = toPeer[x] \o p
<1>1. PICK q :
        /\ \A x \in Sessions : q[x] \in Outgoing(out', x)
        /\ toPeer' = [x \in Sessions |-> IF x \in lost' THEN <<>> ELSE toPeer[x] \o q[x]]
  BY DEF CarryOut
<1>2. ASSUME NEW x \in Sessions
      PROVE  Delivered(x, q[x])
  <2> DEFINE messages == {e \in out' : e.to = x /\ e.kind \notin {"OBJECT", "CLOSE"}}
             p == q[x]
  <2>1. p \in SetToSeqs(messages)
    BY <1>1 DEF Outgoing
  <2>2. IsFiniteSet(messages)
    BY FS_Subset
  <2>3. messages \subseteq out' /\ \A e \in messages : e.to = x
    OBVIOUS
  <2>4. /\ p \in Seq(messages)
        /\ \A e \in messages : \E i \in DOMAIN p : p[i] = e
        /\ \A i, j \in DOMAIN p : p[i] = p[j] => i = j
    <3> HIDE DEF messages, p
    <3> QED BY <2>1, <2>2, InSomeOrder
  <2>5. \A i \in DOMAIN p : p[i] \in messages
    <3> HIDE DEF messages, p
    <3> QED BY <2>4, LenProperties
  <2>6. p \in Seq(out')
    <3> HIDE DEF messages, p
    <3> QED BY <2>3, <2>4
  <2> HIDE DEF p
  <2>7. Delivered(x, p)
    BY <2>4, <2>5, <2>6 DEF Delivered
  <2> QED BY <2>7 DEF p
<1> QED BY <1>1, <1>2

\* The messages about a subscriber's request.
LEMMA DeliveredTells ==
  ASSUME NEW x, NEW p, Delivered(x, p), NEW r, NEW K \in Replies
  PROVE  OnItsWay(p, K, r) <=> K \in ToldTo(x, r)'
<1>1. \A i \in DOMAIN p : p[i] \in out'
  BY LenProperties DEF Delivered
<1> QED BY <1>1 DEF Delivered, OnItsWay, Concerns, ToldTo, Replies

\* The messages about a request to a publisher.
LEMMA DeliveredSays ==
  ASSUME NEW s, NEW m, UpstreamStep(s, m), NEW x, NEW p, Delivered(x, p), NEW r
  PROVE  Says(p, SaidTo(x, r)', upstream_request_index'[<<x, r>>], r)
<1> DEFINE t == upstream_request_index'[<<x, r>>]
<1>1. \A i \in DOMAIN p : p[i] \in out' /\ p[i].to = x
  BY LenProperties DEF Delivered
<1>2. ASSUME NEW K \in {"SUBSCRIBE", "UNSUBSCRIBE"}
      PROVE  OnItsWay(p, K, r) <=> K \in SaidTo(x, r)'
  BY <1>1 DEF Delivered, OnItsWay, Concerns, SaidTo
<1>3. ASSUME NEW i \in DOMAIN p, Concerns(p, i, "SUBSCRIBE", r)
      PROVE  p[i] = SendSubscribe(x, r, t)
  BY <1>1, <1>3 DEF Concerns, UpstreamStep
<1>4. Once(p, "SUBSCRIBE", r)
  BY <1>3 DEF Once, Delivered
<1>5. Carries(p, "SUBSCRIBE", r, "track", t)
  BY <1>3 DEF Carries, SendSubscribe
<1> QED BY <1>2, <1>4, <1>5 DEF Says


---------------------------------------------------------------------------
(* A step of the relay, in the views of all peers.                         *)

\* A step of the relay keeps every subscriber's view.
LEMMA RelayReadsSubscriber ==
  ASSUME ToldInv, ToldInv', NEW s \in Sessions, NEW m, Reads(s, m),
         NEW x \in Sessions, NEW r \in RequestIds, PeerOK(peer[x]), peer'[x] = peer[x],
         Read(toRelay[x], toRelay'[x], ReadFrom(x, s, m), r),
         NEW p, Delivered(x, p), Grown(toPeer[x], p, toPeer'[x], r), SubscriberView(x, r)
  PROVE  SubscriberView(x, r)'
<1>1. PICK S, S2, t, t2, told, mine, up, up2, down, down2, n :
        /\ S = StatusOf(x, r) /\ S2 = StatusOf(x, r)'
        /\ t = downstream_request_index[<<x, r>>] /\ t2 = downstream_request_index'[<<x, r>>]
        /\ told = ToldTo(x, r)' /\ mine = peer[x].requests[r] /\ n = ReadFrom(x, s, m)
        /\ up = toRelay[x] /\ up2 = toRelay'[x] /\ down = toPeer[x] /\ down2 = toPeer'[x]
  OBVIOUS
<1>2. SubscriptionStep(S, S2, t, t2, told, n, r)
  <2>1. Promise(x, r)!Next
    BY RelaySteps, NextPromise DEF ToldInv, Reads
  <2>2. DownstreamStep(s, m)
    BY ReadsDownstream DEF ToldInv
  <2> QED BY <1>1, <2>1, <2>2, RequestSteps DEF ToldInv
<1>3. S \in Statuses /\ S2 \in Statuses /\ told \in SUBSET Replies
  <2>1. StatusFacts(x, r) /\ StatusFacts(x, r)'
    BY StatusIs, StatusIsNext DEF ToldInv
  <2> QED BY <1>1, <2>1 DEF StatusFacts, ToldTo, Replies
<1>4. \A K \in Replies : OnItsWay(p, K, r) <=> K \in told
  BY <1>1, DeliveredTells
<1>5. Read(up, up2, n, r) /\ Grown(down, p, down2, r)
  BY <1>1
<1>6. CASE r \in DOMAIN peer[x].requests
  <2>1. mine.state \in {"Pending", "Established", "Ended"}
    BY <1>1, <1>6 DEF PeerOK, IsMap, Requested
  <2>2. Subscribed(S, t, mine, r, up, down) /\ r + 2 <= peer[x].next
    BY <1>1, <1>6 DEF SubscriberView
  <2>3. Subscribed(S2, t2, mine, r, up2, down2)
    BY <1>2, <1>3, <1>4, <1>5, <2>1, <2>2, StillSubscribed
  <2> QED BY <1>1, <1>6, <2>2, <2>3 DEF SubscriberView
<1>7. CASE r \notin DOMAIN peer[x].requests
  <2>1. NotSubscribed(S, r, up, down)
    BY <1>1, <1>7 DEF SubscriberView
  <2>2. NotSubscribed(S2, r, up2, down2)
    BY <1>2, <1>3, <1>4, <1>5, <2>1, StillNotSubscribed
  <2> QED BY <1>1, <1>7, <2>2 DEF SubscriberView
<1> QED BY <1>6, <1>7

\* A step of the relay keeps every publisher's view.
LEMMA RelayReadsPublisher ==
  ASSUME ToldInv, UpstreamIndexExact, AllOpen, NEW s \in Sessions, NEW m, Reads(s, m),
         UpstreamStep(s, m),
         NEW x \in Sessions, NEW r \in RequestIds, PeerOK(peer[x]), peer'[x] = peer[x],
         Read(toRelay[x], toRelay'[x], ReadFrom(x, s, m), r),
         NEW p, Delivered(x, p), Grown(toPeer[x], p, toPeer'[x], r), PublisherView(x, r)
  PROVE  PublisherView(x, r)'
<1>1. PICK L, L2, t, t2, a, a2, said, mine, up, up2, down, down2, n :
        /\ L = LegState(x, r) /\ L2 = LegState(x, r)'
        /\ t = upstream_request_index[<<x, r>>] /\ t2 = upstream_request_index'[<<x, r>>]
        /\ a = AskedLeg(<<x, r>>).inbound_alias /\ a2 = AskedLeg(<<x, r>>)'.inbound_alias
        /\ said = SaidTo(x, r)' /\ mine = peer[x].serves[r] /\ n = ReadFrom(x, s, m)
        /\ up = toRelay[x] /\ up2 = toRelay'[x] /\ down = toPeer[x] /\ down2 = toPeer'[x]
  OBVIOUS
<1>2. LegStep(L, L2, t, t2, a, a2, said, n, r)
  BY <1>1, LegSteps
<1>3. L \in Statuses /\ L2 \in Statuses
  BY <1>1, LegStateIs, LegStateIsNext, StillExact
<1>4. said \in SUBSET {"SUBSCRIBE", "UNSUBSCRIBE"}
  BY <1>1 DEF SaidTo
<1>5. Says(p, said, t2, r)
  BY <1>1, DeliveredSays
<1>6. Read(up, up2, n, r) /\ Grown(down, p, down2, r)
  BY <1>1
<1>7. Asked(L, t, a, r, down)
  BY <1>1 DEF PublisherView
<1>8. IF r \in DOMAIN peer[x].serves THEN Served(L, t, a, mine, r, up, down)
      ELSE NotServed(L, r, up, down)
  BY <1>1 DEF PublisherView
<1>9. Asked(L2, t2, a2, r, down2)
  <2>1. ASSUME KindFor(n, r) \in {"REQUEST_ERROR", "PUBLISH_DONE"}
        PROVE  ~OnItsWay(down, "SUBSCRIBE", r)
    <3>1. OnItsWay(up, KindFor(n, r), r)
      BY <1>6, <2>1 DEF Read
    <3>2. r \in DOMAIN peer[x].serves
      BY <1>8, <2>1, <3>1 DEF NotServed
    <3> QED BY <1>8, <3>2 DEF Served
  <2> QED BY <1>2, <1>3, <1>4, <1>5, <1>6, <1>7, <2>1, StillAsked
<1>10. CASE r \in DOMAIN peer[x].serves
  <2>1. mine.state \in {"Pending", "Established", "Ended", "Done"}
    BY <1>1, <1>10 DEF PeerOK, IsMap, Service
  <2>2. Served(L, t, a, mine, r, up, down)
    BY <1>8, <1>10
  <2>3. Served(L2, t2, a2, mine, r, up2, down2)
    BY <1>2, <1>3, <1>4, <1>5, <1>6, <2>1, <2>2, StillServed
  <2> QED BY <1>1, <1>9, <1>10, <2>3 DEF PublisherView
<1>11. CASE r \notin DOMAIN peer[x].serves
  <2>1. NotServed(L, r, up, down)
    BY <1>8, <1>11
  <2>2. NotServed(L2, r, up2, down2)
    BY <1>2, <1>3, <1>4, <1>5, <1>6, <2>1, StillNotServed
  <2> QED BY <1>1, <1>9, <1>11, <2>2 DEF PublisherView
<1> QED BY <1>10, <1>11

\* What the relay sends is a message a peer may read.
LEMMA SendsMessages ==
  ASSUME ToldInv, ToldInv', AllOpen, NEW s \in Sessions, NEW m, Reads(s, m),
         UpstreamStep(s, m), NEW e \in out'
  PROVE  ToPeerMessage(e)
<1>1. e.kind \in PeerKinds
  <2>1. Outcome(s, m) /\ e.kind # "CLOSE"
    BY ReadsOutcome DEF Reads
  <2>2. ASSUME HandlePublishNamespace(s, m.id, m.namespace)
        PROVE  e.kind \in PeerKinds
    BY <2>1, <2>2, PublishNamespaceKinds DEF OnlyKinds, PeerKinds
  <2>3. ASSUME \/ SubscribeJoins(s, m.id, m.track) \/ SubscribeFails(s, m.id, m.track)
               \/ SubscribeFansOut(s, m.id, m.track)
        PROVE  e.kind \in PeerKinds
    BY <2>3, SubscribeKinds DEF OnlyKinds, PeerKinds
  <2>4. ASSUME SubscribeOkForwarded(s, upstream_request_index[<<s, m.id>>], m.alias)
        PROVE  e.kind \in PeerKinds
    BY <2>4, SubscribeOkKinds DEF OnlyKinds, PeerKinds
  <2>5. ASSUME HandleRequestError(s, m.id) \/ HandlePublishDone(s, m.id)
        PROVE  e.kind \in PeerKinds
    BY <2>1, <2>5, LegEndsKinds DEF OnlyKinds, PeerKinds
  <2>6. ASSUME HandleUnsubscribe(s, m.id)
        PROVE  e.kind \in PeerKinds
    BY <2>1, <2>6, UnsubscribeKinds DEF OnlyKinds, PeerKinds
  <2> QED BY <2>1, <2>2, <2>3, <2>4, <2>5, <2>6 DEF Outcome
<1>2. ASSUME e.kind = "SUBSCRIBE"
      PROVE  e.id \in RequestIds /\ e.track \in Tracks
  <2> DEFINE k == <<e.to, e.id>>
  <2>1. k \in DOMAIN upstream_request_index' /\ e = SendSubscribe(e.to, e.id, upstream_request_index'[k])
    BY <1>2 DEF UpstreamStep
  <2>2. IsMap(upstream_request_index', Sessions \X Nat, Tracks)
    BY DEF ToldInv, PromiseInv, SessionsInv, DownstreamInv, TypeOK
  <2>3. e.to \in Sessions /\ e.id \in Nat /\ upstream_request_index'[k] \in Tracks
    BY <2>1, <2>2 DEF IsMap
  <2>4. e.track = upstream_request_index'[k]
    BY <2>1 DEF SendSubscribe
  <2>5. e.id < sessions[e.to].peer_max_exclusive
    <3>1. Next
      BY RelaySteps DEF Reads
    <3> QED BY <1>2, <3>1, StepTells DEF Sent, SubscribeFits
  <2>6. e.id \in 0 .. InitialPeerMax - 1
    BY <2>3, <2>5, LimitsAssumption DEF AllOpen
  <2> QED BY <2>3, <2>4, <2>6, NetworkAssumption
<1> QED BY <1>1, <1>2 DEF ToPeerMessage


\* What is under way to the relay after it read a message of `s'.
LEMMA ReadFromHead ==
  ASSUME toRelay \in [Sessions -> Seq(ToRelayMessage)], NEW s \in Sessions,
         toRelay[s] # <<>>, toRelay' = [toRelay EXCEPT ![s] = Tail(@)]
  PROVE  /\ toRelay' \in [Sessions -> Seq(ToRelayMessage)]
         /\ Head(toRelay[s]) \in ToRelayMessage
         /\ 1 \in DOMAIN toRelay[s] /\ toRelay[s][1] = Head(toRelay[s])
         /\ \A x \in Sessions : \A i \in DOMAIN toRelay'[x] :
              \E j \in DOMAIN toRelay[x] : toRelay'[x][i] = toRelay[x][j]
         /\ \A x \in Sessions : \A r :
              Read(toRelay[x], toRelay'[x], ReadFrom(x, s, Head(toRelay[s])), r)
<1>1. PICK q \in Seq(ToRelayMessage) : q = toRelay[s]
  OBVIOUS
<1>2. q # <<>> /\ toRelay' = [toRelay EXCEPT ![s] = Tail(q)]
  BY <1>1
<1>3. /\ Tail(q) \in Seq(ToRelayMessage) /\ Head(q) \in ToRelayMessage
      /\ 1 \in DOMAIN q /\ q[1] = Head(q)
      /\ \A i \in DOMAIN Tail(q) : i + 1 \in DOMAIN q /\ Tail(q)[i] = q[i + 1]
  BY <1>2, EmptySeq, HeadTailProperties, LenProperties
<1>4. \A r : Read(q, Tail(q), Head(q), r)
  <2>1. Head(q).kind # "NONE"
    BY <1>3 DEF ToRelayMessage
  <2> QED BY <1>2, <2>1, ReadFirst
<1>5. toRelay' \in [Sessions -> Seq(ToRelayMessage)]
  BY <1>2, <1>3
<1>6. \A x \in Sessions : toRelay'[x] = IF x = s THEN Tail(q) ELSE toRelay[x]
  BY <1>2
<1>7. \A x \in Sessions : \A i \in DOMAIN toRelay'[x] :
        \E j \in DOMAIN toRelay[x] : toRelay'[x][i] = toRelay[x][j]
  BY <1>1, <1>3, <1>6
<1>8. \A x \in Sessions : \A r : Read(toRelay[x], toRelay'[x], ReadFrom(x, s, Head(toRelay[s])), r)
  BY <1>1, <1>4, <1>6, ReadNothing DEF ReadFrom
<1> QED BY <1>1, <1>3, <1>5, <1>7, <1>8

\* A sequence is one over its own elements.
LEMMA SeqOfItsRange ==
  ASSUME NEW S, NEW q \in Seq(S)
  PROVE  q \in Seq(Range(q))
<1>1. Len(q) \in Nat /\ q \in [1 .. Len(q) -> S]
  BY LenProperties
<1>2. q \in [1 .. Len(q) -> Range(q)]
  BY <1>1 DEF Range
<1> QED BY <1>1, <1>2, SeqDef

\* More messages to a peer.
LEMMA StillToPeer ==
  ASSUME NEW q, ToPeerOK(q), NEW S, NEW p \in Seq(S), \A e \in S : ToPeerMessage(e)
  PROVE  /\ ToPeerOK(q \o p)
         /\ \A r : Grown(q, p, q \o p, r)
<1> DEFINE T == Range(q) \cup S
<1>1. q \in Seq(T) /\ p \in Seq(T)
  BY LenProperties DEF ToPeerOK, Range
<1>2. /\ q \o p \in Seq(T) /\ Len(q) \in Nat /\ Len(p) \in Nat
      /\ DOMAIN q = 1 .. Len(q) /\ DOMAIN p = 1 .. Len(p)
      /\ DOMAIN (q \o p) = 1 .. (Len(q) + Len(p))
      /\ \A i \in 1 .. (Len(q) + Len(p)) :
           (q \o p)[i] = IF i <= Len(q) THEN q[i] ELSE p[i - Len(q)]
  BY <1>1, LenProperties, ConcatProperties
<1>3. \A i \in DOMAIN (q \o p) : ToPeerMessage((q \o p)[i])
  <2> SUFFICES ASSUME NEW i \in DOMAIN (q \o p)
               PROVE  ToPeerMessage((q \o p)[i])
    OBVIOUS
  <2>1. CASE i <= Len(q)
    BY <1>2, <2>1 DEF ToPeerOK
  <2>2. CASE ~(i <= Len(q))
    <3>1. i - Len(q) \in DOMAIN p /\ p[i - Len(q)] \in S
      BY <1>2, <2>2, LenProperties
    <3> QED BY <1>2, <2>2, <3>1
  <2> QED BY <2>1, <2>2
<1>4. q \o p \in Seq(Range(q \o p))
  BY <1>2, SeqOfItsRange
<1>5. \A r : Grown(q, p, q \o p, r)
  BY <1>1, Concatenated
<1> QED BY <1>3, <1>4, <1>5 DEF ToPeerOK

\* The relay handles a message.
LEMMA RelayReceivesSettled ==
  ASSUME Settled, Calm, Calm', NEW s \in Sessions, RelayReceives(s)
  PROVE  Settled'
<1>1. PICK m : m = Head(toRelay[s])
  OBVIOUS
<1>2. /\ toRelay \in [Sessions -> Seq(ToRelayMessage)] /\ toRelay[s] # <<>>
      /\ Handle(s, m) /\ toRelay' = [toRelay EXCEPT ![s] = Tail(@)]
      /\ peer' = peer /\ CarryOut /\ lost' = {} /\ closing' = {}
  BY <1>1 DEF RelayReceives, Settled, NetworkTypes, Calm
<1>3. /\ toRelay' \in [Sessions -> Seq(ToRelayMessage)]
      /\ m \in ToRelayMessage /\ 1 \in DOMAIN toRelay[s] /\ toRelay[s][1] = m
      /\ \A x \in Sessions : \A i \in DOMAIN toRelay'[x] :
           \E j \in DOMAIN toRelay[x] : toRelay'[x][i] = toRelay[x][j]
      /\ \A x \in Sessions : \A r : Read(toRelay[x], toRelay'[x], ReadFrom(x, s, m), r)
  BY <1>1, <1>2, ReadFromHead
<1>4. Reads(s, m)
  <2>1. closing' = (closing \cup {e.to : e \in {x \in out' : x.kind = "CLOSE"}}) \ lost'
    BY <1>2 DEF CarryOut
  <2>2. \A e \in out' : e.kind # "CLOSE"
    BY <1>2, <2>1
  <2> QED BY <1>2, <1>3, <2>2 DEF Reads
<1>5. ToldInv /\ PromiseInv /\ UpstreamIndexExact /\ AllOpen
  BY DEF Settled, ToldInv
<1>6. ToldInv'
  BY <1>2, <1>3, <1>5, RelaySteps, NextTold
<1>7. UpstreamStep(s, m) /\ UpstreamIndexExact'
  BY <1>4, <1>5, ReadsUpstream, StillExact
<1>8. AllOpen'
  BY <1>4, <1>5, CountersStay, LimitsStay DEF AllOpen
<1>9. /\ DOMAIN toPeer' = Sessions
      /\ \A x \in Sessions : \E p : Delivered(x, p) /\ toPeer'[x] = toPeer[x] \o p
  BY <1>2, <1>4, <1>5, EventsFinite, CarriedOut
<1>10. \A e \in out' : ToPeerMessage(e)
  BY <1>4, <1>5, <1>6, <1>7, SendsMessages
<1>11. ASSUME NEW x \in Sessions, NEW p, Delivered(x, p), toPeer'[x] = toPeer[x] \o p
       PROVE  ToPeerOK(toPeer'[x]) /\ \A r : Grown(toPeer[x], p, toPeer'[x], r)
  <2>1. ToPeerOK(toPeer[x]) /\ p \in Seq(out')
    BY <1>11 DEF Settled, NetworkTypes, Delivered
  <2> QED BY <1>10, <1>11, <2>1, StillToPeer
<1>12. NetworkTypes'
  BY <1>2, <1>3, <1>9, <1>11 DEF Settled, NetworkTypes, PeerOK
<1>13. ASSUME NEW x \in Sessions
       PROVE  RequestsCounted(x)'
  <2>1. RequestsCounted(x) /\ RequestsCounted(s)
    BY DEF Settled, ViewsOf
  <2>2. sessions'[x].peer_next_expected <= peer[x].next
    <3>1. x \in DOMAIN sessions
      BY <1>5 DEF AllOpen
    <3>2. CASE m.kind \in {"SUBSCRIBE", "PUBLISH_NAMESPACE"}
      <4>1. Spends(s, m.id)
        BY <1>4, <1>5, <3>2, CountersStay
      <4>2. m.id + 2 <= peer[s].next
        BY <1>3, <2>1, <3>2 DEF RequestsCounted
      <4> QED BY <2>1, <3>1, <4>1, <4>2 DEF RequestsCounted, Spends
    <3>3. CASE m.kind \notin {"SUBSCRIBE", "PUBLISH_NAMESPACE"}
      BY <1>4, <1>5, <2>1, <3>1, <3>3, CountersStay DEF RequestsCounted
    <3> QED BY <3>2, <3>3
  <2> QED BY <1>2, <1>3, <2>1, <2>2 DEF RequestsCounted
<1>14. ASSUME NEW x \in Sessions, NEW r \in RequestIds
       PROVE  SubscriberView(x, r)' /\ PublisherView(x, r)'
  <2>1. PICK p : Delivered(x, p) /\ toPeer'[x] = toPeer[x] \o p
    BY <1>9
  <2>2. Grown(toPeer[x], p, toPeer'[x], r)
    BY <1>11, <2>1
  <2>3. PeerOK(peer[x]) /\ peer'[x] = peer[x]
    BY <1>2 DEF Settled, NetworkTypes
  <2>4. SubscriberView(x, r) /\ PublisherView(x, r)
    BY DEF Settled, ViewsOf
  <2>5. Read(toRelay[x], toRelay'[x], ReadFrom(x, s, m), r)
    BY <1>3
  <2>6. SubscriberView(x, r)'
    BY <1>4, <1>5, <1>6, <2>1, <2>2, <2>3, <2>4, <2>5, RelayReadsSubscriber
  <2>7. PublisherView(x, r)'
    BY <1>4, <1>5, <1>7, <2>1, <2>2, <2>3, <2>4, <2>5, RelayReadsPublisher
  <2> QED BY <2>6, <2>7
<1> QED BY <1>6, <1>7, <1>8, <1>12, <1>13, <1>14 DEF Settled, ViewsOf


---------------------------------------------------------------------------
(* Steps of the peers.                                                     *)

\* The relay rests.
LEMMA RelayRests ==
  ASSUME ToldInv, UpstreamIndexExact, AllOpen, UNCHANGED relayVars
  PROVE  /\ ToldInv' /\ UpstreamIndexExact' /\ AllOpen'
         /\ \A s, r : /\ StatusOf(s, r)' = StatusOf(s, r)
                      /\ LegState(s, r)' = LegState(s, r)
                      /\ AskedLeg(<<s, r>>)' = AskedLeg(<<s, r>>)
<1>1. UNCHANGED <<sessions, tracks, upstream_request_index, downstream_request_index>>
  BY DEF relayVars
<1>2. SessionsInv' /\ HandedOutInv'
  BY UnchangedSessions, UnchangedHandedOut DEF ToldInv, PromiseInv
<1>3. RequestsOfPeers' /\ LocalParity'
  BY <1>1 DEF ToldInv, PromiseInv, RequestsOfPeers, LocalParity
<1>4. UpstreamIndexExact' /\ AllOpen'
  BY <1>1 DEF UpstreamIndexExact, Exact, AskedLeg, AllOpen
<1>5. \A s, r : /\ StatusOf(s, r)' = StatusOf(s, r)
                /\ LegState(s, r)' = LegState(s, r)
                /\ AskedLeg(<<s, r>>)' = AskedLeg(<<s, r>>)
  BY <1>1 DEF StatusOf, LegState, AskedLeg
<1> QED BY <1>2, <1>3, <1>4, <1>5 DEF ToldInv, PromiseInv

\* Nothing changes for the peer `x'.
Bystander(x) == peer'[x] = peer[x] /\ toRelay'[x] = toRelay[x] /\ toPeer'[x] = toPeer[x]

\* The views of a peer that takes no part stay as they are.
LEMMA SameViews ==
  ASSUME ToldInv, UpstreamIndexExact, AllOpen, UNCHANGED relayVars, NEW x \in Sessions,
         Bystander(x), ViewsOf(x)
  PROVE  ViewsOf(x)'
<1>1. \A r : /\ StatusOf(x, r)' = StatusOf(x, r)
             /\ LegState(x, r)' = LegState(x, r)
             /\ AskedLeg(<<x, r>>)' = AskedLeg(<<x, r>>)
  BY RelayRests
<1>2. UNCHANGED <<sessions, upstream_request_index, downstream_request_index>>
  BY DEF relayVars
<1>3. RequestsCounted(x)'
  BY <1>2 DEF ViewsOf, RequestsCounted, Bystander
<1>4. ASSUME NEW r \in RequestIds
      PROVE  SubscriberView(x, r)' /\ PublisherView(x, r)'
  <2>1. SubscriberView(x, r) /\ PublisherView(x, r)
    BY DEF ViewsOf
  <2>2. SubscriberView(x, r)'
    BY <1>1, <1>2, <2>1 DEF SubscriberView, Bystander
  <2>3. PublisherView(x, r)'
    BY <1>1, <1>2, <2>1 DEF PublisherView, Bystander
  <2> QED BY <2>2, <2>3
<1> QED BY <1>3, <1>4 DEF ViewsOf

\* Only one peer does something.
LEMMA OnePeerMoves ==
  ASSUME Settled, UNCHANGED relayVars, NEW s \in Sessions,
         \A x \in Sessions : x # s => Bystander(x),
         DOMAIN peer' = Sessions, PeerOK(peer'[s]),
         toRelay' \in [Sessions -> Seq(ToRelayMessage)],
         DOMAIN toPeer' = Sessions, ToPeerOK(toPeer'[s]),
         ViewsOf(s)'
  PROVE  Settled'
<1>1. ToldInv' /\ UpstreamIndexExact' /\ AllOpen'
  BY RelayRests DEF Settled
<1>2. NetworkTypes'
  <2>1. \A x \in Sessions : PeerOK(peer[x]) /\ ToPeerOK(toPeer[x])
    BY DEF Settled, NetworkTypes
  <2>2. \A x \in Sessions : PeerOK(peer'[x]) /\ ToPeerOK(toPeer'[x])
    BY <2>1 DEF Bystander
  <2> QED BY <2>2 DEF NetworkTypes, PeerOK
<1>3. \A x \in Sessions : ViewsOf(x)'
  BY SameViews DEF Settled
<1> QED BY <1>1, <1>2, <1>3 DEF Settled

\* A request of the peer changes its state.
LEMMA SetRequest ==
  ASSUME NEW record, PeerOK(record), NEW k \in DOMAIN record.requests,
         NEW v \in {"Pending", "Established", "Ended"}, NEW new,
         new = [record EXCEPT !.requests[k].state = v]
  PROVE  /\ PeerOK(new) /\ new.next = record.next /\ new.serves = record.serves
         /\ DOMAIN new.requests = DOMAIN record.requests
         /\ \A r \in DOMAIN record.requests :
              /\ new.requests[r].track = record.requests[r].track
              /\ new.requests[r].state = IF r = k THEN v ELSE record.requests[r].state
<1>1. PICK f : f = record.requests
  OBVIOUS
<1>2. f \in [DOMAIN f -> Requested] /\ DOMAIN f \subseteq RequestIds /\ k \in DOMAIN f
  BY <1>1 DEF PeerOK, IsMap
<1>3. PICK g : g = [f EXCEPT ![k].state = v]
  OBVIOUS
<1>4. /\ g \in [DOMAIN f -> Requested] /\ DOMAIN g = DOMAIN f
      /\ \A r \in DOMAIN f : /\ g[r].track = f[r].track
                             /\ g[r].state = IF r = k THEN v ELSE f[r].state
  BY <1>2, <1>3 DEF Requested
<1>5. new = [record EXCEPT !.requests = g]
  BY <1>1, <1>3 DEF PeerOK
<1>6. /\ new = [next |-> record.next, announced |-> record.announced,
                requests |-> g, serves |-> record.serves]
  BY <1>5 DEF PeerOK
<1>7. /\ new.next = record.next /\ new.announced = record.announced
      /\ new.requests = g /\ new.serves = record.serves
  BY <1>6
<1>8. PeerOK(new)
  BY <1>2, <1>4, <1>6, <1>7 DEF PeerOK, IsMap
<1> QED BY <1>1, <1>4, <1>7, <1>8

\* What the peer serves changes.
LEMMA SetServices ==
  ASSUME NEW record, PeerOK(record), NEW g, IsMap(g, RequestIds, Service), NEW new,
         new = [record EXCEPT !.serves = g]
  PROVE  /\ PeerOK(new) /\ new.next = record.next /\ new.requests = record.requests
         /\ new.serves = g
<1>1. new = [next |-> record.next, announced |-> record.announced,
             requests |-> record.requests, serves |-> g]
  BY DEF PeerOK
<1>2. /\ new.next = record.next /\ new.announced = record.announced
      /\ new.requests = record.requests /\ new.serves = g
  BY <1>1
<1> QED BY <1>1, <1>2 DEF PeerOK


\* What the peer makes of a message.
LEMMA Learned ==
  ASSUME NEW record, PeerOK(record), NEW m, ToPeerMessage(m), NEW new, new = Learn(record, m)
  PROVE  /\ PeerOK(new) /\ new.next = record.next
         /\ DOMAIN new.requests = DOMAIN record.requests
         /\ \A r \in DOMAIN record.requests :
              /\ new.requests[r].track = record.requests[r].track
              /\ new.requests[r].state = AfterReply(record.requests[r].state, KindFor(m, r))
         /\ \A r :
              IF KindFor(m, r) = "SUBSCRIBE"
              THEN /\ r \in DOMAIN new.serves
                   /\ new.serves[r] = [track |-> m.track, state |-> "Pending", alias |-> NoAlias]
              ELSE /\ r \in DOMAIN new.serves <=> r \in DOMAIN record.serves
                   /\ r \in DOMAIN record.serves =>
                        /\ new.serves[r].track = record.serves[r].track
                        /\ new.serves[r].alias = record.serves[r].alias
                        /\ new.serves[r].state =
                             IF KindFor(m, r) = "UNSUBSCRIBE" /\ record.serves[r].state \in ActiveStates
                             THEN "Ended" ELSE record.serves[r].state
                        /\ KindFor(m, r) # "UNSUBSCRIBE" => new.serves[r] = record.serves[r]
<1>1. /\ IsMap(record.requests, RequestIds, Requested)
      /\ IsMap(record.serves, RequestIds, Service)
      /\ m.kind \in PeerKinds
  BY DEF PeerOK, ToPeerMessage
<1>2. CASE m.kind \in Replies
  <2>1. PICK from, to :
          /\ to \in {"Pending", "Established", "Ended"}
          /\ new = IF m.id \in DOMAIN record.requests /\ record.requests[m.id].state \in from
                   THEN [record EXCEPT !.requests[m.id].state = to] ELSE record
          /\ \A state : AfterReply(state, m.kind) = IF state \in from THEN to ELSE state
    <3>1. CASE m.kind = "SUBSCRIBE_OK"
      <4>1. new = IF m.id \in DOMAIN record.requests /\ record.requests[m.id].state \in {"Pending"}
                  THEN [record EXCEPT !.requests[m.id].state = "Established"] ELSE record
        BY <3>1 DEF Learn
      <4> QED BY <3>1, <4>1 DEF AfterReply
    <3>2. CASE m.kind = "REQUEST_ERROR"
      <4>1. new = IF m.id \in DOMAIN record.requests /\ record.requests[m.id].state \in {"Pending"}
                  THEN [record EXCEPT !.requests[m.id].state = "Ended"] ELSE record
        BY <3>2 DEF Learn
      <4> QED BY <3>2, <4>1 DEF AfterReply
    <3>3. CASE m.kind = "PUBLISH_DONE"
      <4>1. new = IF m.id \in DOMAIN record.requests /\ record.requests[m.id].state \in {"Established"}
                  THEN [record EXCEPT !.requests[m.id].state = "Ended"] ELSE record
        BY <3>3 DEF Learn
      <4> QED BY <3>3, <4>1 DEF AfterReply
    <3> QED BY <1>2, <3>1, <3>2, <3>3 DEF Replies
  <2>2. \A r, state : AfterReply(state, KindFor(m, r)) =
                        IF r = m.id /\ state \in from THEN to ELSE state
    BY <1>2, <2>1 DEF KindFor, AfterReply
  <2>3. \A r : KindFor(m, r) \notin {"SUBSCRIBE", "UNSUBSCRIBE"}
    BY <1>2 DEF KindFor, Replies
  <2>4. CASE m.id \in DOMAIN record.requests /\ record.requests[m.id].state \in from
    <3>1. /\ PeerOK(new) /\ new.next = record.next /\ new.serves = record.serves
          /\ DOMAIN new.requests = DOMAIN record.requests
          /\ \A r \in DOMAIN record.requests :
               /\ new.requests[r].track = record.requests[r].track
               /\ new.requests[r].state = IF r = m.id THEN to ELSE record.requests[r].state
      BY <2>1, <2>4, SetRequest
    <3> QED BY <2>2, <2>3, <2>4, <3>1
  <2>5. CASE ~(m.id \in DOMAIN record.requests /\ record.requests[m.id].state \in from)
    <3>1. new = record
      BY <2>1, <2>5
    <3> QED BY <2>2, <2>3, <2>5, <3>1
  <2> QED BY <2>4, <2>5
<1>3. ASSUME m.kind \notin Replies
      PROVE  \A r, state : AfterReply(state, KindFor(m, r)) = state
  BY <1>3 DEF AfterReply, KindFor, Replies
<1>4. CASE m.kind = "SUBSCRIBE"
  <2>1. PICK e : e = [track |-> m.track, state |-> "Pending", alias |-> NoAlias]
    OBVIOUS
  <2>2. PICK g : g = Put(record.serves, m.id, e)
    OBVIOUS
  <2>3. m.id \in RequestIds /\ e \in Service
    BY <1>4, <2>1 DEF ToPeerMessage, Service
  <2>4. IsMap(g, RequestIds, Service)
    BY <1>1, <2>2, <2>3, PutType
  <2>5. new = [record EXCEPT !.serves = g]
    BY <1>4, <2>1, <2>2 DEF Learn
  <2>6. /\ PeerOK(new) /\ new.next = record.next /\ new.requests = record.requests
        /\ new.serves = g
    BY <2>4, <2>5, SetServices
  <2>7. \A r : r \in DOMAIN g <=> r \in DOMAIN record.serves \/ r = m.id
    BY <2>2 DEF Put
  <2>8. \A r \in DOMAIN g : g[r] = IF r = m.id THEN e ELSE record.serves[r]
    BY <2>2 DEF Put
  <2>9. \A r : KindFor(m, r) = IF r = m.id THEN "SUBSCRIBE" ELSE "NONE"
    BY <1>4 DEF KindFor
  <2>10. m.kind \notin Replies
    BY <1>4 DEF Replies
  <2> QED BY <1>3, <2>1, <2>6, <2>7, <2>8, <2>9, <2>10
<1>5. CASE m.kind = "UNSUBSCRIBE"
  <2>1. \A r : KindFor(m, r) = IF r = m.id THEN "UNSUBSCRIBE" ELSE "NONE"
    BY <1>5 DEF KindFor
  <2>2. m.kind \notin Replies
    BY <1>5 DEF Replies
  <2>3. CASE m.id \in DOMAIN record.serves /\ IsLive(record.serves[m.id])
    <3>1. PICK f : f = record.serves
      OBVIOUS
    <3>2. PICK g : g = [f EXCEPT ![m.id].state = "Ended"]
      OBVIOUS
    <3>3. f \in [DOMAIN f -> Service] /\ DOMAIN f \subseteq RequestIds /\ m.id \in DOMAIN f
      BY <1>1, <2>3, <3>1 DEF IsMap
    <3>4. /\ g \in [DOMAIN f -> Service] /\ DOMAIN g = DOMAIN f
          /\ \A r \in DOMAIN f : /\ g[r].track = f[r].track /\ g[r].alias = f[r].alias
                                 /\ g[r].state = IF r = m.id THEN "Ended" ELSE f[r].state
                                 /\ r # m.id => g[r] = f[r]
      BY <3>2, <3>3 DEF Service
    <3>5. new = [record EXCEPT !.serves = g]
      BY <1>5, <2>3, <3>1, <3>2 DEF Learn, PeerOK
    <3>6. IsMap(g, RequestIds, Service)
      BY <3>3, <3>4 DEF IsMap
    <3>7. /\ PeerOK(new) /\ new.next = record.next /\ new.requests = record.requests
          /\ new.serves = g
      BY <3>5, <3>6, SetServices
    <3>8. record.serves[m.id].state \in ActiveStates
      BY <2>3 DEF IsLive, ActiveStates
    <3> QED BY <1>3, <2>1, <2>2, <3>1, <3>4, <3>7, <3>8
  <2>4. CASE ~(m.id \in DOMAIN record.serves /\ IsLive(record.serves[m.id]))
    <3>1. new = record
      <4>1. CASE IsLive(record.serves[m.id])
        <5>1. new = [record EXCEPT !.serves[m.id].state = "Ended"]
          BY <1>5, <4>1 DEF Learn
        <5>2. [record.serves EXCEPT ![m.id].state = "Ended"] = record.serves
          BY <1>1, <2>4, <4>1 DEF IsMap
        <5>3. new = [record EXCEPT !.serves = record.serves]
          BY <5>1, <5>2 DEF PeerOK
        <5> QED BY <5>3 DEF PeerOK
      <4>2. CASE ~IsLive(record.serves[m.id])
        BY <1>5, <4>2 DEF Learn
      <4> QED BY <4>1, <4>2
    <3>2. m.id \in DOMAIN record.serves => record.serves[m.id].state \notin ActiveStates
      BY <2>4 DEF IsLive, ActiveStates
    <3> QED BY <1>3, <2>1, <2>2, <3>1, <3>2
  <2> QED BY <2>3, <2>4
<1>6. CASE m.kind = "REQUEST_OK"
  <2>1. new = record
    BY <1>6 DEF Learn
  <2>2. \A r : KindFor(m, r) \notin {"SUBSCRIBE", "UNSUBSCRIBE"}
    BY <1>6 DEF KindFor
  <2>3. m.kind \notin Replies
    BY <1>6 DEF Replies
  <2> QED BY <1>3, <2>1, <2>2, <2>3
<1> QED BY <1>1, <1>2, <1>4, <1>5, <1>6 DEF PeerKinds, Replies


\* Reading a message that is under way to a peer.
LEMMA ReadToPeer ==
  ASSUME NEW q, ToPeerOK(q), q # <<>>
  PROVE  /\ ToPeerOK(Tail(q)) /\ ToPeerMessage(Head(q))
         /\ \A r : Read(q, Tail(q), Head(q), r)
<1>1. q \in Seq(Range(q)) /\ \A i \in DOMAIN q : ToPeerMessage(q[i])
  BY DEF ToPeerOK
<1>2. /\ Tail(q) \in Seq(Range(q)) /\ Head(q) = q[1] /\ 1 \in DOMAIN q
      /\ \A i \in DOMAIN Tail(q) : i + 1 \in DOMAIN q /\ Tail(q)[i] = q[i + 1]
  BY <1>1, EmptySeq, HeadTailProperties, LenProperties
<1>3. Tail(q) \in Seq(Range(Tail(q)))
  BY <1>2, SeqOfItsRange
<1>4. Head(q).kind # "NONE"
  BY <1>1, <1>2 DEF ToPeerMessage, PeerKinds
<1> QED BY <1>1, <1>2, <1>3, <1>4, ReadFirst DEF ToPeerOK

\* A peer reads a message.
LEMMA PeerReceivesSettled ==
  ASSUME Settled, NEW s \in Sessions, PeerReceives(s)
  PROVE  Settled'
<1>1. PICK m, record, new, up, down, down2 :
        /\ m = Head(toPeer[s]) /\ record = peer[s] /\ new = Learn(record, m)
        /\ up = toRelay[s] /\ down = toPeer[s] /\ down2 = Tail(down)
  OBVIOUS
<1>2. /\ ToldInv /\ UpstreamIndexExact /\ AllOpen /\ ViewsOf(s)
      /\ PeerOK(record) /\ ToPeerOK(down) /\ down # <<>>
      /\ DOMAIN peer = Sessions /\ DOMAIN toPeer = Sessions
      /\ toRelay \in [Sessions -> Seq(ToRelayMessage)]
  BY <1>1 DEF Settled, NetworkTypes, PeerReceives
<1>3. /\ UNCHANGED <<relayVars, toRelay>>
      /\ DOMAIN peer' = Sessions /\ peer'[s] = new
      /\ DOMAIN toPeer' = Sessions /\ toPeer'[s] = down2 /\ toRelay'[s] = up
      /\ \A x \in Sessions : x # s => Bystander(x)
  BY <1>1, <1>2 DEF PeerReceives, Bystander
<1>4. /\ ToPeerOK(down2) /\ ToPeerMessage(m)
      /\ \A r : Read(down, down2, m, r)
  BY <1>1, <1>2, ReadToPeer
<1>5. /\ PeerOK(new) /\ new.next = record.next
      /\ DOMAIN new.requests = DOMAIN record.requests
      /\ \A r \in DOMAIN record.requests :
           /\ new.requests[r].track = record.requests[r].track
           /\ new.requests[r].state = AfterReply(record.requests[r].state, KindFor(m, r))
      /\ \A r :
           IF KindFor(m, r) = "SUBSCRIBE"
           THEN /\ r \in DOMAIN new.serves
                /\ new.serves[r] = [track |-> m.track, state |-> "Pending", alias |-> NoAlias]
           ELSE /\ r \in DOMAIN new.serves <=> r \in DOMAIN record.serves
                /\ r \in DOMAIN record.serves =>
                     /\ new.serves[r].track = record.serves[r].track
                     /\ new.serves[r].alias = record.serves[r].alias
                     /\ new.serves[r].state =
                          IF KindFor(m, r) = "UNSUBSCRIBE" /\ record.serves[r].state \in ActiveStates
                          THEN "Ended" ELSE record.serves[r].state
                     /\ KindFor(m, r) # "UNSUBSCRIBE" => new.serves[r] = record.serves[r]
  BY <1>1, <1>2, <1>4, Learned
<1>6. RequestsCounted(s)'
  <2>1. sessions' = sessions
    BY <1>3 DEF relayVars
  <2> QED BY <1>1, <1>2, <1>3, <1>5, <2>1 DEF ViewsOf, RequestsCounted
<1>7. ASSUME NEW r \in RequestIds
      PROVE  SubscriberView(s, r)'
  <2>1. PICK S, t : S = StatusOf(s, r) /\ t = downstream_request_index[<<s, r>>]
    OBVIOUS
  <2>2. StatusOf(s, r)' = S /\ downstream_request_index'[<<s, r>>] = t
    BY <1>2, <1>3, <2>1, RelayRests DEF relayVars
  <2>3. S \in Statuses
    BY <1>2, <2>1, StatusIs DEF StatusFacts, ToldInv
  <2>4. SubscriberView(s, r)
    BY <1>2 DEF ViewsOf
  <2>5. CASE r \in DOMAIN record.requests
    <3>1. PICK mine, after : mine = record.requests[r] /\ after = new.requests[r]
      OBVIOUS
    <3>2. /\ mine.state \in {"Pending", "Established", "Ended"}
          /\ after.track = mine.track /\ after.state = AfterReply(mine.state, KindFor(m, r))
      BY <1>2, <1>5, <2>5, <3>1 DEF PeerOK, IsMap, Requested
    <3>3. r + 2 <= record.next /\ Subscribed(S, t, mine, r, up, down)
      BY <1>1, <2>1, <2>4, <2>5, <3>1 DEF SubscriberView
    <3>4. Subscribed(S, t, after, r, up, down2)
      BY <1>4, <2>3, <3>2, <3>3, SubscribedHears
    <3> QED BY <1>3, <1>5, <2>2, <2>5, <3>1, <3>3, <3>4 DEF SubscriberView
  <2>6. CASE r \notin DOMAIN record.requests
    <3>1. NotSubscribed(S, r, up, down)
      BY <1>1, <2>1, <2>4, <2>6 DEF SubscriberView
    <3>2. NotSubscribed(S, r, up, down2)
      BY <1>4, <3>1, NotSubscribedHears
    <3> QED BY <1>3, <1>5, <2>2, <2>6, <3>2 DEF SubscriberView
  <2> QED BY <2>5, <2>6
<1>8. ASSUME NEW r \in RequestIds
      PROVE  PublisherView(s, r)'
  <2>1. PICK L, t, a, mine, after :
          /\ L = LegState(s, r) /\ t = upstream_request_index[<<s, r>>]
          /\ a = AskedLeg(<<s, r>>).inbound_alias
          /\ mine = record.serves[r] /\ after = new.serves[r]
    OBVIOUS
  <2>2. /\ LegState(s, r)' = L /\ upstream_request_index'[<<s, r>>] = t
        /\ AskedLeg(<<s, r>>)'.inbound_alias = a
    BY <1>2, <1>3, <2>1, RelayRests DEF relayVars
  <2>3. L \in Statuses
    BY <1>2, <2>1, LegStateIs
  <2>4. /\ Asked(L, t, a, r, down)
        /\ IF r \in DOMAIN record.serves THEN Served(L, t, a, mine, r, up, down)
           ELSE NotServed(L, r, up, down)
    <3>1. PublisherView(s, r)
      BY <1>2 DEF ViewsOf
    <3> QED BY <1>1, <2>1, <3>1 DEF PublisherView
  <2>5. r \in DOMAIN record.serves => mine.state \in {"Pending", "Established", "Ended", "Done"}
    BY <1>2, <2>1 DEF PeerOK, IsMap, Service
  <2>6. /\ Asked(L, t, a, r, down2)
        /\ IF r \in DOMAIN new.serves THEN Served(L, t, a, after, r, up, down2)
           ELSE NotServed(L, r, up, down2)
    <3>1. CASE KindFor(m, r) = "SUBSCRIBE"
      <4>1. /\ Asked(L, t, a, r, down2)
            /\ ~Served(L, t, a, mine, r, up, down)
            /\ NotServed(L, r, up, down) =>
                 Served(L, t, a, [track |-> m.track, state |-> "Pending", alias |-> NoAlias],
                        r, up, down2)
        <5>1. Read(down, down2, m, r)
          BY <1>4
        <5> QED BY <2>3, <2>4, <3>1, <5>1, ServedAnew
      <4>2. /\ r \in DOMAIN new.serves
            /\ after = [track |-> m.track, state |-> "Pending", alias |-> NoAlias]
        BY <1>5, <2>1, <3>1
      <4> QED BY <2>4, <4>1, <4>2
    <3>2. CASE KindFor(m, r) = "UNSUBSCRIBE"
      <4>1. Asked(L, t, a, r, down2) /\ (NotServed(L, r, up, down) => NotServed(L, r, up, down2))
        <5>1. PICK any : any = [track |-> 0, state |-> "Ended", alias |-> 0]
          OBVIOUS
        <5>2. any.state = "Ended" /\ any.state \notin ActiveStates
          BY <5>1 DEF ActiveStates
        <5> QED BY <1>4, <2>3, <2>4, <3>2, <5>2, ServedNoMore
      <4>2. CASE r \in DOMAIN record.serves
        <5>1. /\ after.track = mine.track /\ after.alias = mine.alias
              /\ after.state = IF mine.state \in ActiveStates THEN "Ended" ELSE mine.state
          BY <1>5, <2>1, <3>2, <4>2
        <5>2. Served(L, t, a, after, r, up, down2)
          BY <1>4, <2>3, <2>4, <2>5, <3>2, <4>2, <5>1, ServedNoMore
        <5> QED BY <1>5, <3>2, <4>1, <4>2, <5>2
      <4> QED BY <1>5, <2>4, <3>2, <4>1, <4>2
    <3>3. CASE KindFor(m, r) \notin {"SUBSCRIBE", "UNSUBSCRIBE"}
      <4>1. /\ Asked(L, t, a, r, down2)
            /\ Served(L, t, a, mine, r, up, down) => Served(L, t, a, mine, r, up, down2)
            /\ NotServed(L, r, up, down) => NotServed(L, r, up, down2)
        BY <1>4, <2>4, <3>3, ServedHears
      <4>2. /\ r \in DOMAIN new.serves <=> r \in DOMAIN record.serves
            /\ r \in DOMAIN record.serves => after = mine
        BY <1>5, <2>1, <3>3
      <4> QED BY <2>4, <4>1, <4>2
    <3> QED BY <3>1, <3>2, <3>3
  <2> QED BY <1>3, <2>1, <2>2, <2>6 DEF PublisherView
<1>9. ViewsOf(s)'
  BY <1>6, <1>7, <1>8 DEF ViewsOf
<1> QED BY <1>2, <1>3, <1>4, <1>5, <1>9, OnePeerMoves


\* The peer `s' sent `m' and is as `new' says.
HasTold(s, m, new) ==
  /\ UNCHANGED relayVars /\ toPeer' = toPeer
  /\ DOMAIN peer' = Sessions /\ peer'[s] = new
  /\ toRelay' \in [Sessions -> Seq(ToRelayMessage)]
  /\ toRelay'[s] = Append(toRelay[s], m)
  /\ \A i \in DOMAIN toRelay'[s] :
       \/ i \in DOMAIN toRelay[s] /\ toRelay'[s][i] = toRelay[s][i]
       \/ toRelay'[s][i] = m
  /\ \A r : Grown(toRelay[s], <<m>>, Append(toRelay[s], m), r)
  /\ \A x \in Sessions : x # s => Bystander(x)

\* What a peer does that sends a message.
LEMMA TellFacts ==
  ASSUME Settled, NEW s \in Sessions, NEW m \in ToRelayMessage, NEW new, Tell(s, m, new)
  PROVE  HasTold(s, m, new)
<1>1. PICK q \in Seq(ToRelayMessage) : q = toRelay[s]
  BY DEF Settled, NetworkTypes
<1>2. /\ UNCHANGED <<relayVars, toPeer>>
      /\ peer' = [peer EXCEPT ![s] = new] /\ DOMAIN peer = Sessions
      /\ toRelay' = [toRelay EXCEPT ![s] = Append(q, m)]
      /\ toRelay \in [Sessions -> Seq(ToRelayMessage)]
  BY <1>1 DEF Tell, Settled, NetworkTypes
<1>3. /\ Append(q, m) \in Seq(ToRelayMessage)
      /\ \A i \in DOMAIN Append(q, m) : \/ i \in DOMAIN q /\ Append(q, m)[i] = q[i]
                                        \/ Append(q, m)[i] = m
  BY AppendProperties, LenProperties
<1>4. \A r : Grown(q, <<m>>, Append(q, m), r)
  BY Appended
<1>5. toRelay' \in [Sessions -> Seq(ToRelayMessage)] /\ toRelay'[s] = Append(q, m)
  BY <1>2, <1>3
<1>6. \A x \in Sessions : x # s => Bystander(x)
  BY <1>2 DEF Bystander
<1> QED BY <1>1, <1>2, <1>3, <1>4, <1>5, <1>6 DEF HasTold

\* A peer that sends a request counts it.
LEMMA TellCounted ==
  ASSUME Settled, NEW s \in Sessions, NEW m \in ToRelayMessage, NEW new, PeerOK(new),
         Tell(s, m, new), peer[s].next <= new.next,
         m.kind \in {"SUBSCRIBE", "PUBLISH_NAMESPACE"} => m.id + 2 <= new.next
  PROVE  RequestsCounted(s)'
<1>1. /\ sessions' = sessions /\ peer'[s] = new
      /\ \A i \in DOMAIN toRelay'[s] :
              \/ i \in DOMAIN toRelay[s] /\ toRelay'[s][i] = toRelay[s][i]
              \/ toRelay'[s][i] = m
  BY TellFacts DEF HasTold, relayVars
<1>2. RequestsCounted(s) /\ peer[s].next \in Nat /\ new.next \in Nat
  BY DEF Settled, NetworkTypes, PeerOK, ViewsOf
<1>3. sessions[s].peer_next_expected \in Nat
  BY DEF Settled, AllOpen, ToldInv, PromiseInv, SessionsInv, DownstreamInv, TypeOK, IsMap,
         Session
<1>4. ASSUME NEW i \in DOMAIN toRelay'[s],
             toRelay'[s][i].kind \in {"SUBSCRIBE", "PUBLISH_NAMESPACE"}
      PROVE  toRelay'[s][i].id + 2 <= new.next
  <2>1. CASE toRelay'[s][i] = m
    BY <1>4, <2>1
  <2>2. CASE i \in DOMAIN toRelay[s] /\ toRelay'[s][i] = toRelay[s][i]
    <3>1. toRelay[s][i].id \in Nat
      <4>1. toRelay[s] \in Seq(ToRelayMessage)
        BY DEF Settled, NetworkTypes
      <4>2. toRelay[s][i] \in ToRelayMessage
        BY <2>2, <4>1, LenProperties
      <4> QED BY <4>2, LimitsAssumption DEF ToRelayMessage
    <3>2. toRelay[s][i].id + 2 <= peer[s].next
      BY <1>2, <1>4, <2>2 DEF RequestsCounted
    <3> QED BY <1>2, <2>2, <3>1, <3>2
  <2> QED BY <1>1, <2>1, <2>2
<1> QED BY <1>1, <1>2, <1>3, <1>4 DEF RequestsCounted

\* A message of a subscriber.
LEMMA SubscriberTells ==
  ASSUME Settled, NEW s \in Sessions, NEW m \in ToRelayMessage, m.kind \notin Replies,
         NEW new, PeerOK(new), Tell(s, m, new), new.serves = peer[s].serves,
         peer[s].next <= new.next,
         m.kind \in {"SUBSCRIBE", "PUBLISH_NAMESPACE"} => m.id + 2 <= new.next,
         \A r : r # m.id =>
           /\ r \in DOMAIN new.requests <=> r \in DOMAIN peer[s].requests
           /\ r \in DOMAIN new.requests => new.requests[r] = peer[s].requests[r],
         IF m.id \in DOMAIN new.requests
         THEN /\ m.id + 2 <= new.next
              /\ Subscribed(StatusOf(s, m.id), downstream_request_index[<<s, m.id>>],
                            new.requests[m.id], m.id, Append(toRelay[s], m), toPeer[s])
         ELSE NotSubscribed(StatusOf(s, m.id), m.id, Append(toRelay[s], m), toPeer[s])
  PROVE  Settled'
<1>0. HasTold(s, m, new)
  BY TellFacts
<1>1. /\ UNCHANGED relayVars /\ toPeer' = toPeer
      /\ DOMAIN peer' = Sessions /\ peer'[s] = new
      /\ toRelay' \in [Sessions -> Seq(ToRelayMessage)]
      /\ toRelay'[s] = Append(toRelay[s], m)
      /\ \A r : Grown(toRelay[s], <<m>>, Append(toRelay[s], m), r)
      /\ \A x \in Sessions : x # s => Bystander(x)
  BY <1>0 DEF HasTold
<1>2. RequestsCounted(s)'
  BY TellCounted
<1>3. /\ ToldInv /\ UpstreamIndexExact /\ AllOpen /\ ViewsOf(s) /\ PeerOK(peer[s])
      /\ DOMAIN toPeer = Sessions /\ ToPeerOK(toPeer[s])
  BY DEF Settled, NetworkTypes
<1>4. PICK record, up, up2, down :
        record = peer[s] /\ up = toRelay[s] /\ up2 = Append(up, m) /\ down = toPeer[s]
  OBVIOUS
<1>5. ASSUME NEW r \in RequestIds
      PROVE  SubscriberView(s, r)'
  <2>1. PICK S, t : S = StatusOf(s, r) /\ t = downstream_request_index[<<s, r>>]
    OBVIOUS
  <2>2. StatusOf(s, r)' = S /\ downstream_request_index'[<<s, r>>] = t
    BY <1>1, <1>3, <2>1, RelayRests DEF relayVars
  <2>3. IF r \in DOMAIN new.requests
        THEN r + 2 <= new.next /\ Subscribed(S, t, new.requests[r], r, up2, down)
        ELSE NotSubscribed(S, r, up2, down)
    <3>1. CASE r = m.id
      BY <1>4, <2>1, <3>1
    <3>2. CASE r # m.id
      <4>1. SubscriberView(s, r)
        BY <1>3 DEF ViewsOf
      <4>2. IF r \in DOMAIN record.requests
            THEN r + 2 <= record.next /\ Subscribed(S, t, record.requests[r], r, up, down)
            ELSE NotSubscribed(S, r, up, down)
        BY <1>4, <2>1, <4>1 DEF SubscriberView
      <4>3. /\ Subscribed(S, t, record.requests[r], r, up, down) =>
                 Subscribed(S, t, record.requests[r], r, up2, down)
            /\ NotSubscribed(S, r, up, down) => NotSubscribed(S, r, up2, down)
        BY <1>1, <1>4, <3>2, SubscribedSends
      <4>4. /\ r \in DOMAIN new.requests <=> r \in DOMAIN record.requests
            /\ r \in DOMAIN new.requests => new.requests[r] = record.requests[r]
        BY <1>4, <3>2
      <4>5. r + 2 <= record.next => r + 2 <= new.next
        BY <1>3, <1>4, LimitsAssumption DEF PeerOK
      <4> QED BY <4>2, <4>3, <4>4, <4>5
    <3> QED BY <3>1, <3>2
  <2> QED BY <1>1, <1>4, <2>2, <2>3 DEF SubscriberView
<1>6. ASSUME NEW r \in RequestIds
      PROVE  PublisherView(s, r)'
  <2>1. PICK L, t, a, mine :
          /\ L = LegState(s, r) /\ t = upstream_request_index[<<s, r>>]
          /\ a = AskedLeg(<<s, r>>).inbound_alias /\ mine = record.serves[r]
    OBVIOUS
  <2>2. /\ LegState(s, r)' = L /\ upstream_request_index'[<<s, r>>] = t
        /\ AskedLeg(<<s, r>>)'.inbound_alias = a
    BY <1>1, <1>3, <2>1, RelayRests DEF relayVars
  <2>3. /\ Asked(L, t, a, r, down)
        /\ IF r \in DOMAIN record.serves THEN Served(L, t, a, mine, r, up, down)
           ELSE NotServed(L, r, up, down)
    <3>1. PublisherView(s, r)
      BY <1>3 DEF ViewsOf
    <3> QED BY <1>4, <2>1, <3>1 DEF PublisherView
  <2>4. /\ Served(L, t, a, mine, r, up, down) => Served(L, t, a, mine, r, up2, down)
        /\ NotServed(L, r, up, down) => NotServed(L, r, up2, down)
    BY <1>1, <1>4, ServedSends
  <2> QED BY <1>1, <1>4, <2>1, <2>2, <2>3, <2>4 DEF PublisherView
<1>7. ViewsOf(s)'
  BY <1>2, <1>5, <1>6 DEF ViewsOf
<1> QED BY <1>1, <1>3, <1>7, OnePeerMoves

\* A message of a publisher.
LEMMA PublisherTells ==
  ASSUME Settled, NEW s \in Sessions, NEW m \in ToRelayMessage, m.kind \in Replies,
         NEW new, PeerOK(new), Tell(s, m, new),
         new.next = peer[s].next, new.requests = peer[s].requests,
         DOMAIN new.serves = DOMAIN peer[s].serves,
         \A r \in DOMAIN new.serves : r # m.id => new.serves[r] = peer[s].serves[r],
         m.id \in DOMAIN new.serves,
         \A L \in Statuses : \A t, a :
           Served(L, t, a, peer[s].serves[m.id], m.id, toRelay[s], toPeer[s]) =>
             Served(L, t, a, new.serves[m.id], m.id, Append(toRelay[s], m), toPeer[s])
  PROVE  Settled'
<1>0. HasTold(s, m, new)
  BY TellFacts
<1>1. /\ UNCHANGED relayVars /\ toPeer' = toPeer
      /\ DOMAIN peer' = Sessions /\ peer'[s] = new
      /\ toRelay' \in [Sessions -> Seq(ToRelayMessage)]
      /\ toRelay'[s] = Append(toRelay[s], m)
      /\ \A r : Grown(toRelay[s], <<m>>, Append(toRelay[s], m), r)
      /\ \A x \in Sessions : x # s => Bystander(x)
  BY <1>0 DEF HasTold
<1>2. RequestsCounted(s)'
  <2>1. new.next \in Nat /\ m.kind \notin {"SUBSCRIBE", "PUBLISH_NAMESPACE"}
    BY DEF PeerOK, Replies
  <2> QED BY <2>1, TellCounted
<1>3. /\ ToldInv /\ UpstreamIndexExact /\ AllOpen /\ ViewsOf(s) /\ PeerOK(peer[s])
      /\ DOMAIN toPeer = Sessions /\ ToPeerOK(toPeer[s])
  BY DEF Settled, NetworkTypes
<1>4. PICK record, up, up2, down :
        record = peer[s] /\ up = toRelay[s] /\ up2 = Append(up, m) /\ down = toPeer[s]
  OBVIOUS
<1>5. ASSUME NEW r \in RequestIds
      PROVE  SubscriberView(s, r)'
  <2>1. PICK S, t : S = StatusOf(s, r) /\ t = downstream_request_index[<<s, r>>]
    OBVIOUS
  <2>2. StatusOf(s, r)' = S /\ downstream_request_index'[<<s, r>>] = t
    BY <1>1, <1>3, <2>1, RelayRests DEF relayVars
  <2>3. SubscriberView(s, r)
    BY <1>3 DEF ViewsOf
  <2>4. IF r \in DOMAIN record.requests
        THEN r + 2 <= record.next /\ Subscribed(S, t, record.requests[r], r, up, down)
        ELSE NotSubscribed(S, r, up, down)
    BY <1>4, <2>1, <2>3 DEF SubscriberView
  <2>5. /\ Subscribed(S, t, record.requests[r], r, up, down) =>
             Subscribed(S, t, record.requests[r], r, up2, down)
        /\ NotSubscribed(S, r, up, down) => NotSubscribed(S, r, up2, down)
    <3>1. m.kind \notin {"PUBLISH_NAMESPACE", "SUBSCRIBE", "UNSUBSCRIBE"}
      BY DEF Replies
    <3> QED BY <1>1, <1>4, <3>1, SubscribedSends
  <2> QED BY <1>1, <1>4, <2>2, <2>4, <2>5 DEF SubscriberView
<1>6. ASSUME NEW r \in RequestIds
      PROVE  PublisherView(s, r)'
  <2>1. PICK L, t, a, mine, after :
          /\ L = LegState(s, r) /\ t = upstream_request_index[<<s, r>>]
          /\ a = AskedLeg(<<s, r>>).inbound_alias
          /\ mine = record.serves[r] /\ after = new.serves[r]
    OBVIOUS
  <2>2. /\ LegState(s, r)' = L /\ upstream_request_index'[<<s, r>>] = t
        /\ AskedLeg(<<s, r>>)'.inbound_alias = a
    BY <1>1, <1>3, <2>1, RelayRests DEF relayVars
  <2>3. L \in Statuses
    BY <1>3, <2>1, LegStateIs
  <2>4. /\ Asked(L, t, a, r, down)
        /\ IF r \in DOMAIN record.serves THEN Served(L, t, a, mine, r, up, down)
           ELSE NotServed(L, r, up, down)
    <3>1. PublisherView(s, r)
      BY <1>3 DEF ViewsOf
    <3> QED BY <1>4, <2>1, <3>1 DEF PublisherView
  <2>5. IF r \in DOMAIN new.serves THEN Served(L, t, a, after, r, up2, down)
        ELSE NotServed(L, r, up2, down)
    <3>1. CASE r = m.id
      BY <1>4, <2>1, <2>3, <2>4, <3>1
    <3>2. CASE r # m.id
      <4>1. /\ Served(L, t, a, mine, r, up, down) => Served(L, t, a, mine, r, up2, down)
            /\ NotServed(L, r, up, down) => NotServed(L, r, up2, down)
        BY <1>1, <1>4, <3>2, ServedSends
      <4> QED BY <1>4, <2>1, <2>4, <3>2, <4>1
    <3> QED BY <3>1, <3>2
  <2> QED BY <1>1, <1>4, <2>1, <2>2, <2>4, <2>5 DEF PublisherView
<1>7. ViewsOf(s)'
  BY <1>2, <1>5, <1>6 DEF ViewsOf
<1> QED BY <1>1, <1>3, <1>7, OnePeerMoves


\* The id a peer uses next has not been used.
LEMMA NextIsUnused ==
  ASSUME Settled, NEW s \in Sessions, NEW r, r = peer[s].next, r < InitialLocalMax
  PROVE  /\ r \in RequestIds /\ r \in Nat /\ r \notin DOMAIN peer[s].requests
         /\ StatusOf(s, r) = "Unused"
         /\ NotSubscribed("Unused", r, toRelay[s], toPeer[s])
         /\ ~OnItsWay(toRelay[s], "PUBLISH_NAMESPACE", r)
<1>1. /\ ToldInv /\ AllOpen /\ ViewsOf(s) /\ PeerOK(peer[s])
  BY DEF Settled, NetworkTypes
<1>2. r \in RequestIds /\ r \in Nat
  BY <1>1, LimitsAssumption, NetworkAssumption DEF PeerOK
<1>3. SubscriberView(s, r)
  BY <1>1, <1>2 DEF ViewsOf
<1>4. r \notin DOMAIN peer[s].requests
  <2>1. ~(r + 2 <= peer[s].next)
    BY <1>2
  <2> QED BY <1>3, <2>1 DEF SubscriberView
<1>5. NotSubscribed(StatusOf(s, r), r, toRelay[s], toPeer[s])
  BY <1>3, <1>4 DEF SubscriberView
<1>6. StatusOf(s, r) = "Unused"
  <2>1. sessions[s].peer_next_expected <= r
    BY <1>1 DEF ViewsOf, RequestsCounted
  <2>2. sessions[s].peer_next_expected \in Nat
    BY <1>1 DEF AllOpen, ToldInv, PromiseInv, SessionsInv, DownstreamInv, TypeOK, IsMap, Session
  <2>3. StatusFacts(s, r)
    BY <1>1, <1>2, StatusIs DEF ToldInv
  <2> QED BY <1>2, <2>1, <2>2, <2>3 DEF StatusFacts
<1>7. ~OnItsWay(toRelay[s], "PUBLISH_NAMESPACE", r)
  <2>1. \A i \in DOMAIN toRelay[s] :
          toRelay[s][i].kind = "PUBLISH_NAMESPACE" => toRelay[s][i].id + 2 <= r
    BY <1>1 DEF ViewsOf, RequestsCounted
  <2> QED BY <1>2, <2>1 DEF OnItsWay, Concerns
<1> QED BY <1>2, <1>4, <1>5, <1>6, <1>7

\* Announce keeps the invariant.
LEMMA AnnounceSettled ==
  ASSUME Settled, NEW s \in Sessions, NEW ns \in Namespaces, Announce(s, ns)
  PROVE  Settled'
<1>1. PICK r, m, record :
        /\ r = peer[s].next /\ record = peer[s]
        /\ m = [kind |-> "PUBLISH_NAMESPACE", id |-> r, namespace |-> ns]
  OBVIOUS
<1>0. PICK new :
        new = [record EXCEPT !.next = record.next + 2, !.announced = record.announced \cup {ns}]
  OBVIOUS
<1>2. Tell(s, m, new) /\ r < InitialLocalMax
  BY <1>0, <1>1 DEF Announce
<1>3. /\ r \in RequestIds /\ r \in Nat /\ r \notin DOMAIN record.requests
      /\ StatusOf(s, r) = "Unused"
      /\ NotSubscribed("Unused", r, toRelay[s], toPeer[s])
  BY <1>1, <1>2, NextIsUnused
<1>4. m \in ToRelayMessage /\ m.kind = "PUBLISH_NAMESPACE" /\ m.id = r /\ m.kind \notin Replies
  BY <1>1, <1>3 DEF ToRelayMessage, Replies
<1>5. PeerOK(record)
  BY <1>1 DEF Settled, NetworkTypes
<1>6. new = [next |-> r + 2, announced |-> record.announced \cup {ns},
             requests |-> record.requests, serves |-> record.serves]
  BY <1>0, <1>1, <1>5 DEF PeerOK
<1>7. /\ new.next = r + 2 /\ new.announced = record.announced \cup {ns}
      /\ new.requests = record.requests /\ new.serves = record.serves
  BY <1>6
<1>8. PeerOK(new)
  <2>1. new.next \in Nat
    BY <1>3, <1>7
  <2> QED BY <1>5, <1>6, <1>7, <2>1 DEF PeerOK
<1>9. NotSubscribed(StatusOf(s, m.id), m.id, Append(toRelay[s], m), toPeer[s])
  <2>1. Grown(toRelay[s], <<m>>, Append(toRelay[s], m), r)
    BY <1>2, <1>4, TellFacts DEF HasTold
  <2> QED BY <1>3, <1>4, <2>1, NotSubscribedAnnounces
<1>10. record.next <= new.next /\ m.id + 2 <= new.next
  BY <1>1, <1>3, <1>4, <1>7
<1>11. new.serves = peer[s].serves /\ peer[s].next <= new.next
  BY <1>1, <1>7, <1>10
<1>12. \A q : /\ q \in DOMAIN new.requests <=> q \in DOMAIN peer[s].requests
              /\ q \in DOMAIN new.requests => new.requests[q] = peer[s].requests[q]
  BY <1>1, <1>7
<1>13. m.id \notin DOMAIN new.requests
  BY <1>3, <1>4, <1>7
<1> QED BY <1>2, <1>4, <1>8, <1>9, <1>10, <1>11, <1>12, <1>13, SubscriberTells

\* Subscribe keeps the invariant: the id is one its peer has not used.
LEMMA SubscribeSettled ==
  ASSUME Settled, NEW s \in Sessions, NEW t \in Tracks, Subscribe(s, t)
  PROVE  Settled'
<1>1. PICK r, m, record, e, f :
        /\ r = peer[s].next /\ record = peer[s]
        /\ m = [kind |-> "SUBSCRIBE", id |-> r, track |-> t]
        /\ e = [track |-> t, state |-> "Pending"]
        /\ f = Put(record.requests, r, e)
  OBVIOUS
<1>0. PICK new : new = [record EXCEPT !.next = record.next + 2, !.requests = f]
  OBVIOUS
<1>2. Tell(s, m, new) /\ r < InitialLocalMax
  BY <1>0, <1>1 DEF Subscribe
<1>3. /\ r \in RequestIds /\ r \in Nat /\ r \notin DOMAIN record.requests
      /\ StatusOf(s, r) = "Unused"
      /\ NotSubscribed("Unused", r, toRelay[s], toPeer[s])
      /\ ~OnItsWay(toRelay[s], "PUBLISH_NAMESPACE", r)
  BY <1>1, <1>2, NextIsUnused
<1>4. /\ m \in ToRelayMessage /\ m.kind = "SUBSCRIBE" /\ m.id = r /\ m.track = t
      /\ m.kind \notin Replies
  BY <1>1, <1>3 DEF ToRelayMessage, Replies
<1>5. PeerOK(record)
  BY <1>1 DEF Settled, NetworkTypes
<1>6. new = [next |-> r + 2, announced |-> record.announced,
             requests |-> f, serves |-> record.serves]
  BY <1>0, <1>1, <1>5 DEF PeerOK
<1>7. /\ new.next = r + 2 /\ new.announced = record.announced
      /\ new.requests = f /\ new.serves = record.serves
  BY <1>6
<1>8. PeerOK(new)
  <2>1. new.next \in Nat
    BY <1>3, <1>7
  <2>2. e \in Requested /\ IsMap(record.requests, RequestIds, Requested)
    BY <1>1, <1>5 DEF PeerOK, Requested
  <2>3. IsMap(f, RequestIds, Requested)
    BY <1>1, <1>3, <2>2, PutType
  <2> QED BY <1>5, <1>6, <1>7, <2>1, <2>3 DEF PeerOK
<1>9. \A u : Subscribed("Unused", u, e, r, Append(toRelay[s], m), toPeer[s])
  <2>1. Grown(toRelay[s], <<m>>, Append(toRelay[s], m), r)
    BY <1>2, <1>4, TellFacts DEF HasTold
  <2> QED BY <1>1, <1>3, <1>4, <2>1, NewSubscribed
<1>10. peer[s].next <= new.next /\ m.id + 2 <= new.next /\ new.serves = peer[s].serves
  BY <1>1, <1>3, <1>4, <1>7
<1>11. /\ r \in DOMAIN f /\ f[r] = e
       /\ \A q : q # r => /\ q \in DOMAIN f <=> q \in DOMAIN record.requests
                          /\ q \in DOMAIN f => f[q] = record.requests[q]
  BY <1>1 DEF Put
<1>12. \A q : q # m.id =>
         /\ q \in DOMAIN new.requests <=> q \in DOMAIN peer[s].requests
         /\ q \in DOMAIN new.requests => new.requests[q] = peer[s].requests[q]
  BY <1>1, <1>4, <1>7, <1>11
<1>13. /\ m.id \in DOMAIN new.requests
       /\ Subscribed(StatusOf(s, m.id), downstream_request_index[<<s, m.id>>],
                     new.requests[m.id], m.id, Append(toRelay[s], m), toPeer[s])
  BY <1>3, <1>4, <1>7, <1>9, <1>11
<1> QED BY <1>2, <1>4, <1>8, <1>10, <1>12, <1>13, SubscriberTells

\* Unsubscribe keeps the invariant.
LEMMA UnsubscribeSettled ==
  ASSUME Settled, NEW s \in Sessions, NEW r \in DOMAIN peer[s].requests, Unsubscribe(s, r)
  PROVE  Settled'
<1>1. PICK m, record, new :
        /\ record = peer[s] /\ m = [kind |-> "UNSUBSCRIBE", id |-> r]
        /\ new = [record EXCEPT !.requests[r].state = "Ended"]
  OBVIOUS
<1>2. Tell(s, m, new) /\ r \in DOMAIN record.requests
  BY <1>1 DEF Unsubscribe
<1>3. PeerOK(record) /\ ViewsOf(s)
  BY <1>1 DEF Settled, NetworkTypes
<1>4. r \in RequestIds
  BY <1>2, <1>3 DEF PeerOK, IsMap
<1>5. m \in ToRelayMessage /\ m.kind = "UNSUBSCRIBE" /\ m.id = r /\ m.kind \notin Replies
  BY <1>1, <1>4 DEF ToRelayMessage, Replies
<1>6. /\ PeerOK(new) /\ new.next = record.next /\ new.serves = record.serves
      /\ DOMAIN new.requests = DOMAIN record.requests
      /\ \A q \in DOMAIN record.requests :
           /\ new.requests[q].track = record.requests[q].track
           /\ new.requests[q].state = IF q = r THEN "Ended" ELSE record.requests[q].state
  BY <1>1, <1>2, <1>3, SetRequest
<1>7. \A q \in DOMAIN record.requests : q # r => new.requests[q] = record.requests[q]
  <2>1. \A q \in DOMAIN record.requests :
          /\ new.requests[q] \in Requested /\ record.requests[q] \in Requested
    BY <1>3, <1>6 DEF PeerOK, IsMap
  <2> QED BY <1>6, <2>1 DEF Requested
<1>8. /\ r + 2 <= record.next
      /\ Subscribed(StatusOf(s, r), downstream_request_index[<<s, r>>], record.requests[r], r,
                    toRelay[s], toPeer[s])
  BY <1>1, <1>2, <1>3, <1>4 DEF ViewsOf, SubscriberView
<1>9. Subscribed(StatusOf(s, r), downstream_request_index[<<s, r>>], new.requests[r], r,
                 Append(toRelay[s], m), toPeer[s])
  <2>1. Grown(toRelay[s], <<m>>, Append(toRelay[s], m), r)
    BY <1>2, <1>5, TellFacts DEF HasTold
  <2>2. new.requests[r].track = record.requests[r].track /\ new.requests[r].state = "Ended"
    BY <1>2, <1>6
  <2> QED BY <1>5, <1>8, <2>1, <2>2, EndedSubscribed
<1>10. /\ peer[s].next <= new.next /\ new.serves = peer[s].serves
       /\ m.kind \notin {"SUBSCRIBE", "PUBLISH_NAMESPACE"}
  BY <1>1, <1>3, <1>5, <1>6 DEF PeerOK
<1>11. \A q : q # m.id =>
         /\ q \in DOMAIN new.requests <=> q \in DOMAIN peer[s].requests
         /\ q \in DOMAIN new.requests => new.requests[q] = peer[s].requests[q]
  BY <1>1, <1>5, <1>6, <1>7
<1>12. /\ m.id \in DOMAIN new.requests /\ m.id + 2 <= new.next
       /\ Subscribed(StatusOf(s, m.id), downstream_request_index[<<s, m.id>>],
                     new.requests[m.id], m.id, Append(toRelay[s], m), toPeer[s])
  BY <1>2, <1>5, <1>6, <1>8, <1>9
<1> QED BY <1>2, <1>5, <1>6, <1>10, <1>11, <1>12, SubscriberTells


\* A publisher answers or ends a request.
LEMMA ReplySettled ==
  ASSUME Settled, NEW s \in Sessions, NEW r \in DOMAIN peer[s].serves,
         NEW m \in ToRelayMessage, m.id = r, m.kind \in Replies,
         NEW e \in Service, NEW mine, mine = peer[s].serves[r], e.track = mine.track,
         \/ /\ m.kind = "SUBSCRIBE_OK" /\ mine.state = "Pending"
            /\ e.state = "Established" /\ e.alias = m.alias
         \/ /\ m.kind = "REQUEST_ERROR" /\ mine.state = "Pending"
            /\ e.state = "Ended" /\ e.alias = mine.alias
         \/ /\ m.kind = "PUBLISH_DONE" /\ mine.state = "Established"
            /\ e.state = "Done" /\ e.alias = mine.alias,
         NEW new, new = [peer[s] EXCEPT !.serves = [peer[s].serves EXCEPT ![r] = e]],
         Tell(s, m, new)
  PROVE  Settled'
<1>1. PICK record, f, g : record = peer[s] /\ f = record.serves /\ g = [f EXCEPT ![r] = e]
  OBVIOUS
<1>2. PeerOK(record) /\ IsMap(f, RequestIds, Service) /\ r \in DOMAIN f
  BY <1>1 DEF Settled, NetworkTypes, PeerOK
<1>3. IsMap(g, RequestIds, Service)
  BY <1>1, <1>2, ReplaceType
<1>4. /\ PeerOK(new) /\ new.next = record.next /\ new.requests = record.requests
      /\ new.serves = g
  BY <1>1, <1>2, <1>3, SetServices
<1>5. /\ DOMAIN g = DOMAIN f /\ g[r] = e
      /\ \A q \in DOMAIN g : q # r => g[q] = f[q]
  BY <1>1, <1>2
<1>6. \A L \in Statuses : \A t, a :
        Served(L, t, a, mine, r, toRelay[s], toPeer[s]) =>
          Served(L, t, a, e, r, Append(toRelay[s], m), toPeer[s])
  <2>1. Grown(toRelay[s], <<m>>, Append(toRelay[s], m), r)
    BY TellFacts DEF HasTold
  <2> QED BY <2>1, ServedReplies
<1>7. /\ new.next = peer[s].next /\ new.requests = peer[s].requests
      /\ DOMAIN new.serves = DOMAIN peer[s].serves
      /\ \A q \in DOMAIN new.serves : q # m.id => new.serves[q] = peer[s].serves[q]
      /\ m.id \in DOMAIN new.serves
  BY <1>1, <1>4, <1>5
<1>8. \A L \in Statuses : \A t, a :
        Served(L, t, a, peer[s].serves[m.id], m.id, toRelay[s], toPeer[s]) =>
          Served(L, t, a, new.serves[m.id], m.id, Append(toRelay[s], m), toPeer[s])
  BY <1>4, <1>5, <1>6
<1> QED BY <1>4, <1>7, <1>8, PublisherTells

\* What a publisher serves.
LEMMA ServiceFacts ==
  ASSUME Settled, NEW s \in Sessions, NEW r \in DOMAIN peer[s].serves
  PROVE  /\ r \in RequestIds /\ peer[s].serves[r] \in Service
         /\ peer[s].serves \in [DOMAIN peer[s].serves -> Service]
         /\ AliasesFor(s, peer[s].serves[r].track) \subseteq InboundAliases
<1>1. PICK f : f = peer[s].serves
  OBVIOUS
<1>2. f \in [DOMAIN f -> Service] /\ DOMAIN f \subseteq RequestIds
  BY <1>1 DEF Settled, NetworkTypes, PeerOK, IsMap
<1>3. \A q \in DOMAIN f : f[q].alias \in InboundAliases \cup {NoAlias}
  BY <1>2 DEF Service
<1>4. AliasesFor(s, peer[s].serves[r].track) \subseteq InboundAliases
  BY <1>1, <1>3 DEF AliasesFor
<1> QED BY <1>1, <1>2, <1>4

\* Accept keeps the invariant: the request is one the relay waits for or has cancelled.
LEMMA AcceptSettled ==
  ASSUME Settled, NEW s \in Sessions, NEW r \in DOMAIN peer[s].serves, Accept(s, r)
  PROVE  Settled'
<1>1. PICK record, f, mine : record = peer[s] /\ f = record.serves /\ mine = f[r]
  OBVIOUS
<1>2. mine.state = "Pending" /\ r \in RequestIds /\ mine \in Service /\ f \in [DOMAIN f -> Service]
  BY <1>1, ServiceFacts DEF Accept, Serves
<1>3. PICK a \in AliasesFor(s, mine.track) :
        Tell(s, [kind |-> "SUBSCRIBE_OK", id |-> r, alias |-> a],
             [record EXCEPT !.serves[r] = [track |-> mine.track, state |-> "Established",
                                           alias |-> a]])
  BY <1>1 DEF Accept
<1>4. a \in InboundAliases
  BY <1>1, <1>3, ServiceFacts
<1>5. PICK m, e : /\ m = [kind |-> "SUBSCRIBE_OK", id |-> r, alias |-> a]
                  /\ e = [track |-> mine.track, state |-> "Established", alias |-> a]
  OBVIOUS
<1>6. /\ m \in ToRelayMessage /\ m.id = r /\ m.kind = "SUBSCRIBE_OK" /\ m.alias = a
      /\ m.kind \in Replies
  BY <1>2, <1>4, <1>5 DEF ToRelayMessage, Replies
<1>7. e \in Service /\ e.track = mine.track /\ e.state = "Established" /\ e.alias = a
  BY <1>2, <1>4, <1>5 DEF Service
<1>8. Tell(s, m, [record EXCEPT !.serves = [f EXCEPT ![r] = e]])
  BY <1>1, <1>3, <1>5
<1> QED BY <1>1, <1>2, <1>6, <1>7, <1>8, ReplySettled

\* Reject keeps the invariant.
LEMMA RejectSettled ==
  ASSUME Settled, NEW s \in Sessions, NEW r \in DOMAIN peer[s].serves, Reject(s, r)
  PROVE  Settled'
<1>1. PICK record, f, mine : record = peer[s] /\ f = record.serves /\ mine = f[r]
  OBVIOUS
<1>2. mine.state = "Pending" /\ r \in RequestIds /\ mine \in Service /\ f \in [DOMAIN f -> Service]
  BY <1>1, ServiceFacts DEF Reject, Serves
<1>3. PICK m, e : /\ m = [kind |-> "REQUEST_ERROR", id |-> r]
                  /\ e = [track |-> mine.track, state |-> "Ended", alias |-> mine.alias]
  OBVIOUS
<1>4. m \in ToRelayMessage /\ m.id = r /\ m.kind = "REQUEST_ERROR" /\ m.kind \in Replies
  BY <1>2, <1>3 DEF ToRelayMessage, Replies
<1>5. e \in Service /\ e.track = mine.track /\ e.state = "Ended" /\ e.alias = mine.alias
  BY <1>2, <1>3 DEF Service
<1>6. [f EXCEPT ![r].state = "Ended"] = [f EXCEPT ![r] = e]
  <2>1. [f[r] EXCEPT !.state = "Ended"] = e
    BY <1>1, <1>2, <1>3 DEF Service
  <2> QED BY <1>2, <2>1
<1>7. Tell(s, m, [record EXCEPT !.serves = [f EXCEPT ![r] = e]])
  BY <1>1, <1>3, <1>6 DEF Reject
<1> QED BY <1>1, <1>2, <1>4, <1>5, <1>7, ReplySettled

\* Done keeps the invariant.
LEMMA DoneSettled ==
  ASSUME Settled, NEW s \in Sessions, NEW r \in DOMAIN peer[s].serves, Done(s, r)
  PROVE  Settled'
<1>1. PICK record, f, mine : record = peer[s] /\ f = record.serves /\ mine = f[r]
  OBVIOUS
<1>2. /\ mine.state = "Established" /\ r \in RequestIds /\ mine \in Service
      /\ f \in [DOMAIN f -> Service]
  BY <1>1, ServiceFacts DEF Done, Serves
<1>3. PICK m, e : /\ m = [kind |-> "PUBLISH_DONE", id |-> r]
                  /\ e = [track |-> mine.track, state |-> "Done", alias |-> mine.alias]
  OBVIOUS
<1>4. m \in ToRelayMessage /\ m.id = r /\ m.kind = "PUBLISH_DONE" /\ m.kind \in Replies
  BY <1>2, <1>3 DEF ToRelayMessage, Replies
<1>5. e \in Service /\ e.track = mine.track /\ e.state = "Done" /\ e.alias = mine.alias
  BY <1>2, <1>3 DEF Service
<1>6. [f EXCEPT ![r].state = "Done"] = [f EXCEPT ![r] = e]
  <2>1. [f[r] EXCEPT !.state = "Done"] = e
    BY <1>1, <1>2, <1>3 DEF Service
  <2> QED BY <1>2, <2>1
<1>7. Tell(s, m, [record EXCEPT !.serves = [f EXCEPT ![r] = e]])
  BY <1>1, <1>3, <1>6 DEF Done
<1> QED BY <1>1, <1>2, <1>4, <1>5, <1>7, ReplySettled


---------------------------------------------------------------------------
(* Objects, and sessions that end.                                         *)

\* No control message moves.
LEMMA NothingMoves ==
  ASSUME Settled, UNCHANGED <<relayVars, toRelay, peer>>, DOMAIN toPeer' = Sessions,
         \A x \in Sessions : toPeer'[x] = toPeer[x]
  PROVE  Settled'
<1>1. ToldInv' /\ UpstreamIndexExact' /\ AllOpen'
  BY RelayRests DEF Settled
<1>2. NetworkTypes'
  BY DEF Settled, NetworkTypes, PeerOK
<1>3. \A x \in Sessions : ViewsOf(x)'
  BY SameViews DEF Settled, Bystander
<1> QED BY <1>1, <1>2, <1>3 DEF Settled

\* An object is handed on: only objects are sent.
LEMMA RelayReceivesObjectSettled ==
  ASSUME Settled, Calm', NEW o, RelayReceivesObject(o)
  PROVE  Settled'
<1>1. /\ OnSubscriptionObject(o.from, o.alias) /\ UNCHANGED <<toRelay, peer>> /\ CarryOut
      /\ lost' = {}
  BY DEF RelayReceivesObject, Calm
<1>2. UNCHANGED relayVars
  BY <1>1 DEF OnSubscriptionObject, Refuse
<1>3. \A e \in out' : e.kind \in {"CLOSE", "OBJECT"}
  BY <1>1, ObjectKinds DEF OnlyKinds
<1>4. PICK q :
        /\ \A x \in Sessions : q[x] \in Outgoing(out', x)
        /\ toPeer' = [x \in Sessions |-> IF x \in lost' THEN <<>> ELSE toPeer[x] \o q[x]]
  BY <1>1 DEF CarryOut
<1>5. ASSUME NEW x \in Sessions
      PROVE  toPeer[x] \o q[x] = toPeer[x]
  <2>1. {e \in out' : e.to = x /\ e.kind \notin {"OBJECT", "CLOSE"}} = {}
    BY <1>3
  <2>2. q[x] \in SetToSeqs({})
    BY <1>4, <2>1 DEF Outgoing
  <2>3. q[x] \in Seq({})
    BY <2>2, FS_EmptySet, InSomeOrder
  <2>4. q[x] = <<>>
    BY <2>3, EmptySeq, HeadTailProperties
  <2>5. toPeer[x] \in Seq(Range(toPeer[x]))
    BY DEF Settled, NetworkTypes, ToPeerOK
  <2> QED BY <2>4, <2>5, ConcatEmptySeq
<1>6. DOMAIN toPeer' = Sessions /\ \A x \in Sessions : toPeer'[x] = toPeer[x]
  BY <1>1, <1>4, <1>5
<1> QED BY <1>1, <1>2, <1>6, NothingMoves

---------------------------------------------------------------------------
(* The theorem.                                                            *)

\* Nothing is under way at first, and nobody knows of any request.
LEMMA NetworkInitSettled ==
  ASSUME NetworkInit
  PROVE  Settled
<1>1. PICK sess : sess = [NewSession("Server") EXCEPT !.setup = "SetupComplete"]
  OBVIOUS
<1>2. /\ sess \in Session /\ sess.role = "Server" /\ sess.peer_next_expected = 0
      /\ sess.local_next = 1 /\ sess.peer_max_exclusive = InitialPeerMax
      /\ sess.published_namespaces = {}
  <2>1. NewSession("Server") \in Session
    BY NewSessionType, NetworkAssumption
  <2>2. sess \in Session
    BY <1>1, <2>1 DEF Session
  <2> QED BY <1>1, <2>2 DEF NewSession, FirstPeerId, FirstLocalId
<1>3. /\ sessions = [s \in Sessions |-> sess]
      /\ publishers_by_namespace = EmptyMap /\ tracks = EmptyMap
      /\ upstream_request_index = EmptyMap /\ downstream_request_index = EmptyMap
  BY <1>1 DEF NetworkInit
<1>4. DOMAIN EmptyMap = {}
  BY DEF EmptyMap
<1>5. TypeOK
  <2>1. IsMap(sessions, Sessions, Session)
    BY <1>2, <1>3 DEF IsMap
  <2>2. RoutesOK(tracks)
    BY <1>3, <1>4, EmptyMapType DEF RoutesOK
  <2> QED BY <1>3, <2>1, <2>2, EmptyMapType DEF TypeOK
<1>6. SessionsInv
  BY <1>2, <1>3, <1>4, <1>5
     DEF SessionsInv, DownstreamInv, DownstreamIndexExact, DownstreamIdsSpent,
         NamespaceIndexExact, PartiesReady
<1>7. HandedOutInv
  BY <1>3, <1>4, <1>6
     DEF HandedOutInv, LegsInv, LiveLegsIndexed, LegIdsBelow, AliasesInv,
         OutboundAliasesDistinct, AliasesBelow
<1>8. RequestsOfPeers /\ LocalParity
  BY <1>2, <1>3, <1>4 DEF RequestsOfPeers, LocalParity, PeerParity
<1>9. UpstreamIndexExact /\ AllOpen
  BY <1>2, <1>3, <1>4 DEF UpstreamIndexExact, AllOpen
<1>10. ASSUME NEW s \in Sessions
       PROVE  /\ peer[s] = NewPeer /\ toRelay[s] = <<>> /\ toPeer[s] = <<>>
              /\ sessions[s] = sess
  BY <1>3 DEF NetworkInit
<1>11. PeerOK(NewPeer)
  BY EmptyMapType DEF PeerOK, NewPeer
<1>12. NetworkTypes
  <2>1. <<>> \in Seq(ToRelayMessage) /\ ToPeerOK(<<>>)
    <3>1. \A S : <<>> \in Seq(S) /\ DOMAIN <<>> = {}
      BY EmptySeq, LenProperties
    <3> QED BY <3>1 DEF ToPeerOK
  <2> QED BY <1>10, <1>11, <2>1 DEF NetworkTypes, NetworkInit
<1>13. \A K, L, r, f, v :
         /\ ~OnItsWay(<<>>, K, r) /\ Once(<<>>, K, r) /\ Carries(<<>>, K, r, f, v)
  <2>1. DOMAIN <<>> = {}
    BY EmptySeq, LenProperties
  <2> QED BY <2>1 DEF OnItsWay, Once, Carries
<1>14. ASSUME NEW s \in Sessions
       PROVE  ViewsOf(s)
  <2>1. NewPeer.next = 0 /\ DOMAIN NewPeer.requests = {} /\ DOMAIN NewPeer.serves = {}
    BY <1>4 DEF NewPeer
  <2>2. RequestsCounted(s)
    <3>1. DOMAIN toRelay[s] = {}
      BY <1>10, EmptySeq, LenProperties
    <3> QED BY <1>2, <1>10, <2>1, <3>1 DEF RequestsCounted
  <2>3. ASSUME NEW r \in RequestIds
        PROVE  SubscriberView(s, r) /\ PublisherView(s, r)
    <3>1. StatusOf(s, r) = "Unused"
      BY <1>2, <1>3, <1>4, LimitsAssumption DEF StatusOf
    <3>2. SubscriberView(s, r)
      BY <1>10, <1>13, <2>1, <3>1 DEF SubscriberView, NotSubscribed
    <3>3. LegState(s, r) \in {"Unused", "Ended"}
      BY <1>3, <1>4 DEF LegState
    <3>4. PublisherView(s, r)
      BY <1>10, <1>13, <2>1, <3>3 DEF PublisherView, Asked, NotServed, ActiveStates, Replies
    <3> QED BY <3>2, <3>4
  <2> QED BY <2>2, <2>3 DEF ViewsOf
<1> QED BY <1>6, <1>7, <1>8, <1>9, <1>12, <1>14 DEF Settled, ToldInv, PromiseInv

\* What the driver carries out only adds to the sessions that are about to end.
LEMMA CarryOutCalm ==
  ASSUME CarryOut, UNCHANGED lost, Calm'
  PROVE  Calm
<1>1. closing' = (closing \cup {e.to : e \in {x \in out' : x.kind = "CLOSE"}}) \ lost'
  BY DEF CarryOut
<1> QED BY <1>1 DEF Calm

\* Every step keeps the invariant: a peer's, the relay's, the driver's, and the end of a
\* session, after which nothing is claimed.
LEMMA NetworkNextInv ==
  ASSUME NetworkInv, [NetworkNext]_allVars
  PROVE  NetworkInv'
<1> SUFFICES ASSUME Calm'
             PROVE  Settled'
  BY DEF NetworkInv
<1>1. Calm => Settled
  BY DEF NetworkInv
<1>2. ASSUME UNCHANGED <<closing, lost>>
      PROVE  Settled
  BY <1>1, <1>2 DEF Calm
<1>3. CASE UNCHANGED allVars
  <2>1. UNCHANGED <<relayVars, toRelay, toPeer, peer, closing, lost>>
    BY <1>3 DEF allVars, vars, relayVars, networkVars
  <2>2. DOMAIN toPeer' = Sessions
    BY <1>2, <2>1 DEF Settled, NetworkTypes
  <2> QED BY <1>2, <2>1, <2>2, NothingMoves
<1>4. ASSUME NEW s \in Sessions, RelayReceives(s)
      PROVE  Settled'
  <2>1. Calm
    BY <1>4, CarryOutCalm DEF RelayReceives
  <2> QED BY <1>1, <1>4, <2>1, RelayReceivesSettled
<1>5. ASSUME NEW s \in Sessions, SessionEnds(s)
      PROVE  Settled'
  BY <1>5 DEF SessionEnds, Calm
<1>6. ASSUME NEW s \in Sessions, PeerReceives(s)
      PROVE  Settled'
  <2>1. UNCHANGED <<closing, lost>>
    BY <1>6 DEF PeerReceives
  <2> QED BY <1>2, <1>6, <2>1, PeerReceivesSettled
<1>7. ASSUME NEW s \in Sessions, NEW r \in DOMAIN peer[s].serves, Accept(s, r) \/ Reject(s, r)
      PROVE  Settled'
  <2>1. UNCHANGED <<closing, lost>>
    BY <1>7 DEF Accept, Reject, Tell
  <2> QED BY <1>2, <1>7, <2>1, AcceptSettled, RejectSettled
<1>8. ASSUME NEW s \in Sessions, Leave(s)
      PROVE  Settled'
  BY <1>8 DEF Leave, Calm
<1>9. ASSUME NEW o, RelayReceivesObject(o)
      PROVE  Settled'
  <2>1. Calm
    BY <1>9, CarryOutCalm DEF RelayReceivesObject
  <2> QED BY <1>1, <1>9, <2>1, RelayReceivesObjectSettled
<1>10. ASSUME NEW s \in Sessions, NEW ns \in Namespaces, Announce(s, ns)
       PROVE  Settled'
  <2>1. UNCHANGED <<closing, lost>>
    BY <1>10 DEF Announce, Tell
  <2> QED BY <1>2, <1>10, <2>1, AnnounceSettled
<1>11. ASSUME NEW s \in Sessions, NEW t \in Tracks, Subscribe(s, t)
       PROVE  Settled'
  <2>1. UNCHANGED <<closing, lost>>
    BY <1>11 DEF Subscribe, Tell
  <2> QED BY <1>2, <1>11, <2>1, SubscribeSettled
<1>12. ASSUME NEW s \in Sessions, NEW r \in DOMAIN peer[s].requests, Unsubscribe(s, r)
       PROVE  Settled'
  <2>1. UNCHANGED <<closing, lost>>
    BY <1>12 DEF Unsubscribe, Tell
  <2> QED BY <1>2, <1>12, <2>1, UnsubscribeSettled
<1>13. ASSUME NEW s \in Sessions, NEW r \in DOMAIN peer[s].serves, Done(s, r)
       PROVE  Settled'
  <2>1. UNCHANGED <<closing, lost>>
    BY <1>13 DEF Done, Tell
  <2> QED BY <1>2, <1>13, <2>1, DoneSettled
<1>14. ASSUME NEW s \in Sessions, NEW r \in DOMAIN peer[s].serves, Publish(s, r)
       PROVE  Settled'
  <2>1. UNCHANGED <<relayVars, toRelay, toPeer, peer, closing, lost>>
    BY <1>14 DEF Publish
  <2>2. DOMAIN toPeer' = Sessions
    BY <1>2, <2>1 DEF Settled, NetworkTypes
  <2> QED BY <1>2, <2>1, <2>2, NothingMoves
<1>15. CASE NetworkNext
  BY <1>4, <1>5, <1>6, <1>7, <1>8, <1>9, <1>10, <1>11, <1>12, <1>13, <1>14, <1>15
     DEF NetworkNext, Answers
<1> QED BY <1>3, <1>15

\* With nothing under way the views leave no difference between a subscription and the
\* relay's knowledge of it.
LEMMA SubscriptionsAgree ==
  ASSUME Settled, NEW s \in Sessions, toRelay[s] = <<>>, toPeer[s] = <<>>,
         NEW r \in RequestIds, NEW t \in Tracks, NEW state \in ActiveStates
  PROVE  SubscriberHolds(s, r, t, state) <=> RelayHolds(s, r, t, state)
<1>1. PICK d, S, u : d = <<s, r>> /\ S = StatusOf(s, r) /\ u = downstream_request_index[d]
  OBVIOUS
<1>2. PromiseInv /\ SubscriberView(s, r) /\ PeerOK(peer[s])
  BY DEF Settled, ToldInv, ViewsOf, NetworkTypes
<1>3. \A K, L : ~OnItsWay(<<>>, K, r) /\ ~Follows(<<>>, K, L, r)
  <2>1. DOMAIN <<>> = {}
    BY EmptySeq, LenProperties
  <2> QED BY <2>1 DEF OnItsWay, Follows
<1>4. S \in Statuses /\ (S \in ActiveStates <=> d \in DOMAIN downstream_request_index)
  BY <1>1, <1>2, StatusIs DEF StatusFacts
<1>5. ASSUME SubscriberHolds(s, r, t, state)
      PROVE  RelayHolds(s, r, t, state)
  <2>1. r \in DOMAIN peer[s].requests /\ peer[s].requests[r] = [track |-> t, state |-> state]
    BY <1>5 DEF SubscriberHolds
  <2>2. Subscribed(S, u, [track |-> t, state |-> state], r, <<>>, <<>>)
    BY <1>1, <1>2, <2>1 DEF SubscriberView
  <2>3. S = state /\ u = t
    BY <1>3, <1>4, <2>2 DEF Subscribed, Statuses, ActiveStates
  <2>4. d \in DOMAIN downstream_request_index
    BY <1>4, <2>3
  <2>5. t \in DOMAIN tracks /\ d \in Active(tracks[t])
    BY <1>1, <1>2, <2>3, <2>4, Indexed
  <2>6. tracks[t].downstream_subs[d].state = state
    BY <1>1, <1>2, <2>3, <2>5, StatusOfActive
  <2> QED BY <1>1, <2>5, <2>6 DEF RelayHolds, Active, DownstreamIn
<1>6. ASSUME RelayHolds(s, r, t, state)
      PROVE  SubscriberHolds(s, r, t, state)
  <2>1. t \in DOMAIN tracks /\ d \in Active(tracks[t]) /\ tracks[t].downstream_subs[d].state = state
    BY <1>1, <1>6 DEF RelayHolds, Active, DownstreamIn, ActiveStates
  <2>2. u = t /\ S = state
    BY <1>1, <1>2, <2>1, StatusOfActive
  <2>3. r \in DOMAIN peer[s].requests
    BY <1>1, <1>2, <2>2 DEF SubscriberView, NotSubscribed, ActiveStates
  <2>4. Subscribed(S, u, peer[s].requests[r], r, <<>>, <<>>)
    BY <1>1, <1>2, <2>3 DEF SubscriberView
  <2>5. peer[s].requests[r] \in Requested
    BY <1>2, <2>3 DEF PeerOK, IsMap
  <2>6. peer[s].requests[r].track = t /\ peer[s].requests[r].state = state
    BY <1>3, <2>2, <2>4, <2>5 DEF Subscribed, ActiveStates, Requested
  <2> QED BY <2>3, <2>5, <2>6 DEF SubscriberHolds, Requested
<1> QED BY <1>5, <1>6

\* Nor between a request that a publisher serves and the relay's leg.
LEMMA ServicesAgree ==
  ASSUME Settled, NEW s \in Sessions, toRelay[s] = <<>>, toPeer[s] = <<>>,
         NEW r \in RequestIds, NEW t \in Tracks, NEW state \in ActiveStates,
         NEW alias \in InboundAliases \cup {NoAlias}
  PROVE  PublisherServes(s, r, t, state, alias) <=> RelayAsked(s, r, t, state, alias)
<1>1. PICK k, L, u, leg, a : /\ k = <<s, r>> /\ L = LegState(s, r) /\ u = upstream_request_index[k]
                             /\ leg = AskedLeg(k) /\ a = leg.inbound_alias
  OBVIOUS
<1>2. ToldInv /\ UpstreamIndexExact /\ PublisherView(s, r) /\ PeerOK(peer[s])
  BY DEF Settled, ViewsOf, NetworkTypes
<1>3. \A K, M : ~OnItsWay(<<>>, K, r) /\ ~Follows(<<>>, K, M, r)
  <2>1. DOMAIN <<>> = {}
    BY EmptySeq, LenProperties
  <2> QED BY <2>1 DEF OnItsWay, Follows
<1>4. L \in Statuses /\ (L \in ActiveStates <=> k \in DOMAIN upstream_request_index)
  BY <1>1, <1>2, LegStateIs
<1>5. Asked(L, u, a, r, <<>>)
  BY <1>1, <1>2 DEF PublisherView
<1>6. ASSUME PublisherServes(s, r, t, state, alias)
      PROVE  RelayAsked(s, r, t, state, alias)
  <2>1. PICK mine : mine = [track |-> t, state |-> state, alias |-> alias]
    OBVIOUS
  <2>2. r \in DOMAIN peer[s].serves /\ peer[s].serves[r] = mine
    BY <1>6, <2>1 DEF PublisherServes
  <2>3. Served(L, u, a, mine, r, <<>>, <<>>)
    BY <1>1, <1>2, <2>2 DEF PublisherView
  <2>4. mine.track = t /\ mine.state = state /\ mine.alias = alias
    BY <2>1
  <2>5. L = state /\ u = t /\ a = alias
    BY <1>3, <1>4, <1>5, <2>3, <2>4 DEF Served, Asked, Statuses, ActiveStates
  <2>6. k \in DOMAIN upstream_request_index
    BY <1>4, <2>5
  <2>7. /\ t \in DOMAIN tracks /\ s \in DOMAIN tracks[t].upstream_subs
        /\ leg = tracks[t].upstream_subs[s] /\ leg.request_id = r /\ RouteOK(tracks[t])
    BY <1>1, <1>2, <2>5, <2>6, ExactFacts DEF UpstreamIndexExact, Exact, AskedLeg
  <2>8. leg.state = state
    BY <1>1, <2>5, <2>6 DEF LegState
  <2>9. leg = [request_id |-> r, state |-> state, inbound_alias |-> alias]
    BY <1>1, <2>5, <2>7, <2>8 DEF RouteOK, IsMap, UpstreamSubscriptionLeg
  <2> QED BY <2>7, <2>9 DEF RelayAsked
<1>7. ASSUME RelayAsked(s, r, t, state, alias)
      PROVE  PublisherServes(s, r, t, state, alias)
  <2>1. /\ t \in DOMAIN tracks /\ s \in DOMAIN tracks[t].upstream_subs
        /\ tracks[t].upstream_subs[s] =
             [request_id |-> r, state |-> state, inbound_alias |-> alias]
    BY <1>7 DEF RelayAsked
  <2>2. s \in LiveLegs(tracks[t]) /\ tracks[t].upstream_subs[s].request_id = r
    BY <2>1 DEF LiveLegs, IsLive, ActiveStates
  <2>3. k \in DOMAIN upstream_request_index /\ u = t
    BY <1>1, <1>2, <2>1, <2>2 DEF ToldInv, HandedOutInv, LegsInv, LiveLegsIndexed
  <2>4. L = state /\ a = alias
    BY <1>1, <2>1, <2>3 DEF LegState, AskedLeg
  <2>5. r \in DOMAIN peer[s].serves
    BY <1>1, <1>2, <1>3, <2>4 DEF PublisherView, NotServed
  <2>6. Served(L, u, a, peer[s].serves[r], r, <<>>, <<>>)
    BY <1>1, <1>2, <2>5 DEF PublisherView
  <2>7. peer[s].serves[r] \in Service
    BY <1>2, <2>5 DEF PeerOK, IsMap
  <2>8. /\ peer[s].serves[r].track = t /\ peer[s].serves[r].state = state
        /\ peer[s].serves[r].alias = alias
    BY <1>3, <1>5, <2>3, <2>4, <2>6, <2>7 DEF Served, Asked, ActiveStates, Service
  <2> QED BY <2>5, <2>7, <2>8 DEF PublisherServes, Service
<1> QED BY <1>6, <1>7

\* Whatever crossed on the way: once all messages have arrived the relay and its peers
\* agree on every subscription and every request upstream (ViewsAgree), for any number of
\* peers, tracks and messages, however the driver orders what a handler returns.
THEOREM NetworkAgrees == NetworkSpec => []ViewsAgree
<1>1. NetworkInit => NetworkInv
  BY NetworkInitSettled DEF NetworkInv
<1>2. NetworkInv /\ [NetworkNext]_allVars => NetworkInv'
  BY NetworkNextInv
<1>3. NetworkInv => ViewsAgree
  <2> SUFFICES ASSUME NetworkInv, Quiet
               PROVE  \A s \in Sessions, r \in RequestIds, t \in Tracks,
                         state \in {"Pending", "Established"} :
                        /\ SubscriberHolds(s, r, t, state) <=> RelayHolds(s, r, t, state)
                        /\ \A alias \in InboundAliases \cup {NoAlias} :
                             PublisherServes(s, r, t, state, alias)
                               <=> RelayAsked(s, r, t, state, alias)
    BY DEF ViewsAgree
  <2>1. Settled /\ \A s \in Sessions : toRelay[s] = <<>> /\ toPeer[s] = <<>>
    BY DEF NetworkInv, Quiet, Calm
  <2> QED BY <2>1, SubscriptionsAgree, ServicesAgree DEF ActiveStates
<1> QED BY <1>1, <1>2, <1>3, PTL DEF NetworkSpec

=============================================================================
