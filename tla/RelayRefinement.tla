-------------------------- MODULE RelayRefinement --------------------------
(***************************************************************************)
(* The relay implements Subscription for every request of every session:   *)
(* the state of a request is read off the route it belongs to.             *)
(***************************************************************************)
EXTENDS Relay

\* A request that was used and is in no index any more has ended.
StatusOf(s, r) ==
  IF s \notin DOMAIN sessions THEN "Unused"
  ELSE IF <<s, r>> \in DOMAIN downstream_request_index
  THEN tracks[downstream_request_index[<<s, r>>]].downstream_subs[<<s, r>>].state
  ELSE IF r % 2 = PeerParity(sessions[s].role) /\ r < sessions[s].peer_next_expected
  THEN "Ended"
  ELSE "Unused"

ToldTo(s, r) ==
  {kind \in {"SUBSCRIBE_OK", "REQUEST_ERROR", "PUBLISH_DONE"} :
     \E e \in out : e.kind = kind /\ e.to = s /\ e.id = r}

Promise(s, r) == INSTANCE Subscription WITH
  status <- StatusOf(s, r),
  told <- ToldTo(s, r)

\* Every behaviour of the relay, with peers that send anything, is one the
\* subscribers may rely on: each request is accepted at most once and ended at
\* most once, with the reply that fits its state, across all handlers of
\* relay.rs that touch a downstream subscription.  It is Promise(s, r)!Spec for
\* every request at once; a step of the relay that does not touch a request is
\* the step Elsewhere of its Subscription.
KeepsPromise ==
  /\ \A s \in Sessions, r \in RequestIds : Promise(s, r)!Init
  /\ [][\A s \in Sessions, r \in RequestIds : Promise(s, r)!Next]_vars

=============================================================================
