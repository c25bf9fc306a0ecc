------------------------------ MODULE MCRelay ------------------------------
(***************************************************************************)
(* Values of the constants of Relay for TLC.  Peers are model values; a     *)
(* cfg chooses which peers exist and the definitions below say what each    *)
(* of them may send.                                                        *)
(***************************************************************************)
EXTENDS RelayRefinement, TLC

CONSTANTS Publishers, Subscribers,
          Extra   \* message kinds every peer sends besides those of its part

PublisherKinds ==
  {"CLIENT_SETUP", "PUBLISH_NAMESPACE", "SUBSCRIBE_OK", "REQUEST_ERROR", "PUBLISH_DONE"}
SubscriberKinds == {"CLIENT_SETUP", "SUBSCRIBE", "UNSUBSCRIBE"}

MCSessions == Publishers \cup Subscribers
MCSends == [s \in MCSessions |->
              Extra \cup (IF s \in Publishers THEN PublisherKinds ELSE {})
                    \cup (IF s \in Subscribers THEN SubscriberKinds ELSE {})]
MCSymmetry == Permutations(Publishers) \cup Permutations(Subscribers)

Root == <<"live">>
Cam == [namespace |-> <<"live", "cam">>, name |-> "video"]
Index == [namespace |-> <<"live">>, name |-> "index"]
OneTrack == {Cam}
TwoTracks == {Cam, Index}
OneNamespace == {Root}
TwoNamespaces == {Root, <<"live", "cam">>}

=============================================================================
