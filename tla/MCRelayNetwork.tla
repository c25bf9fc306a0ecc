--------------------------- MODULE MCRelayNetwork ---------------------------
(***************************************************************************)
(* Values of the constants of RelayNetwork for TLC.                        *)
(***************************************************************************)
EXTENDS RelayNetwork

MCSessions == Publishers \cup Subscribers
MCSends == [s \in MCSessions |-> MessageKinds]

Root == <<"live">>
Cam == [namespace |-> <<"live", "cam">>, name |-> "video"]
OneTrack == {Cam}
OneNamespace == {Root}

=============================================================================
