--------------------------- MODULE MCRelayLimits ---------------------------
(***************************************************************************)
(* Values of the constants of RelayLimits for TLC: those of MCRelay.       *)
(***************************************************************************)
EXTENDS MCRelay, RelayLimits

\* No action reads `out'.
limitsView == <<relayVars, announced>>

=============================================================================
