--------------------------- MODULE MCWtConnection ---------------------------
(***************************************************************************)
(* Values of the constants of WtConnection for TLC.  Stream ids are those  *)
(* of QUIC: 0 and 4 are a client's, 1 and 5 a server's bidirectional       *)
(* streams, 2 and 6 a client's, 3 and 7 a server's unidirectional ones.    *)
(***************************************************************************)
EXTENDS WtConnection, TLC

SettingsOf(max_sessions, limit) ==
  [max_sessions |-> max_sessions, limits |-> [k \in Kinds |-> limit]]

\* Two sessions need flow control or an application that closes the first one.
NoFlowControl == {SettingsOf(Absent, Absent)}
FlowControl == {SettingsOf(2, 1)}
Remembered == {SettingsOf(2, 1), SettingsOf(3, 1)}
LocalLimits == [k \in Kinds |-> 1]
NoLocalLimits == NoLimits

\* The state without the events of the last step, which no action reads.
StateView == connVars

=============================================================================
