---------------------------- MODULE Subscription ----------------------------
(***************************************************************************)
(* What the relay promises about one subscription request, seen by the     *)
(* subscriber: it is answered at most once with SUBSCRIBE_OK, ends at most *)
(* once with REQUEST_ERROR (only before it was accepted) or PUBLISH_DONE   *)
(* (only after), and is not heard of again once it was cancelled.          *)
(***************************************************************************)
VARIABLES
  status,   \* "Unused", "Pending", "Established" or "Ended"
  told      \* the replies to this request in the last step

Init == status = "Unused" /\ told = {}

\* The request waits, is accepted at once, or fails at once; or its id is spent
\* on something other than a subscription.
Request ==
  /\ status = "Unused"
  /\ \/ status' = "Pending" /\ told' = {}
     \/ status' = "Established" /\ told' = {"SUBSCRIBE_OK"}
     \/ status' = "Ended" /\ told' \in {{"REQUEST_ERROR"}, {}}

Accept ==
  /\ status = "Pending" /\ status' = "Established"
  /\ told' = {"SUBSCRIBE_OK"}

Fail ==
  /\ status = "Pending" /\ status' = "Ended"
  /\ told' = {"REQUEST_ERROR"}

Finish ==
  /\ status = "Established" /\ status' = "Ended"
  /\ told' = {"PUBLISH_DONE"}

Cancel ==
  /\ status \in {"Pending", "Established"} /\ status' = "Ended"
  /\ told' = {}

\* The session is gone and its key starts afresh.
Disconnect == status' = "Unused" /\ told' = {}

\* Something happened to other requests.
Elsewhere == status' = status /\ told' = {}

Next == Elsewhere \/ Request \/ Accept \/ Fail \/ Finish \/ Cancel \/ Disconnect

Spec == Init /\ [][Next]_<<status, told>>

=============================================================================
