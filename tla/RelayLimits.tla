---------------------------- MODULE RelayLimits ----------------------------
(***************************************************************************)
(* The relay with a record of the limits its peers really announced, to    *)
(* compare them with the one it keeps for each peer (peer_max_exclusive).  *)
(* `announced' is a history variable: it follows what peers say, also in a *)
(* message the relay refuses or does not read, and decides nothing of what *)
(* the relay does.                                                         *)
(***************************************************************************)
EXTENDS Relay, FiniteSetsExt

VARIABLE announced   \* session -> the highest limit its peer announced, exclusive

limitsVars == <<vars, announced>>

\* A setup message without a MAX_REQUEST_ID announces 0 (draft-16.txt:2815).
LimitsInit == Init /\ announced = [s \in Sessions |-> 0]

Announces(s, max) == announced' = [announced EXCEPT ![s] = Max({@, max})]

\* Both setup messages and MAX_REQUEST_ID.  The relay does not look at the
\* parameters of a CLIENT_SETUP (relay.rs:331).
Announcement(s) ==
  \E max \in PeerMaxValues \cup {NoLimit} :
    /\ \/ HandleClientSetup(s)
       \/ HandleServerSetup(s, max)
       \/ max # NoLimit /\ HandleMaxRequestId(s, max)
    /\ Announces(s, max)

\* A message that announces nothing.
OtherMessage(s) ==
  \/ HandleRequestsBlocked(s) \/ HandleGoaway(s) \/ HandleOther(s)
  \/ PublisherMessage(s) \/ SubscriberMessage(s)
  \/ \E alias \in InboundAliases : OnSubscriptionObject(s, alias)

LimitsNext ==
  \E s \in Sessions :
    \/ /\ \E role \in Roles : OnSessionOpened(s, role)
       /\ announced' = [announced EXCEPT ![s] = 0]
    \/ Announcement(s)
    \/ /\ OnSessionClosed(s) \/ MessageFromUnknownSession(s) \/ OtherMessage(s)
       /\ UNCHANGED announced

LimitsSpec == LimitsInit /\ [][LimitsNext]_limitsVars

\* How far the relay goes beyond what a publisher announced: the id of a SUBSCRIBE is
\* at most the announced limit itself, which is one too high (relay.rs:399 adds one to
\* a limit that is exclusive already, draft-16.txt:2946), or it is one that the
\* relay's own configuration allows, because the limit in a CLIENT_SETUP never reaches
\* the record (relay.rs:331).  No order of setup, MAX_REQUEST_ID, closing and
\* reopening adds more.
LimitOverrunBounded ==
  \A e \in Sent("SUBSCRIBE") : e.id < Max({InitialPeerMax, announced[e.to] + 1})

=============================================================================
