\* Two publishers of one track and two subscribers; a peer may disconnect and
\* come back, so each of them makes any number of requests.
CONSTANTS
  p1 = p1
  p2 = p2
  s1 = s1
  s2 = s2
  Publishers = {p1, p2}
  Subscribers = {s1, s2}
  Extra = {}
  Sessions <- MCSessions
  Sends <- MCSends
  Roles = {"Server"}
  Namespaces <- OneNamespace
  Tracks <- OneTrack
  RequestIds = {0, 1, 3}
  InboundAliases = {7}
  InitialLocalMax = 1
  InitialPeerMax = 5
  PeerMaxValues = {}
SPECIFICATION LimitsSpec
VIEW limitsView
SYMMETRY MCSymmetry
CHECK_DEADLOCK FALSE
INVARIANTS
  TypeOK
  DownstreamIndexExact
  LiveLegsIndexed
  ClosedSessionsForgotten
PROPERTIES
  NoErrorWhileHope
  SubscribeOkBacked
  UnsubscribeEndsUnwanted
  KeepsPromise
  StrandedByDoneOnly
