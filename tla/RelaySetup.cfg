\* One endpoint that publishes and subscribes to its own tracks, in a session of either
\* role, with every kind of message.
CONSTANTS
  p1 = p1
  p2 = p2
  s1 = s1
  s2 = s2
  Publishers = {p1}
  Subscribers = {p1}
  Extra = {"SERVER_SETUP", "MAX_REQUEST_ID", "GOAWAY", "REQUESTS_BLOCKED", "OTHER", "OBJECT"}
  Sessions <- MCSessions
  Sends <- MCSends
  Roles = {"Server", "Client"}
  Namespaces <- TwoNamespaces
  Tracks <- TwoTracks
  RequestIds = {0, 1, 2, 3, 4, 5, 6}
  InboundAliases = {7, 8}
  InitialLocalMax = 7
  InitialPeerMax = 2
  PeerMaxValues = {1, 4}
SPECIFICATION LimitsSpec
VIEW limitsView
CHECK_DEADLOCK FALSE
INVARIANTS
  RoutingAfterSetup
  NamespaceIndexExact
  OutboundAliasesDistinct
  LiveLegsWanted
  LimitOverrunBounded
PROPERTIES
  RequestIdsFresh
  KeepsPromise
