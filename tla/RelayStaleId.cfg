\* One publisher, one subscriber that disconnects, comes back and subscribes again.
CONSTANTS
  p1 = p1
  p2 = p2
  s1 = s1
  s2 = s2
  Publishers = {p1}
  Subscribers = {s1}
  Extra = {}
  Sessions <- MCSessions
  Sends <- MCSends
  Roles = {"Server"}
  Namespaces <- OneNamespace
  Tracks <- OneTrack
  RequestIds = {0, 1, 2, 3}
  InboundAliases = {7}
  InitialLocalMax = 3
  InitialPeerMax = 4
  PeerMaxValues = {}
SPECIFICATION Spec
VIEW relayVars
CHECK_DEADLOCK FALSE
PROPERTY
  LegsEndKnowingly
