\* A subscriber disconnects while another one subscribes.
CONSTANTS
  p1 = p1
  s1 = s1
  s2 = s2
  Publishers = {p1}
  Subscribers = {s1, s2}
  Leaving = {s1}
  ReuseAliases = FALSE
  MaxObjects = 0
  Sessions <- MCSessions
  Sends <- MCSends
  Roles = {"Server"}
  Namespaces <- OneNamespace
  Tracks <- OneTrack
  RequestIds = {0, 1, 2, 3}
  InboundAliases = {7, 8}
  InitialLocalMax = 1
  InitialPeerMax = 4
  PeerMaxValues = {}
SPECIFICATION NetworkSpec
CHECK_DEADLOCK FALSE
PROPERTY AnsweredThoughOthersLeave
