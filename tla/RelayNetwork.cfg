\* A publisher and two subscribers of one track, one of which may disconnect; objects
\* overtake control messages.
CONSTANTS
  p1 = p1
  s1 = s1
  s2 = s2
  Publishers = {p1}
  Subscribers = {s1, s2}
  Leaving = {s2}
  ReuseAliases = FALSE
  MaxObjects = 1
  Sessions <- MCSessions
  Sends <- MCSends
  Roles = {"Server"}
  Namespaces <- OneNamespace
  Tracks <- OneTrack
  RequestIds = {0, 1, 2, 3}
  InboundAliases = {7, 8}
  InitialLocalMax = 1
  InitialPeerMax = 4
  PeerMaxValues = {}
SPECIFICATION NetworkSpec
CHECK_DEADLOCK FALSE
INVARIANT ViewsAgree
PROPERTIES
  Answered
  Released
