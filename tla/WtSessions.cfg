\* Two requests, data streams of both kinds and a peer that sends any frame at any
\* moment, without flow control.
CONSTANTS
  Roles = {TRUE, FALSE}
  Streams = {0, 1, 2, 3, 4}
  AppStreams = {}
  ConnectIds = {0}
  HeaderSessionIds = {0, 3}
  SettingsFrames <- NoFlowControl
  PreviousSettings = {}
  ConfigLimits <- NoLocalLimits
  CapsuleLimits = {}
  Capsules = {"Close", "Drain", "Bad", "Truncated"}
  Orderly = FALSE
  MaxFrames = 2
  MaxDeferred = 1
  MaxUsed = 0
SPECIFICATION Spec
VIEW StateView
CHECK_DEADLOCK FALSE
INVARIANTS
  TypeOK
  OneOwner
  SessionsAfterSettings
PROPERTIES
  CloseReported
