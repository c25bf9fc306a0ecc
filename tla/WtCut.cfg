\* A server; the first chunk of a stream may end inside the signal.
CONSTANTS
  Roles = {TRUE}
  Streams = {0, 2, 4}
  AppStreams = {}
  ConnectIds = {0}
  HeaderSessionIds = {0}
  SettingsFrames <- NoFlowControl
  PreviousSettings = {}
  ConfigLimits <- NoLocalLimits
  CapsuleLimits = {}
  Capsules = {}
  Orderly = TRUE
  MaxFrames = 2
  MaxDeferred = 1
  MaxUsed = 0
SPECIFICATION Spec
VIEW StateView
CHECK_DEADLOCK FALSE
INVARIANT BidiStreamsOwned
