\* A client whose close_session crosses the server's response.
CONSTANTS
  Roles = {FALSE}
  Streams = {3}
  AppStreams = {}
  ConnectIds = {0}
  HeaderSessionIds = {0}
  SettingsFrames <- NoFlowControl
  PreviousSettings = {}
  ConfigLimits <- NoLocalLimits
  CapsuleLimits = {}
  Capsules = {}
  Orderly = TRUE
  MaxFrames = 2
  MaxDeferred = 1
  MaxUsed = 0
SPECIFICATION Spec
VIEW StateView
CHECK_DEADLOCK FALSE
PROPERTY ClosedIsFinal
