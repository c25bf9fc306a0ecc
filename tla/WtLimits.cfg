\* One session with flow control in both roles and a peer that follows RFC 9114,
\* limits raised and lowered by capsules, settings remembered for 0-RTT.
CONSTANTS
  Roles = {TRUE, FALSE}
  Streams = {0, 1, 2, 3}
  AppStreams = {14, 15}
  ConnectIds = {0}
  HeaderSessionIds = {0}
  SettingsFrames <- FlowControl
  PreviousSettings <- Remembered
  ConfigLimits <- LocalLimits
  CapsuleLimits = {0, 2}
  Capsules = {"Close", "Max"}
  Orderly = TRUE
  MaxFrames = 2
  MaxDeferred = 1
  MaxUsed = 2
SPECIFICATION Spec
VIEW StateView
CHECK_DEADLOCK FALSE
INVARIANTS
  DeferredReleased
  StreamsBelong
  CreditRespected
PROPERTIES
  LimitsGrow
