\* Data streams that are reset at any moment.
CONSTANTS
  Base = 8
  MAX_TRACK_NAMESPACE_FIELDS = 2
  MAX_FULL_TRACK_NAME_BYTES = 3
  MAX_REASON_PHRASE_BYTES = 2
  MAX_GOAWAY_URI_BYTES = 2
  MAX_CLOSE_MESSAGE_LEN = 2
  MAX_CONTINUATIONS = 4
  OverflowChecks = TRUE
  MAX_PAIRS_CAPACITY = 100
  WT_APP_ERROR_FIRST = 65
  U32_MAX = 130
  Utf8 <- MCUtf8
  HeaderUtf8 <- MCHeaderUtf8
  SIGNAL <- MCSignal
  FRAME_TYPE <- MCFrameType
  CAPSULE_TYPE <- MCCapsuleType
  SETTING_ID <- MCSettingId
  STATIC_TABLE <- MCStaticTable
  HUFFMAN_ENCODE <- MCHuffman
  Channels = {"Uni", "Bidi"}
  Messages <- MCMessages
  Later <- MCLater
  ForeignBlocks <- MCForeignBlocks
  Headers <- MCHeaders
  Opening <- MCOpening
  LaterCapsules <- MCLaterCapsules
  Capsules <- MCCapsules
  Configs <- MCConfigs
  StreamIds = {0, 4, 17, 1024}
  AppData <- MCAppData
  AppErrors = {0, 29, 30, 31, 59, 60, 130}
  RawMessages <- MCRawMessages
  RawCapsules <- MCRawCapsules
  RawFrames <- MCRawFrames
  ParamValues <- MCParamValues
  Chunks = {1, 4}
  MaxItems = 2
  MaxSets = 3
SPECIFICATION Spec
CHECK_DEADLOCK FALSE
INVARIANT HeaderSurvivesReset
