SPECIFICATION PromptSpec
CONSTANTS
  NPages = 2
  Addr <- MCAddr
  PageOf <- MCPageOf
  DoneAddr = 3
  VersionAddr = 2
  MajorOf <- MCMajorOf
  Rewrite = TRUE
  Transparent = {}
  HasLock = FALSE
  Image <- MCImage
  Versions <- MCVersions
  JunkReasons = {"csum"}
  BodyLen = 2
  LINE_MAX = 2
  HasDecideHook = TRUE
  version_timeout_ticks = 1
  version_retries = 1
  line_timeout_ticks = 1
  line_retries = 1
  MaxReqs = 2
  Eol <- MCCrLf
  HasHeader = FALSE
  InitFlash <- MCAnyFlash
  MaxNoise = 2
  MaxFaults = 1
  MaxResets = 1
INVARIANTS
  AckedLinesInFlash
  DoneMeansWhole
  QuietSessionEndsWell
  BootsOneImage
PROPERTIES
  TransferInOrder
CHECK_DEADLOCK FALSE
