SPECIFICATION SettledSpec
CONSTANTS
  NPages = 2
  Addr <- MCAddr
  PageOf <- MCPageOf
  DoneAddr = 3
  VersionAddr = 2
  MajorOf <- MCMajorOf
  Rewrite = FALSE
  Transparent = {0}
  HasLock = TRUE
  Image <- MCImage
  Versions <- MCVersions
  JunkReasons = {"csum"}
  BodyLen = 2
  LINE_MAX = 2
  HasDecideHook = FALSE
  version_timeout_ticks = 1
  version_retries = 1
  line_timeout_ticks = 1
  line_retries = 1
  MaxReqs = 2
  Eol <- MCEol
  HasHeader = FALSE
  InitFlash <- MCOldFlash
  MaxNoise = 1
  MaxFaults = 1
  MaxResets = 1
INVARIANTS
  TypeOK
  NothingOldSurvives
  RefusedOnlyIfWritten
  AckedLinesInFlash
  DoneMeansWhole
  BootsOneImage
PROPERTIES
  ReadyLineFrozen
  TransferInOrder
CHECK_DEADLOCK FALSE
