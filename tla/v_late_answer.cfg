SPECIFICATION SettledSpec
CONSTANTS
  NPages = 2
  Addr <- MCAddr
  PageOf <- MCPageOf
  DoneAddr = 3
  VersionAddr = 2
  MajorOf <- MCMajorOf
  Rewrite = FALSE
  Transparent = {0, 1}
  HasLock = TRUE
  Image <- MCImage
  Versions <- MCOneVersion
  JunkReasons = {"csum"}
  BodyLen = 2
  LINE_MAX = 2
  HasDecideHook = FALSE
  version_timeout_ticks = 1
  version_retries = 1
  line_timeout_ticks = 1
  line_retries = 1
  MaxReqs = 2
  Eol <- MCEol
  HasHeader = FALSE
  InitFlash <- MCInstalled
  MaxNoise = 0
  MaxFaults = 0
  MaxResets = 0
INVARIANTS
  DoneMeansWhole
CHECK_DEADLOCK FALSE
