SPECIFICATION PromptSpec
CONSTANTS
  NPages = 2
  Addr <- MCAddr
  PageOf <- MCPageOf
  DoneAddr = 3
  VersionAddr = 2
  MajorOf <- MCMajorOf
  Rewrite = TRUE
  Transparent = {}
  HasLock = FALSE
  Image <- MCImage
  Versions <- MCVersions
  JunkReasons = {"addr"}
  BodyLen = 2
  LINE_MAX = 2
  HasDecideHook = FALSE
  version_timeout_ticks = 1
  version_retries = 1
  line_timeout_ticks = 1
  line_retries = 1
  MaxReqs = 2
  Eol <- MCEol
  HasHeader = TRUE
  InitFlash <- MCInstalled
  MaxNoise = 0
  MaxFaults = 0
  MaxResets = 0
INVARIANTS
  QuietSessionEndsWell
CHECK_DEADLOCK FALSE
