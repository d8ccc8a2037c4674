SPECIFICATION FairSpec
CONSTANTS
  NPages = 2
  Addr <- MCAddr
  PageOf <- MCPageOf
  DoneAddr = 3
  VersionAddr = 2
  MajorOf <- MCMajorOf
  Rewrite = TRUE
  Transparent = {}
  HasLock = TRUE
  Image <- MCImage
  Versions <- MCOneVersion
  JunkReasons = {"csum"}
  BodyLen = 2
  LINE_MAX = 2
  HasDecideHook = FALSE
  version_timeout_ticks = 1
  version_retries = 1
  line_timeout_ticks = 1
  line_retries = 1
  MaxReqs = 1
  Eol <- MCEol
  HasHeader = FALSE
  InitFlash <- MCInstalled
  MaxNoise = 0
  MaxFaults = 1
  MaxResets = 1
INVARIANTS
  NothingOldSurvives
  RefusedOnlyIfWritten
PROPERTIES
  ReadyLineFrozen
  SessionEnds
CHECK_DEADLOCK FALSE
