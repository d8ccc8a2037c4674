SPECIFICATION HostSpec
CONSTANTS
  NPages = 2
  Addr <- HostAddr
  PageOf <- HostPageOf
  DoneAddr = 9
  VersionAddr = 8
  MajorOf <- HostMajorOf
  Rewrite = TRUE
  Transparent = {}
  HasLock = FALSE
  Image <- HostImage
  Versions <- HostVersions
  JunkReasons = {"len", "addr", "hex", "csum"}
  BodyLen = 4
  LINE_MAX = 8
  HasDecideHook = FALSE
  version_timeout_ticks = 5
  version_retries = 1
  line_timeout_ticks = 5
  line_retries = 1
  MaxReqs = 0
PROPERTIES
  PrintsAllOK
CHECK_DEADLOCK FALSE
