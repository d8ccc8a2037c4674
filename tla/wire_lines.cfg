SPECIFICATION WireSpec
CONSTANTS
  AddrBytes = 2
  LINE_MAX = 26
  app_start_addr = 16
  app_end_addr = 47
  FLASH_BASE = 0
  FLASH_END = 51
  Messages <- MCMessages
  Numbers <- MCNumbers
  NoiseChars <- MCNoiseChars
  MaxLines = 2
  MaxNoise = 1
INVARIANTS
  WireTypeOK
  AcceptedIsStored
  OneErrorIsCaught
  StaleBytesIgnored
  VersionReadsBack
  RequestReadsBack
PROPERTIES
  RegionOnly
CHECK_DEADLOCK FALSE
