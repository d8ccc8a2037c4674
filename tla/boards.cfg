SPECIFICATION FairSpec
CONSTANTS
  Boards <- ExampleBoards
  LineUnits = 2
INVARIANTS
  OnlyHangsAreReset
  AppGetsFullPeriod
  NoStrayInterrupt
PROPERTIES
  HangIsReset
CHECK_DEADLOCK FALSE
