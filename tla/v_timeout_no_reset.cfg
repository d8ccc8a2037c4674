SPECIFICATION FairSpec
CONSTANTS
  Boards <- ExampleBoards
  LineUnits = 2
PROPERTIES
  TimeoutIsReset
CHECK_DEADLOCK FALSE
