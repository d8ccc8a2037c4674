SPECIFICATION Spec
CONSTANTS
  LINE_MAX = 2
  LineLens = {1, 2, 4}
  MaxLines = 4
  ClearOrders <- MCSourceOrder
  Burst = 1
INVARIANTS
  RxTypeOK
  ParseStable
  ParsedFromOneLine
  NeverParsesNothing
CHECK_DEADLOCK FALSE
