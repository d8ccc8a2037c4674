SPECIFICATION Spec
CONSTANTS
  LINE_MAX = 2
  LineLens = {1, 2, 4}
  MaxLines = 4
  ClearOrders <- MCSourceOrder
  Burst = 1
INVARIANTS
  OverlongAnswered
CHECK_DEADLOCK FALSE
