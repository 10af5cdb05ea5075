SPECIFICATION PageSpec
CONSTANTS
  MaxChanges = 2
  BuildIds = {b1, b2}
  Polled = FALSE
  Breaks = 0
  Forced = FALSE
CHECK_DEADLOCK FALSE
PROPERTY PageCatchesUp
