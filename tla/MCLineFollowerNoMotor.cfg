CONSTANTS
  HistoryLen = 2
  CheckN = 2
  Threshold = 2
  DerailCount = 2
  DerailTime = 1
  ObstacleDelay = 1
  Codes = {2, 5}
  MotorOpens = FALSE
SPECIFICATION Spec
INVARIANT MutexReleased
CHECK_DEADLOCK FALSE
