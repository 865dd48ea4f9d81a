CONSTANTS
  HistoryLen = 3
  CheckN = 2
  Threshold = 2
  DerailCount = 3
  DerailTime = 1
  ObstacleDelay = 1
  Codes = {0, 2, 3, 5, 6}
  MotorOpens = TRUE
SPECIFICATION Spec
INVARIANTS TypeOK MutexReleased DerailEvidence DerailCountBounded
CHECK_DEADLOCK FALSE
