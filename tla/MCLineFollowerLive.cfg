CONSTANTS
  HistoryLen = 2
  CheckN = 1
  Threshold = 1
  DerailCount = 1
  DerailTime = 1
  ObstacleDelay = 1
  Codes = {0, 3, 5}
  MotorOpens = TRUE
SPECIFICATION FairSpec
PROPERTIES ObstacleHoldsCar ShutdownStops
CHECK_DEADLOCK FALSE
