CONSTANTS
  HistoryLen = 2
  CheckN = 2
  Threshold = 2
  DerailCount = 2
  DerailTime = 1
  ObstacleDelay = 1
  Codes = {0, 3}
  MotorOpens = TRUE
SPECIFICATION FairSpec
PROPERTY LostLineStops
CHECK_DEADLOCK FALSE
