CONSTANTS
  Opened = {TRUE, FALSE}
  Codes = {5, 7}
  Orders <- MCOrders
  MaxRoutes = 2
  MaxNear = 1
SPECIFICATION FairSpec
INVARIANTS TypeOK NoStepSkipped SensorsOutlived ClientOutlivesUsers StandsAfterShutdown
PROPERTY ShutdownEnds
CHECK_DEADLOCK FALSE
