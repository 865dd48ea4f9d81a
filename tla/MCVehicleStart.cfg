CONSTANTS
  Opened = {FALSE}
  Codes = {2, 5, 7}
  Orders <- MCOrders
  MaxRoutes = 2
  MaxNear = 2
SPECIFICATION Spec
INVARIANT SomebodyDrives
CHECK_DEADLOCK FALSE
