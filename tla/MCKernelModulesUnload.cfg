CONSTANTS
  Busy = {"motorv1"}
  Told = {}
SPECIFICATION Spec
INVARIANT ExitSafe
CHECK_DEADLOCK FALSE
