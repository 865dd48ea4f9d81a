CONSTANTS
  Receiver = {}
  QueueSize = 2
  MaxSend = 2
  MaxRead = 1
  MaxStart = 1
SPECIFICATION FairSpec
PROPERTY StopReturns
CHECK_DEADLOCK FALSE
