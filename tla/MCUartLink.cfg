CONSTANTS
  Receiver = {"r1"}
  QueueSize = 2
  MaxSend = 3
  MaxRead = 3
  MaxStart = 2
SPECIFICATION TxFairSpec
INVARIANTS TypeOK TxAccounting NoUseAfterClose CallbackInOrder ReceiveDoesNotBlock
PROPERTY TxEndsOnMessage
CHECK_DEADLOCK FALSE
