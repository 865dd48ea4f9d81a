CONSTANTS
  Pusher = {"p1", "p2"}
  Popper = {"c1", "c2"}
  Text <- MCText
  Fit <- MCFit
  Size = 2
  NoThread = "nobody"
SPECIFICATION FairSpec
INVARIANTS TypeOK RingConsistent NoLostWakeup
PROPERTIES ImplementsFifo PopProgress
