SPECIFICATION Spec
CONSTANTS
  Null = Null
  Ports <- TwoPorts
  Slow <- TwoPorts
  MaxEvents = 2
  FailAtOnce = TRUE
  MaxConnects = 1
  MaxData = 2
  MaxTimeouts = 8
INVARIANT WaitListed
CHECK_DEADLOCK FALSE
