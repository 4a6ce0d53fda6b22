SPECIFICATION Spec
CONSTANTS
  Null = Null
  Ports <- TwoPorts
  Slow <- TwoPorts
  MaxEvents = 2
  FailAtOnce = TRUE
  MaxConnects = 1
  MaxData = 1
  MaxTimeouts = 2
INVARIANT TimeoutWaits
CHECK_DEADLOCK FALSE
