SPECIFICATION Spec
CONSTANTS
  Null = Null
  Ports <- TwoPorts
  Slow <- OneSlow
  MaxEvents = 2
  FailAtOnce = TRUE
  MaxConnects = 1
  MaxData = 1
  MaxTimeouts = 2
INVARIANT TimeoutHasPort
CHECK_DEADLOCK FALSE
