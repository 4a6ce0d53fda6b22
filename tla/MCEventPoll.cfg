SPECIFICATION FairSpec
CONSTANTS
  Null = Null
  Ports <- TwoPorts
  Slow <- TwoPorts
  MaxEvents = 2
  FailAtOnce = TRUE
  MaxConnects = 1
  MaxData = 2
  MaxTimeouts = 2
INVARIANTS
  TypeOK
  Watched
  WaitListed
PROPERTY Served
CHECK_DEADLOCK FALSE
