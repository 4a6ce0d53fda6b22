SPECIFICATION FairSpec
CONSTANTS
  Mrid <- MCMrid
  ControlOf <- MCControlOf
  DefaultControl <- MCDefaultControl
  Garbled = {"e3"}
  MaxOpen = 1
  MaxLines = 5
INVARIANTS
  TypeOK
  SetpointsAccounted
  ControlInForce
  ReleasedWhenIdle
  ChildStopped
PROPERTIES
  EndReleases
  ExitFollows
CHECK_DEADLOCK FALSE
