SPECIFICATION Spec
CONSTANTS
  Mrid <- MCDisjointMrid
  ControlOf <- MCDisjointControlOf
  DefaultControl <- MCDefaultControl
  Garbled = {}
  MaxOpen = 2
  MaxLines = 5
INVARIANT
  ControlInForce
CHECK_DEADLOCK FALSE
