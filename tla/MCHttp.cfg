SPECIFICATION FairSpec
CONSTANTS
  BufferSize = 6
  Shapes <- MCShapes
  Flights = 1
  MaxRequests = 2
  CloseAnywhere = TRUE
INVARIANTS
  TypeOK
  WrittenInOrder
  Matched
  OnceInOrder
PROPERTIES
  Answered
CHECK_DEADLOCK FALSE
