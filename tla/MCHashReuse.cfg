SPECIFICATION Spec
CONSTANTS
  Key = {k1, k2, k3, k4}
  Version = {1, 2}
  Null = Null
  Size = 4
  GroupSize = 3
  Hashes <- Colliding
  Limit = 4
  Reuse = TRUE
SYMMETRY KeySymmetry
PROPERTIES
  IsMap
CHECK_DEADLOCK FALSE
