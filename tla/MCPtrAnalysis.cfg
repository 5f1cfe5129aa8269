CONSTANTS
  Shapes <- MCShapes
  Starts = {1}
  Extents = {2}
  Arguments = {3}
  Constants <- MCConstants
  MaxOps = 9
  MaxValues = 2
SPECIFICATION Spec
INVARIANTS AddressesExact ScalarIsUniform AffineStructured AssertsHold
CONSTRAINT Followed
CHECK_DEADLOCK FALSE
