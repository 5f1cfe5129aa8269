CONSTANTS
  Shapes <- MCShapes
  Starts = {0, 1}
  Extents = {2}
  Scalars <- MCScalars
  Steps = {0, 2}
  Bound = 3
SPECIFICATION Spec
INVARIANTS BoxExact PlainDecoded AssertsHold
CONSTRAINT Followed
CHECK_DEADLOCK FALSE
