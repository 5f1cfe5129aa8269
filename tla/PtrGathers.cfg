CONSTANTS
  Shapes <- Rows
  Starts = {0}
  Extents = {2}
  Arguments = {0, 3}
  Constants = {2}
  MaxOps = 8
  MaxValues = 2
SPECIFICATION Spec
INVARIANT GathersExact
CONSTRAINT Analysed
CHECK_DEADLOCK FALSE
