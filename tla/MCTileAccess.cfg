CONSTANTS
  Size = 8
  Pointers <- MCPointers
  Masks <- MCMasks
  Declarations <- MCDeclarations
  Increments <- MCIncrements
  MaxAccesses = 2
  MaxMoves = 1
SPECIFICATION Spec
INVARIANTS TensorExact MemoryExact NothingElseTouched
CONSTRAINT Followed
CHECK_DEADLOCK FALSE
