CONSTANTS
  Grid <- MCGrid
  Prefixes <- MCPrefixes
  NameMax = 2
  MaxOps = 3
SPECIFICATION Spec
INVARIANTS NumProgramsExact PrintedExact FunctionsExact Compiles
CHECK_DEADLOCK FALSE
