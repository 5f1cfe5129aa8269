CONSTANTS
  Inputs <- MCInputs
  MaxOps = 2
SPECIFICATION Spec
INVARIANTS TensorsExact ReducesExact ScansExact Stops
CHECK_DEADLOCK FALSE
