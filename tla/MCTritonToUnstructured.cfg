CONSTANTS
  Arguments <- TwoArguments
  ElementSizes = {1, 2}
  DefaultBitWidth = 4
  OffsetWidths = {4, 6}
  Offset = 2
  Stride = 2
  Trip = 2
  MaxOps = 5
  MaxUsers = 1
SPECIFICATION Spec
INVARIANTS AddressesExact HandledOnce Eliminated FailureKeepsKernel
CONSTRAINT Various
CHECK_DEADLOCK FALSE
