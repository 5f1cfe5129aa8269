CONSTANTS
  Bound <- MCBound
  Programs <- TilePrograms
  Kernels <- BarrierKernels
  MaxTrips = 3
SPECIFICATION Spec
INVARIANTS TilesExact StoresExact ReleasesExact
CHECK_DEADLOCK FALSE
