\* Four compiles in one process: enough for a compile that raises, the one
\* that takes what it left, and one after that.
CONSTANTS
  plain = plain
  mixed = mixed
  broken = broken
  computed = computed
  short = short
  twice = twice
  looping = looping
  ticking = ticking
  sum = sum
  copy = copy
  tick = tick
  Kernels <- MCKernels
  IsPtr <- MCIsPtr
  LoopIsPtr <- MCLoopIsPtr
  Body <- MCBody
  Siblings <- MCSiblings
  Params <- MCParams
  MaxCompiles = 4
SPECIFICATION Spec
INVARIANTS CompiledAsWritten PoisonedOncePerRaise
CHECK_DEADLOCK FALSE
