\* Six readings of the cycle counter: two scopes nested in one thread with a
\* third in the other, or a scope cut by the reset and two after it.
CONSTANTS
  Threads = {t1, t2}
  Names = {load, store}
  MaxDepth = 2
  MaxCycle = 6
  MaxResets = 1
SPECIFICATION Spec
SYMMETRY Symmetry
INVARIANTS IndexValid ProfileExact
PROPERTY DumpAddsUp
CHECK_DEADLOCK FALSE
