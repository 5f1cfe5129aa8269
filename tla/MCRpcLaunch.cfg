\* Three buffers for launches that use up to two: a launch after an abort that
\* leaked two runs out of them.  One restart, two injected failures.
CONSTANTS
  first = first
  second = second
  again = again
  s1 = s1
  s2 = s2
  Launchers <- MCLaunchers
  Name <- MCName
  Binary <- MCBinary
  Storages <- MCStorages
  Cells = {0, 1}
  Addrs <- MCAddrs
  ArgLists <- MCArgLists
  MaxLaunches = 2
  MaxFaults = 2
  MaxRestarts = 1
SPECIFICATION Spec
INVARIANTS LaunchCorrect OldOrNew LateHarmless LeaksOnlyByAborts
SYMMETRY MCSymmetry
CHECK_DEADLOCK FALSE
