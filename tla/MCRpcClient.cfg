\* Four calls: one to be hit by a fault, one to meet what it left behind, one
\* that a cascade would reach, and one after it.  Two injected faults combine
\* (an interrupt and a crash, a crash while the server is starting, ...).
CONSTANTS
  MaxCalls = 4
  MaxFaults = 2
SPECIFICATION Spec
INVARIANTS ReplyMatches ReturnedInSync RaisesBounded
PROPERTIES Terminates CallSpec
CHECK_DEADLOCK FALSE
