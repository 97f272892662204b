SPECIFICATION Spec
INVARIANTS   ThrowsOnlyInRace
CHECK_DEADLOCK FALSE
CONSTANTS
  MaxSize = 2
  Records = 5
  Sinks = 3
  Faults = 1
