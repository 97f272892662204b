SPECIFICATION Spec
INVARIANT SlavesFollow
PROPERTY EndsUnlessHeld
CHECK_DEADLOCK FALSE
CONSTANTS
  Worker = {w1}
  Main = main
  None = none
  Debug = TRUE
  Frames = 0
  Loads = 1
  Faults = 2
