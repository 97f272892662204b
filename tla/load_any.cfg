SPECIFICATION Spec
INVARIANTS StaticsInRange LogBeforeFile Determined
PROPERTY ImplementsLoading
CHECK_DEADLOCK FALSE
CONSTANTS
  File <- AnyFile
  None = none
  Junk = junk
  NoFile = nofile
  NoLimit = nolimit
  Level = {"trace", "info", "warn", "error"}
  Quiet = {"error"}
  BadLevel = "loud"
  Info = "info"
  Cores = 2
  IntMod = 16
  LongMod = 256
  Unit <- MCUnit
  PortMax = 3
  Port0 = 3
