SPECIFICATION FairSpec
CONSTANTS
  Proc = {c1, c2}
  NoProc = NoProc
  Commands = {"load", "restart"}
  Wide = {}
  Patient = TRUE
  Faults = {}
  Debug = TRUE
CHECK_DEADLOCK FALSE
PROPERTY RestartServes
