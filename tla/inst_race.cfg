SPECIFICATION FairSpec
CONSTANTS
  Proc = {c1, c2, c3}
  NoProc = NoProc
  Commands = {"load", "restart"}
  Wide = {c1}
  Patient = FALSE
  Faults = {"conf"}
  Debug = TRUE
CHECK_DEADLOCK FALSE
INVARIANT LinkHasOwner
 
