SPECIFICATION FairSpec
CONSTANTS
  Proc = {c1, c2, c3}
  NoProc = NoProc
  Commands = {"load", "reload", "stop", "status"}
  Wide = {}
  Patient = TRUE
  Faults = {"kill", "crash"}
  Debug = TRUE
CHECK_DEADLOCK FALSE
INVARIANTS OnlyOneDaemon Findable
PROPERTIES  StopStops
