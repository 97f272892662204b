SPECIFICATION FairSpec
CONSTANTS
  Pid = {p1}
  NoPid = NoPid
  User = {u1}
  Config <- FewConfigs
  Kind <- FewKinds
  Blank = Blank
  NoConf = NoConf
  EnvSignals = {"SIGHUP", "SIGTERM"}
  Faults = {"fork", "boot", "crash"}
  Debug = TRUE
CHECK_DEADLOCK FALSE
INVARIANT WaitNeverBlocks
PROPERTIES RestartsMaster StopIsHonoured MastersFollow 
