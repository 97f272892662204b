SPECIFICATION Spec
CONSTANTS
  Pid = {p1, p2}
  NoPid = NoPid
  User = {u1}
  Config <- AllConfigs
  Kind <- AllKinds
  Blank = Blank
  NoConf = NoConf
  EnvSignals = {"SIGHUP", "SIGTERM"}
  Faults = {"fork", "boot", "crash", "hang", "eintr", "jobcontrol", "sigkill"}
  Debug = TRUE
CHECK_DEADLOCK FALSE
SYMMETRY PidSymmetry
INVARIANTS TypeOK OneMaster NoLostExit NoForgottenMaster 
PROPERTY ImplementsSupervision
