SPECIFICATION Spec
INVARIANTS OneAccept Serial NoHangUp
  
CHECK_DEADLOCK FALSE
CONSTANTS
  c1 = c1
  c2 = c2
  Client = {c1, c2}
  NoClient = none
  Silent = {c1}
  Pieces <- MCPieces
  Thread = {t1, t2}
  Idle = idle
  FdLimits = {1, 2}
