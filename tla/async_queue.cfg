SPECIFICATION Spec
INVARIANTS NoSharedCell EndsDrained FlushCovers
PROPERTIES IsQueue DestructorEnds
CHECK_DEADLOCK FALSE
CONSTANTS
  p1 = p1
  p2 = p2
  owner = owner
  Producer = {p1, p2}
  Owner = owner
  Size = 2
  Jobs <- MCJobs
  Policy = {"block_retry", "discard_log_msg"}
  Faults = 1
  Interval = TRUE
