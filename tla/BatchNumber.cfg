SPECIFICATION Spec
CONSTANTS
  MaxAttempts = 2
  NDocs = 3
  MaxBatchNum = 3
  FailureThreshold = 1
  None = None
  Checkpointed = TRUE
  Workers = {w1}
  Persistent = FALSE
  ReindexModes = {FALSE}
  Faults = {"connector"}
  CrashPoints = {"index", "count", "except"}
  MaxFaults = 1
CHECK_DEADLOCK FALSE
INVARIANTS
  NextBatchNumIsFresh
