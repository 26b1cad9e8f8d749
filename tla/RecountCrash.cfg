SPECIFICATION Spec
CONSTANTS
  MaxAttempts = 2
  NDocs = 2
  MaxBatchNum = 3
  FailureThreshold = 1
  None = None
  Checkpointed = TRUE
  Workers = {w1}
  Persistent = FALSE
  ReindexModes = {FALSE}
  Faults = {"worker"}
  CrashPoints = {"errors", "delete", "post"}
  MaxFaults = 1
CHECK_DEADLOCK FALSE
INVARIANTS
  CompletionMeansProcessed
