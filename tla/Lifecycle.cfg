SPECIFICATION Spec
CONSTANTS
  MaxAttempts = 2
  NDocs = 1
  MaxBatchNum = 2
  FailureThreshold = 1
  None = None
  Checkpointed = TRUE
  Workers = {w1}
  Persistent = FALSE
  ReindexModes = {FALSE, TRUE}
  Faults = {"connector", "shutdown", "late_task", "usage", "monitor", "pause"}
  CrashPoints = {"index"}
  MaxFaults = 1
CHECK_DEADLOCK FALSE
INVARIANTS
  TypeOK
  OneActiveAttempt
  NoDocumentLost
PROPERTIES
  LifecycleSpec
