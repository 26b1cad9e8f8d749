SPECIFICATION Spec
CONSTANTS
  MaxAttempts = 2
  NDocs = 2
  MaxBatchNum = 3
  FailureThreshold = 1
  None = None
  Checkpointed = TRUE
  Workers = {w1}
  Persistent = FALSE
  ReindexModes = {FALSE}
  Faults = {"connector", "process", "fetch", "pod", "document", "task", "lock", "worker"}
  CrashPoints = {"index", "count"}
  MaxFaults = 1
CHECK_DEADLOCK FALSE
INVARIANTS
  NoDocumentLost
  SuccessCoversSource
  CompletionMeansProcessed
