SPECIFICATION Spec
CONSTANTS
  MaxAttempts = 2
  NDocs = 2
  MaxBatchNum = 3
  FailureThreshold = 1
  None = None
  Checkpointed = FALSE
  Workers = {w1, w2}
  Persistent = TRUE
  ReindexModes = {FALSE}
  Faults = {"task", "lock", "worker", "redis", "broker"}
  CrashPoints = {"except", "tally"}
  MaxFaults = 2
CHECK_DEADLOCK FALSE
INVARIANTS
  NoDocumentLost
  CompletionMeansProcessed
  SuccessCoversSource
  BacklogIsReal
SYMMETRY WorkerSymmetry
