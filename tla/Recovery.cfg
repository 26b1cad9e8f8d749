SPECIFICATION ScheduledSpec
CONSTANTS
  MaxAttempts = 2
  NDocs = 1
  MaxBatchNum = 2
  FailureThreshold = 1
  None = None
  Checkpointed = TRUE
  Workers = {w1}
  Persistent = FALSE
  ReindexModes = {FALSE}
  Faults = {"kickoff", "spawn", "connector", "validation", "memory", "pod", "document", "task", "lock", "worker", "usage", "monitor", "beat", "fetch", "redis"}
  CrashPoints = {"index", "count"}
  MaxFaults = 1
CHECK_DEADLOCK FALSE
PROPERTIES
  AttemptsEnd
  EventuallyAccounted
