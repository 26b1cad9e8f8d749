SPECIFICATION FairSpec
CONSTANTS
  p1 = p1
  p2 = p2
  Pairs = {p1, p2}
  NDocs = 2
  Links0 <- TwoOfOne
  Paused = {p2}
  Modes = {"ACTIVE_ONLY", "INSTANT"}
  None = None
  PageSize = 2
  Arrivals <- NoLinks
  Vanished <- NoLinks
  Synced = {1, 2}
  Deletions = {p1}
  MaxActs = 1
  JobFaults = {"cancel", "enqueue", "yield", "port", "port_dies",
               "swap_dies", "sync"}
  MaxJobFaults = 1
CHECK_DEADLOCK FALSE
INVARIANTS
  TypeOK
  PortedMeansCopied
  BacklogServed
  IndexIsCurrent
  CleanupIsLastWriter
PROPERTIES
  KeepsPortContract
  ReindexEnds
  SyncEnds
