SPECIFICATION Spec
CONSTANTS
  p1 = p1
  p2 = p2
  Pairs = {p1}
  NDocs = 2
  Links0 <- TwoOfOne
  Paused = {}
  Modes = {"REINDEX"}
  None = None
  PageSize = 2
  Arrivals <- NoLinks
  Vanished <- First
  Synced = {1, 2}
  Deletions = {}
  MaxActs = 0
  JobFaults = {}
  MaxJobFaults = 0
CHECK_DEADLOCK FALSE
INVARIANTS
  DeletedStaysDeleted
