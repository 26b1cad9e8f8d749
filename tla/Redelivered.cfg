SPECIFICATION Spec
CONSTANTS
  p1 = p1
  p2 = p2
  Pairs = {p1, p2}
  NDocs = 2
  Links0 <- Shared
  Paused = {}
  Modes = {}
  None = None
  PageSize = 2
  Arrivals <- NoLinks
  Vanished <- NoLinks
  Synced = {}
  Deletions = {p1}
  MaxActs = 1
  JobFaults = {"repeat"}
  MaxJobFaults = 1
CHECK_DEADLOCK FALSE
INVARIANTS
  OnlyHolderDeletes
