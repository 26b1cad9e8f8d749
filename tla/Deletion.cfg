SPECIFICATION FairSpec
CONSTANTS
  p1 = p1
  p2 = p2
  Pairs = {p1, p2}
  NDocs = 2
  Links0 <- Shared
  Paused = {}
  Modes = {}
  None = None
  PageSize = 2
  Arrivals <- First
  Vanished <- Second
  Synced = {2}
  Deletions = {p1}
  MaxActs = 1
  JobFaults = {"retry", "repeat", "exhausted", "giveup", "prune",
               "timeout", "beat", "reset"}
  MaxJobFaults = 1
CHECK_DEADLOCK FALSE
CONSTRAINT
  InTurn
INVARIANTS
  NoOrphan
  SharedDocumentSurvives
PROPERTIES
  DeletionEnds
