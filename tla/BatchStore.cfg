SPECIFICATION Spec
CONSTANTS
  MaxAttempts = 3
  MaxBatches <- TwoAndOne
  MaxDeaths = 1
  PairOf <- OnePair
  None = None
CHECK_DEADLOCK FALSE
CONSTRAINT Undisturbed
INVARIANTS
  TypeOK
  
  OneRowPerObject
  NothingLeftBehind
