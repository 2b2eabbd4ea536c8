CONSTANTS
  N = 3
  Env <- Mixed
  UpTo = 1
  SlowChild = TRUE
  Signals = TRUE
  MaxCuts = 0
  MaxFaults = 0
SPECIFICATION FairSpec
PROPERTY Finishes
