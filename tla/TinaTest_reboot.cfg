CONSTANTS
  N = 4
  Env <- Reboots
  UpTo = 2
  SlowChild = FALSE
  Signals = FALSE
  MaxCuts = 2
  MaxFaults = 0
SPECIFICATION Spec
INVARIANTS StatusCurrent RunsBounded RunsExact CleanAfter
CHECK_DEADLOCK FALSE
