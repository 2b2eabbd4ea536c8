CONSTANTS
  N = 4
  Env <- Schedule
  UpTo = 2
  SlowChild = FALSE
  Signals = FALSE
  MaxCuts = 0
  MaxFaults = 1
SPECIFICATION Spec
INVARIANTS TypeOK AtMostUpTo AloneIsAlone NoMissedWakeup EndsCounted ExitsWhenDone
PROPERTY PlanKept
CHECK_DEADLOCK FALSE
