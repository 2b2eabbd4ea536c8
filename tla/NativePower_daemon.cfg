SPECIFICATION LiveSpec
CONSTANTS
  Display = display
  ClientLocks = {c1}
  Timeouts = {1}
  Confs = {2}
  Limit = 0
  MaxTime = 2
  MaxEvents = 1
  MaxFaults = 1
INVARIANTS
  TypeOK
  NoSuspendWithLock
  CallbackOnResume
PROPERTIES
  SleepEnds
  TimeoutTakesEffect
