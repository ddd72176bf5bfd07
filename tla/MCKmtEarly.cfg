CONSTANTS
  NCPU = 2
  NTask = 2
  MaxWork = 1
  EarlyKeys = TRUE
SPECIFICATION Spec
INVARIANT SignalHasTask
CHECK_DEADLOCK FALSE
