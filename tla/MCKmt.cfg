CONSTANTS
  NCPU = 2
  NTask = 4
  MaxWork = 2
  EarlyKeys = FALSE
SPECIFICATION Spec
INVARIANTS StackExclusive ContextFresh WorkingIsCurrent RoundRobin
