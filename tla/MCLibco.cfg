CONSTANTS
  Co = {a, b, c, d}
  MaxCalls = 2
  MaxStarts = 5
  WaitBelow = FALSE
SPECIFICATION Spec
INVARIANTS NoStaleSwitch ContextsSound WaitsForEnd
CHECK_DEADLOCK FALSE
