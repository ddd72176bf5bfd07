CONSTANTS
  Process = {p1}
  Slot = {s1, s2}
  Key = {k1, k2}
  Small = {v1}
  Big = {w1}
  NoValue = NoValue
  MaxPuts = 3
  MaxCrashes = 1
  Failures = TRUE
SPECIFICATION Spec
INVARIANTS Visible
PROPERTIES Map CrashToPrefix
SYMMETRY Symmetry
CHECK_DEADLOCK FALSE
