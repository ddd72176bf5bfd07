CONSTANTS
  User = {u1, u2}
  Producer = {p1}
  Consumer = {c1}
  Initial = 1
  MaxValue = 2
SPECIFICATION FairSpec
INVARIANTS Conserved NeverNegative
PROPERTY NoLostWakeup
