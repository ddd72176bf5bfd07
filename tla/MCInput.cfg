CONSTANTS
  Reader = {r1, r2}
  Key = {"a", "lshift", "rshift", "capslock", "unknown"}
  NEVENTS = 3
  MaxCodes = 4
SPECIFICATION FairSpec
INVARIANTS KeysInOrder HaltsRightly
PROPERTY Delivered
CHECK_DEADLOCK FALSE
