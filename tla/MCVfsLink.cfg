CONSTANTS
  NInode = 3
  NBlock = 2
  NEntry = 2
  MaxSize = 2
  Name = {a, b}
  NoName = NoName
  NoData = NoData
  Task = {t1, t2}
  Fd = {0}
  MaxPath = 2
  MaxRef = 2
  LinkWhileOpen = TRUE
  RmWhileOpen = FALSE
SPECIFICATION Spec
INVARIANTS ChildFound
SYMMETRY Symmetry
CHECK_DEADLOCK FALSE
