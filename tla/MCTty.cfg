CONSTANTS
  columns = 2
  lines = 2
  Tty = {t1, t2}
  tty1 = t1
  Shell = {s1, s2}
  Char = {"x", "enter", "backspace", "ctrlD"}
  Output <- Strings
  SZ = 4
  MaxEvents = 5
SPECIFICATION Spec
INVARIANTS CookedAgree Settled ShowsText
PROPERTY LineDiscipline
CHECK_DEADLOCK FALSE
SYMMETRY ShellSymmetry
