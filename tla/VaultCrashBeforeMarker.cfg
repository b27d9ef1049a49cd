SPECIFICATION Spec
CONSTANTS
  p = p
  Pass = {p}
  MaxCmd = 3
  Env = {"crash"}
INVARIANT InterruptedShredIsMarked
CHECK_DEADLOCK FALSE
