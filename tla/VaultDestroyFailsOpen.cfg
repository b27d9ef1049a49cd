SPECIFICATION Spec
CONSTANTS
  p = p
  Pass = {p}
  MaxCmd = 3
  Env = {"getcap"}
INVARIANT StaleMastersDead
CHECK_DEADLOCK FALSE
