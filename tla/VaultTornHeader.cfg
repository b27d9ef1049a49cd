SPECIFICATION Spec
CONSTANTS
  p = p
  Pass = {p}
  MaxCmd = 3
  Env = {"crash"}
INVARIANT NoTornHeader
CHECK_DEADLOCK FALSE
