SPECIFICATION Spec
CONSTANTS
  p = p
  Pass = {p}
  MaxCmd = 3
  Env = {"unseal"}
PROPERTY NothingDestroyedOnVerifyFailure
CHECK_DEADLOCK FALSE
