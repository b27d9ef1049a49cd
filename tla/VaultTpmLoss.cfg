SPECIFICATION FairSpec
CONSTANTS
  p = p
  q = q
  Pass = {p, q}
  MaxCmd = 4
  Env = {"clear", "unlink"}
INVARIANT StaleMastersDead
INVARIANT KitCodeIsKnown
PROPERTY AcceptedShredErases
CHECK_DEADLOCK FALSE
