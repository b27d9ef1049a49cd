SPECIFICATION Spec
CONSTANTS
  p = p
  q = q
  Procs = {p, q}
  MaxKeys = 3
  Handles = 2
  MaxLoaded = 3
  Env = {"tool", "getcap", "flush", "crash"}
INVARIANT TypeOK
INVARIANT UnsealsOwnRwk
INVARIANT DestroyedIsGone
INVARIANT NoTransientLeft
PROPERTY DestroyLeavesOtherKeys
PROPERTY KeyNotFoundMeansGone
CHECK_DEADLOCK FALSE
INVARIANT EnrolmentSucceeds
