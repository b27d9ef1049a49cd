SPECIFICATION Spec
CONSTANTS
  p = p
  q = q
  Pass = {p, q}
  MaxCmd = 4
  Env = {"crash", "unseal", "destroy", "getcap", "unlink", "clear", "recover_live"}
INVARIANT TypeOK
INVARIANT HeadersConsistent
INVARIANT KeyOutlivesHeader
INVARIANT BlobsBehindEntries
INVARIANT ErasedStaysErased
PROPERTY SomeCopySurvives
PROPERTY MarkerHoldsUntilDestroyed
PROPERTY ImplementsAbstractVault
CHECK_DEADLOCK FALSE
