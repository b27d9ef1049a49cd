SPECIFICATION Spec
CONSTANTS
  alice = alice
  bob = bob
  p = p
  q = q
  Pass = {p}
  Procs = {alice, bob}
  MaxCmd = 4
  Env = {"crash", "tpm"}
SYMMETRY Symmetry
CHECK_DEADLOCK FALSE
INVARIANT TypeOK
INVARIANT NewestKeyAlive
INVARIANT BlobsBehindEntries
PROPERTY LoneCommandKeepsHeader
PROPERTY ErasedReturnsOnlyByOverlap
