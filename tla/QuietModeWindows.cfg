SPECIFICATION FairSpec
CONSTANTS
  canonical = canonical
  typed = typed
  Spellings = {canonical, typed}
  Canonical = canonical
  MaxCommands = 2
  Env = {"reg","unlink","kill","away"}
  Blocks = 2
  Margin = 1
  MaxEvents = 1
  VolumeEnv = {"delete","write","crash","unlink","probe","refuse","setup"}
INVARIANT TypeOK
INVARIANT EntriesHaveLaunchers
INVARIANT UninstallFindsInstalled
 
