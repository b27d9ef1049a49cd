SPECIFICATION FairSpec
CONSTANTS
  home = home
  other = other
  none = none
  Dirs = {home, other}
  NoDir = none
  Home = home
  MaxCommands = 2
  Env = {"systemctl","unlink","kill","login"}
  Blocks = 3
  Margin = 1
  MaxEvents = 1
  VolumeEnv = {"delete","write","crash","refuse","setup"}
INVARIANT TypeOK
INVARIANT ScheduledAsReported
INVARIANT OffAtNextLogin
INVARIANT NoFillAtRest
 
