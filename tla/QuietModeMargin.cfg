SPECIFICATION Spec
CONSTANTS
  home = home
  other = other
  none = none
  Dirs = {home}
  NoDir = none
  Home = home
  MaxCommands = 1
  Env = {}
  Blocks = 3
  Margin = 1
  MaxEvents = 0
  VolumeEnv = {}
PROPERTY MarginKept
CHECK_DEADLOCK FALSE
