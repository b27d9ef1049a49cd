SPECIFICATION FairSpec
CONSTANTS
  service = service
  byHand = byHand
  Cleaners = {service}
  Blocks = 6
  Margin = 1
  MaxFill = 7
  MaxEvents = 4
  Env = {"delete", "write", "crash", "unlink", "probe", "refuse", "setup"}
INVARIANT TypeOK
INVARIANT FreedDataOverwritten
PROPERTY MarginKeptAlone
 
