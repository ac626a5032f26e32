SPECIFICATION FairSpec
CONSTANTS
  Servers = {s1}
  Creates = {c1}
  Deletes = {}
  Retries = {}
  MaxCrashes = 0
  MaxFails = 0
CHECK_DEADLOCK FALSE
PROPERTY DoneStored
