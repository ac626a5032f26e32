SPECIFICATION FairSpec
CONSTANTS
  Servers = {s1}
  Creates = {c1}
  Deletes = {d1}
  Retries = {r1}
  MaxCrashes = 1
  MaxFails = 1
CHECK_DEADLOCK FALSE
INVARIANTS CreateRunsOnce DeletionKept OrphanedByFailure
PROPERTY DeleteServed
