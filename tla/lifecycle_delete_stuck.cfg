SPECIFICATION FairSpec
CONSTANTS
  Workers = {w1}
  Serial = TRUE
  NodeGroups = {g1}
  Versions = {"1.13.5", "1.14.2"}
  MasterCount = 1
  MaxVMs = 2
  MaxAborts = 1
  MaxLost = 0
PROPERTY DeleteApplied
