SPECIFICATION FairSpec
CONSTANTS
  Workers = {w1}
  Serial = TRUE
  NodeGroups = {g1, g2}
  Versions = {"1.13.5", "1.14.2"}
  MasterCount = 2
  MaxVMs = 2
  MaxAborts = 3
  MaxLost = 1
INVARIANTS ReadyIsComplete DeletionIntent  TeardownComplete WorkersReachable SingleLeader
PROPERTIES NoResurrection CreateConverges DeleteConverges
