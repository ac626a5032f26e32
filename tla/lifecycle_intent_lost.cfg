SPECIFICATION FairSpec
CONSTANTS
  Workers = {w1, w2}
  Serial = FALSE
  NodeGroups = {}
  Versions = {"1.13.5", "1.14.2"}
  MasterCount = 1
  MaxVMs = 1
  MaxAborts = 0
  MaxLost = 0
PROPERTY IntentStays
