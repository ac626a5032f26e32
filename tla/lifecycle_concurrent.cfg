SPECIFICATION Spec
CONSTANTS
  Workers = {w1, w2}
  Serial = FALSE
  NodeGroups = {}
  Versions = {"1.13.5", "1.14.2"}
  MasterCount = 1
  MaxVMs = 2
  MaxAborts = 1
  MaxLost = 0
SYMMETRY WorkerSymmetry
INVARIANT MasterHasKeys
PROPERTIES TeardownOnlyOnRequest DeletionRemembered EditKept
