SPECIFICATION FairSpec
CONSTANTS
  Machines = {m1, m2}
  MaxInst = 3
  MaxLost = 4
  MaxAborts = 2
INVARIANTS DuplicateNeedsTwoErrors LeakExplained
PROPERTIES MachineProvisioned DeletionFinishes
