CONSTANTS
    Commands = {c1, c2}
    Values = {v1, v2}
    MaxKills = 1
    None = None
    Cut = Cut
    Lost = Lost
SPECIFICATION Spec
INVARIANTS PairsMatch ReadsWhole
PROPERTY Atomic
CHECK_DEADLOCK FALSE
