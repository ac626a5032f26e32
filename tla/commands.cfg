CONSTANTS
    Sessions = {e1, e2}
    MaxClock = 2
    NoObject = NoObject
    Syntax = Syntax
    Users = {u1, u2}
    Clusters = {c1}
    MaxMinutes = 1
    Minors = {13, 14}
    MaxPatch = 1
    Nodes = {n1, n2}
SPECIFICATION Spec
INVARIANTS WorkKept BackedUp UpgradesOffered
PROPERTY DeletionSurvives
SYMMETRY Symmetry
CHECK_DEADLOCK FALSE
