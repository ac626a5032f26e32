CONSTANTS
    Owner <- MCOwner
    MaxRows = 2
SPECIFICATION Spec
INVARIANTS OwnersApart PartsAtHome NoDuplicates
CHECK_DEADLOCK FALSE
