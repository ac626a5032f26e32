CONSTANTS
    MaxTwins = 4
    MaxAborts = 2
    MaxLost = 1
SPECIFICATION FairSpec
INVARIANTS NoTwins NetworkGone Served
PROPERTIES CreateConverges DeleteConverges
CHECK_DEADLOCK FALSE
