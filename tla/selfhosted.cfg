CONSTANTS
    MaxTwins = 3
    MaxAborts = 2
    MaxLost = 1
    AwsAborts = 1
SPECIFICATION FairSpec
INVARIANTS NoTwins NetworkGone
PROPERTIES CreateConverges DeleteConverges
CHECK_DEADLOCK FALSE
