SPECIFICATION FairSpec
CONSTANTS
    Cids = {1, 2}
    NBuckets = 2
    KFactor = 1
    CountModulus = 8
    MaxRequests = 3
    RefillSize = 1
    RefillLimit = 3
    MinContributions = 2
    MaxSpurious = 1
CHECK_DEADLOCK FALSE
PROPERTY
    MatchesPrepared
