SPECIFICATION Spec
CONSTANTS
    Cids = {c1, c2, c3}
    NBuckets = 2
    KFactor = 1
    CountModulus = 8
    MinMatchCount = 2
    UninitValues = {0, 2}
    MaxRequests = 4
SYMMETRY Symmetry
CHECK_DEADLOCK FALSE
INVARIANTS
    TypeOK
    PositionsValid
    OutlierTokens
    NodesAgree
    SamplesAgree
    CountAgrees
    NoFailure
    MatchFailsOnlyAfterRemoval
    PopsOnlyQueued
