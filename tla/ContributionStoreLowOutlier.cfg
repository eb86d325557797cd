SPECIFICATION Spec
CONSTANTS
    Cids = {1, 2}
    NBuckets = 2
    KFactor = 1
    CountModulus = 8
    MinMatchCount = 2
    UninitValues = {0}
    MaxRequests = 2
CHECK_DEADLOCK FALSE
INVARIANTS
    NeverPopsEmpty
