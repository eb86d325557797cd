SPECIFICATION FairSpec
CONSTANTS
    OtherPortals <- MCOtherPortals
    OtherExecutors <- MCOtherExecutors
    MayHang <- MCMayHang
    MaxPackets = 2
    MaxOutliers = 2
INVARIANTS
    NoLostReport
    CallsServed
    CleanExit
    OutliersInOrder
    PopsQueuedOnly
PROPERTIES
    ImplementsSupervision
    ErrorEndsProcess
CHECK_DEADLOCK FALSE
