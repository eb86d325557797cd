SPECIFICATION FairSpec
CONSTANT
    MaxRequests = 4
CHECK_DEADLOCK FALSE
INVARIANTS
    PermitsMatchQueue
    PopsQueued
    InOrderOnce
PROPERTIES
    HandledOrShutdown
    ShutdownEnds
