SPECIFICATION FairSpec
CONSTANTS
    Posters = {p1, p2}
    Waiters = {w1, w2, w3}
    InitCount = 0
    MaxCount = 2
INVARIANTS
    TypeOK
    TokensConserved
    NoLostWakeup
PROPERTIES
    ImplementsSemaphore
