SPECIFICATION Spec
CONSTANTS
    Nodes = {n1, n2, n3, n4}
    NULL = NULL
INVARIANTS
    TypeOK
    WellFormed
    NoUseAfterFree
PROPERTY
    ImplementsRotatingList
CHECK_DEADLOCK FALSE
