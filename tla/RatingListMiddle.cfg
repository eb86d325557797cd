SPECIFICATION Spec
CONSTANTS
    Nodes = {n1, n2, n3, n4}
    NULL = NULL
PROPERTY
    MiddleIsMiddle
CHECK_DEADLOCK FALSE
