SPECIFICATION Spec
CONSTANTS
    Values = {1, 2, 3, 4, 5, 6}
    SumModulus = 4
    MaxSamples = 6
CHECK_DEADLOCK FALSE
INVARIANT
    QuartilesCorrect
