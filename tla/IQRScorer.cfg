SPECIFICATION Spec
CONSTANTS
    Values = {1, 2, 3, 4, 5, 6}
    SumModulus = 4
    MaxSamples = 6
CHECK_DEADLOCK FALSE
INVARIANTS
    TypeOK
    Partitioned
    QuartilesKept
    SumKept
    DrawsInBounds
    RefusesAsPromised
PROPERTY
    ImplementsSampleBag
