CONSTANTS
    a = a
    b = b
    c = c
    Keys = {a, b, c}
    D = 2
    WL = 2
    WR = 3
    MaxC = 7
    Cap = 3
    Limit = 5
    Hash <- MCHash
    HashL <- MCHashL
    Deltas <- MCDeltas
SPECIFICATION CompareSpec
INVARIANTS OneSided SlimBackedByFat CountersOrdered
PROPERTY ImplementsEstimator
