CONSTANTS
    a = a
    b = b
    c = c
    Keys = {a, b, c}
    D = 3
    WL = 2
    ExpK = 1
    MaxC = 4
    MaxNum = 4
    Sign <- MCSign
    Limit = 3
    Hash <- MCHash
    Deltas <- MCDeltas
SPECIFICATION CompareSpec
INVARIANTS TypeOK NoAssertFails SlimWithinCM SlimIsBucketMax FatIsExactLoad OneSided SignedSumExact
PROPERTY ImplementsEstimator
