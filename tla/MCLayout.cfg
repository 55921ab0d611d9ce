CONSTANTS
    D = 3
    Widths = {4, 5, 6, 7}
    K = 2
    Junk = 77
    Inputs <- MCInputs
    W = 8
    IntBits = 4
    BitsC = 3
    N = 4
    Deltas = {1, 3}
SPECIFICATION MCSpec
INVARIANTS FastEqualsPortable PackedIsPlain
