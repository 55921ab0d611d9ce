CONSTANTS
    a = a
    b = b
    c = c
    d = d
    None = None
    Keys = {a, b, c, d}
    D = 2
    W = 2
    FilterSize = 2
    MaxCnt = 3
    Top = 9
    Limit = 5
    Hash <- MCHash
SPECIFICATION Spec
INVARIANTS NothingLost OneSided WithinCountMin
CHECK_DEADLOCK FALSE
