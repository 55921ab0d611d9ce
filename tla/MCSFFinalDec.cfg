CONSTANTS
    a = a
    b = b
    c = c
    Keys = {a, b, c}
    D = 2
    WL = 2
    ExpK = 1
    MaxC = 3
    Limit = 2
    Hash <- MCHash
    Deltas <- MCDeltas
SPECIFICATION Spec
PROPERTY DecNeverRaises
