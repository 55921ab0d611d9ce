CONSTANTS
    a = a
    b = b
    Keys = {a, b}
    D = 2
    WL = 1
    ExpK = 1
    MaxC = 6
    Limit = 100
    MaxNum = 6
    Cap = 6
    Room = 1
    MaxLen = 3
    SizeT = 1024
    MaxSubfiles = 1
    Records <- MCRecords
    NStarts = {0, 1}
    Intervals = {1, 2}
    Hash <- MCHash
    Deltas <- MCDeltas
    Sign <- MCSign
    Fingerprint <- MCFingerprint
    FileSets <- MCFileSets
SPECIFICATION Spec
INVARIANTS IndexInRange AnswersCover OutputsComplete FilesMirror
PROPERTY Terminates
