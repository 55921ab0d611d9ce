CONSTANTS
    B = 2
    OffsetMax = 3
    Slack = 12
    Threshold = 1
    Cutoff = 1
    NSlots = 4
    RBits = 3
    Hashes <- MCHashes
    Amounts = {1, 4, 9}
    Other <- MCOther
    MaxCount <- MCMaxCount
    MaxExcess = 1
SPECIFICATION Spec
INVARIANT CountsExact
