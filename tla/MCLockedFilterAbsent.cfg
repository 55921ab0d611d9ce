CONSTANTS
    Threads = {t1, t2}
    NSlots = 9
    Buckets = {1, 2, 3}
    Region = 3
    Cluster = 1
    Limit = 2
    NumCounters = 2
    Threshold = 1
    AbsentToo = TRUE
    MaxOps = 3
    Nobody = Nobody
    Free = Free
    Left = Left
SPECIFICATION Spec
INVARIANT LocksReturned
