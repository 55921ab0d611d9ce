CONSTANTS
    a = a
    b = b
    SizeT = 1024
    Byte = 4
    MaxRounds = 2
    Intervals = {1, 2}
    Workloads <- MCWorkloads
SPECIFICATION Spec
INVARIANTS ReferenceExact UniformTraceLoads
