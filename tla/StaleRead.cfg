SPECIFICATION Spec
CONSTANTS
    MaxAddress = 1
    LineWords = 1
    Value = {0, 1}
    Zero = 0
    L1Lines = 1
    L2Lines = 1
    L1Latency = 1
    L2Latency = 1
    MemoryLatency = 6
    StorebackLines = 2
    PrefetchLines = 0
    Conditional = FALSE
    InitialPointers <- MCPointers
    Elsewhere = Elsewhere
    Requests <- MCRequests
    MCReads = {0, 1}
    MCWrites = {0, 1}
    MCValues = {1}
    TrackCycles = FALSE
    Cycles = 0
    CountCap = 3
PROPERTIES
    ReadsSeePendingWrites
