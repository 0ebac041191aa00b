SPECIFICATION Spec
CONSTANTS
    MaxAddress = 4
    LineWords = 1
    Value = {0, 1}
    Zero = 0
    L1Lines = 1
    L2Lines = 2
    L1Latency = 1
    L2Latency = 1
    MemoryLatency = 2
    StorebackLines = 0
    PrefetchLines = 1
    Conditional = FALSE
    InitialPointers <- MCPointers
    Elsewhere = Elsewhere
    Requests <- MCRequests
    MCReads = {0}
    MCWrites = {2}
    MCValues = {1}
    TrackCycles = FALSE
    Cycles = 0
    CountCap = 20
PROPERTIES
    ImplementsCoherentMemory
