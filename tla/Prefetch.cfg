SPECIFICATION Spec
CONSTANTS
    MaxAddress = 5
    LineWords = 1
    Value = {0, 1}
    Zero = 0
    L1Lines = 1
    L2Lines = 4
    L1Latency = 1
    L2Latency = 1
    MemoryLatency = 2
    StorebackLines = 0
    PrefetchLines = 2
    Conditional = FALSE
    InitialPointers <- MCPointers
    Elsewhere = Elsewhere
    Requests <- MCRequests
    MCReads = {0, 1, 2}
    MCWrites = {1, 2}
    MCValues = {1}
    TrackCycles = FALSE
    Cycles = 0
    CountCap = 20
INVARIANTS
    TypeOK
    CopiesMatchMemory
    RequestLatency
PROPERTIES
    ImplementsCoherentMemory
    NoLineLost
