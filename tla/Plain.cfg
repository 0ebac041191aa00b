SPECIFICATION FairSpec
CONSTANTS
    MaxAddress = 7
    LineWords = 2
    Value = {0, 1}
    Zero = 0
    L1Lines = 2
    L2Lines = 3
    L1Latency = 1
    L2Latency = 2
    MemoryLatency = 3
    StorebackLines = 0
    PrefetchLines = 0
    Conditional = FALSE
    InitialPointers <- MCPointers
    Elsewhere = Elsewhere
    Requests <- MCRequests
    MCReads = {0, 2, 6}
    MCWrites = {0, 6}
    MCValues = {0, 1}
    TrackCycles = FALSE
    Cycles = 0
    CountCap = 20
INVARIANTS
    CopiesMatchMemory
    RequestLatency
    StatsTruthful
PROPERTIES
    ImplementsCoherentMemory
    HitsTruthful
    CommandsServedFresh
    RequestsAnswered
