SPECIFICATION FairExecutorSpec
CONSTANTS
    MaxAddress = 23
    LineWords = 1
    Value = {0, 1, 2, 3, 4, 5, 6}
    Zero = 0
    L1Lines = 1
    L2Lines = 2
    L1Latency = 1
    L2Latency = 1
    MemoryLatency = 3
    StorebackLines = 1
    PrefetchLines = 0
    Conditional = FALSE
    InitialPointers <- MCPointers
    Elsewhere = Elsewhere
    Requests <- MCRequests
    TrackCycles = TRUE
    Cycles = 220
    CountCap = 220
    NumRequests = 600
    Files <- MCFiles
    CommandLines <- MCCommandLines
    RowRequests <- MCRequests
    Leftovers <- MCRowRequests
    IntModulus = 512
    MaxElements = 600
    MatrixSize = 2
    Operands <- MCOperands
    Garbage = 7
    MCLines = 2
    MCPrefix = 71
    MCRows = 2
INVARIANTS
    FileTypeOK
    InputsChecked
    LastOptionWins
    CyclesAddUp
    CountersAgree
    ResultHonest
    ArraySuffices
    AcceptsWellFormedFiles
    NothingLeftOut
    EveryMethodMultiplies
    AccessesAsAnalysed
    SimulatedProduct
PROPERTIES
    RequestsInFileOrder
    MainEnds
