SPECIFICATION OperatorsSpec
CONSTANTS
    Components = {"join", "drain", "aggregate", "scan", "sort", "slice"}
    Workers = {1, 2}
    Sorters = {1, 2}
    ChunkSize = 2
    SortChunk = 2
    Layouts <- MCLayouts
    Inputs <- MCInputs
    Chunks <- MCChunks
    BatchSize = 1
    OutputSize = 2
    Plans <- MCPlans
    Sources <- MCSources
    ChunkBudget = 1
    AggWorkers = {1, 2}
    EmitSize = 2
    AggCases <- MCCases
    Hash <- MCHash
    Partitions = 2
    Lanes = 2
    MinRows = 1
    MinSlots = 2
    MaxSlots = 4
    Table <- MCTable
    MaxRegs = 6
    MaxInputs = 4
    Word = 65536
    ClaimSize = 1
    CheckEvery = 2
    Scans <- MCScans
    InitialRows = 1
    InlineBytes = 1
    HeapPerRow = 1
    HeapStep = 1
    Queries <- MCQueries
    Trees <- MCTrees
INVARIANTS
    TypesOK
    ChainsComplete
    JoinOutput
    StoresLiveUntilRelease
    RowsReachTheSink
    GroupsAreFound
    AggregateIsExact
    ScanOutput
    PagesAreHeldOnce
    SlicesComputePlan
    BestRowsAreKept
    ResultOfQuery
PROPERTIES
    JoinEnds
    TaskEnds
    ScanEnds
CHECK_DEADLOCK FALSE
