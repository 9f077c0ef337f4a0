SPECIFICATION Spec
CONSTANTS
    NumPipelines = 3
    DependsOn <- MCDependsOn
    Sink <- MCSink
    RunTasks <- MCRunTasks
    PartitionCount = 2
    NumWorkers = 2
    Capacity = 2
    CounterModulus = 8
    MaxYields = 2
    MaxFaults = 1
INVARIANTS TypeOK CombineFindsState BuildOutlivesProbes
PROPERTIES ImplementsQuery
\* The query ends: leader and workers stop.
CHECK_DEADLOCK FALSE
