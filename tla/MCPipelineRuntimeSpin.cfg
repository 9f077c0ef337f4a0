SPECIFICATION FairSpec
CONSTANTS
    NumPipelines = 2
    DependsOn <- MCDependsOn
    Sink <- MCSink
    RunTasks <- MCRunTasks
    PartitionCount = 1
    NumWorkers = 2
    Capacity = 2
    CounterModulus = 8
    MaxYields = 1
    MaxFaults = 1
PROPERTY ShutdownStopsWorkers
CHECK_DEADLOCK FALSE
