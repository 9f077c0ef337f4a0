CONSTANTS
    NumWorkers = 2
    MaxFaults = 2
SPECIFICATION Spec
INVARIANTS
    TypeOK
    LoopStartsWithWorkers
    FailureLeavesNoWorker
PROPERTIES
    ReadyWorkersAreFound
    GuessOnlyWithoutText
    StartupEnds
CHECK_DEADLOCK FALSE
