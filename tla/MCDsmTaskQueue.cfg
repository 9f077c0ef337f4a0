SPECIFICATION FairSpec
CONSTANTS
    Workers <- MCWorkers
    Capacity = 2
    SeqModulus = 4
    TaskCount = 3
    MaxYields = 1
INVARIANTS
    TypeOK
    NoTaskLostOrDuplicated
    NoLostWakeup
PROPERTIES
    ImplementsFifo
    EveryTaskFinishes
\* A refused TryPush ends its process here: the query is aborted.
CHECK_DEADLOCK FALSE
