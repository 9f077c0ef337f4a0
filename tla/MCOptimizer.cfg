CONSTANTS
    NULL = NULL
    Queries <- MCQueries
    Databases <- MCDatabases
    Declined <- FailingQueries
SPECIFICATION Spec
INVARIANTS
    PlanAnswersQuery
    FinalPlanIsExecutable
CHECK_DEADLOCK FALSE
