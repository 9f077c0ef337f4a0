CONSTANTS
    NULL = NULL
    Queries <- DroppedQueries
    Databases <- MCDatabases
    Declined = {}
SPECIFICATION Spec
INVARIANT PlanAnswersQuery
CHECK_DEADLOCK FALSE
