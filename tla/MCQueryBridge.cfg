SPECIFICATION Spec
CONSTANTS
    Statements = {s1, s2, s3}
    PlanAddresses = {p1, p2}
    DescAddresses = {d1, d2}
    CopiesPlans = {FALSE, TRUE}
    NoStatement = NoStatement
SYMMETRY Symmetry
INVARIANTS TypeOK ClaimedRunsOwnPlan EntriesEndWithQuery
PROPERTIES SelectsAreClaimed
\* A session is over when its statements are.
CHECK_DEADLOCK FALSE
