------------------------------- MODULE Optimizer -------------------------------
(***************************************************************************)
(* What becomes of a query before it is executed: TranslatePGQuery,        *)
(* PlannerNormalizer::Normalize, and the passes of LogicalOptimizer::      *)
(* Optimize in their order.  The passes that only estimate cardinalities   *)
(* or list the columns of scans are left out: a scan puts out whatever the *)
(* nodes above it ask for (TranslateTableScanNode).                        *)
(***************************************************************************)
EXTENDS QueryTranslation, JoinOrder
LOCAL INSTANCE Integers
LOCAL INSTANCE Sequences
LOCAL INSTANCE SequencesExt

CONSTANTS Queries,   \* the queries clients ask
          Databases  \* what the tables may hold when the plan is executed

VARIABLES query,     \* the query
          plan,      \* the plan so far
          outputs,   \* the table of the plan whose columns the client gets
          pass       \* what comes next

vars == <<query, plan, outputs, pass>>

NoPlan == Get(0, "none")

Init ==
    /\ query \in Queries
    /\ plan = NoPlan
    /\ outputs = 0
    /\ pass = "translate"

\* A pass goes through the whole plan.
Rewrite(from, to, rewritten) ==
    /\ pass = from
    /\ ~HasMoved(plan)
    /\ pass' = to
    /\ plan' = rewritten
    /\ UNCHANGED <<query, outputs>>

Translate ==
    /\ pass = "translate"
    /\ pass' = "normalize"
    /\ \E translated \in {TranslatePGQuery(query, 1, <<>>)} :
          /\ plan' = translated.plan
          /\ outputs' = translated.table
    /\ UNCHANGED query

NormalizePlan       == Rewrite("normalize", "extract", Normalize(plan))
ExtractPredicates   == Rewrite("extract", "push", JoinPredicateExtraction(plan))
PushFilters         == Rewrite("push", "extract_again", FilterPushdown(plan))
ExtractAgain        == Rewrite("extract_again", "propagate", JoinPredicateExtraction(plan))
PropagatePredicates == Rewrite("propagate", "fold", PredicatePropagation(plan))
FoldScanFilters     == Rewrite("fold", "fold_again", ScanFilterFolding(plan))
FoldAgain           == Rewrite("fold_again", "order_joins", ScanFilterFolding(plan))

OrderJoins ==
    /\ pass = "order_joins"
    /\ \E ordered \in JoinOrders(plan) : Rewrite("order_joins", "push_again", ordered)

\* No plan is left: the statement ends with an ERROR.
FindNoJoinOrder ==
    /\ pass = "order_joins"
    /\ JoinOrders(plan) = {}
    /\ pass' = "failed"
    /\ UNCHANGED <<query, plan, outputs>>

\* The first pass after the normalisation dereferences the null pointer that
\* decorrelation has left: the backend is gone.
FollowNullPointer ==
    /\ pass = "extract"
    /\ HasMoved(plan)
    /\ pass' = "crashed"
    /\ UNCHANGED <<query, plan, outputs>>

PushFiltersAgain    == Rewrite("push_again", "execute", FilterPushdown(plan))

Next ==
    \/ Translate
    \/ NormalizePlan
    \/ FollowNullPointer
    \/ ExtractPredicates
    \/ PushFilters
    \/ ExtractAgain
    \/ PropagatePredicates
    \/ FoldScanFilters
    \/ FoldAgain
    \/ OrderJoins
    \/ FindNoJoinOrder
    \/ PushFiltersAgain

Spec == Init /\ [][Next]_vars

-----------------------------------------------------------------------------
(* Properties. *)

CONSTANT Declined    \* the queries that fail: no executable plan is expected

IsFullyOrdered(q) == ToSet(q.order) = DOMAIN q.targets

SameAnswer(q, tuples, answer) ==
    IF IsFullyOrdered(q)
    THEN tuples = answer
    ELSE ToBag(tuples) = ToBag(answer)

(***************************************************************************)
(* "If YAAP owns the query, YAAP owns the result": whatever a pass leaves, *)
(* if the executor would take it, it delivers the rows SQL defines for the *)
(* query, in the order the query asks for, with duplicates and NULLs and   *)
(* whatever tables are empty, also where a rule has given up halfway.      *)
(***************************************************************************)
PlanAnswersQuery ==
    pass \notin {"translate", "failed"} /\ IsExecutable(plan, <<>>) =>
        \A database \in Databases :
            SameAnswer(query, Delivered(plan, outputs, Len(query.targets), database),
                       Answer(query, database, <<>>))

(***************************************************************************)
(* The passes end in a plan the executor takes, in whatever order the      *)
(* joins are put: no rewrite of filters or joins strands a column.  They   *)
(* fail for the queries only that are known not to be supported, and for   *)
(* them they do, some by an ERROR and some by a crash: a rule of           *)
(* decorrelation that has lost conditions or a child when it gives up      *)
(* never leaves a plan that could be executed without them.                *)
(***************************************************************************)
FinalPlanIsExecutable ==
    /\ pass = "execute" => (IsExecutable(plan, <<>>) <=> query \notin Declined)
    /\ pass \in {"failed", "crashed"} => query \in Declined
=============================================================================
