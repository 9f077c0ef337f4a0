----------------------------- MODULE QueryBridge -----------------------------
(****************************************************************************)
(* The hooks of pg_yaap in one PostgreSQL backend (bridge/): the planner    *)
(* hook claims a SELECT and keeps its plan in a map from the address of the *)
(* PlannedStmt, ExecutorStart lowers it into a query state kept in a table  *)
(* from the address of the QueryDesc, ExecutorRun executes it and           *)
(* ExecutorEnd removes both entries.                                        *)
(*                                                                          *)
(* Several statements are open at once (portals, functions that run         *)
(* queries).  PostgreSQL calls the hooks in order, does not call            *)
(* ExecutorEnd for a statement that an ERROR ended, and gives the memory of *)
(* a statement that is over to later ones: an address names a statement     *)
(* only as long as the statement is open.                                   *)
(****************************************************************************)
EXTENDS Integers, FiniteSets

CONSTANTS
    Statements,      \* the statements of a session
    PlanAddresses,   \* addresses where a PlannedStmt may be allocated
    DescAddresses,   \* addresses where a QueryDesc may be allocated
    CopiesPlans,     \* {FALSE, TRUE} if statements also come from the plan cache
    NoStatement

ASSUME BridgeAssumption ==
    /\ NoStatement \notin Statements
    /\ IsFiniteSet(Statements)
    /\ CopiesPlans \in SUBSET BOOLEAN

\* select: a SELECT that the optimizer plans; no_columns: one with an empty
\* target list; other: a query it does not plan; utility: a utility statement.
QueryKinds == {"select", "no_columns", "other"}
Kinds == QueryKinds \cup {"utility"}

VARIABLES
    pg_yaap_enabled,          \* the setting pg_yaap.enabled
    pg_yaap_utility_nesting,  \* ProcessUtility calls in progress
    plans,                    \* OptimizerPlans: whose bundle an address has
    state_table,              \* whose query state a QueryDesc address has
    bundle_of,                \* the plan that the query state of s was made of
    stmt,                     \* the statements: what PostgreSQL knows of them
    PG_exception_stack        \* "caller" or, after a return out of PG_TRY, "gone"

vars == <<pg_yaap_enabled, pg_yaap_utility_nesting, plans, state_table, bundle_of,
          stmt, PG_exception_stack>>

Points == {"idle", "utility", "planned", "started", "returning", "ran", "raise",
           "ended", "aborted"}

Init ==
    /\ pg_yaap_enabled = TRUE
    /\ pg_yaap_utility_nesting = 0
    /\ plans = [a \in PlanAddresses |-> NoStatement]
    /\ state_table = [d \in DescAddresses |-> NoStatement]
    /\ bundle_of = [s \in Statements |-> NoStatement]
    \* claimed: its PlannedStmt is the placeholder of pg_yaap_build_plannedstmt;
    \* copied: it is the plan cache's copy; result: who made the rows.
    /\ stmt = [s \in Statements |->
                  [pc |-> "idle", kind |-> "other", claimed |-> FALSE,
                   copied |-> FALSE, pstmt |-> {}, desc |-> {},
                   result |-> "none"]]
    /\ PG_exception_stack = "caller"

At(s, point) == stmt[s].pc = point
Open(s) == stmt[s].pc \notin {"idle", "ended", "aborted"}

\* One thread: nothing else happens while a call returns or an ERROR unwinds.
Idle == \A s \in Statements : ~At(s, "returning") /\ ~At(s, "raise")

\* palloc: an address that no open statement occupies.
FreePlanAddresses == {a \in PlanAddresses : \A s \in Statements : a \notin stmt[s].pstmt}
FreeDescAddresses == {d \in DescAddresses : \A s \in Statements : d \notin stmt[s].desc}

\* SET pg_yaap.enabled, never between the plan of a statement and its start.
SetEnabled ==
    /\ Idle
    /\ \A s \in Statements : ~At(s, "planned")
    /\ pg_yaap_enabled' = ~pg_yaap_enabled
    /\ UNCHANGED <<pg_yaap_utility_nesting, plans, state_table, bundle_of, stmt,
                   PG_exception_stack>>

------------------------------------------------------------------------------
(* The registries. *)

\* Variant: an entry that is there already stays (emplace).
KeepPlan(a, s) ==
    plans' = [plans EXCEPT ![a] = IF @ = NoStatement THEN s ELSE @]

\* pg_yaap_register_optimizer_plan.
RegisterPlan(a, s) == plans' = [plans EXCEPT ![a] = s]

\* Variant: the plan is not unregistered.
UnregisterState(s) ==
    /\ state_table' = [d \in DescAddresses |->
                          IF d \in stmt[s].desc THEN NoStatement ELSE state_table[d]]
    /\ UNCHANGED plans

\* pg_yaap_unregister_state and pg_yaap_unregister_optimizer_plan.
Unregister(s) ==
    /\ state_table' = [d \in DescAddresses |->
                          IF d \in stmt[s].desc THEN NoStatement ELSE state_table[d]]
    /\ plans' = [a \in PlanAddresses |->
                    IF a \in stmt[s].pstmt THEN NoStatement ELSE plans[a]]

\* pg_yaap_optimizer_bundle_has_tupdesc: the target list was not empty.
HasTupdesc(owner) == owner # NoStatement /\ stmt[owner].kind # "no_columns"

------------------------------------------------------------------------------
(* The hooks. *)

\* pg_yaap_ProcessUtility calls PostgreSQL, which may plan and run statements.
BeginUtility(s) ==
    /\ Idle
    /\ At(s, "idle")
    /\ pg_yaap_utility_nesting' = pg_yaap_utility_nesting + 1
    /\ stmt' = [stmt EXCEPT ![s].pc = "utility", ![s].kind = "utility"]
    /\ UNCHANGED <<pg_yaap_enabled, plans, state_table, bundle_of, PG_exception_stack>>

EndUtility(s) ==
    /\ Idle
    /\ At(s, "utility")
    /\ pg_yaap_utility_nesting' = pg_yaap_utility_nesting - 1
    /\ stmt' = [stmt EXCEPT ![s].pc = "ended"]
    /\ UNCHANGED <<pg_yaap_enabled, plans, state_table, bundle_of, PG_exception_stack>>

\* pg_yaap_planner_hook on a query of kind k.  The plan cache copies the
\* PlannedStmt to another address and drops the first (external).
Plan(s, k) ==
    LET claims == pg_yaap_utility_nesting = 0 /\ pg_yaap_enabled
                  /\ k \in {"select", "no_columns"}
    IN  /\ Idle
        /\ At(s, "idle")
        /\ \E a \in FreePlanAddresses, copied \in CopiesPlans :
              /\ IF claims THEN RegisterPlan(a, s) ELSE UNCHANGED plans
              /\ \E b \in IF copied THEN FreePlanAddresses \ {a} ELSE {a} :
                    stmt' = [stmt EXCEPT ![s].pc = "planned", ![s].kind = k,
                                ![s].claimed = claims, ![s].copied = copied,
                                ![s].pstmt = {b}]
        /\ UNCHANGED <<pg_yaap_enabled, pg_yaap_utility_nesting, state_table,
                       bundle_of, PG_exception_stack>>

\* pg_yaap_ExecutorStart.  A bundle with a tuple descriptor starts the executor
\* of pg_yaap; without one PostgreSQL's starts and no query state is made.
ExecutorStart(s) ==
    \E d \in FreeDescAddresses, a \in stmt[s].pstmt :
        /\ Idle
        /\ At(s, "planned")
        /\ IF HasTupdesc(plans[a]) /\ pg_yaap_enabled
           THEN /\ bundle_of' = [bundle_of EXCEPT ![s] = plans[a]]
                /\ state_table' = [state_table EXCEPT ![d] = s]
           ELSE UNCHANGED <<bundle_of, state_table>>
        /\ stmt' = [stmt EXCEPT ![s].pc = "started", ![s].desc = {d}]
        /\ UNCHANGED <<pg_yaap_enabled, pg_yaap_utility_nesting, plans,
                       PG_exception_stack>>

\* The query state that pg_yaap_lookup_state finds for s, or NoStatement.
LookupState(s) ==
    IF \E d \in stmt[s].desc : state_table[d] # NoStatement
    THEN CHOOSE o \in Statements : \E d \in stmt[s].desc : state_table[d] = o
    ELSE NoStatement

\* pg_yaap_ExecutorRun without a query state: PostgreSQL executes the plan.
RunStandard(s) ==
    /\ Idle
    /\ At(s, "started")
    /\ LookupState(s) = NoStatement
    /\ stmt' = [stmt EXCEPT ![s].pc = "ran", ![s].result = "standard"]
    /\ UNCHANGED <<pg_yaap_enabled, pg_yaap_utility_nesting, plans, state_table,
                   bundle_of, PG_exception_stack>>

\* pg_yaap_execute_query with the state that was found.  PgYaapPipelineRun
\* returns from inside PG_TRY, so PG_exception_stack is left on its frame.
RunPipeline(s) ==
    LET owner == LookupState(s)
    IN  /\ Idle
        /\ At(s, "started")
        /\ owner # NoStatement
        /\ stmt' = [stmt EXCEPT ![s].pc = "returning",
                       ![s].result = IF bundle_of[owner] = s THEN "own" ELSE "foreign"]
        /\ PG_exception_stack' = "gone"
        /\ UNCHANGED <<pg_yaap_enabled, pg_yaap_utility_nesting, plans, state_table,
                       bundle_of>>

\* PgYaapPipelineRun stops in FailEarly, which returns from inside PG_TRY as
\* well, and pg_yaap_execute_query raises.
RunFailsEarly(s) ==
    /\ Idle
    /\ At(s, "started")
    /\ LookupState(s) # NoStatement
    /\ stmt' = [stmt EXCEPT ![s].pc = "raise"]
    /\ PG_exception_stack' = "gone"
    /\ UNCHANGED <<pg_yaap_enabled, pg_yaap_utility_nesting, plans, state_table,
                   bundle_of>>

\* PostgreSQL's PortalRun ends its own PG_TRY and with it restores the handler
\* (external).
PortalReturns(s) ==
    /\ At(s, "returning")
    /\ stmt' = [stmt EXCEPT ![s].pc = "ran"]
    /\ PG_exception_stack' = "caller"
    /\ UNCHANGED <<pg_yaap_enabled, pg_yaap_utility_nesting, plans, state_table,
                   bundle_of>>

\* pg_yaap_ExecutorEnd, also of a statement that was never run; then the
\* QueryDesc and the PlannedStmt are freed.
ExecutorEnd(s) ==
    /\ Idle
    /\ At(s, "started") \/ At(s, "ran")
    /\ Unregister(s)
    /\ stmt' = [stmt EXCEPT ![s].pc = "ended", ![s].pstmt = {}, ![s].desc = {}]
    /\ UNCHANGED <<pg_yaap_enabled, pg_yaap_utility_nesting, bundle_of,
                   PG_exception_stack>>

\* An ERROR anywhere between two calls of a statement or inside one: in its own
\* code, in the optimizer, in pg_yaap_initialize_plan, in the pipelines.
Fails(s) ==
    /\ Idle
    /\ Open(s)
    /\ stmt' = [stmt EXCEPT ![s].pc = "raise"]
    /\ UNCHANGED <<pg_yaap_enabled, pg_yaap_utility_nesting, plans, state_table,
                   bundle_of, PG_exception_stack>>

\* Variant: pg_yaap_ProcessUtility has no PG_CATCH.
UnwindUncaught(s) ==
    /\ At(s, "raise")
    /\ stmt' = [t \in Statements |->
                   IF Open(t) THEN [stmt[t] EXCEPT !.pc = "aborted", !.pstmt = {},
                                                   !.desc = {}]
                   ELSE stmt[t]]
    /\ PG_exception_stack' = "caller"
    /\ UNCHANGED <<pg_yaap_enabled, pg_yaap_utility_nesting, plans, state_table,
                   bundle_of>>

\* Variant: an ERROR counts every open statement down, not only utilities.
UnwindCountsAll(s) ==
    /\ At(s, "raise")
    /\ pg_yaap_utility_nesting' =
          pg_yaap_utility_nesting - Cardinality({t \in Statements : Open(t)})
    /\ stmt' = [t \in Statements |->
                   IF Open(t) THEN [stmt[t] EXCEPT !.pc = "aborted", !.pstmt = {},
                                                   !.desc = {}]
                   ELSE stmt[t]]
    /\ PG_exception_stack' = "caller"
    /\ UNCHANGED <<pg_yaap_enabled, plans, state_table, bundle_of>>

\* The transaction aborts: every PG_CATCH of pg_yaap_ProcessUtility counts its
\* call down, and the open statements are dropped without ExecutorEnd, so that
\* their entries stay.
Unwind(s) ==
    /\ At(s, "raise")
    /\ pg_yaap_utility_nesting' =
          pg_yaap_utility_nesting
          - Cardinality({t \in Statements : Open(t) /\ stmt[t].kind = "utility"})
    /\ stmt' = [t \in Statements |->
                   IF Open(t) THEN [stmt[t] EXCEPT !.pc = "aborted", !.pstmt = {},
                                                   !.desc = {}]
                   ELSE stmt[t]]
    /\ PG_exception_stack' = "caller"
    /\ UNCHANGED <<pg_yaap_enabled, plans, state_table, bundle_of>>

Next ==
    \/ SetEnabled
    \/ \E s \in Statements :
          \/ BeginUtility(s) \/ EndUtility(s)
          \/ \E k \in QueryKinds : Plan(s, k)
          \/ ExecutorStart(s)
          \/ RunStandard(s) \/ RunPipeline(s) \/ RunFailsEarly(s) \/ PortalReturns(s)
          \/ ExecutorEnd(s)
          \/ Fails(s) \/ Unwind(s)

Spec == Init /\ [][Next]_vars

------------------------------------------------------------------------------
(* What the hooks promise. *)

\* Every variable has a value of its type; pg_yaap_utility_nesting, a signed
\* int, never goes below zero.
TypeOK ==
    /\ pg_yaap_enabled \in BOOLEAN
    /\ pg_yaap_utility_nesting \in Nat
    /\ plans \in [PlanAddresses -> Statements \cup {NoStatement}]
    /\ state_table \in [DescAddresses -> Statements \cup {NoStatement}]
    /\ bundle_of \in [Statements -> Statements \cup {NoStatement}]
    /\ stmt \in [Statements ->
                    [pc : Points, kind : Kinds, claimed : BOOLEAN, copied : BOOLEAN,
                     pstmt : SUBSET PlanAddresses, desc : SUBSET DescAddresses,
                     result : {"none", "standard", "own", "foreign"}]]
    /\ PG_exception_stack \in {"caller", "gone"}

\* A SELECT that pg_yaap claimed, and that did not come through the plan cache,
\* is executed by pg_yaap and from the plan that was built for it, whatever
\* entries of failed statements the addresses had before and whatever statements
\* are open at the same time.
ClaimedRunsOwnPlan ==
    \A s \in Statements :
        stmt[s].claimed /\ ~stmt[s].copied /\ stmt[s].kind = "select" =>
            /\ At(s, "started") => LookupState(s) = s /\ bundle_of[s] = s
            /\ stmt[s].result \in {"none", "own"}

\* No entry outlives a query that ended without error: its plan is freed (the
\* plan of a copied statement is not, see the README).
EntriesEndWithQuery ==
    \A s \in Statements : At(s, "ended") =>
        /\ \A a \in PlanAddresses : plans[a] = s => stmt[s].copied
        /\ \A d \in DescAddresses : state_table[d] # s

\* A supported SELECT that starts outside any utility statement is claimed,
\* whatever utility statements failed before: an ERROR does not leave
\* pg_yaap_utility_nesting above zero and pg_yaap off for the session.
SelectsAreClaimed ==
    [][ \A s \in Statements :
          /\ At(s, "idle") /\ stmt'[s].kind = "select" /\ pg_yaap_enabled
          /\ \A t \in Statements : ~At(t, "utility")
          => stmt'[s].claimed ]_vars

\* "ExecutorStart and ExecutorRun hand admitted queries to YAAP's runtime"
\* (README.md): the runtime executes no statement that was not admitted.
OnlyAdmittedQueriesRun ==
    \A s \in Statements : stmt[s].result \in {"own", "foreign"} => stmt[s].claimed
==============================================================================
