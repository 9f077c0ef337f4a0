# Formal model of pg_yaap

pg_yaap is a PostgreSQL extension that takes analytical queries away from
PostgreSQL's planner and executor. A query passes through an optimizer of its
own, is lowered to a tree of physical operators, sliced into pipelines, and run
by background workers that a leader (the backend of the client) coordinates
through a dynamic shared memory segment. This directory holds TLA+ models of the
optimizer, of the operators and of the runtime below them, the TLC runs that
check them, and TLAPS proofs.

Paths below are relative to `src/src/`; `pipeline/` is
`executor/engine/parallel/pipeline/`.

## Inventory

| Component | State it keeps | Operations | Hard behaviour | Modules |
|---|---|---|---|---|
| Task queue (`pipeline/dsm_task_queue.*`) | two 64-bit cursors, cells with a 32-bit sequence, registry of worker pids | `TryPush`, `TryPopForWorker`, `RegisterWorkerPids`, `WakeRegisteredWorkers` | lock-free interleavings, wrap of the sequence, lost wake-ups, head-of-line blocking | `AbstractTaskQueue`, `DsmTaskQueue` |
| Leader, events, scheduler, workers, tasks (`pipeline/pipeline_leader.cpp`, `event.*`, `task_scheduler.*`, `pipeline_*_event.*`, `pipeline_worker_main.cpp`, `task.*`) | event states and dependencies, `tasks_remaining`, `worker_error`, local sink states | schedule, enqueue, pop, execute, push back, count down, finalize, emit, shut down | order over the DAG, counters against pushes, errors against completion, lost wake-ups, shutdown in the middle of a task | `AbstractQuery`, `PipelineRuntime` |
| Worker start-up and segment (`pipeline/runtime_dsm.*`, start of the leader and worker functions) | ready bits, segment, pid registry | register, attach, connect, ready, give up | start-up races, early death, late starters | `WorkerStartup` |
| Pipeline slicing and descriptors (`pipeline/meta_pipeline.*`, `physical_operator.*`, `pipeline_descriptor.*`) | pipelines under construction, a descriptor per operator and pipeline | `BuildPipelines`, `LeaderSerializePipelines`, `StoreSharedPayloadOnDescriptor`, `ReconstructOp` | direction of dependencies, payloads published to workers that read them at any time | `PlanSlicing` |
| Bridge (`bridge/*`) | registry of plans by `PlannedStmt *`, of states by `QueryDesc *`, utility nesting | planner, executor and utility hooks | entries that outlive their key, errors between hooks | `QueryBridge` |
| Hash join, cross product (`pipeline/physical_hash_join*`, `physical_cross_product*`) | shared payload, local build stores, probe cursor | sink, combine, finalize, probe, release | concurrent combine, resumed probe, release | `HashJoin`, `HashJoinProofs`, `JoinFilter`, `PipelineDrain` |
| Drain loop, filter and projection operators (`pipeline/task.cpp`, `physical_filter.*`, `physical_projection.*`) | scratch chunks, drained flags | push a chunk through the operators | operators that put out several chunks, yields | `PipelineDrain`, `PipelineDrainProofs`, `FilterTape` |
| Aggregates (`pipeline/physical_hash_aggregate*`, `physical_perfect_hash_aggregate*`, `aggregate_hash_table*`) | local tables, partitions, read cursor | sink, combine per partition, finalize, read | growth in the middle of a vector, partition ownership | `HashAggregate`, `SinkProofs` |
| Sequential scan (`pipeline/physical_seq_scan*`, `translator_layout.cpp`) | shared block cursor, pinned page, chunk | claim, load, filter, decode | every block once, chunk full in the middle of a page, cancel | `TableScan`, `FilterTape` |
| Top-N, delim scan, output (`pipeline/physical_top_n*`, `physical_delim_scan*`, `output_sink*`) | shared collections of rows, claims of partitions | sink, finalize, emit | a collection replaced under other workers | `SortedOutput`, `SinkProofs` |
| Translator (`pipeline/yaap_opt_translator*`, `translator_*`, `yaap_pipeline_init*`) | none | plans to operators, filters to tapes | many special cases | `FilterTape`, `JoinFilter`, `SortedOutput`, `PlanSlicing`, `QueryPlan` |
| Optimizer (`optimizer/`) | plan trees | binder adapter, decorrelation, filter passes, join order | passes that rely on each other | `QueryPlan` ... `Optimizer` |
| Tuple data (`pipeline/tuple_data_*`) | row and heap blocks in DSA | append, scan | capacity limits | as far as `SortedOutput`, `HashAggregate`, `HashJoin` use it |
| Expressions, JIT, chunks (`executor/engine/*`) | per-chunk scratch | evaluate | none that is concurrent | not modelled |
| Profile (`pipeline/pipeline_profile.*`) | counters for reports | add | none that a result depends on | not modelled |

`PROJECT.json` lists what is hard to test, by source line and with the
properties that would catch it.

## How the code fits together

    planner hook -> optimizer: translate, normalize, rewrite, order joins
       -> ExecutorStart: plan -> physical operators
       -> ExecutorRun -> PgYaapPipelineRun (leader): slice, start workers
       events RUN -> COMBINE -> FINALIZE per pipeline
       leader --push--> DSM task queue --pop--> worker: execute, count down, wake leader
       leader <--latch, tasks_remaining, worker_error-- workers
       leader --shutdown_requested, latches--> workers exit -> rows are emitted

The models meet at what one part promises the next. `DsmTaskQueue` implements
the queue that `PipelineRuntime` uses; `WorkerStartup` ends where
`PipelineRuntime` begins; `PipelineRuntime` implements `AbstractQuery`, whose
order of tasks (all RUN tasks of a pipeline before its COMBINE, that before
FINALIZE, that before the pipelines which read it) the operator models take for
granted, and `PlanSlicing` shows that the dependencies it gets are the right
ones. `Optimizer` ends in the plan that the operators are made from.

## Modules

### AbstractTaskQueue, DsmTaskQueue, MCDsmTaskQueue, DsmTaskQueueProofs

`AbstractTaskQueue` is what the users of the queue rely on: one bounded
first-in first-out queue, each descriptor addressed to one worker, push and pop
atomic. `DsmTaskQueue` is `dsm_task_queue.cpp` with one action per access to
shared memory: `push_load`, `push_check`, `push_cas`, `push_store`,
`push_publish`, `push_wake` are the program points of `TryPush`, and likewise
for `TryPopForWorker`. The leader pushes a bounded number of tasks; a worker
runs what it pops, may push it back (a RUN task whose chunk budget is used up)
and sleeps on its latch when it finds nothing. A descriptor is reduced to an id
and a worker index. The refinement mapping reads the abstract queue off the
history of claims between the two cursors.

### AbstractQuery, PipelineRuntime, MCPipelineRuntime, MCPipelineRuntimeLive, PipelineRuntimeProofs

`AbstractQuery` is what `PgYaapPipelineRun` promises: tasks start after what
they read is complete, are completed once, rows are emitted only when all are,
and a query that met an error fails. `PipelineRuntime` is the leader, the events
and the workers on top of the abstract queue, for any plan whose pipelines form
a tree as `CreateChildPipeline` makes it. `leader.pc` and `worker[w].pc` are the
program points between accesses to shared state; each action is a stretch of
code between two of them. The chain `FinishEvent` - `NotifyDependents` -
`CompleteDependency` - `TrySchedule` - `EnqueueTasks` runs inside one call of the
scan; it is cut at the pushes, where other processes see it, by the program
points `schedule` and `push`, and `leader.resume` remembers where the scan goes
on. Everything the workers see happens in the code's order: the counter before
the first push, `worker_error` before the message, the shutdown flag before the
latches.

Left out or simplified, on purpose:

- `event_scheduled`, `event_finished` and `run_cleanup_done` repeat the event's
  state; `ABORTED` and `saw_error` are never reached because nothing calls
  `Abort` or sets `saw_error`, whatever `event.hpp` and `dsm_control.hpp` say.
- The queue is atomic; that is what `DsmTaskQueue` shows, except that a push may
  be refused while a popper still owns a cell, which `PushRefused` allows.
- Worker errors, leader errors and cancels, and the death of the leader share
  the bound `MaxFaults`.
- A worker that ends without its handlers (FATAL) is not modelled, nor a second
  cancel inside `PG_CATCH`, nor the death of the postmaster, nor weakly ordered
  memory.

### QueryBridge, MCQueryBridge, QueryBridgeProofs

`QueryBridge` is one backend and its statements. The planner hook claims a
SELECT, keeps its plan under the address of the placeholder `PlannedStmt`;
`ExecutorStart` lowers it into a query state kept under the address of the
`QueryDesc`; `ExecutorRun` runs what it finds and `ExecutorEnd` removes both.
`plans` and `state_table` are the two registries, `stmt` is PostgreSQL's side.
External, and modelled from how the hooks rely on it: the order of the hook
calls; `palloc`, which gives the memory of a statement that is over to a later
one; ERROR recovery, which drops open statements without `ExecutorEnd`; the
handler that `PortalRun` restores; the plan cache, which copies a `PlannedStmt`
of a protocol-level or PL/pgSQL statement and so takes it away from its entry
(`copied`: the copy is the placeholder, PostgreSQL executes it, and the bundle
stays in `OptimizerPlans` for the life of the backend). `ExplainOneQuery` builds
and discards a bundle within one call and leaves no state; `ExecutorFinish`
changes none. A second `ExecutorRun` (a cursor fetched in parts) raises an ERROR,
since the first consumed the plan; it is one of the errors of `Fails`, and how
many rows a run sends is left out. The runtime segment belongs to the query state and is not kept.
A parallel worker of PostgreSQL passes every hook unchanged.

### WorkerStartup, MCWorkerStartup.cfg, WorkerStartupProofs

The part of `PgYaapPipelineRun` before the event loop against the head of the
worker function: registration with the postmaster, the wait for each worker's
ready bit, `FailEarly`, the signal, wake and join of workers on the way out, and
the error report of a worker. Each access to the segment is a step; `Fault`
bounds refused registrations, errors, kills and cancels together. External: the
postmaster and `BackendPidGetProc`. The layout of the segment is data.
The leader gives up for one of three reasons that concern an error of a worker: it
has read the worker's text, or it has found a worker stopped and no text ("exited
before reporting ready"), or the worker was gone before
`WaitForBackgroundWorkerStartup` could report it ("exited before startup completed").
`GuessOnlyWithoutText` is about the second: the leader guesses only while no text is
there, because the winner of `worker_error` has yet to write it or was killed. It
does not say that the first error reaches the client, which the code does not
achieve; see the disagreements.

### PlanSlicing

A tree of operators becomes pipelines (`BuildPipelines` of every kind of
operator), every pipeline gets a descriptor of its own for each operator in it,
and payloads are allocated when the first such pipeline is scheduled, written to
all descriptors, and read by workers when they get their first task of the
pipeline. Rows are abstracted to the operators they passed, so that the output
equals the tree exactly if nothing was missing, unfinished, doubled or freed.

### HashJoin, HashJoinProofs, RecursiveFunctions

Local stores and their growth, both forms of Combine (parallel, with the
preparation by whichever task is first and the lock-free linking in two steps;
and batches under the payload's spin lock), Finalize, the probe with its cursor
that is left and resumed when the output chunk is full, and the release. A batch that
finds no room for the second row of a pair fails while it holds the lock
(`AppendFails`): the lock stays held, and the others leave where the code looks at
`shutdown_requested`, before they ask for the lock. Other failures, and the leader's
SIGTERM after its grace period, are `PipelineRuntime`'s. A key is a pair with its hash given by the first part, so that keys collide. The
fast probe of an INNER join over one integer key keeps the same cursor protocol.
`HashCapacity` is `ComputeHashTableCapacity` without its end: above 2^30 rows the
`uint32_t` of the code is zero before it is large enough and the loop never ends,
a size no model here reaches.

### PipelineDrain, PipelineDrainProofs

`DrainOperatorSuffix`: chunks of a source through filters, projections and cross
products into a sink with two scratch chunks, and with yields of the task. The
cursor of a cross product is the place in the list of its combinations; a row is
the list of the choices that made it, so that a row from the wrong chunk or at the
wrong place is seen. `Reference` is every operator in turn applied to all rows.

### HashAggregate

Hash, single-row and CHAR(1) aggregation: rows are looked up in vectors of
`Lanes` entries, new groups appended, stores and tables grown, partitions merged
by COMBINE tasks, and all read by one cursor. An aggregate is the bag of its
input rows, from which every aggregate function follows. A step that would put
a row into a table without a free slot, or make a table smaller than its rows
(`MayGrow`, `MayAbsorb`), is not taken: the code raises an ERROR there and the
query ends.

### FilterTape, JoinFilter, TableScan

`FilterTape` is the lowering of a WHERE clause to a tape of steps and the
evaluation of a tape by the scan and by the filter operator; `JoinFilter` the
same for the residual conditions of a join, with the shortcut for a single
comparison. `TableScan` puts them to work: readers claim runs of blocks, load a
page, run the tape per row, decode accepted rows to slots; one chunk may end
within a page. The filters that are evaluated apart from SQL are named one by one
(`KnownWrong`, see below); for every other the result is that of SQL's
three-valued logic.

### SortedOutput

ORDER BY and LIMIT from the plan to the client: which LIMITs become top-N
operators, which are left to the output sink, the directions of the sort keys,
the sinks with their shared collections, the delim scan as a parallel source.
`SortAssumption` says what the plans, rows and sizes are.

### SinkProofs

The theorems about the two modules above whose sinks keep something of every row,
`HashAggregate` and `SortedOutput`.

### MCOperators

Composes the operator modules above for TLC: it extends the modules that
theorems are about, takes the others by INSTANCE, and its specification
`OperatorsSpec` runs one component on inputs of its own, the variables of the
others standing still. The components share no state (they meet only through the
order of tasks), so that nothing is lost by running them apart, and one run serves
all. Their properties are checked as the theorems state them.

### QueryPlan, QueryTranslation, PlanRewrites, Decorrelation, JoinOrder, Optimizer, MCOptimizer

`QueryPlan` is the language of plans with a denotation (which rows a plan
delivers over a database, with NULLs and duplicates) and `IsExecutable`, the
conditions under which translator and physical planner take a plan.
`QueryTranslation` gives queries, their answers by SQL, and `TranslatePGQuery`.
The passes are functions from plans to plans: `Decorrelation` with the
normaliser and the clean-up of mark joins, where a rule that gives up leaves the plan
as far as it has changed it: conditions it lifted are gone, a child it moved has
become `Moved`, and the next rule works on what is left. `PlanRewrites` has predicate
extraction, filter pushdown, predicate propagation and folding into scans, and
`JoinOrder`, which returns the set of all trees that some estimate may make the
cheapest. `Optimizer` is the state machine that runs the passes in the order of
`LogicalOptimizer::Optimize`; a pass that meets `Moved` follows a null pointer, and
the backend has crashed. Recursion over plans is by recursive operators;
these modules are for TLC only.

## Runs

| Run | What it shows | Bounds |
|---|---|---|
| `queue` | type correctness, no task lost or taken twice, no lost wake-up, the queue implements the abstract one, and every task finishes | 2 workers, 2 cells, sequence modulo 4, 3 tasks, 1 yield |
| `runtime` | types; the runtime implements the abstract query; a COMBINE finds the state of its RUN; a build payload outlives its probes | 3 pipelines (output over a join whose probe side is an aggregate of 2 partitions), 2 workers, 2 cells (three tasks can be in flight, so a first push and a re-push are refused), 2 yields, 1 fault. With these tasks worker 1 pops and skips tasks of the other but never executes one; the next run has two busy workers, and the theorems any number |
| `runtime_live` | counters, no lost wake-up of the leader, the query ends, workers whose leader died end | 2 pipelines, a join built by 2 workers, 1 yield, 1 fault |
| `runtime_spin` | *violated*: after the shutdown signal the leader's join returns | as `runtime_live` |
| `bridge` | types; a claimed query runs its own plan; entries end with their query; an error in a utility statement does not switch pg_yaap off | 3 statements, 2 addresses of each kind, all kinds of statement, copied plans or not |
| `bridge_admitted` | *violated*: pg_yaap executes only what it admitted | the same, no plan cache |
| `startup` | types; the loop begins with all workers; a failed start leaves none behind and nobody in the segment; a worker that is ready is found; the leader guesses why a worker is gone only while no error has left its text; the start-up ends without a timeout | 2 workers, 2 faults |
| `operators` | each operator delivers what SQL asks of it, whatever the interleaving and wherever chunks, vectors, stores and collections run full; stores live until the release; readers and tasks end, and so do joins but for workers at a lock whose holder failed; a sliced plan computes what the tree does | 2 workers, chunks of 2 rows; stores of 1 or 2 rows, tables of 2 to 4 slots, 2 partitions, vectors of 2, runs of 1 block; the inputs in `MCOperators` |
| `empty_build` | *violated*: the rows put out by a LEFT join are the join | as `operators`, LEFT joins whose build side may be empty |
| `scratch` | *violated*: rows reach the sink | as `operators`, every sequence of up to three operators |
| `optimizer` | after every pass the plan, if it is executable, answers the query; the last one is executable unless the query is one of the ten named to fail, and for these it is not | 49 queries over 3 tables of 2 columns, 5 databases of up to 3 rows per table |
| `optimizer_dropped` | *violated*: the plan answers the query | one query |

Why the bounds are enough. Two workers are the fewest that contend for a cell or
a counter, and with the leader there are three processes on the queue; a modulus
of 4 makes the sequences wrap twice in a run, and the proof covers every modulus
above the capacity. Three pipelines are the fewest with a RUN that waits for two
FINALIZE events, a join to release, a partitioned COMBINE and a trivial one. One
fault at every point shows each race of an error with completion; the fault of a
second worker after the first only repeats the report. `MaxYields` bounds how
often RUN tasks are pushed back: one is enough to reorder the queue and to leave
a stale handler. In `bridge` three statements with two addresses show two open
statements and the reuse of an address by a third; an entry names one owner, so
more statements add no new relation. In `startup` two faults let one worker fail
while the other is late, killed or refused.

In `operators` every size is the smallest at which the boundary it belongs to is
met in the middle of something: chunks of two rows fill up within a page, within
a probe row's matches and within a group scan; stores of one or two rows are
replaced during the input; four slots make two resizes; a vector of two lanes
meets a new group twice. `MCHash`, `MCInputs` and the columns of `MCTable`
contain keys equal in bucket, in salt and in neither, and columns that share a
slot number. The filters are all comparisons of all kinds of columns, all LIKE
patterns up to three letters, and the connectives to depth three, over rows with
equal, smaller, greater, empty, long and NULL values. In `optimizer` the queries
make the rules of each pass apply, alone and after the passes that set them up;
three make a rule of decorrelation give up when it has lifted conditions (one under
an outer join, one in a scalar aggregate, one two levels deep) and three when it has
moved a child, alone, beside and inside another subquery. Which rule of
decorrelation gives up at which operator is not covered in every combination. The
databases have duplicates, NULLs in join columns, unmatched rows on both sides
and empty tables, so that two plans that differ for one of the reasons a rewrite
can go wrong (a lost or doubled condition, an outer join turned inner, a NULL
taken for a value) differ on one of them.

`CHECK_DEADLOCK FALSE` is set where the system really stops: the query is over,
or a refused push has ended it.

## Fairness

Weak fairness of every process: the operating system schedules leader, workers
and postmaster, tasks are finite, SIGTERM is delivered. The one-second timeouts
of `WaitLatch` get none, so that the liveness properties hold by the latches
alone; the one exception is a worker whose leader has died, since nobody else
wakes it. Cancels, errors, kills and yields need not happen. In `operators` the
workers of a join and of a scan are processes of their own; the spin lock of a
join is taken with weak fairness only: a worker that finds it free at last takes it,
and every holder that does not fail lets go. Behind a holder that failed a worker
waits for ever; `JoinEnds` leaves out that worker alone (`AtLostLock`).

## What the violated properties mean

- `ShutdownStopsWorkers`: `continue` inside `PG_TRY` keeps the handler of a block
  that was left; an error raised after a task has yielded once may loop in it.
- `OnlyAdmittedQueriesRun`: after an ERROR the entries stay; a later statement
  at the same address is executed from the old entry.
- `OutputIsJoin`: without build rows there is no hash table, and `Execute` then
  asks for more input whatever the match mode: a LEFT or ANTI join puts out
  nothing.
- `RowsReachTheSink` (in `scratch`): two scratch chunks are not enough for an
  operator between two others that needs several calls for one input; the rows
  it still has to read have been overwritten.
- `PlanAnswersQuery` (in `optimizer_dropped`): a subquery in FROM whose joins
  cannot be ordered leaves a null child, and the join around it goes on without
  that relation.

## Other disagreements met

They have no run of their own; the properties except them where they say so, by
named definitions.

Runtime and bridge:

- `worker_error` is set before the text it announces is written
  (`pipeline/pipeline_worker_main.cpp:268`): a leader that looks in between reports
  "(no message)" (`pipeline/pipeline_leader.cpp:322-328`), where `dsm_control.hpp:16`
  promises the text verbatim.
- At start-up an error's text may miss the client in three ways. A worker that fails
  second may be found stopped before the first has written its text: "exited before
  reporting ready". A worker that has written its text and is gone before
  `WaitForBackgroundWorkerStartup` returns is reported as "exited before startup
  completed", without a look at the text (`pipeline/pipeline_leader.cpp:588-593`). And
  where the text is found, it is passed on as a pointer into a segment that is
  unmapped by the time it is reported (`pipeline/pipeline_leader.cpp:613`).
- An error between the acquisition and the release of a join payload's spin lock (no
  room for the second row of a pair, `pipeline/physical_hash_join.cpp:1510`; an
  allocation or a copy of strings that fails there does the same) leaves it held. A
  worker past its look at `shutdown_requested` waits for the lock, which looks at
  nothing, where `dsm_control.hpp:73` has "siblings drain". `HashJoin` shows it:
  `JoinEnds` fails without its exception `AtLostLock`. In the whole system the wait
  ends with the leader's SIGTERM, or with PostgreSQL's PANIC for a stuck spin lock.
- A COMBINE task that waits for the join's preparer looks at interrupts only, not at
  `shutdown_requested` (`pipeline/physical_hash_join_combine.cpp:300`): if the preparer
  fails, it waits for the leader's SIGTERM.
- The COMBINE of a cross product that outgrows the shared collection keeps the new one
  in `global.build_rows` of its own process
  (`pipeline/physical_cross_product.cpp:341-345`); `payload->build_rows_dp`, which the
  other workers, the leader's Finalize and the probes use, still names the old one.
- The queue's capacity is the constant 64 (`pipeline/task_scheduler.cpp:442`), not the
  sum of task counts that the comment there relies on.
- A bundle without output columns (`SELECT FROM t`) is registered, but
  `ExecutorStart` hands its placeholder to PostgreSQL (`bridge/pg_yaap.c:654`),
  which makes one row of it.
- `PgYaapPipelineRun` returns from inside `PG_TRY`
  (`pipeline/pipeline_leader.cpp:458`); the ERROR that reports an early failure
  jumps to a frame that is gone.
- `output_sink.cpp:572` says that OUTPUT RUN tasks fan out over all workers, but
  `OutputSink::MaxThreads` is 1 (`output_sink.hpp:115`);
  `task_scheduler.cpp:263` says that SEQ_SCAN is the only parallel source, but
  `PhysicalDelimScan` is one too (`physical_delim_scan.hpp:47`).
- `meta_pipeline.hpp` says that pipeline 0 is the leaf-most producer, the code
  makes it the topmost; `event.hpp` and `dsm_control.hpp` describe an abort path
  that nothing takes. The dependency mask of a descriptor is shifted by the
  pipeline id without a check (`pipeline_descriptor.cpp:57-61`), but only the
  workers' copy, which nobody reads, has it.
- Once a join's build is released, `DeriveRunTaskCount` returns 1, so that all
  partitions of a hash aggregate above it are combined by one worker: correct,
  not parallel.

Operators (excepted by `KnownWrong`, `PhantomRows`, `MCCases` and the exceptions
of `ResultOfQuery`):

- Row stores keep no NULL flags. NULL join keys are stored and probed by the value
  their slot held, except that the fast probe skips NULL probe keys; residual filters of a join read a NULL as the value
  the slot held (`physical_hash_join.cpp:1062`, `ReadsNull`); NULLS FIRST is
  ignored.
- The locked form of Combine appends a row of the first key alone where keys and
  payload share a store but differ in layout (`PhantomRows`).
- An aggregate without groups over no rows puts out no row
  (`physical_hash_aggregate.cpp:277`); a CHAR(1) aggregate merges the groups of
  worker 0 alone (`task_scheduler.cpp:344`).
- NOT over a NULL and NOT LIKE of a NULL accept the row. LIKE without a trailing
  `%` is a prefix match, `'%abc'` is a contains; `'a%b'` looks at the first b in
  the scan and never matches in the filter operator (`physical_filter.cpp:117`); a
  constant LIKE a column is turned around.
- A scan compares columns of different kinds or scales by their raw digits, and
  half of an int4 in a 64-bit comparison is not initialised; numeric constants
  are rounded to the column's scale; an integer column against a fraction is an
  ERROR; prefix constants are cut.
- A wide OR, or many conditions, take a register that does not exist: the clamp
  at `yaap_opt_translator_nodes_scan_agg.cpp:592` hides it from the check at
  `physical_seq_scan.cpp:1036`, and no row passes. In a join nothing checks
  (`physical_hash_join.cpp:1831`).
- Columns of two storage classes share a NULL flag when their slots have the same
  number (`translator_layout.cpp:579`).
- The deformer ignores a tuple's number of attributes, so a column added later
  reads what follows; its slow path for numerics scales by 100
  (`executor/engine/core/data_chunk_deform.cpp:147`); `PopulateFilterChunk`
  takes an attribute number for a slot.
- A LIMIT that is not directly on an ORDER BY is carried to the output sink only,
  and is lost under a join, a delim scan or a top-N; sort directions are read off
  the first ORDER BY of the statement's text
  (`yaap_opt_translator_common.cpp:921`); a projection over an ORDER BY keeps the
  positions of its child's keys; a top-N's limit is cut to 32 bits.
- A top-N allocates while it holds the spin lock of its payload
  (`physical_top_n.cpp:423`); the growth of a tuple collection is clamped one
  byte off its own check (`pipeline/tuple_data_collection.cpp:181` against `:115`).

Optimizer (but for the first, queries that are not among those of the run
`optimizer`):

- `PushDownLimit` moves its child before it knows that it applies
  (`optimizer/planner/decorrelate_dependent_join.cpp:1138`); where it does not, the
  LIMIT keeps a null child, and the next pass follows it
  (`optimizer/optimizer/join_predicate_extraction.cpp:263`): the backend crashes for
  `EXISTS (SELECT 1 FROM b WHERE b.x < a.x LIMIT 1)`. These are the `MovedQueries` of
  the run. The other rules that give up lose the conditions they lifted, but what they
  leave still names a column of the outer query, so that it ends in an ERROR
  (`RefusedQueries`); `FinalPlanIsExecutable` says that none is ever executable.
- A filter on a subquery in FROM is pushed through its LIMIT
  (`optimizer/planner/mark_join_cleanup.cpp:177-183`); a filter above a LEFT join becomes
  its join condition; predicate propagation collects equalities below LEFT and
  ANTI joins.
- A scalar subquery in the SELECT list, and every JOIN_SINGLE, is executed as an
  INNER join; a correlated `count(*)` has no row where SQL has 0; an
  EXISTS without a condition that connects it with the query around it is a cross
  product, also where it is nested and names columns of the outermost query only; NOT IN is an ANTI join, also over NULLs; EXISTS over
  an aggregate without groups is not always true.
- IN together with an equality on the same column may give duplicates; marks
  inside an OR become semi joins; duplicate terms in a disjunct make
  `FactorCommonDisjunctConjuncts` drop a condition; `CloneOrientedFilter` swaps
  the arguments of any binary function, `<` included.
- Delim columns are bound
  by position, but collected top-down in the adapter and bottom-up in the
  decorrelation; a nested delim scan is bound to the outermost delim join; some
  equalities of a delim join are dropped
  (`optimizer/physical/physical_plan_generator.cpp:101-172`); nested semi joins lose
  tautological equalities.
- `a.x = 1 OR c.y = 2` over tables that no condition connects is an ERROR, and so
  is an inner join whose order leaves a join without an equality. An ERROR it
  is in every such case (`bridge/optimizer_registry.cpp:64`,
  `bridge/pg_yaap.c:699`): there is no way back to PostgreSQL.

## Proofs

`DsmTaskQueueProofs` proves for every set of workers, every capacity of at least
two and every modulus above the capacity: `TypeCorrect` (the type invariant),
`CellsOwned` (the inductive invariant `IInv`), `QueueImplementsFifo`,
`TasksAreKept` and `WorkersAreWoken`. The type
invariant alone is not enough because a process acts on a position it has read
earlier; `IInv` says of every cell who owns it, between the cursors a published
descriptor or one pusher, outside them a free cell or one popper, and of every
process what it still knows if its cursor has not moved. The arithmetic lemmas
at the front show that positions less than `SeqModulus` apart are told apart by
their truncated sequences. `TasksAreKept` (no task is lost or run twice) needs
nothing of the cells any more: since every step of the queue is one of the
abstract queue's (`NextIsQueueStep`), it is enough that an issued task that is
not done is in one place, in the queue or with one process, and that the ids of
the queue differ (`TaskInv`). `WorkersAreWoken` (a worker for which a task is at
the head does not go to sleep for good) speaks of a worker whose observation may
be old: while it examines a position that the cursor has left behind, whoever
moved the cursor has still to set the latches, or has set its latch already
(`StaleInv`). Assumed are the four named assumptions on the constants in
`DsmTaskQueue`.

`QueryBridgeProofs` proves for every finite set of statements and all sets of
addresses, finite or not, the four properties that the run `bridge` checks:
`TypeCorrect`, `ClaimedRunsOwn`, `EntriesEnd` and `SelectsClaimed`. Its inductive
invariant `IInv` has to say three things the properties do not. The nesting
count is the number of open utility statements (`NestingCounts`), otherwise an
ERROR could count it below zero. An address is of one statement
(`AddressesAreOwned`), otherwise one statement's `ExecutorEnd` could remove
another's entry. A claimed SELECT finds its entries at its addresses from the
planner on (`FindsItsEntries`), although its address may have had an entry
before. Each part has a lemma with one step per action; the effect lemmas
(`PlanEffect`, `StartEffect`, ...) say first what an action does to each field.
Assumed is `BridgeAssumption`.

`WorkerStartupProofs` proves the five safety properties of the run `startup` for
every number of workers and every number of faults: `TypeCorrect`,
`LoopFindsWorkers`, `FailureCleansUp`, `ReadyAreFound` and `GuessesLackText`.
The leader looks at one worker after the other and acts on what it saw, so the
inductive invariant `IInv` says what it may still rely on: `LeaderPassed`, that
the workers behind its position are past their ready bit and those it has not
registered have not been heard of; and for every worker (`WorkerInv`), that it
exists exactly between its start and its end as the postmaster sees them, is in
the ProcArray from its connection to its end, has the segment mapped only while
it exists, has its ready bit set only after it has connected, and, if its error
is the one in `worker_error`, has written the text before it ends, unless
it was killed. For `GuessesLackText` this has to be turned around: a set
`worker_error` has an author among the workers (`ErrorHasAuthor`), whoever of them the
leader has found stopped. `WorkerKeeps` collects what no step takes back; with it the
leader's old observations still hold when it uses them. Assumed is
`StartupAssumption`.

`PipelineRuntimeProofs` proves the safety properties of the runs `runtime` and
`runtime_live` for every tree of pipelines, every number of workers and
partitions, every capacity of the queue and any number of faults: `TypeCorrect`,
`CountersCover`, `CombinesFindState`, `BuildsOutlive` and `LeaderWakeupKept`, from
the inductive invariant `Inv` (`Invariance`). `CounterCoversTasks` is not
inductive: it speaks of runs without an error only, while a worker that has seen
no error yet counts down next to one that has. So `CounterInv` says two things of
an event's counter: that without an error it equals what is unpushed, queued and
in hand, and always that it is at least the number of tasks that are not over
(`LeftOf`), which is why a decrement never wraps and an event is never finished
early. `PlaceInv` says when the tasks of an event may be about at all,
`QueueInv` that a task is in one place, `DependencyInv` that
`pending_dependencies` counts the unfinished events upstream; `HistoryInv` carries
a RUN task's local state to the COMBINE of its worker, and `WakeInv` carries the
leader's wake-up through its scan. Most
actions move no task (`Quiet`, one lemma for all of them); those that schedule,
push, pop, push back, count down or finish have a lemma each.

Its second part proves `RuntimeImplementsQuery`: the runtime implements
`AbstractQuery`. Beyond `Inv` this needs that an error is never overlooked.
Whatever fails leaves a task that was started, is in no place any more and was
never counted (`Lost`); the counter of its event stays above the tasks that are
left, so the event is never finished (`LostKept`, a conclusion of every lemma on
a step) and the leader cannot reach the end of its loop (`EndInv`); rows are
emitted only when every worker has exited (`EmitInv`). Then each step is one of
the abstract query's or a stutter: `WorkerSimulates`, `LoopSimulates` and
`EndSimulates`.

The module assumes `CountsAssumption` and `PlanAssumption`: a counter wider than the task
counts (32 bits against the numbers of workers and of partitions), and that
pipelines form the tree `CreateChildPipeline` makes of them, which `PlanSlicing`
checks on its plans.

`HashJoinProofs` proves of the hash join, for every number of workers, every
input, every size of chunks and batches and all layouts of a plan:
`TypesAreKept`, `StoresAreLive` (what the workers and the prober use has been
allocated and not freed) and `ChainsAreComplete` (once every worker has combined,
a bucket's chain is exactly the rows of the bucket, each once, and ends), from
the inductive invariant `JoinInv` (`Invariance`). None of the three is inductive.
In a parallel combine one worker prepares and the others wait or link; who may be
where with which value of `prepare` is `PhaseInv` and `PrepareInv`. From the sums
on (`Summed`) the workers' ranges are disjoint and cover the table, and what a
worker has linked lies in its range (`RangeInv`). The chains are the difficulty: a
worker exchanges the head of a bucket in one step and stores the link to the old
head in a second, so that in between the chain is cut, and links may point to
rows with larger or smaller numbers. `ChainInv` orders the rows by a `rank`, the
time at which the head of a row's bucket was set to it: the head has the greatest
rank, a stored link leads to the row with the next smaller rank in the bucket,
and a link that is still to be stored is in the hands of its worker. Existence
of such a rank is invariant, no history variable is needed, and at the end it
makes every chain finite and complete. `LiveInv` says that before the release
what is live is exactly what the phase and the stores have allocated.

The module begins with the recursive functions that this rests on:
`HashCapacity` exists and is at least twice the number of rows, the running sums
of the offsets are those of disjoint ranges, and following links from the greatest
member of a ranked set visits the set and stops (`ChainOfLinked`). They are
inductions, and the library's theorems for these take an operator as argument.
`RecursiveFunctions`, which the proofs of the join, the aggregation and the drain
loop share,
has them in another form: induction for a set of numbers (`NumberInduction`, by
the least counterexample, from the well-foundedness of the natural numbers), the
existence of the function a recursion describes (`Iteration`), and what
`FlattenSeq` of the community modules, a recursion of this kind, does to a
sequence that grows (`FlattenAppend`, `FlattenConcat`).

The second part of `HashJoinProofs` proves `JoinOutputs`: when the prober is done, what was put
out is the bag of rows that SQL defines for the join, whether INNER, LEFT, SEMI
or ANTI, with and without a residual filter, and wherever the output chunk ran
full. The inductive invariant (`OutputInvariance`) adds two parts to `JoinInv`.
`AppendInv`: the rows that batches have appended to the table are the rows of the
input, each once. `OutputInv` is an account: what is in `emitted` and in the
output chunk is what SQL asks for of the probe rows that are closed and, of the
row the cursor is at, the matches it has passed, which are the rows of the bucket
with a rank above the cursor's (`Progress`); nothing is put out twice and no row
is left before its end (`Tally`). It is stated for every rank that orders the
chains, since the step from one row to the next does not know which one
`ChainInv` has in hand. The two exceptions of `JoinOutput`, `EmptyBuild` and
`PhantomRows`, are those of the code (see the violated properties and the
disagreements) and are used only where it deviates.

The module assumes `WorkersAssumption` (workers are numbered from 1),
`SizesAssumption`, `RowsAssumption` and `LayoutsAssumption` (two row layouts that
are equal agree on whether they have strings).

`PipelineDrainProofs` proves of a RUN task `TaskTypes` (no chunk takes more than it
has room for, whatever the plan) and `RowsReach`: the sink takes the rows of the
reference in order and all of them, for every source, chunk size and budget and
every plan without an operator in the middle that puts out several chunks for an
input (`InputIsOverwritten`). That condition is the boundary of the defect which
the run `scratch` shows; the proof says that nothing else has to be feared of two
scratch chunks: a cross product over several build rows may be first, where its
input is the source's own chunk, or last, where nobody writes to its input before
it is called again, and filters, projections and products with at most one build
row may be anywhere (`KeptBelow`). The inductive invariant `FlowInv` is an account.
`CursorsInv`: the operators behind the running one start afresh, and one before
it that is not done with its input is a cross product over several rows, in a
place of that input. `AccountInv`: what the sink has, what the plan makes of the
running operator's unread input (`Ahead`), and `todo`, what the operators before
it still owe, are the reference in this order. `Push(plan)[d]` is what the
operators from `d` on make of rows; that it takes rows one by one (`PushConcat`)
is why a chunk may be cut anywhere. `AppliedCross` is the arithmetic of the
cursor: the k-th combination is that of row (k - 1) div n + 1 and
build row (k - 1) mod n + 1. Assumed are `BudgetAssumption`, `PlansAssumption` and
`SourcesAssumption`: chunks are not empty and fit in a chunk.

`SinkProofs` proves of the aggregation `GroupsFound` (every group of a
store has one row, and probing for the group finds it) and `AggregateTyped` (no
store has more rows than room or slots, and a slot holds a row of the store or
nothing), for every number of workers and partitions, every input, every size of
vectors, stores and tables, and all hash values. `GroupsAreFound` is not inductive:
a vector of rows is answered over several passes, while the rows that wait in
`deferred` have been probed up to somewhere, stores grow between two partitions,
tables are built anew by a resize, and a row that is new is put where the table
*was* free as the pass read it. The inductive invariant `Shape` (`StoresAreRight`)
says of a store (`StoreOK`) that every row is in the first slot of its group's
probe sequence that no earlier row took; of a vector that is under way
(`BatchOK`) that whoever waits has passed slots of other groups' rows only, and
the row it passed last is still there; of the rows a chunk has answered
(`Answered`) that they are the rows of their groups, whatever was appended or
moved since; of the tables that COMBINE tasks fill (`GlobalOK`) the same as of a
local one. The arithmetic it rests on: sizes are powers of two and steps are odd, so
a group's probe sequence visits every slot before it repeats one, and a table with
a free slot has one in every sequence (`TwoToFacts` and what follows). Rehashing
all rows in order gives a table of the same kind, by induction on the rows
(`NumberInduction` of `RecursiveFunctions`). Assumed are `AggregateSizes`,
`HashAssumption` (the steps of the code are made odd, `| 1`) and
`CasesAssumption`.

What the aggregates hold is a second invariant on top of `Shape` (`Content`). A
worker that has sunk n chunks has, in the row of every group, the bag of exactly the
rows of its first n chunks that have this group, and no group of these is missing.
Between the lookups of a chunk and its update nothing is added but empty rows, which
is why the invariant speaks of whole chunks and does not see the order of the lookups.
A shared partition holds exactly the rows its COMBINE task has merged: those of the
workers before the one it is at, and of that one the rows of the groups before its
row; nothing is merged before the last worker has sunk its last chunk. The cursor has
put out a prefix of the result, and nothing changes the result once it has begun
(`ReaderOK`). At the end every row of every store has been merged, the partitions have
disjoint groups, and the result, the rows of all partitions one after the other, has
every group once (`FlattenElements`). `AggregateExact` states `AggregateIsExact` under
the condition `RowsAreMerged`, which is about the input only and leaves out the two
cases in which groups are missing from the code's result: rows of a perfect hash
aggregate sunk by a worker other than the one whose stores are merged, and an aggregate
without group columns over no rows. `MCCases` leaves out the same two.

Of the top-N and the output sink `SinkProofs` proves `BestRowsKept`: whatever has been
sunk so far, the collection that is published has as many of these rows as the sink
keeps, and none of the rows it dropped comes before one it has, for every plan, all
partitions and rows, every number of workers and every size of chunks and heaps. The
workers' chunks interleave, a collection is replaced when it is full of rows or of
string bytes, and the sink of the output uses the collection its task has in hand
while a top-N takes the published one again for every row. The inductive invariant
`SortInv` says which pipelines the plan became (`PlanIsRun`); that whoever runs is a
task of the running pipeline, and that a task of the output pipeline, of which there is
one, has the published collection in hand (`SortersRun`); that the published
collections of all pipelines are allocated and differ (`SheetsAreThere`); and, for the
running pipeline, that the rows of its collection are an injective choice of the rows
it was given that nothing outside of it comes before (`SinkHasBest`, `BestOf`). The
choice is what makes the step provable: a row that
replaces the worst one takes its place, and since keys compare rows by a weak order
(`OrderIsWeak`), the row that `FindWorst` finds comes before no other (`WorstIs`), so
whatever was dropped before is still not better than what stays (`BestOfExchange`).
From the choice the statement about bags follows by counting (`ChosenCount`). Assumed
is `SortAssumption`.

Model-checked only are the other operators and the optimizer. Liveness under
fairness and ENABLED are out of the prover's reach everywhere. So are the
recursive operators on plans, tapes and trees in the optimizer, filter and slicing
modules (`SlicesComputePlan`, `ScanOutput`, `PlanAnswersQuery`,
`FinalPlanIsExecutable`), and that the tree of pipelines has the shape
`PlanSlicing` shows on its small trees, and `ResultOfQuery`: induction as in `RecursiveFunctions` works for
recursive functions on numbers, not for RECURSIVE operators.

## Not modelled

- Evaluation of expressions, the JIT compiler, the column chunks, dates, decimals
  and strings as far as no filter depends on them: data conversion, with tests.
- The profile, phase timers and trace output.
- Statistics, costs and cardinalities. `JoinOrder` returns every tree that some
  estimate may choose, so no property depends on them.
- `RemoveUnusedColumns`, since `TranslateTableScanNode` adds the columns again
  (rows keep all columns in the model), and `CleanupRedundantDelimJoins`, which
  never finds anything.
- Set operations, OFFSET, window functions, type coercions and function calls in
  the binder adapter.
- The layout of the segment and of tuples, the serialisation of descriptors: fixed
  formats, read and written by the same functions.
- The read stream and buffer manager below the claim of blocks; PostgreSQL's
  pages.
- `PhysicalOrder`, which the translator never creates; `TryPop`, which has no
  caller; the build of a cross product, whose growth under COMBINE is a disagreement
  above: `PipelineDrain` and `PlanSlicing` start from a finished one.
- NULL join keys (see the disagreements: the code has no flag for them) and
  DISTINCT counts, which one worker computes alone.
- Weakly ordered memory: every access is sequentially consistent. The publication
  of a cell's sequence without a release barrier would need a model of store
  buffers.
- A worker that ends by FATAL during the event loop: nothing in the leader handles
  it, so there is no behaviour to check against.

## Plan

Next in order of use: a theorem for `TableScan.PagesAreHeldOnce`, for which the claims
of blocks have to be told apart from the evaluation of tapes; a store-buffer model of the queue's publication; set operations in `QueryTranslation`.
