--------------------------- MODULE PipelineRuntime ---------------------------
(****************************************************************************)
(* One query on the pipeline runtime: the leader's event loop               *)
(* (PgYaapPipelineRun, pipeline_leader.cpp), the event DAG and its counters *)
(* (event.cpp, task_scheduler.cpp) and the workers that pop and execute     *)
(* tasks (pipeline_worker_main.cpp, task.cpp), from the moment the workers  *)
(* are registered with the queue to the end of the query.                   *)
(*                                                                          *)
(* Event 3p + k is the RUN (k = 0), COMBINE (1) or FINALIZE (2) event of    *)
(* pipeline p.  The task queue is the atomic first-in first-out queue that  *)
(* DsmTaskQueue implements.  event_scheduled[e], event_finished[e] and      *)
(* run_cleanup_done[e] of the leader's loop only repeat what state[e] says  *)
(* and are not kept; ABORTED is never reached, since nothing calls Abort.   *)
(****************************************************************************)
EXTENDS Integers, Sequences, FiniteSets

CONSTANTS
    NumPipelines,
    DependsOn,       \* DependsOn[p]: the pipelines whose FINALIZE p waits for
    Sink,            \* Sink[p]: the type of p's sink operator
    RunTasks,        \* RunTasks[p]: what DeriveRunTaskCount returns for p
    PartitionCount,  \* partition_count of every hash aggregate
    NumWorkers,
    Capacity,        \* capacity of the task queue
    CounterModulus,  \* 2^32 in the code: the range of tasks_remaining
    MaxYields,       \* bound: times a RUN task exhausts its chunk budget
    MaxFaults        \* bound: errors, cancels and crashes, together

Pipelines == 0 .. NumPipelines - 1
Workers == 0 .. NumWorkers - 1
Events == 0 .. 3 * NumPipelines - 1

SinkTypes == {"HASH_AGGREGATE", "PERFECT_HASH_AGGREGATE", "HASH_JOIN",
              "CROSS_PRODUCT", "ORDER", "TOP_N", "OUTPUT"}

ASSUME CountsAssumption ==
    /\ NumPipelines \in Nat \ {0} /\ NumWorkers \in Nat \ {0}
    /\ Capacity \in Nat \ {0} /\ PartitionCount \in Nat \ {0}
    /\ MaxYields \in Nat /\ MaxFaults \in Nat
    /\ CounterModulus \in Nat
    /\ PartitionCount < CounterModulus /\ NumWorkers < CounterModulus

\* CreateChildPipeline gives every pipeline but the first one parent, made
\* before it; DeriveRunTaskCount is at most the number of workers.
ASSUME PlanAssumption ==
    /\ Sink \in [Pipelines -> SinkTypes]
    /\ RunTasks \in [Pipelines -> 1 .. NumWorkers]
    /\ DependsOn \in [Pipelines -> SUBSET Pipelines]
    /\ \A p \in Pipelines, d \in Pipelines : d \in DependsOn[p] => p < d
    /\ \A p, q \in Pipelines : p # q => DependsOn[p] \cap DependsOn[q] = {}

Run(p) == 3 * p
Combine(p) == 3 * p + 1
Finalize(p) == 3 * p + 2
PipelineOf(e) == e \div 3
IsRun(e) == e % 3 = 0
IsCombine(e) == e % 3 = 1
IsFinalize(e) == e % 3 = 2

\* AddDependency: the events that e waits for.
Upstream(e) ==
    IF IsRun(e) THEN {Finalize(d) : d \in DependsOn[PipelineOf(e)]} ELSE {e - 1}

\* The events that NotifyDependents reaches from e, at most one.
Dependents(e) == {d \in Events : e \in Upstream(d)}

CombineIsTrivial(p) == Sink[p] \in {"TOP_N", "OUTPUT"}
FinalizeIsTrivial(p) == Sink[p] = "OUTPUT"

\* The tasks an event stands for: FINALIZE is one task, run by the leader.
TaskCount(e) ==
    LET p == PipelineOf(e)
    IN  CASE IsRun(e) -> RunTasks[p]
          [] IsFinalize(e) -> 1
          [] OTHER -> CASE CombineIsTrivial(p) -> 0
                        [] Sink[p] = "HASH_AGGREGATE" -> PartitionCount
                        [] Sink[p] = "PERFECT_HASH_AGGREGATE" -> 1
                        [] OTHER -> RunTasks[p]

\* Variant: the partitions of a hash aggregate go round all the workers.
AnyWorkerIndex(e, i) ==
    IF IsCombine(e) /\ Sink[PipelineOf(e)] = "HASH_AGGREGATE"
    THEN i % NumWorkers ELSE i

\* What DeriveRunTaskCount returns for p after its RUN: a join of p whose build was
\* released meanwhile counts for one thread.
RunTasksAfterRun(p) ==
    IF \E d \in DependsOn[p] : Sink[d] \in {"HASH_JOIN", "CROSS_PRODUCT"}
    THEN 1 ELSE RunTasks[p]

\* The worker that the i-th task of e is addressed to.
WorkerIndex(e, i) ==
    IF IsCombine(e) /\ Sink[PipelineOf(e)] = "HASH_AGGREGATE"
    THEN i % RunTasksAfterRun(PipelineOf(e)) ELSE i

\* A descriptor is the pair of its event and its number in the event.
Descriptors == {<<e, i>> : e \in Events, i \in 0 .. PartitionCount + NumWorkers}
Tasks == {t \in Descriptors : t[2] < TaskCount(t[1])}
NoTask == <<-1, -1>>

\* Variant: PipelinePostConsumerRunCleanup does not look at the role, so that a
\* join is released after the RUN of its build side already.
BuildsOfAnyRole(p) ==
    {d \in DependsOn[p] \cup {p} : Sink[d] \in {"HASH_JOIN", "CROSS_PRODUCT"}}

\* The builds that the operators of pipeline p probe: joins whose build side is a
\* pipeline that p depends on.
BuildsProbedBy(p) ==
    {d \in DependsOn[p] : Sink[d] \in {"HASH_JOIN", "CROSS_PRODUCT"}}

VARIABLES
    state,                 \* state_ of every event, in the leader
    pending_dependencies,  \* pending_dependencies_ of every event
    released,              \* pipelines whose build payload is freed
    tasks_remaining,       \* EventShmState of every event, in shared memory
    queue,                 \* the shared task queue
    control,               \* PipelineSharedControl: error and shutdown flags
    leader_latch, latch,   \* the process latches of leader and workers
    leader,                \* the leader's program point and loop variables
    worker,                \* the same for each worker
    yields, faults,        \* counters for the bounds
    started, completed,    \* history: tasks begun, tasks run to their end
    emitted                \* history: rows were sent to the client

dagVars == <<state, pending_dependencies, released>>
sharedVars == <<tasks_remaining, queue, control, leader_latch, latch>>
historyVars == <<started, completed, emitted>>
vars == <<dagVars, sharedVars, leader, worker, yields, faults, historyVars>>

LeaderPoints == {"start", "schedule", "push", "top", "raise", "scan", "wait",
                 "shutdown", "join", "emit", "emitted", "catch", "grace",
                 "reap", "done", "failed", "dead"}
WorkerPoints == {"check", "pop", "wait", "popped", "run", "repush", "count",
                 "notify", "catch", "report", "report_own", "exit", "exited"}

\* BuildEvents and AllocateEventShmStates are done, every worker is in its loop
\* and registered with the queue.
Init ==
    /\ state = [e \in Events |-> "PENDING"]
    /\ pending_dependencies = [e \in Events |-> Cardinality(Upstream(e))]
    /\ released = {}
    /\ tasks_remaining = [e \in Events |-> 0]
    /\ queue = << >>
    /\ control = [worker_error |-> 0, message_written |-> FALSE,
                  shutdown_requested |-> 0]
    /\ leader_latch = FALSE
    /\ latch = [w \in Workers |-> FALSE]
    \* event: the event being scheduled, pushed: its tasks pushed so far;
    \* cursor, progress: the scan; resume: where to go on after scheduling.
    /\ leader = [pc |-> "start", event |-> 0, pushed |-> 0, cursor |-> 0,
                 progress |-> FALSE, resume |-> "start"]
    \* stale: the error handler is that of an abandoned PG_TRY; sigterm:
    \* TerminateBackgroundWorker was called; ran, combined: the pipelines with
    \* run_initialized, combine_done.
    /\ worker = [w \in Workers |->
                    [pc |-> "check", task |-> NoTask, stale |-> FALSE,
                     sigterm |-> FALSE, ran |-> {}, combined |-> {}]]
    /\ yields = 0
    /\ faults = 0
    /\ started = {}
    /\ completed = {}
    /\ emitted = FALSE

LeaderAt(point) == leader.pc = point
At(w, point) == worker[w].pc = point
MoveTo(w, point) == worker' = [worker EXCEPT ![w].pc = point]

Fault ==
    /\ faults < MaxFaults
    /\ faults' = faults + 1

WakeRegisteredWorkers == latch' = [w \in Workers |-> TRUE]

TryPush(t) ==
    /\ Len(queue) < Capacity
    /\ queue' = Append(queue, t)
    /\ WakeRegisteredWorkers

\* A popper between its claim and its release still occupies a cell, so a push
\* may be refused although the queue holds fewer than Capacity descriptors.
PushRefused ==
    /\ Len(queue) + Cardinality({w \in Workers : At(w, "popped")}) >= Capacity
    /\ UNCHANGED <<queue, latch>>

------------------------------------------------------------------------------
(* The leader: scheduling events. *)

\* Variant: the first completed dependency schedules the dependent.
FinishEventEager(e, l) ==
    LET ready == {d \in Dependents(e) : state[d] = "PENDING"}
    IN  /\ state' = [x \in Events |-> IF x = e THEN "FINISHED"
                                      ELSE IF x \in ready THEN "SCHEDULED"
                                      ELSE state[x]]
        /\ pending_dependencies' =
              [x \in Events |-> pending_dependencies[x]
                                - (IF x \in Dependents(e) THEN 1 ELSE 0)]
        /\ \/ ready = {} /\ leader' = [l EXCEPT !.pc = leader.resume]
           \/ \E d \in ready : leader' = [l EXCEPT !.pc = "schedule", !.event = d]

\* FinishEvent(e), NotifyDependents and CompleteDependency: a dependent that
\* waited for e alone is scheduled next, within the same call.  The loop
\* variables that change are in l.
FinishEvent(e, l) ==
    LET ready == {d \in Dependents(e) : pending_dependencies[d] = 1
                                        /\ state[d] = "PENDING"}
    IN  /\ state' = [x \in Events |-> IF x = e THEN "FINISHED"
                                      ELSE IF x \in ready THEN "SCHEDULED"
                                      ELSE state[x]]
        /\ pending_dependencies' =
              [x \in Events |-> pending_dependencies[x]
                                - (IF x \in Dependents(e) THEN 1 ELSE 0)]
        /\ \/ ready = {} /\ leader' = [l EXCEPT !.pc = leader.resume]
           \/ \E d \in ready : leader' = [l EXCEPT !.pc = "schedule", !.event = d]

\* The loop over the pipelines without dependencies: TrySchedule of their RUN
\* event.  After the last one the event loop begins.
StartPipeline ==
    LET roots == {p \in Pipelines : DependsOn[p] = {} /\ state[Run(p)] = "PENDING"}
    IN  /\ LeaderAt("start")
        /\ \/ \E p \in roots :
                 /\ \A q \in roots : p <= q
                 /\ state' = [state EXCEPT ![Run(p)] = "SCHEDULED"]
                 /\ leader' = [leader EXCEPT !.pc = "schedule", !.event = Run(p)]
           \/ /\ roots = {}
              /\ leader' = [leader EXCEPT !.pc = "top", !.resume = "scan"]
              /\ UNCHANGED state
        /\ UNCHANGED <<pending_dependencies, released, sharedVars, worker, yields,
                       faults, historyVars>>

\* EnqueueTasks of an event with work for the workers: the counter first.
ScheduleTasks ==
    LET e == leader.event
    IN  /\ LeaderAt("schedule")
        /\ ~IsFinalize(e) /\ TaskCount(e) > 0
        /\ tasks_remaining' = [tasks_remaining EXCEPT ![e] = TaskCount(e)]
        /\ leader' = [leader EXCEPT !.pc = "push", !.pushed = 0]
        /\ UNCHANGED <<dagVars, queue, control, leader_latch, latch, worker, yields,
                       faults, historyVars>>

\* EnqueueTasks of a trivial COMBINE: the event is finished on the spot.
ScheduleTrivialCombine ==
    LET e == leader.event
    IN  /\ LeaderAt("schedule")
        /\ IsCombine(e) /\ TaskCount(e) = 0
        /\ tasks_remaining' = [tasks_remaining EXCEPT ![e] = 0]
        /\ FinishEvent(e, leader)
        /\ UNCHANGED <<released, queue, control, leader_latch, latch, worker, yields,
                       faults, historyVars>>

\* EnqueueTasks of a FINALIZE: a trivial one is executed and finished on the
\* spot, another is left to the scan of the event loop.
ScheduleFinalize ==
    LET e == leader.event
    IN  /\ LeaderAt("schedule")
        /\ IsFinalize(e)
        /\ IF FinalizeIsTrivial(PipelineOf(e))
           THEN /\ tasks_remaining' = [tasks_remaining EXCEPT ![e] = 0]
                /\ started' = started \cup {<<e, 0>>}
                /\ completed' = completed \cup {<<e, 0>>}
                /\ FinishEvent(e, leader)
           ELSE /\ tasks_remaining' = [tasks_remaining EXCEPT ![e] = 1]
                /\ leader' = [leader EXCEPT !.pc = leader.resume]
                /\ UNCHANGED <<started, completed, state, pending_dependencies>>
        /\ UNCHANGED <<released, queue, control, leader_latch, latch, worker, yields,
                       faults, emitted>>

PushTask ==
    LET n == leader.pushed + 1
    IN  /\ LeaderAt("push")
        /\ TryPush(<<leader.event, leader.pushed>>)
        /\ leader' = [leader EXCEPT !.pushed = n,
                          !.pc = IF n = TaskCount(leader.event) THEN leader.resume
                                 ELSE "push"]
        /\ UNCHANGED <<dagVars, tasks_remaining, control, leader_latch, worker,
                       yields, faults, historyVars>>

\* The queue is full: the counter is cleared and the leader raises an ERROR.
PushTaskRefused ==
    /\ LeaderAt("push")
    /\ PushRefused
    /\ tasks_remaining' = [tasks_remaining EXCEPT ![leader.event] = 0]
    /\ leader' = [leader EXCEPT !.pc = "catch"]
    /\ UNCHANGED <<dagVars, control, leader_latch, worker, yields, faults,
                   historyVars>>

------------------------------------------------------------------------------
(* The leader: the event loop. *)

\* Steps that move only the leader's program point.
LeaderMoves(from, to) ==
    /\ LeaderAt(from)
    /\ leader' = [leader EXCEPT !.pc = to]
    /\ UNCHANGED <<dagVars, sharedVars, worker, yields, historyVars>>

\* The head of the loop: worker_error is read, then the scan begins.
Top ==
    /\ LeaderAt("top")
    /\ leader' = IF control.worker_error # 0 THEN [leader EXCEPT !.pc = "raise"]
                 ELSE [leader EXCEPT !.pc = "scan", !.cursor = 0, !.progress = FALSE]
    /\ UNCHANGED <<dagVars, sharedVars, worker, yields, faults, historyVars>>

\* RaiseWorkerFailure copies worker_error_msg and raises.
RaiseWorkerFailure == LeaderMoves("raise", "catch") /\ UNCHANGED faults

\* The event the scan acts on next: events that are not SCHEDULED are passed.
AtCursor(e) ==
    /\ LeaderAt("scan")
    /\ e >= leader.cursor
    /\ state[e] = "SCHEDULED"
    /\ \A x \in Events : leader.cursor <= x /\ x < e => state[x] # "SCHEDULED"

Passed(e) == [leader EXCEPT !.cursor = e + 1]

\* A FINALIZE event is executed inline by the leader and finished.
ScanFinalize(e) ==
    /\ AtCursor(e)
    /\ IsFinalize(e) /\ tasks_remaining[e] > 0
    /\ started' = started \cup {<<e, 0>>}
    /\ completed' = completed \cup {<<e, 0>>}
    /\ tasks_remaining' = [tasks_remaining EXCEPT ![e] = 0]
    /\ FinishEvent(e, [Passed(e) EXCEPT !.progress = TRUE])
    /\ UNCHANGED <<released, queue, control, leader_latch, latch, worker, yields,
                   faults, emitted>>

\* An event without tasks left is finished; the RUN of a consumer releases the
\* build payloads that its operators probed (PipelinePostConsumerRunCleanup).
ScanFinish(e) ==
    /\ AtCursor(e)
    /\ tasks_remaining[e] = 0
    /\ released' = IF IsRun(e)
                   THEN released \cup BuildsProbedBy(PipelineOf(e)) ELSE released
    /\ FinishEvent(e, [Passed(e) EXCEPT !.progress = TRUE])
    /\ UNCHANGED <<sharedVars, worker, yields, faults, historyVars>>

ScanPass(e) ==
    /\ AtCursor(e)
    /\ ~IsFinalize(e) /\ tasks_remaining[e] # 0
    /\ leader' = Passed(e)
    /\ UNCHANGED <<dagVars, sharedVars, worker, yields, faults, historyVars>>

AllEventsFinished == \A e \in Events : state[e] = "FINISHED"

ScanEnd ==
    /\ \A e \in Events : ~AtCursor(e)
    /\ LeaderMoves("scan", IF leader.progress THEN "top"
                           ELSE IF AllEventsFinished THEN "shutdown" ELSE "wait")
    /\ UNCHANGED faults

\* WaitLatch returns, then ResetLatch.
LeaderWakes ==
    /\ LeaderAt("wait")
    /\ leader' = [leader EXCEPT !.pc = "top"]
    /\ leader_latch' = FALSE
    /\ UNCHANGED <<dagVars, tasks_remaining, queue, control, latch, worker, yields,
                   faults, historyVars>>

LeaderWakesOnLatch == leader_latch /\ LeaderWakes

\* The 1000 ms timeout: never counted on, see Fairness.
LeaderWakesOnTimeout == ~leader_latch /\ LeaderWakes

------------------------------------------------------------------------------
(* The leader: the end of the query. *)

\* SignalShutdownAndWait: on success, or (terminate_workers) from PG_CATCH.
SignalShutdown ==
    /\ \/ LeaderAt("shutdown") /\ leader' = [leader EXCEPT !.pc = "join"]
       \/ LeaderAt("catch") /\ leader' = [leader EXCEPT !.pc = "grace"]
    /\ control' = [control EXCEPT !.shutdown_requested = 1]
    /\ WakeRegisteredWorkers
    /\ UNCHANGED <<dagVars, tasks_remaining, queue, leader_latch, worker, yields,
                   faults, historyVars>>

\* Variant: terminate_workers is ignored.
TerminateNobody ==
    /\ LeaderAt("grace")
    /\ leader' = [leader EXCEPT !.pc = "reap"]
    /\ UNCHANGED <<dagVars, sharedVars, worker, yields, faults, historyVars>>

\* 250 ms for every worker, then SIGTERM for those that still run.
TerminateWorkers ==
    /\ LeaderAt("grace")
    /\ leader' = [leader EXCEPT !.pc = "reap"]
    /\ worker' = [w \in Workers |->
                     [worker[w] EXCEPT !.sigterm = ~At(w, "exited")]]
    /\ UNCHANGED <<dagVars, sharedVars, yields, faults, historyVars>>

\* WaitForBackgroundWorkerShutdown has returned for every worker.
WorkersJoined ==
    /\ \A w \in Workers : At(w, "exited")
    /\ LeaderMoves("join", "emit") \/ LeaderMoves("reap", "failed")
    /\ UNCHANGED faults

\* EmitGlobalTdcToDest sends the rows to the client.
EmitResult ==
    /\ LeaderAt("emit")
    /\ leader' = [leader EXCEPT !.pc = "emitted"]
    /\ emitted' = TRUE
    /\ UNCHANGED <<dagVars, sharedVars, worker, yields, faults, started, completed>>

\* Only then worker_error is looked at for the last time.
LastCheck ==
    /\ LeaderMoves("emitted", IF control.worker_error # 0 THEN "raise" ELSE "done")
    /\ UNCHANGED faults

\* An ERROR in the leader: a cancel at CHECK_FOR_INTERRUPTS (the head of the
\* loop, or while it waits for the workers), a failing GetGlobal*State or
\* Finalize, or a client that cannot be written to.
LeaderFails ==
    /\ Fault
    /\ \E point \in {"top", "schedule", "scan", "join", "emit", "emitted"} :
          LeaderMoves(point, "catch")

\* The leader's backend ends without passing PG_CATCH.
LeaderDies ==
    /\ Fault
    /\ \E point \in LeaderPoints \ {"done", "failed", "dead"} :
          LeaderMoves(point, "dead")

LeaderStep ==
    \/ StartPipeline \/ ScheduleTasks \/ ScheduleTrivialCombine
    \/ ScheduleFinalize \/ PushTask \/ PushTaskRefused
    \/ Top \/ RaiseWorkerFailure
    \/ \E e \in Events : ScanFinalize(e) \/ ScanFinish(e) \/ ScanPass(e)
    \/ ScanEnd \/ LeaderWakesOnLatch
    \/ SignalShutdown \/ TerminateWorkers \/ WorkersJoined
    \/ EmitResult \/ LastCheck

------------------------------------------------------------------------------
(* The workers. *)

\* Variant: a worker does not look whether its leader is alive.
ShutdownRequestedByFlag ==
    control.shutdown_requested # 0 \/ control.worker_error # 0

WorkerShutdownRequested ==
    \/ control.shutdown_requested # 0
    \/ control.worker_error # 0
    \/ LeaderAt("dead")

\* Steps that move only a worker's program point.
WorkerMoves(w, from, to) ==
    /\ At(w, from)
    /\ MoveTo(w, to)
    /\ UNCHANGED <<dagVars, sharedVars, leader, historyVars>>

\* The head of the worker's loop.
WorkerChecks(w) ==
    /\ WorkerMoves(w, "check", IF WorkerShutdownRequested THEN "exit" ELSE "pop")
    /\ UNCHANGED <<yields, faults>>

HeadIsFor(w) ==
    queue # << >> /\ WorkerIndex(Head(queue)[1], Head(queue)[2]) = w

\* TryPopForWorker takes the head only if it is addressed to w, and then wakes
\* every registered worker.
WorkerPops(w) ==
    /\ At(w, "pop")
    /\ HeadIsFor(w)
    /\ worker' = [worker EXCEPT ![w].pc = "popped", ![w].task = Head(queue)]
    /\ queue' = Tail(queue)
    /\ WakeRegisteredWorkers
    /\ UNCHANGED <<dagVars, tasks_remaining, control, leader_latch, leader, yields,
                   faults, historyVars>>

WorkerFindsNothing(w) ==
    /\ ~HeadIsFor(w)
    /\ WorkerMoves(w, "pop", "wait")
    /\ UNCHANGED <<yields, faults>>

WorkerWakes(w) ==
    /\ At(w, "wait")
    /\ MoveTo(w, "check")
    /\ latch' = [latch EXCEPT ![w] = FALSE]
    /\ UNCHANGED <<dagVars, tasks_remaining, queue, control, leader_latch, leader,
                   yields, faults, historyVars>>

WorkerWakesOnLatch(w) == latch[w] /\ WorkerWakes(w)

\* The 1000 ms timeout: counted on only to notice that the leader is gone.
WorkerWakesOnTimeout(w) == ~latch[w] /\ WorkerWakes(w)

\* The popped descriptor is dropped if a shutdown was requested meanwhile.
WorkerDrops(w) ==
    /\ WorkerShutdownRequested
    /\ WorkerMoves(w, "popped", "exit")
    /\ UNCHANGED <<yields, faults>>

\* Otherwise Execute begins; a RUN task creates the worker's local states.
WorkerBegins(w) ==
    LET t == worker[w].task
    IN  /\ At(w, "popped")
        /\ ~WorkerShutdownRequested
        /\ started' = started \cup {t}
        /\ worker' = [worker EXCEPT ![w].pc = "run",
                         ![w].ran = @ \cup (IF IsRun(t[1]) THEN {PipelineOf(t[1])}
                                            ELSE {})]
        /\ UNCHANGED <<dagVars, sharedVars, leader, yields, faults, completed,
                       emitted>>

\* Execute returns TASK_FINISHED.  A COMBINE without a partition drops the
\* worker's local states.
TaskCompletes(w) ==
    LET t == worker[w].task
        p == PipelineOf(t[1])
        drops == IsCombine(t[1]) /\ Sink[p] # "HASH_AGGREGATE"
    IN  /\ At(w, "run")
        /\ completed' = completed \cup {t}
        /\ worker' = [worker EXCEPT ![w].pc = "count",
                         ![w].combined = @ \cup (IF drops THEN {p} ELSE {})]
        /\ UNCHANGED <<dagVars, sharedVars, leader, yields, faults, started,
                       emitted>>

\* Execute sees shutdown_requested (or that the leader is gone) and returns
\* TASK_FINISHED over a part of its input.
TaskCutShort(w) ==
    /\ control.shutdown_requested # 0 \/ LeaderAt("dead")
    /\ WorkerMoves(w, "run", "count")
    /\ UNCHANGED <<yields, faults>>

\* A RUN task has used its 32 chunks: TASK_NOT_FINISHED.
TaskYields(w) ==
    /\ IsRun(worker[w].task[1])
    /\ yields < MaxYields
    /\ yields' = yields + 1
    /\ WorkerMoves(w, "run", "repush")
    /\ UNCHANGED faults

TaskFails(w) ==
    /\ Fault
    /\ WorkerMoves(w, "run", "catch")
    /\ UNCHANGED yields

\* Variant: the worker counts the task it hands back as done.
RepushCounts(w) ==
    /\ At(w, "repush")
    /\ TryPush(worker[w].task)
    /\ MoveTo(w, "count")
    /\ UNCHANGED <<dagVars, tasks_remaining, control, leader_latch, leader, yields,
                   faults, historyVars>>

\* The same descriptor is pushed again.  "continue" leaves PG_TRY without
\* PG_END_TRY, so PG_exception_stack stays on the handler of this block.
Repush(w) ==
    /\ At(w, "repush")
    /\ TryPush(worker[w].task)
    /\ worker' = [worker EXCEPT ![w].pc = "check", ![w].stale = TRUE]
    /\ UNCHANGED <<dagVars, tasks_remaining, control, leader_latch, leader, yields,
                   faults, historyVars>>

RepushRefused(w) ==
    /\ PushRefused
    /\ WorkerMoves(w, "repush", "catch")
    /\ UNCHANGED <<yields, faults>>

\* Variant: the counter is a signed number.
CountDownSigned(w) ==
    LET e == worker[w].task[1]
        remaining == tasks_remaining[e] - 1
    IN  /\ At(w, "count")
        /\ MoveTo(w, IF remaining = 0 THEN "notify" ELSE "check")
        /\ tasks_remaining' = [tasks_remaining EXCEPT ![e] = remaining]
        /\ UNCHANGED <<dagVars, queue, control, leader_latch, latch, leader, yields,
                       faults, historyVars>>

\* pg_atomic_sub_fetch_u32 on tasks_remaining.
CountDown(w) ==
    LET e == worker[w].task[1]
        remaining == (tasks_remaining[e] - 1) % CounterModulus
    IN  /\ At(w, "count")
        /\ MoveTo(w, IF remaining = 0 THEN "notify" ELSE "check")
        /\ tasks_remaining' = [tasks_remaining EXCEPT ![e] = remaining]
        /\ UNCHANGED <<dagVars, queue, control, leader_latch, latch, leader, yields,
                       faults, historyVars>>

\* Variant: the last worker does not wake the leader.
NotifyNobody(w) ==
    /\ WorkerMoves(w, "notify", "check")
    /\ UNCHANGED <<yields, faults>>

NotifyLeader(w) ==
    /\ At(w, "notify")
    /\ MoveTo(w, "check")
    /\ leader_latch' = TRUE
    /\ UNCHANGED <<dagVars, tasks_remaining, queue, control, latch, leader, yields,
                   faults, historyVars>>

\* PG_CATCH: the worker that moves worker_error from 0 to 1 owns the message.
CatchError(w) ==
    /\ At(w, "catch")
    /\ MoveTo(w, IF control.worker_error = 0 THEN "report_own" ELSE "report")
    /\ control' = [control EXCEPT !.worker_error = 1]
    /\ UNCHANGED <<dagVars, tasks_remaining, queue, leader_latch, latch, leader,
                   yields, faults, historyVars>>

\* The owner writes the message; then the shutdown flag, SetLatch(leader) and
\* PG_RE_THROW: to the outer PG_CATCH, which repeats the report and exits, but
\* under a stale handler back into the same PG_CATCH.
ReportError(w) ==
    /\ At(w, "report") \/ At(w, "report_own")
    /\ control' = [control EXCEPT !.message_written = @ \/ At(w, "report_own"),
                                  !.shutdown_requested = 1]
    /\ leader_latch' = TRUE
    /\ MoveTo(w, IF worker[w].stale THEN "catch" ELSE "exited")
    /\ UNCHANGED <<dagVars, tasks_remaining, queue, latch, leader, yields, faults,
                   historyVars>>

\* cleanup_and_exit: local states are dropped, the transaction committed.
WorkerExits(w) ==
    /\ WorkerMoves(w, "exit", "exited")
    /\ UNCHANGED <<yields, faults>>

\* cleanup_and_exit raises an ERROR.
ExitFails(w) ==
    /\ Fault
    /\ WorkerMoves(w, "exit", "catch")
    /\ UNCHANGED yields

\* bgworker_die: SIGTERM ends the worker wherever it is.
WorkerDies(w) ==
    /\ worker[w].sigterm
    /\ \E point \in WorkerPoints \ {"exited"} : WorkerMoves(w, point, "exited")
    /\ UNCHANGED <<yields, faults>>

WorkerActs(w) ==
    \/ WorkerChecks(w) \/ WorkerPops(w) \/ WorkerFindsNothing(w)
    \/ WorkerWakesOnLatch(w) \/ WorkerDrops(w) \/ WorkerBegins(w)
    \/ TaskCompletes(w) \/ TaskCutShort(w) \/ TaskYields(w)
    \/ Repush(w) \/ RepushRefused(w) \/ CountDown(w) \/ NotifyLeader(w)
    \/ CatchError(w) \/ ReportError(w) \/ WorkerExits(w)

Next ==
    \/ LeaderStep \/ LeaderWakesOnTimeout \/ LeaderFails \/ LeaderDies
    \/ \E w \in Workers :
          \/ WorkerActs(w) \/ WorkerWakesOnTimeout(w)
          \/ TaskFails(w) \/ ExitFails(w) \/ WorkerDies(w)

Spec == Init /\ [][Next]_vars

\* Leader and workers are scheduled by the operating system, a task's run is
\* finite and SIGTERM is delivered.  Timeouts get no fairness while the leader
\* lives, so that progress must come from the latches; once it is gone a waiting
\* worker has nothing but its timeout.
Fairness ==
    /\ WF_vars(LeaderStep)
    /\ \A w \in Workers :
          /\ WF_vars(WorkerActs(w))
          /\ WF_vars(WorkerDies(w))
          /\ WF_vars(LeaderAt("dead") /\ WorkerWakesOnTimeout(w))

FairSpec == Spec /\ Fairness

------------------------------------------------------------------------------
(* What the runtime promises. *)

\* Every variable has a value of its type; in particular tasks_remaining stays
\* in its 32 bits and the queue in its capacity.
TypeOK ==
    /\ state \in [Events -> {"PENDING", "SCHEDULED", "FINISHED"}]
    /\ pending_dependencies \in [Events -> Nat]
    /\ released \subseteq Pipelines
    /\ tasks_remaining \in [Events -> 0 .. CounterModulus - 1]
    /\ queue \in Seq(Tasks) /\ Len(queue) <= Capacity
    /\ control \in [worker_error : {0, 1}, message_written : BOOLEAN,
                    shutdown_requested : {0, 1}]
    /\ leader_latch \in BOOLEAN /\ latch \in [Workers -> BOOLEAN]
    /\ leader \in [pc : LeaderPoints, event : Events, pushed : Nat, cursor : Nat,
                   progress : BOOLEAN, resume : {"start", "scan"}]
    /\ worker \in [Workers -> [pc : WorkerPoints, task : Tasks \cup {NoTask},
                               stale : BOOLEAN, sigterm : BOOLEAN,
                               ran : SUBSET Pipelines, combined : SUBSET Pipelines]]
    /\ yields \in 0 .. MaxYields /\ faults \in 0 .. MaxFaults
    /\ started \subseteq Tasks /\ completed \subseteq Tasks
    /\ emitted \in BOOLEAN

\* The workers with a task of e in hand, and the tasks of e in the queue.
InHand(e) == {w \in Workers : worker[w].pc \in {"popped", "run", "repush", "count"}
                              /\ worker[w].task[1] = e}
InQueue(e) == {i \in 1 .. Len(queue) : queue[i][1] = e}

\* No error was met: nothing was dropped, cut short or cleared.
Sound ==
    /\ control.worker_error = 0
    /\ leader.pc \notin {"catch", "grace", "reap", "failed", "dead"}
    /\ \A w \in Workers : ~At(w, "catch")

\* tasks_remaining of a scheduled event is the number of its tasks not yet
\* pushed, in the queue or in a worker's hands, so the leader finishes an event,
\* and frees what its tasks read, only when none of them can run any more
\* ("Leader initializes tasks_remaining to N BEFORE pushing", dsm_control.hpp).
CounterCoversTasks ==
    \A e \in Events :
        /\ state[e] = "FINISHED" => InHand(e) = {} /\ InQueue(e) = {}
        /\ ( /\ Sound /\ state[e] = "SCHEDULED" /\ ~IsFinalize(e)
             /\ ~(LeaderAt("schedule") /\ leader.event = e) )
           => tasks_remaining[e] =
                 Cardinality(InHand(e)) + Cardinality(InQueue(e))
                 + (IF LeaderAt("push") /\ leader.event = e
                    THEN TaskCount(e) - leader.pushed ELSE 0)

\* "if COMBINE arrives for a runtime that never RAN, that is a real scheduling
\* bug" (task.cpp): a worker that executes a COMBINE task has executed a RUN task
\* of the same pipeline, and without a partition it has not combined its local
\* state before (the Asserts of PipelineCombineTask::Execute).
CombineFindsState ==
    \A w \in Workers :
        LET e == worker[w].task[1]
            p == PipelineOf(e)
        IN  At(w, "run") /\ IsCombine(e)
            => /\ p \in worker[w].ran
               /\ Sink[p] # "HASH_AGGREGATE" => p \notin worker[w].combined

\* A build payload is freed (ReleaseBuildPayloadAfterConsumerRun) only when no
\* task that probes it runs or will run.
BuildOutlivesProbes ==
    \A p \in Pipelines : BuildsProbedBy(p) \cap released # {} =>
        /\ state[Run(p)] # "PENDING"
        /\ \A w \in Workers : ~(At(w, "run") /\ worker[w].task[1] = Run(p))

\* The leader never sleeps with its latch clear while its scan would make
\* progress or an error waits to be raised, unless a worker is about to wake it.
NoLostLeaderWakeup ==
    LeaderAt("wait") /\ ~leader_latch =>
        /\ \A e \in Events : state[e] = "SCHEDULED" /\ tasks_remaining[e] = 0
              => \E w \in Workers : At(w, "notify")
        /\ control.worker_error = 1 =>
              \E w \in Workers : At(w, "report") \/ At(w, "report_own")

\* The pairs of a task and one it waits for, of the event upstream, or of the one
\* before it when a trivial COMBINE has none.
TaskOrder ==
    {st \in Tasks \X Tasks :
        LET up == Upstream(st[2][1])
        IN  st[1][1] \in up \cup UNION {Upstream(x) : x \in {y \in up : TaskCount(y) = 0}}}

FinalizeTasks == {t \in Tasks : IsFinalize(t[1])}

\* An error was met, by a worker or by the leader.
Doomed == \/ control.worker_error # 0
          \/ leader.pc \in {"catch", "grace", "reap", "failed", "dead"}

Outcome == IF leader.pc \in {"done", "failed"} THEN leader.pc
           ELSE IF emitted THEN "emitted" ELSE "running"

Query == INSTANCE AbstractQuery
           WITH LeaderTasks <- FinalizeTasks, Before <- TaskOrder,
                doomed <- Doomed, outcome <- Outcome

\* Tasks run in the order of the DAG and once, rows are emitted only when all
\* of them are complete, and an error met anywhere is never reported as success,
\* whatever the order in which leader and workers see counters and flags.
ImplementsQuery == Query!Spec

\* A worker caught in the handler of an abandoned PG_TRY.
Spinning(w) == worker[w].stale /\ worker[w].pc \in {"catch", "report", "report_own"}

\* Every query ends, without help from the timeouts, unless the leader joins a
\* worker that spins.
QueryEnds ==
    <>( \/ leader.pc \in {"done", "failed", "dead"}
        \/ LeaderAt("join") /\ \E w \in Workers : Spinning(w) )

\* Workers whose leader is gone exit (the last test of WorkerShutdownRequested),
\* unless they spin.
OrphansExit ==
    LeaderAt("dead") ~> \A w \in Workers : At(w, "exited") \/ Spinning(w)

\* "otherwise WaitForBackgroundWorkerShutdown below blocks forever"
\* (pipeline_leader.cpp): after the shutdown signal every worker stops.
ShutdownStopsWorkers == LeaderAt("join") ~> ~LeaderAt("join")
==============================================================================
