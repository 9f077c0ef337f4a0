------------------------ MODULE PipelineRuntimeProofs ------------------------
(****************************************************************************)
(* The pipeline runtime for every plan, number of workers and number of     *)
(* faults: an inductive invariant and the safety properties that follow     *)
(* from it.  The invariant says where each task of each event is; what a    *)
(* counter covers, what a COMBINE finds and when the leader may sleep       *)
(* follow from that.                                                        *)
(****************************************************************************)
EXTENDS PipelineRuntime, FiniteSetTheorems, SequenceTheorems, WellFoundedInduction, TLAPS

HandPoints == {"popped", "run", "repush", "count"}

\* The task a worker has taken and neither counted, handed back nor lost.
Hand(w) == IF worker[w].pc \in HandPoints THEN worker[w].task ELSE NoTask

Held(t) == \E w \in Workers : Hand(w) = t
Queued(t) == \E i \in 1 .. Len(queue) : queue[i] = t
Unpushed(t) == LeaderAt("push") /\ leader.event = t[1] /\ t[2] >= leader.pushed

TasksOf(e) == {t \in Tasks : t[1] = e}

\* The leader has not left its loop with an error.
Live == leader.pc \notin {"catch", "grace", "reap", "failed", "dead"}

\* No task has reason to stop before the end of its input.
Uncut == control.shutdown_requested = 0 /\ ~LeaderAt("dead")

\* Nothing of e has been given to the workers.
Fresh(e) == state[e] = "PENDING" \/ (LeaderAt("schedule") /\ leader.event = e)

\* The tasks of e that are not over.
Left(t) ==
    \/ t \notin started
    \/ Uncut /\ t \notin completed
    \/ Unpushed(t) \/ Queued(t) \/ Held(t)
LeftOf(e) == {t \in TasksOf(e) : Left(t)}

Rest(e) == IF LeaderAt("push") /\ leader.event = e
           THEN TaskCount(e) - leader.pushed ELSE 0
Outstanding(e) == Cardinality(InHand(e)) + Cardinality(InQueue(e)) + Rest(e)

Counted(e) == Live /\ state[e] = "SCHEDULED" /\ ~Fresh(e)

\* What the counter of an event covers.
CounterInv(e) ==
    /\ Fresh(e) => tasks_remaining[e] = 0
    /\ Counted(e) =>
          /\ tasks_remaining[e] >= Cardinality(LeftOf(e))
          /\ Sound /\ ~IsFinalize(e) => tasks_remaining[e] = Outstanding(e)

\* Tasks are about only while their event is scheduled.
PlaceInv(e) ==
    /\ IsFinalize(e) \/ Fresh(e) \/ state[e] = "FINISHED" =>
          \A t \in TasksOf(e) : ~Queued(t) /\ ~Held(t)
    /\ state[e] = "FINISHED" =>
          \A t \in TasksOf(e) : t \in started /\ (Uncut => t \in completed)
    /\ Fresh(e) \/ (IsFinalize(e) /\ state[e] # "FINISHED") =>
          \A t \in TasksOf(e) : t \notin started

Waited(e) == {u \in Upstream(e) : state[u] # "FINISHED"}

DependencyInv(e) ==
    /\ pending_dependencies[e] = Cardinality(Waited(e))
    /\ state[e] # "PENDING" => Waited(e) = {}

\* A task is in one place.
QueueInv ==
    /\ \A i, j \in 1 .. Len(queue) : queue[i] = queue[j] => i = j
    /\ \A t \in Tasks : /\ Queued(t) => ~Held(t) /\ ~Unpushed(t) /\ t \notin completed
                        /\ Held(t) => ~Unpushed(t)
                        /\ Unpushed(t) => t \notin completed

WorkerInv(w) ==
    /\ worker[w].pc \in HandPoints =>
          worker[w].task \in Tasks /\ WorkerIndex(worker[w].task[1], worker[w].task[2]) = w
    /\ worker[w].pc = "repush" => IsRun(worker[w].task[1])
    /\ worker[w].pc \in {"run", "repush", "count"} => worker[w].task \in started
    /\ worker[w].pc \in {"popped", "run", "repush"} => worker[w].task \notin completed
    /\ worker[w].pc = "count" /\ Uncut => worker[w].task \in completed

HistoryInv(w) ==
    /\ \A p \in Pipelines :
          /\ <<Run(p), w>> \in started /\ w < RunTasks[p] => p \in worker[w].ran
          /\ p \in worker[w].combined =>
                Sink[p] # "HASH_AGGREGATE" /\ <<Combine(p), w>> \in completed

ErrorInv ==
    /\ \A w \in Workers : worker[w].pc \in {"report", "report_own"} => control.worker_error = 1
    /\ \A w \in Workers : worker[w].sigterm => ~Live
    /\ control.shutdown_requested # 0 =>
          control.worker_error # 0 \/ ~Live \/ AllEventsFinished

LeaderInv ==
    /\ leader.pc = "start" => leader.resume = "start"
    /\ leader.pc \in {"schedule", "push"} =>
          /\ state[leader.event] = "SCHEDULED"
          /\ leader.resume = "start" \/ leader.progress
    /\ leader.pc = "push" =>
          ~IsFinalize(leader.event) /\ leader.pushed < TaskCount(leader.event)
    /\ leader.pc \in {"shutdown", "join", "emit", "emitted", "done"} => AllEventsFinished

ReleasedInv ==
    \A d \in released :
        \E p \in Pipelines : d \in BuildsProbedBy(p) /\ state[Run(p)] = "FINISHED"

\* What wakes a leader that is going to sleep.
WakeInv ==
    (LeaderAt("wait") \/ (LeaderAt("scan") /\ ~leader.progress)) /\ ~leader_latch =>
        /\ \A e \in Events : state[e] = "SCHEDULED" /\ tasks_remaining[e] = 0
              /\ (LeaderAt("scan") => e < leader.cursor)
              => \E w \in Workers : At(w, "notify")
        /\ control.worker_error = 1 =>
              \E w \in Workers : At(w, "report") \/ At(w, "report_own")

\* An event is one of the three of its pipeline.
LEMMA EventKinds ==
    ASSUME NEW e \in Events
    PROVE  /\ e \in Int
           /\ PipelineOf(e) \in Pipelines
           /\ \/ IsRun(e) /\ ~IsCombine(e) /\ ~IsFinalize(e) /\ e = Run(PipelineOf(e))
              \/ ~IsRun(e) /\ IsCombine(e) /\ ~IsFinalize(e) /\ e = Combine(PipelineOf(e))
              \/ ~IsRun(e) /\ ~IsCombine(e) /\ IsFinalize(e) /\ e = Finalize(PipelineOf(e))
BY CountsAssumption DEF Events, Pipelines, PipelineOf, IsRun, IsCombine, IsFinalize, Run,
   Combine, Finalize, CountsAssumption

\* The events of a pipeline are its RUN, its COMBINE and its FINALIZE.
LEMMA PipelineEvents ==
    ASSUME NEW p \in Pipelines
    PROVE  /\ Run(p) \in Events /\ Combine(p) \in Events /\ Finalize(p) \in Events
           /\ PipelineOf(Run(p)) = p /\ PipelineOf(Combine(p)) = p /\ PipelineOf(Finalize(p)) = p
           /\ IsRun(Run(p)) /\ IsCombine(Combine(p)) /\ IsFinalize(Finalize(p))
BY CountsAssumption DEF Events, Pipelines, PipelineOf, IsRun, IsCombine, IsFinalize, Run,
   Combine, Finalize, CountsAssumption

\* There are finitely many events.
LEMMA EventsFinite == IsFiniteSet(Events)
BY CountsAssumption, FS_Interval DEF Events, CountsAssumption

\* The events upstream are others, and finitely many.
LEMMA UpstreamFacts ==
    ASSUME NEW e \in Events
    PROVE  /\ Upstream(e) \subseteq Events /\ IsFiniteSet(Upstream(e))
           /\ e \notin Upstream(e)
<1>1. CASE IsRun(e)
    <2>1. \A d \in DependsOn[PipelineOf(e)] : d \in Pipelines /\ Finalize(d) \in Events
                                               /\ Finalize(d) # e
        BY <1>1, EventKinds, PipelineEvents, PlanAssumption DEF PlanAssumption
    <2> QED
        BY <1>1, <2>1, EventsFinite, FS_Subset DEF Upstream
<1>2. CASE ~IsRun(e)
    <2>1. e - 1 \in Events /\ e - 1 # e
        BY <1>2, EventKinds, PipelineEvents, CountsAssumption
        DEF Events, Run, Combine, Finalize, Pipelines, CountsAssumption
    <2> QED
        BY <1>2, <2>1, FS_Singleton DEF Upstream
<1> QED
    BY <1>1, <1>2

\* The task counts fit into the counter and into a descriptor.
LEMMA TaskCounts ==
    ASSUME NEW e \in Events
    PROVE  /\ TaskCount(e) \in Nat
           /\ TaskCount(e) < CounterModulus
           /\ TaskCount(e) <= PartitionCount + NumWorkers
           /\ IsRun(e) => TaskCount(e) = RunTasks[PipelineOf(e)] /\ TaskCount(e) > 0
           /\ IsFinalize(e) => TaskCount(e) = 1
<1>1. PipelineOf(e) \in Pipelines /\ (IsRun(e) => ~IsFinalize(e))
    BY EventKinds
<1>2. RunTasks[PipelineOf(e)] \in 1 .. NumWorkers
    BY <1>1, PlanAssumption DEF PlanAssumption
<1>3. /\ IsRun(e) => TaskCount(e) = RunTasks[PipelineOf(e)]
      /\ IsFinalize(e) => TaskCount(e) = 1
      /\ TaskCount(e) \in {0, 1, PartitionCount, RunTasks[PipelineOf(e)]}
    BY <1>1 DEF TaskCount
<1> QED
    BY <1>2, <1>3, CountsAssumption DEF CountsAssumption

\* A task is an event with an index below the event's task count.
LEMMA TaskPairs ==
    /\ \A t \in Tasks : /\ t = <<t[1], t[2]>> /\ t[1] \in Events
                        /\ t[2] \in Nat /\ t[2] < TaskCount(t[1])
    /\ \A e \in Events, i \in Nat : i < TaskCount(e) => <<e, i>> \in Tasks
<1>1. ASSUME NEW e \in Events, NEW i \in Nat, i < TaskCount(e) PROVE <<e, i>> \in Tasks
    <2>1. i \in 0 .. PartitionCount + NumWorkers
        BY <1>1, TaskCounts, CountsAssumption DEF CountsAssumption
    <2> QED
        BY <1>1, <2>1 DEF Tasks, Descriptors
<1>2. ASSUME NEW t \in Tasks
      PROVE  /\ t = <<t[1], t[2]>> /\ t[1] \in Events
             /\ t[2] \in Nat /\ t[2] < TaskCount(t[1])
    BY CountsAssumption DEF Tasks, Descriptors, CountsAssumption
<1> QED
    BY <1>1, <1>2

\* Every task is addressed to a worker that exists; a RUN task i to worker i.
LEMMA WorkerIndexFacts ==
    ASSUME NEW t \in Tasks
    PROVE  /\ ~IsFinalize(t[1]) => WorkerIndex(t[1], t[2]) \in Workers
           /\ ~IsFinalize(t[1]) => WorkerIndex(t[1], t[2]) < RunTasks[PipelineOf(t[1])]
           /\ IsRun(t[1]) => WorkerIndex(t[1], t[2]) = t[2]
<1> DEFINE e == t[1]
           p == PipelineOf(e)
<1>1. e \in Events /\ t[2] \in Nat /\ t[2] < TaskCount(e) /\ p \in Pipelines
    BY TaskPairs, EventKinds
<1>2. RunTasks[p] \in 1 .. NumWorkers /\ NumWorkers \in Nat
    BY <1>1, PlanAssumption, CountsAssumption DEF PlanAssumption, CountsAssumption
<1>3. RunTasksAfterRun(p) \in 1 .. RunTasks[p]
    BY <1>2 DEF RunTasksAfterRun
<1>4. CASE IsCombine(e) /\ Sink[p] = "HASH_AGGREGATE"
    <2>1. WorkerIndex(e, t[2]) = t[2] % RunTasksAfterRun(p)
        BY <1>4 DEF WorkerIndex
    <2>2. t[2] % RunTasksAfterRun(p) \in 0 .. RunTasksAfterRun(p) - 1
        BY <1>1, <1>2, <1>3
    <2>3. ~IsRun(e)
        BY <1>1, <1>4, EventKinds
    <2>4. ASSUME NEW k \in 1 .. RunTasks[p], NEW x \in 0 .. k - 1
          PROVE  x \in Workers /\ x < RunTasks[p]
        BY <1>2 DEF Workers
    <2>5. WorkerIndex(e, t[2]) \in Workers /\ WorkerIndex(e, t[2]) < RunTasks[p]
        BY <1>3, <2>1, <2>2, <2>4
    <2> QED
        BY <2>3, <2>5
<1>5. CASE ~(IsCombine(e) /\ Sink[p] = "HASH_AGGREGATE")
    <2>1. WorkerIndex(e, t[2]) = t[2]
        BY <1>5 DEF WorkerIndex
    <2>2. ~IsFinalize(e) => TaskCount(e) <= RunTasks[p]
        BY <1>2, <1>5, <1>1, EventKinds DEF TaskCount
    <2>3. TaskCount(e) \in Nat
        BY <1>1, TaskCounts
    <2>4. ~IsFinalize(e) => t[2] < RunTasks[p] /\ t[2] \in Workers
        BY <1>1, <1>2, <2>2, <2>3 DEF Workers
    <2> QED
        BY <2>1, <2>4
<1> QED
    BY <1>4, <1>5

\* The tasks of an event are as many as its count.
LEMMA TasksOfEvent ==
    ASSUME NEW e \in Events
    PROVE  IsFiniteSet(TasksOf(e)) /\ Cardinality(TasksOf(e)) = TaskCount(e)
<1> DEFINE n == TaskCount(e)
           f == [i \in 0 .. n - 1 |-> <<e, i>>]
<1>1. n \in Nat
    BY TaskCounts
<1>2. f \in Bijection(0 .. n - 1, TasksOf(e))
    <2>1. \A i \in 0 .. n - 1 : f[i] \in TasksOf(e)
        BY <1>1, TaskPairs DEF TasksOf
    <2>2. \A t \in TasksOf(e) : t[2] \in 0 .. n - 1 /\ f[t[2]] = t
        BY <1>1, TaskPairs DEF TasksOf
    <2>3. \A i, j \in 0 .. n - 1 : f[i] = f[j] => i = j
        OBVIOUS
    <2>4. f \in [0 .. n - 1 -> TasksOf(e)]
        BY <2>1
    <2>5. \A t \in TasksOf(e) : \E i \in 0 .. n - 1 : f[i] = t
        BY <2>2
    <2> QED
        BY <2>3, <2>4, <2>5 DEF Bijection, Injection, Surjection, IsInjective
<1>3. IsFiniteSet(0 .. n - 1) /\ Cardinality(0 .. n - 1) = n
    BY <1>1, FS_Interval
<1> QED
    BY <1>2, <1>3, FS_Bijection DEF ExistsBijection

\* The positions of a queue that hold a task of e.
Positions(q, e) == {i \in 1 .. Len(q) : q[i][1] = e}

\* The queue holds finitely many tasks of an event.
LEMMA PositionsFinite ==
    ASSUME NEW q \in Seq(Tasks), NEW e
    PROVE  IsFiniteSet(Positions(q, e)) /\ Cardinality(Positions(q, e)) \in Nat
<1>1. IsFiniteSet(1 .. Len(q))
    BY FS_Interval
<1> QED
    BY <1>1, FS_Subset, FS_CardinalityType DEF Positions

\* Pushing a task adds one to the queued tasks of its event.
LEMMA AppendCount ==
    ASSUME NEW q \in Seq(Tasks), NEW t \in Tasks, NEW e
    PROVE  Cardinality(Positions(Append(q, t), e)) =
               Cardinality(Positions(q, e)) + (IF t[1] = e THEN 1 ELSE 0)
<1> DEFINE n == Len(q) + 1
<1>1. /\ Len(q) \in Nat /\ Len(Append(q, t)) = n /\ Append(q, t)[n] = t
      /\ \A i \in 1 .. Len(q) : Append(q, t)[i] = q[i]
    OBVIOUS
<1>2. n \notin Positions(q, e)
    BY <1>1 DEF Positions
<1>3. CASE t[1] = e
    <2>1. Positions(Append(q, t), e) = Positions(q, e) \cup {n}
        BY <1>1, <1>3 DEF Positions
    <2> QED
        BY <1>2, <1>3, <2>1, PositionsFinite, FS_AddElement
<1>4. CASE t[1] # e
    <2>1. Positions(Append(q, t), e) = Positions(q, e)
        BY <1>1, <1>4 DEF Positions
    <2> QED
        BY <1>4, <2>1, PositionsFinite
<1> QED
    BY <1>3, <1>4

\* Popping a task takes one from the queued tasks of its event.
LEMMA TailCount ==
    ASSUME NEW q \in Seq(Tasks), q # << >>, NEW e
    PROVE  Cardinality(Positions(Tail(q), e)) =
               Cardinality(Positions(q, e)) - (IF Head(q)[1] = e THEN 1 ELSE 0)
<1> DEFINE S == Positions(Tail(q), e)
           T == Positions(q, e) \ {1}
           f == [i \in S |-> i + 1]
<1>1. /\ Len(q) \in Nat /\ Len(q) >= 1 /\ Len(Tail(q)) = Len(q) - 1 /\ Head(q) = q[1]
      /\ \A i \in 1 .. Len(q) - 1 : Tail(q)[i] = q[i + 1]
    OBVIOUS
<1>2. S \subseteq Nat
    BY <1>1 DEF Positions
<1>3. f \in Bijection(S, T)
    <2>1. \A i \in S : f[i] \in T
        BY <1>1 DEF Positions
    <2>2. \A j \in T : j - 1 \in S /\ f[j - 1] = j
        BY <1>1 DEF Positions
    <2>3. \A i, j \in S : f[i] = f[j] => i = j
        BY <1>2
    <2>4. f \in [S -> T]
        BY <2>1
    <2>5. \A j \in T : \E i \in S : f[i] = j
        BY <2>2
    <2> QED
        BY <2>3, <2>4, <2>5 DEF Bijection, Injection, Surjection, IsInjective
<1>4. Tail(q) \in Seq(Tasks)
    OBVIOUS
<1>5. Cardinality(S) = Cardinality(T)
    <2>1. IsFiniteSet(S) /\ ExistsBijection(S, T)
        BY <1>3, <1>4, PositionsFinite DEF ExistsBijection
    <2> HIDE DEF S, T
    <2> QED
        BY <2>1, FS_Bijection
<1>6. 1 \in Positions(q, e) <=> Head(q)[1] = e
    BY <1>1 DEF Positions
<1>7. IsFiniteSet(Positions(q, e)) /\ Cardinality(Positions(q, e)) \in Nat
    BY PositionsFinite
<1>8. Cardinality(T) = Cardinality(Positions(q, e)) - (IF Head(q)[1] = e THEN 1 ELSE 0)
    <2>1. Cardinality(Positions(q, e) \ {1}) =
              IF 1 \in Positions(q, e) THEN Cardinality(Positions(q, e)) - 1
              ELSE Cardinality(Positions(q, e))
        BY <1>7, FS_RemoveElement
    <2> QED
        BY <1>6, <1>7, <2>1
<1> QED
    BY <1>5, <1>8

\* There are finitely many workers.
LEMMA WorkersFinite == IsFiniteSet(Workers)
BY CountsAssumption, FS_Interval DEF Workers, CountsAssumption

\* InHand in terms of Hand.
LEMMA InHandByHand ==
    ASSUME NEW e \in Events
    PROVE  /\ InHand(e) = {w \in Workers : Hand(w)[1] = e}
           /\ InHand(e)' = {w \in Workers : Hand(w)'[1] = e}
<1>1. e # -1
    BY EventKinds, CountsAssumption DEF Events, CountsAssumption
<1>2. NoTask[1] = -1
    BY DEF NoTask
<1> QED
    BY <1>1, <1>2 DEF InHand, Hand, HandPoints

\* Finitely many workers have a task of e in hand.
LEMMA HandsFinite ==
    ASSUME NEW e
    PROVE  IsFiniteSet(InHand(e)) /\ Cardinality(InHand(e)) \in Nat
BY WorkersFinite, FS_Subset, FS_CardinalityType DEF InHand

\* Finitely many tasks of e are not over.
LEMMA LeftFinite ==
    ASSUME NEW e \in Events
    PROVE  IsFiniteSet(LeftOf(e)) /\ Cardinality(LeftOf(e)) \in Nat
BY TasksOfEvent, FS_Subset, FS_CardinalityType DEF LeftOf

------------------------------------------------------------------------------
LeaderRecords ==
    [pc : LeaderPoints, event : Events, pushed : Nat, cursor : Nat,
     progress : BOOLEAN, resume : {"start", "scan"}]
WorkerRecords ==
    [pc : WorkerPoints, task : Tasks \cup {NoTask}, stale : BOOLEAN, sigterm : BOOLEAN,
     ran : SUBSET Pipelines, combined : SUBSET Pipelines]
ControlRecords ==
    [worker_error : {0, 1}, message_written : BOOLEAN, shutdown_requested : {0, 1}]

\* TypeOK with names for its sets of records.
Types ==
    /\ state \in [Events -> {"PENDING", "SCHEDULED", "FINISHED"}]
    /\ pending_dependencies \in [Events -> Nat]
    /\ released \subseteq Pipelines
    /\ tasks_remaining \in [Events -> 0 .. CounterModulus - 1]
    /\ queue \in Seq(Tasks) /\ Len(queue) <= Capacity
    /\ control \in ControlRecords
    /\ leader_latch \in BOOLEAN /\ latch \in [Workers -> BOOLEAN]
    /\ leader \in LeaderRecords
    /\ worker \in [Workers -> WorkerRecords]
    /\ yields \in 0 .. MaxYields /\ faults \in 0 .. MaxFaults
    /\ started \subseteq Tasks /\ completed \subseteq Tasks
    /\ emitted \in BOOLEAN

\* Types are the conjuncts of TypeOK by name.
LEMMA TypesNamed == TypeOK <=> Types
BY DEF TypeOK, Types, LeaderRecords, WorkerRecords, ControlRecords

\* What the events, the queue and the hands of the workers have in common.
TaskInv ==
    /\ \A e \in Events : CounterInv(e) /\ PlaceInv(e) /\ DependencyInv(e)
    /\ QueueInv

\* A task that failed is over for the queue and the workers and was never counted.
Lost(t) ==
    /\ t \in started \ completed
    /\ ~Unpushed(t) /\ ~Queued(t) /\ ~Held(t)
    /\ state[t[1]] = "SCHEDULED" /\ ~Fresh(t[1])
    /\ ~Uncut => tasks_remaining[t[1]] > Cardinality(LeftOf(t[1]))

\* The event of a lost task is never finished.
LostKept == Live' => \A t \in Tasks : Lost(t) => Lost(t)'

\* A lost task stays lost under a step that leaves its counter alone and gives its
\* event no new work.
LEMMA LostStays ==
    ASSUME Types, TaskInv, NEW t \in Tasks, Lost(t), Live,
           t \in started', t \notin completed', ~Unpushed(t)', ~Queued(t)', ~Held(t)',
           state'[t[1]] = "SCHEDULED", ~Fresh(t[1])',
           tasks_remaining'[t[1]] = tasks_remaining[t[1]],
           \A s \in TasksOf(t[1]) : Left(s)' => Left(s)
    PROVE  Lost(t)'
<1> DEFINE e == t[1]
<1>1. e \in Events /\ t \in TasksOf(e)
    BY TaskPairs DEF TasksOf
<1>2. Counted(e) /\ tasks_remaining[e] \in Nat /\ tasks_remaining[e] >= Cardinality(LeftOf(e))
    <2>1. tasks_remaining[e] \in 0 .. CounterModulus - 1
        BY <1>1 DEF Types
    <2>2. Counted(e)
        BY DEF Lost, Counted
    <2> QED
        BY <1>1, <2>1, <2>2 DEF TaskInv, CounterInv
<1>3. LeftOf(e)' \subseteq LeftOf(e)
    BY DEF LeftOf, TasksOf
<1>4. IsFiniteSet(LeftOf(e)) /\ Cardinality(LeftOf(e)) \in Nat
    BY <1>1, LeftFinite
<1>5. ASSUME ~Uncut' PROVE tasks_remaining'[e] > Cardinality(LeftOf(e)')
    <2>1. t \notin LeftOf(e)'
        BY <1>5 DEF LeftOf, Left
    <2>2. CASE Uncut
        <3>1. t \in LeftOf(e)
            BY <1>1, <2>2 DEF LeftOf, Left, Lost
        <3>2. LeftOf(e)' \subseteq LeftOf(e) \ {t} /\ IsFiniteSet(LeftOf(e) \ {t})
            BY <1>3, <1>4, <2>1, FS_RemoveElement
        <3>3. Cardinality(LeftOf(e) \ {t}) = Cardinality(LeftOf(e)) - 1
            BY <1>4, <3>1, FS_RemoveElement
        <3>4. Cardinality(LeftOf(e)') <= Cardinality(LeftOf(e) \ {t})
              /\ Cardinality(LeftOf(e)') \in Nat
            BY <3>2, FS_Subset, FS_CardinalityType
        <3> QED
            BY <1>2, <1>4, <3>3, <3>4
    <2>3. CASE ~Uncut
        <3>1. tasks_remaining[e] > Cardinality(LeftOf(e))
            BY <2>3 DEF Lost
        <3>2. Cardinality(LeftOf(e)') <= Cardinality(LeftOf(e))
              /\ Cardinality(LeftOf(e)') \in Nat
            BY <1>3, <1>4, FS_Subset, FS_CardinalityType
        <3> QED
            BY <1>2, <1>4, <3>1, <3>2
    <2> QED
        BY <2>2, <2>3
<1> QED
    BY <1>5 DEF Lost

\* A step that moves no task but from a hand to nowhere.
Quiet ==
    /\ UNCHANGED <<state, pending_dependencies, tasks_remaining, queue>>
    /\ \A w \in Workers : Hand(w)' = Hand(w) \/ Hand(w)' = NoTask
    /\ started \subseteq started' /\ \A t \in started' : t \in started \/ Held(t)
    /\ completed \subseteq completed' /\ \A t \in completed' : t \in completed \/ Held(t)
    /\ Uncut' => Uncut
    /\ Sound' => Sound /\ (AllEventsFinished \/ \A w \in Workers : Hand(w)' = Hand(w))
    /\ \A e \in Events : Fresh(e)' => Fresh(e)
    /\ \A t \in Tasks : Unpushed(t)' => Unpushed(t)
    /\ Live' => Live /\ \A e \in Events : (Fresh(e) => Fresh(e)') /\ Rest(e)' = Rest(e)

\* A quiet step keeps what the counters cover.
LEMMA QuietStep ==
    ASSUME Types, TaskInv, Quiet
    PROVE  TaskInv' /\ LostKept
<1>1. \A t \in Tasks : (Queued(t)' <=> Queued(t)) /\ (Held(t)' => Held(t))
    <2>1. \A t \in Tasks : t # NoTask
        BY TaskPairs, EventKinds, CountsAssumption DEF NoTask, Events, CountsAssumption
    <2> QED
        BY <2>1 DEF Quiet, Queued, Held
<1>2. \A t \in Tasks : Left(t)' => Left(t)
    BY <1>1 DEF Quiet, Left
<1>3. ASSUME NEW e \in Events PROVE CounterInv(e)'
    <2>1. Fresh(e)' => tasks_remaining'[e] = 0
        BY DEF Quiet, TaskInv, CounterInv
    <2>2. Counted(e)' => Counted(e)
        BY DEF Quiet, Counted
    <2>3. LeftOf(e)' \subseteq LeftOf(e)
        BY <1>2 DEF LeftOf, TasksOf
    <2>4. Cardinality(LeftOf(e)') <= Cardinality(LeftOf(e)) /\ Cardinality(LeftOf(e)') \in Nat
        BY <2>3, LeftFinite, FS_Subset, FS_CardinalityType
    <2>5. tasks_remaining[e] \in Int /\ Cardinality(LeftOf(e)) \in Int
        BY LeftFinite DEF Types
    <2>6. Counted(e)' => tasks_remaining'[e] >= Cardinality(LeftOf(e)')
        BY <2>2, <2>4, <2>5 DEF Quiet, TaskInv, CounterInv
    <2>7. ASSUME Counted(e)', Sound', ~IsFinalize(e) PROVE tasks_remaining'[e] = Outstanding(e)'
        <3>1. Sound /\ \A w \in Workers : Hand(w)' = Hand(w)
            BY <2>2, <2>7 DEF Quiet, Counted, AllEventsFinished
        <3>2. InHand(e)' = InHand(e)
            BY <3>1, InHandByHand
        <3>3. InQueue(e)' = InQueue(e) /\ Rest(e)' = Rest(e)
            BY <2>7 DEF InQueue, Quiet, Counted
        <3>4. tasks_remaining[e] = Outstanding(e)
            BY <2>2, <2>7, <3>1 DEF TaskInv, CounterInv
        <3> QED
            BY <3>2, <3>3, <3>4 DEF Outstanding, Quiet
    <2> QED
        BY <2>1, <2>6, <2>7 DEF CounterInv
<1>4. ASSUME NEW e \in Events PROVE PlaceInv(e)'
    <2>1. state' = state /\ (Fresh(e)' => Fresh(e))
        BY DEF Quiet
    <2>2. IsFinalize(e) \/ Fresh(e)' \/ state'[e] = "FINISHED" =>
              \A t \in TasksOf(e) : ~Queued(t)' /\ ~Held(t)'
        BY <1>1, <2>1 DEF TaskInv, PlaceInv, TasksOf
    <2>3. state'[e] = "FINISHED" =>
              \A t \in TasksOf(e) : t \in started' /\ (Uncut' => t \in completed')
        BY <2>1 DEF TaskInv, PlaceInv, Quiet
    <2>4. Fresh(e)' \/ (IsFinalize(e) /\ state'[e] # "FINISHED") =>
              \A t \in TasksOf(e) : t \notin started'
        BY <2>1 DEF TaskInv, PlaceInv, Quiet
    <2> QED
        BY <2>2, <2>3, <2>4 DEF PlaceInv, TasksOf
<1>5. ASSUME NEW e \in Events PROVE DependencyInv(e)'
    BY DEF Quiet, TaskInv, DependencyInv, Waited
<1>6. QueueInv'
    BY <1>1 DEF Quiet, TaskInv, QueueInv
<1>7. ASSUME Live', NEW s \in Tasks, Lost(s) PROVE Lost(s)'
    <2>1. Live /\ s[1] \in Events
        BY <1>7, TaskPairs DEF Quiet
    <2>2. \A x \in TasksOf(s[1]) : Left(x)' => Left(x)
        BY <1>2 DEF TasksOf
    <2>3. /\ s \in started' /\ s \notin completed' /\ state'[s[1]] = "SCHEDULED" /\ ~Fresh(s[1])'
          /\ tasks_remaining'[s[1]] = tasks_remaining[s[1]]
        BY <1>7, <2>1 DEF Quiet, Lost
    <2>4. ~Unpushed(s)' /\ ~Queued(s)' /\ ~Held(s)'
        BY <1>1, <1>7 DEF Quiet, Lost
    <2> QED
        BY <1>7, <2>1, <2>2, <2>3, <2>4, LostStays
<1>8. LostKept
    BY <1>7 DEF LostKept
<1> QED
    BY <1>8, <1>3, <1>4, <1>5, <1>6 DEF TaskInv, Events

------------------------------------------------------------------------------
(* The steps of the workers. *)

\* v goes from one program point to another and keeps the rest.
Moves(v, from, to) ==
    /\ worker' \in [Workers -> WorkerRecords]
    /\ \A w \in Workers : w # v => worker'[w] = worker[w]
    /\ worker[v].pc = from
    /\ worker'[v] = [worker[v] EXCEPT !.pc = to]

\* MoveTo changes the program point of one worker and nothing else of the workers.
LEMMA MoveEffect ==
    ASSUME worker \in [Workers -> WorkerRecords], NEW v \in Workers,
           NEW from \in WorkerPoints, NEW to \in WorkerPoints, At(v, from), MoveTo(v, to)
    PROVE  Moves(v, from, to)
<1>1. worker'[v] = [worker[v] EXCEPT !.pc = to]
    BY DEF MoveTo, WorkerRecords
<1>2. worker'[v] \in WorkerRecords
    BY <1>1 DEF WorkerRecords
<1> QED
    BY <1>1, <1>2 DEF MoveTo, Moves, At

\* A worker's hand after a move depends on whether the point it moves to holds a
\* task.
LEMMA HandAfterMove ==
    ASSUME worker \in [Workers -> WorkerRecords], NEW v \in Workers,
           NEW from, NEW to \in WorkerPoints, Moves(v, from, to)
    PROVE  /\ (from \in HandPoints <=> to \in HandPoints) => Hand(v)' = Hand(v)
           /\ to \notin HandPoints => Hand(v)' = NoTask
           /\ worker'[v].pc = to /\ worker'[v].task = worker[v].task
           /\ worker'[v].sigterm = worker[v].sigterm
           /\ worker'[v].ran = worker[v].ran /\ worker'[v].combined = worker[v].combined
<1>1. worker[v] \in WorkerRecords
    OBVIOUS
<1>2. worker'[v].pc = to /\ worker'[v].task = worker[v].task
      /\ worker'[v].sigterm = worker[v].sigterm
      /\ worker'[v].ran = worker[v].ran /\ worker'[v].combined = worker[v].combined
    BY <1>1 DEF Moves, WorkerRecords
<1> QED
    BY <1>2 DEF Moves, Hand

\* A step of a worker that moves no other task than its own, and that to nowhere.
WorkerQuiet(v) ==
    /\ UNCHANGED <<state, pending_dependencies, tasks_remaining, queue, leader>>
    /\ \A w \in Workers : w # v => worker'[w] = worker[w]
    /\ Hand(v)' = Hand(v) \/ Hand(v)' = NoTask
    /\ started' = started \/ started' = started \cup {Hand(v)}
    /\ completed' = completed \/ completed' = completed \cup {Hand(v)}
    /\ control.shutdown_requested # 0 => control'.shutdown_requested # 0
    /\ Sound' => /\ control.worker_error = 0 /\ worker[v].pc # "catch"
                 /\ AllEventsFinished \/ Hand(v)' = Hand(v)

\* A step of a worker that moves no other task than its own is quiet.
LEMMA WorkerQuietIsQuiet ==
    ASSUME Types, NEW v \in Workers, WorkerQuiet(v)
    PROVE  Quiet
<1>1. \A w \in Workers : w # v => Hand(w)' = Hand(w)
    BY DEF WorkerQuiet, Hand
<1>2. \A w \in Workers : Hand(w)' = Hand(w) \/ Hand(w)' = NoTask
    BY <1>1 DEF WorkerQuiet
<1>3. /\ started \subseteq started' /\ \A t \in started' : t \in started \/ Held(t)
      /\ completed \subseteq completed' /\ \A t \in completed' : t \in completed \/ Held(t)
    BY DEF WorkerQuiet, Held
<1>4. Uncut' => Uncut
    BY DEF Uncut, WorkerQuiet, LeaderAt
<1>5. ASSUME Sound'
      PROVE  Sound /\ (AllEventsFinished \/ \A w \in Workers : Hand(w)' = Hand(w))
    <2>1. \A w \in Workers : ~At(w, "catch")
        BY <1>5 DEF Sound, At, WorkerQuiet
    <2> QED
        BY <1>1, <1>5, <2>1 DEF Sound, WorkerQuiet
<1>6. /\ \A e \in Events : (Fresh(e)' <=> Fresh(e)) /\ Rest(e)' = Rest(e)
      /\ \A t \in Tasks : Unpushed(t)' <=> Unpushed(t)
      /\ Live' <=> Live
    BY DEF WorkerQuiet, Fresh, Rest, Unpushed, Live, LeaderAt
<1> QED
    BY <1>2, <1>3, <1>4, <1>5, <1>6 DEF Quiet, WorkerQuiet

\* The worker's steps that are quiet.
QuietActs(v) ==
    \/ WorkerChecks(v) \/ WorkerFindsNothing(v) \/ WorkerWakesOnLatch(v)
    \/ WorkerWakesOnTimeout(v) \/ WorkerDrops(v) \/ WorkerBegins(v) \/ TaskCompletes(v)
    \/ TaskCutShort(v) \/ TaskYields(v) \/ TaskFails(v) \/ RepushRefused(v)
    \/ NotifyLeader(v) \/ CatchError(v) \/ ReportError(v) \/ WorkerExits(v)
    \/ ExitFails(v) \/ WorkerDies(v)

\* So is a worker's move that changes neither the events nor the queue.
LEMMA MovesAreQuiet ==
    ASSUME Types, NEW v \in Workers, NEW from \in WorkerPoints, NEW to \in WorkerPoints,
           Moves(v, from, to),
           UNCHANGED <<state, pending_dependencies, tasks_remaining, queue, leader>>,
           UNCHANGED <<started, completed>>,
           control.shutdown_requested # 0 => control'.shutdown_requested # 0,
           control'.worker_error = 0 => control.worker_error = 0,
           (from \in HandPoints <=> to \in HandPoints) \/ to \notin HandPoints,
           Sound' => from # "catch" /\ (AllEventsFinished \/ from \notin HandPoints
                                        \/ to \in HandPoints)
    PROVE  Quiet
<1>1. worker \in [Workers -> WorkerRecords]
    BY DEF Types
<1>2. Hand(v)' = Hand(v) \/ Hand(v)' = NoTask
    BY <1>1, HandAfterMove
<1>3. from \notin HandPoints \/ to \in HandPoints => Hand(v)' = Hand(v)
    BY <1>1, HandAfterMove
<1>4. WorkerQuiet(v)
    BY <1>2, <1>3 DEF WorkerQuiet, Moves, Sound
<1> QED
    BY <1>4, WorkerQuietIsQuiet

\* The worker loop outside the pop, the repush and the decrement is quiet.
LEMMA QuietActsAreQuiet ==
    ASSUME Types, ErrorInv, NEW v \in Workers, QuietActs(v)
    PROVE  Quiet
<1>0. worker \in [Workers -> WorkerRecords] /\ control \in ControlRecords
    BY DEF Types
<1>1. CASE WorkerChecks(v)
    <2>1. PICK to \in {"exit", "pop"} : Moves(v, "check", to)
        BY <1>0, <1>1, MoveEffect DEF WorkerChecks, WorkerMoves, WorkerPoints
    <2> QED
        BY <1>1, <2>1, MovesAreQuiet
        DEF WorkerChecks, WorkerMoves, WorkerPoints, HandPoints, dagVars, sharedVars,
            historyVars
<1>2. CASE WorkerFindsNothing(v)
    <2>1. Moves(v, "pop", "wait")
        BY <1>0, <1>2, MoveEffect DEF WorkerFindsNothing, WorkerMoves, WorkerPoints
    <2> QED
        BY <1>2, <2>1, MovesAreQuiet
        DEF WorkerFindsNothing, WorkerMoves, WorkerPoints, HandPoints, dagVars, sharedVars,
            historyVars
<1>3. CASE WorkerWakesOnLatch(v) \/ WorkerWakesOnTimeout(v)
    <2>1. Moves(v, "wait", "check")
        BY <1>0, <1>3, MoveEffect
        DEF WorkerWakesOnLatch, WorkerWakesOnTimeout, WorkerWakes, WorkerPoints
    <2> QED
        BY <1>3, <2>1, MovesAreQuiet
        DEF WorkerWakesOnLatch, WorkerWakesOnTimeout, WorkerWakes, WorkerPoints, HandPoints,
            dagVars, historyVars
<1>4. CASE WorkerDrops(v)
    <2>1. Moves(v, "popped", "exit")
        BY <1>0, <1>4, MoveEffect DEF WorkerDrops, WorkerMoves, WorkerPoints
    <2>2. Sound' => AllEventsFinished
        BY <1>4 DEF WorkerDrops, WorkerMoves, WorkerShutdownRequested, sharedVars, Sound,
                    ErrorInv, Live, LeaderAt
    <2> QED
        BY <1>4, <2>1, <2>2, MovesAreQuiet
        DEF WorkerDrops, WorkerMoves, WorkerPoints, HandPoints, dagVars, sharedVars,
            historyVars
<1>5. CASE WorkerBegins(v)
    <2>5. worker[v].pc = "popped" /\ started' = started \cup {worker[v].task}
        BY <1>5 DEF WorkerBegins, At
    <2>6. Hand(v) = worker[v].task
        BY <2>5 DEF Hand, HandPoints
    <2>7. \A w \in Workers : w # v => worker'[w] = worker[w]
        BY <1>0, <1>5 DEF WorkerBegins
    <2>1. /\ worker[v].pc = "popped" /\ started' = started \cup {Hand(v)}
          /\ UNCHANGED <<state, pending_dependencies, tasks_remaining, queue, leader, control,
                         completed>>
          /\ \A w \in Workers : w # v => worker'[w] = worker[w]
        BY <1>5, <2>5, <2>6, <2>7 DEF WorkerBegins, dagVars, sharedVars
    <2>2. worker'[v].pc = "run" /\ worker'[v].task = worker[v].task
        BY <1>0, <1>5 DEF WorkerBegins, WorkerRecords
    <2>3. Hand(v)' = Hand(v)
        BY <2>1, <2>2 DEF Hand, HandPoints
    <2>4. WorkerQuiet(v)
        BY <2>1, <2>3 DEF WorkerQuiet, Sound
    <2> QED
        BY <2>4, WorkerQuietIsQuiet
<1>6. CASE TaskCompletes(v)
    <2>5. worker[v].pc = "run" /\ completed' = completed \cup {worker[v].task}
        BY <1>6 DEF TaskCompletes, At
    <2>6. Hand(v) = worker[v].task
        BY <2>5 DEF Hand, HandPoints
    <2>7. \A w \in Workers : w # v => worker'[w] = worker[w]
        BY <1>0, <1>6 DEF TaskCompletes
    <2>1. /\ worker[v].pc = "run" /\ completed' = completed \cup {Hand(v)}
          /\ UNCHANGED <<state, pending_dependencies, tasks_remaining, queue, leader, control,
                         started>>
          /\ \A w \in Workers : w # v => worker'[w] = worker[w]
        BY <1>6, <2>5, <2>6, <2>7 DEF TaskCompletes, dagVars, sharedVars
    <2>2. worker'[v].pc = "count" /\ worker'[v].task = worker[v].task
        BY <1>0, <1>6 DEF TaskCompletes, WorkerRecords
    <2>3. Hand(v)' = Hand(v)
        BY <2>1, <2>2 DEF Hand, HandPoints
    <2>4. WorkerQuiet(v)
        BY <2>1, <2>3 DEF WorkerQuiet, Sound
    <2> QED
        BY <2>4, WorkerQuietIsQuiet
<1>7. CASE TaskCutShort(v)
    <2>1. Moves(v, "run", "count")
        BY <1>0, <1>7, MoveEffect DEF TaskCutShort, WorkerMoves, WorkerPoints
    <2> QED
        BY <1>7, <2>1, MovesAreQuiet
        DEF TaskCutShort, WorkerMoves, WorkerPoints, HandPoints, dagVars, sharedVars,
            historyVars
<1>8. CASE TaskYields(v)
    <2>1. Moves(v, "run", "repush")
        BY <1>0, <1>8, MoveEffect DEF TaskYields, WorkerMoves, WorkerPoints
    <2> QED
        BY <1>8, <2>1, MovesAreQuiet
        DEF TaskYields, WorkerMoves, WorkerPoints, HandPoints, dagVars, sharedVars,
            historyVars
<1>9. CASE TaskFails(v)
    <2>1. Moves(v, "run", "catch")
        BY <1>0, <1>9, MoveEffect DEF TaskFails, WorkerMoves, WorkerPoints
    <2>2. ~Sound'
        BY <1>0, <2>1, HandAfterMove DEF Sound, At, WorkerPoints
    <2> QED
        BY <1>9, <2>1, <2>2, MovesAreQuiet
        DEF TaskFails, WorkerMoves, WorkerPoints, HandPoints, dagVars, sharedVars,
            historyVars, PushRefused
<1>10. CASE RepushRefused(v)
    <2>1. Moves(v, "repush", "catch")
        BY <1>0, <1>10, MoveEffect DEF RepushRefused, WorkerMoves, WorkerPoints
    <2>2. ~Sound'
        BY <1>0, <2>1, HandAfterMove DEF Sound, At, WorkerPoints
    <2> QED
        BY <1>10, <2>1, <2>2, MovesAreQuiet
        DEF RepushRefused, WorkerMoves, WorkerPoints, HandPoints, dagVars, sharedVars,
            historyVars, PushRefused
<1>11. CASE NotifyLeader(v)
    <2>1. Moves(v, "notify", "check")
        BY <1>0, <1>11, MoveEffect DEF NotifyLeader, At, WorkerPoints
    <2> QED
        BY <1>11, <2>1, MovesAreQuiet
        DEF NotifyLeader, At, WorkerPoints, HandPoints, dagVars, sharedVars, historyVars
<1>12. CASE CatchError(v)
    <2>1. PICK to \in {"report_own", "report"} : Moves(v, "catch", to)
        BY <1>0, <1>12, MoveEffect DEF CatchError, WorkerPoints
    <2>2. control'.worker_error = 1 /\ control'.shutdown_requested = control.shutdown_requested
        BY <1>0, <1>12 DEF CatchError, ControlRecords
    <2> QED
        BY <1>12, <2>1, <2>2, MovesAreQuiet
        DEF CatchError, WorkerPoints, HandPoints, dagVars, historyVars, Sound
<1>13. CASE ReportError(v)
    <2>1. PICK from \in {"report_own", "report"}, to \in {"catch", "exited"} :
              Moves(v, from, to)
        BY <1>0, <1>13, MoveEffect DEF ReportError, WorkerPoints
    <2>2. control'.worker_error = control.worker_error /\ control'.shutdown_requested = 1
        BY <1>0, <1>13 DEF ReportError, ControlRecords
    <2> QED
        BY <1>13, <2>1, <2>2, MovesAreQuiet
        DEF ReportError, WorkerPoints, HandPoints, dagVars, historyVars
<1>14. CASE WorkerExits(v)
    <2>1. Moves(v, "exit", "exited")
        BY <1>0, <1>14, MoveEffect DEF WorkerExits, WorkerMoves, WorkerPoints
    <2> QED
        BY <1>14, <2>1, MovesAreQuiet
        DEF WorkerExits, WorkerMoves, WorkerPoints, HandPoints, dagVars, sharedVars,
            historyVars
<1>15. CASE ExitFails(v)
    <2>1. Moves(v, "exit", "catch")
        BY <1>0, <1>15, MoveEffect DEF ExitFails, WorkerMoves, WorkerPoints
    <2>2. ~Sound'
        BY <1>0, <2>1, HandAfterMove DEF Sound, At, WorkerPoints
    <2> QED
        BY <1>15, <2>1, <2>2, MovesAreQuiet
        DEF ExitFails, WorkerMoves, WorkerPoints, HandPoints, dagVars, sharedVars,
            historyVars, PushRefused
<1>16. CASE WorkerDies(v)
    <2>1. PICK from \in WorkerPoints : Moves(v, from, "exited")
        BY <1>0, <1>16, MoveEffect DEF WorkerDies, WorkerMoves, WorkerPoints
    <2>2. ~Sound'
        BY <1>16 DEF WorkerDies, WorkerMoves, ErrorInv, Live, Sound
    <2> QED
        BY <1>16, <2>1, <2>2, MovesAreQuiet
        DEF WorkerDies, WorkerMoves, WorkerPoints, HandPoints, dagVars, sharedVars,
            historyVars
<1> QED
    BY <1>1, <1>2, <1>3, <1>4, <1>5, <1>6, <1>7, <1>8, <1>9, <1>10, <1>11, <1>12, <1>13,
       <1>14, <1>15, <1>16 DEF QuietActs

\* No task is the record of an idle worker.
LEMMA TasksAreTasks == \A t \in Tasks : t # NoTask /\ t[1] \in Events
BY TaskPairs, EventKinds, CountsAssumption DEF NoTask, Events, CountsAssumption

\* What the hand of one worker does to the workers that have a task of e in hand.
LEMMA HandTaken ==
    ASSUME NEW v \in Workers, NEW e \in Events,
           \A w \in Workers : w # v => Hand(w)' = Hand(w), Hand(v) = NoTask
    PROVE  Cardinality(InHand(e)') =
               Cardinality(InHand(e)) + (IF Hand(v)'[1] = e THEN 1 ELSE 0)
<1>1. NoTask[1] # e
    BY EventKinds, CountsAssumption DEF NoTask, Events, CountsAssumption
<1>2. v \notin InHand(e)
    BY <1>1, InHandByHand
<1>3. CASE Hand(v)'[1] = e
    <2>1. InHand(e)' = InHand(e) \cup {v}
        BY <1>3, InHandByHand
    <2>2. Cardinality(InHand(e) \cup {v}) = Cardinality(InHand(e)) + 1
        BY <1>2, HandsFinite, FS_AddElement
    <2> QED
        BY <1>3, <2>1, <2>2
<1>4. CASE Hand(v)'[1] # e
    <2>1. InHand(e)' = InHand(e)
        BY <1>1, <1>4, InHandByHand
    <2> QED
        BY <1>4, <2>1, HandsFinite
<1> QED
    BY <1>3, <1>4

\* A worker that lets go of its task leaves one task less in hand.
LEMMA HandEmptied ==
    ASSUME NEW v \in Workers, NEW e \in Events,
           \A w \in Workers : w # v => Hand(w)' = Hand(w), Hand(v)' = NoTask
    PROVE  Cardinality(InHand(e)') =
               Cardinality(InHand(e)) - (IF Hand(v)[1] = e THEN 1 ELSE 0)
<1>1. NoTask[1] # e
    BY EventKinds, CountsAssumption DEF NoTask, Events, CountsAssumption
<1>2. InHand(e)' = InHand(e) \ {v}
    BY <1>1, InHandByHand
<1>3. v \in InHand(e) <=> Hand(v)[1] = e
    BY InHandByHand
<1>4. Cardinality(InHand(e) \ {v}) =
          IF v \in InHand(e) THEN Cardinality(InHand(e)) - 1 ELSE Cardinality(InHand(e))
    BY HandsFinite, FS_RemoveElement
<1> QED
    BY <1>2, <1>3, <1>4, HandsFinite

\* A pop moves a task from the head of the queue to the hand of the worker it is
\* addressed to.
LEMMA PopStep ==
    ASSUME Types, TaskInv, NEW v \in Workers, WorkerPops(v)
    PROVE  TaskInv' /\ LostKept
<1> DEFINE t == Head(queue)
<1>0. worker \in [Workers -> WorkerRecords] /\ queue \in Seq(Tasks)
    BY DEF Types
<1>1. /\ UNCHANGED <<state, pending_dependencies, tasks_remaining, leader, control, started,
                     completed>>
      /\ queue # << >> /\ queue' = Tail(queue)
      /\ worker[v].pc = "pop"
      /\ worker' = [worker EXCEPT ![v].pc = "popped", ![v].task = t]
    BY DEF WorkerPops, HeadIsFor, At, dagVars, historyVars
<1>2. /\ Len(queue) \in Nat /\ Len(queue) >= 1 /\ Len(Tail(queue)) = Len(queue) - 1
      /\ t = queue[1] /\ t \in Tasks
      /\ \A i \in 1 .. Len(queue) - 1 : Tail(queue)[i] = queue[i + 1]
    BY <1>0, <1>1
<1>3. Hand(v) = NoTask /\ \A w \in Workers : w # v => Hand(w)' = Hand(w)
    BY <1>0, <1>1 DEF Hand, HandPoints
<1>4. Hand(v)' = t
    <2>1. worker'[v].pc = "popped" /\ worker'[v].task = t
        BY <1>0, <1>1 DEF WorkerRecords
    <2> QED
        BY <2>1 DEF Hand, HandPoints
<1> HIDE DEF t
<1>5. Queued(t)
    BY <1>2 DEF Queued
<1>6. \A i, j \in 1 .. Len(queue) : queue[i] = queue[j] => i = j
    BY DEF TaskInv, QueueInv
<1>7. ASSUME NEW s \in Tasks PROVE Queued(s)' <=> Queued(s) /\ s # t
    <2>1. ASSUME Queued(s)' PROVE Queued(s) /\ s # t
        <3>1. PICK i \in 1 .. Len(queue) - 1 : queue[i + 1] = s
            BY <1>1, <1>2, <2>1 DEF Queued
        <3>2. i + 1 \in 1 .. Len(queue) /\ 1 \in 1 .. Len(queue) /\ i + 1 # 1
            BY <1>2
        <3> QED
            BY <1>2, <1>6, <3>1, <3>2 DEF Queued
    <2>2. ASSUME Queued(s), s # t PROVE Queued(s)'
        <3>1. PICK i \in 1 .. Len(queue) : queue[i] = s
            BY <2>2 DEF Queued
        <3>2. i # 1
            BY <1>2, <2>2, <3>1
        <3>3. i - 1 \in 1 .. Len(queue) - 1 /\ (i - 1) + 1 = i
            BY <1>2, <3>2
        <3>4. Tail(queue)[i - 1] = s
            BY <1>2, <3>1, <3>3
        <3> QED
            BY <1>1, <1>2, <3>3, <3>4 DEF Queued
    <2> QED
        BY <2>1, <2>2
<1>8. ASSUME NEW s \in Tasks PROVE Held(s)' <=> Held(s) \/ s = t
    BY <1>3, <1>4, TasksAreTasks DEF Held
<1>9. \A s \in Tasks : /\ Unpushed(s)' <=> Unpushed(s)
                       /\ Left(s)' <=> Left(s)
    BY <1>1, <1>2, <1>5, <1>7, <1>8 DEF Left, Unpushed, Uncut, LeaderAt
<1>10. /\ \A e \in Events : (Fresh(e)' <=> Fresh(e)) /\ Rest(e)' = Rest(e)
                            /\ (Counted(e)' <=> Counted(e))
       /\ Uncut' <=> Uncut
    BY <1>1 DEF Fresh, Rest, Counted, Live, LeaderAt, Uncut
<1>11. Sound' => Sound
    <2>1. \A w \in Workers : At(w, "catch") => At(w, "catch")'
        BY <1>0, <1>1 DEF At
    <2> QED
        BY <1>1, <2>1 DEF Sound
<1>12. ASSUME NEW e \in Events PROVE Outstanding(e)' = Outstanding(e)
    <2>1. Cardinality(InHand(e)') = Cardinality(InHand(e)) + (IF t[1] = e THEN 1 ELSE 0)
        BY <1>3, <1>4, HandTaken
    <2>2. Cardinality(InQueue(e)') = Cardinality(InQueue(e)) - (IF t[1] = e THEN 1 ELSE 0)
        <3>1. InQueue(e)' = Positions(Tail(queue), e) /\ InQueue(e) = Positions(queue, e)
            BY <1>1 DEF InQueue, Positions
        <3>2. t = Head(queue)
            BY DEF t
        <3> QED
            BY <1>0, <1>1, <3>1, <3>2, TailCount
    <2>3. Cardinality(InQueue(e)) \in Nat /\ Cardinality(InHand(e)) \in Nat
        BY <1>0, PositionsFinite, HandsFinite DEF InQueue, Positions
    <2> QED
        BY <1>10, <2>1, <2>2, <2>3 DEF Outstanding
<1>13. ASSUME NEW e \in Events PROVE CounterInv(e)'
    <2>1. LeftOf(e)' = LeftOf(e)
        BY <1>9 DEF LeftOf, TasksOf
    <2>2. CounterInv(e)
        BY DEF TaskInv
    <2> QED
        BY <1>1, <1>10, <1>11, <1>12, <2>1, <2>2 DEF CounterInv
<1>14. ASSUME NEW e \in Events PROVE PlaceInv(e)'
    <2>1. PlaceInv(e)
        BY DEF TaskInv
    <2>2. IsFinalize(e) \/ Fresh(e) \/ state[e] = "FINISHED" => t[1] # e
        BY <1>2, <1>5, <2>1 DEF PlaceInv, TasksOf
    <2> QED
        BY <1>1, <1>7, <1>8, <1>10, <2>1, <2>2 DEF PlaceInv, TasksOf
<1>15. ASSUME NEW e \in Events PROVE DependencyInv(e)'
    BY <1>1 DEF TaskInv, DependencyInv, Waited
<1>16. QueueInv'
    <2>1. \A i, j \in 1 .. Len(Tail(queue)) : Tail(queue)[i] = Tail(queue)[j] => i = j
        <3>1. ASSUME NEW i \in 1 .. Len(queue) - 1, NEW j \in 1 .. Len(queue) - 1,
                     queue[i + 1] = queue[j + 1]
              PROVE  i = j
            <4>1. i + 1 \in 1 .. Len(queue) /\ j + 1 \in 1 .. Len(queue)
                BY <1>2
            <4>2. i + 1 = j + 1
                BY <1>6, <3>1, <4>1
            <4> QED
                BY <4>2
        <3> QED
            BY <1>2, <3>1
    <2>2. \A s \in Tasks : /\ Queued(s)' => ~Held(s)' /\ ~Unpushed(s)' /\ s \notin completed'
                           /\ Held(s)' => ~Unpushed(s)'
                           /\ Unpushed(s)' => s \notin completed'
        BY <1>1, <1>2, <1>5, <1>7, <1>8, <1>9 DEF TaskInv, QueueInv
    <2> QED
        BY <1>1, <2>1, <2>2 DEF QueueInv
<1>17. ASSUME Live', NEW s \in Tasks, Lost(s) PROVE Lost(s)'
    <2>1. Live /\ s[1] \in Events
        BY <1>1, <1>17, TasksAreTasks DEF Live
    <2>2. \A x \in TasksOf(s[1]) : Left(x)' => Left(x)
        BY <1>9 DEF TasksOf
    <2>3. /\ s \in started' /\ s \notin completed' /\ state'[s[1]] = "SCHEDULED" /\ ~Fresh(s[1])'
          /\ tasks_remaining'[s[1]] = tasks_remaining[s[1]]
        BY <1>1, <1>10, <1>17, <2>1 DEF Lost
    <2>4. ~Unpushed(s)' /\ ~Queued(s)' /\ ~Held(s)'
        BY <1>5, <1>7, <1>8, <1>9, <1>17 DEF Lost
    <2> QED
        BY <1>17, <2>1, <2>2, <2>3, <2>4, LostStays
<1>18. LostKept
    BY <1>17 DEF LostKept
<1> QED
    BY <1>18, <1>13, <1>14, <1>15, <1>16 DEF TaskInv, Events

\* A repush moves a task from the hand of a worker to the tail of the queue.
LEMMA RepushStep ==
    ASSUME Types, TaskInv, \A w \in Workers : WorkerInv(w), completed \subseteq started,
           NEW v \in Workers, Repush(v)
    PROVE  TaskInv' /\ LostKept
<1> DEFINE t == worker[v].task
<1>0. worker \in [Workers -> WorkerRecords] /\ queue \in Seq(Tasks)
    BY DEF Types
<1>1. /\ UNCHANGED <<state, pending_dependencies, tasks_remaining, leader, control, started,
                     completed>>
      /\ queue' = Append(queue, t)
      /\ worker[v].pc = "repush"
      /\ worker' = [worker EXCEPT ![v].pc = "check", ![v].stale = TRUE]
    BY DEF Repush, TryPush, At, dagVars, historyVars
<1>2. t \in Tasks /\ t \notin completed /\ WorkerIndex(t[1], t[2]) = v
    BY <1>1 DEF WorkerInv, HandPoints
<1> HIDE DEF t
<1>3. /\ Len(queue) \in Nat /\ Len(Append(queue, t)) = Len(queue) + 1
      /\ Append(queue, t)[Len(queue) + 1] = t
      /\ \A i \in 1 .. Len(queue) : Append(queue, t)[i] = queue[i]
    BY <1>0, <1>2
<1>4. Hand(v) = t /\ \A w \in Workers : w # v => Hand(w)' = Hand(w)
    BY <1>0, <1>1 DEF Hand, HandPoints, t
<1>5. Hand(v)' = NoTask
    <2>1. worker'[v].pc = "check"
        BY <1>0, <1>1 DEF WorkerRecords
    <2> QED
        BY <2>1 DEF Hand, HandPoints
<1>6. \A w \in Workers : Hand(w) = t => w = v
    BY <1>2, TasksAreTasks DEF WorkerInv, Hand
<1>7. Held(t) /\ ~Queued(t) /\ ~Unpushed(t)
    BY <1>2, <1>4 DEF Held, TaskInv, QueueInv
<1>8. ASSUME NEW s \in Tasks PROVE Queued(s)' <=> Queued(s) \/ s = t
    <2>1. ASSUME Queued(s)' PROVE Queued(s) \/ s = t
        <3>1. PICK i \in 1 .. Len(queue) + 1 : Append(queue, t)[i] = s
            BY <1>1, <1>3, <2>1 DEF Queued
        <3>2. i = Len(queue) + 1 \/ i \in 1 .. Len(queue)
            BY <1>3
        <3> QED
            BY <1>3, <3>1, <3>2 DEF Queued
    <2>2. ASSUME Queued(s) \/ s = t PROVE Queued(s)'
        <3>1. \A i \in 1 .. Len(queue) : i \in 1 .. Len(queue) + 1
            BY <1>3
        <3>2. Len(queue) + 1 \in 1 .. Len(queue) + 1
            BY <1>3
        <3> QED
            BY <1>1, <1>3, <2>2, <3>1, <3>2 DEF Queued
    <2> QED
        BY <2>1, <2>2
<1>9. ASSUME NEW s \in Tasks PROVE Held(s)' <=> Held(s) /\ s # t
    BY <1>4, <1>5, <1>6, TasksAreTasks DEF Held
<1>10. \A s \in Tasks : /\ Unpushed(s)' <=> Unpushed(s)
                        /\ Left(s)' <=> Left(s)
    BY <1>1, <1>2, <1>7, <1>8, <1>9 DEF Left, Unpushed, Uncut, LeaderAt
<1>11. /\ \A e \in Events : (Fresh(e)' <=> Fresh(e)) /\ Rest(e)' = Rest(e)
                            /\ (Counted(e)' <=> Counted(e))
       /\ Uncut' <=> Uncut
    BY <1>1 DEF Fresh, Rest, Counted, Live, LeaderAt, Uncut
<1>12. Sound' => Sound
    <2>1. \A w \in Workers : At(w, "catch") => At(w, "catch")'
        BY <1>0, <1>1 DEF At
    <2> QED
        BY <1>1, <2>1 DEF Sound
<1>13. ASSUME NEW e \in Events PROVE Outstanding(e)' = Outstanding(e)
    <2>1. Cardinality(InHand(e)') = Cardinality(InHand(e)) - (IF t[1] = e THEN 1 ELSE 0)
        BY <1>4, <1>5, HandEmptied
    <2>2. Cardinality(InQueue(e)') = Cardinality(InQueue(e)) + (IF t[1] = e THEN 1 ELSE 0)
        <3>1. InQueue(e)' = Positions(Append(queue, t), e) /\ InQueue(e) = Positions(queue, e)
            BY <1>1 DEF InQueue, Positions
        <3> QED
            BY <1>0, <1>2, <3>1, AppendCount
    <2>3. Cardinality(InQueue(e)) \in Nat /\ Cardinality(InHand(e)) \in Nat
        BY <1>0, PositionsFinite, HandsFinite DEF InQueue, Positions
    <2> QED
        BY <1>11, <2>1, <2>2, <2>3 DEF Outstanding
<1>14. ASSUME NEW e \in Events PROVE CounterInv(e)'
    <2>1. LeftOf(e)' = LeftOf(e)
        BY <1>10 DEF LeftOf, TasksOf
    <2>2. CounterInv(e)
        BY DEF TaskInv
    <2> QED
        BY <1>1, <1>11, <1>12, <1>13, <2>1, <2>2 DEF CounterInv
<1>15. ASSUME NEW e \in Events PROVE PlaceInv(e)'
    <2>1. PlaceInv(e)
        BY DEF TaskInv
    <2>2. IsFinalize(e) \/ Fresh(e) \/ state[e] = "FINISHED" => t[1] # e
        BY <1>2, <1>7, <2>1 DEF PlaceInv, TasksOf
    <2> QED
        BY <1>1, <1>8, <1>9, <1>11, <2>1, <2>2 DEF PlaceInv, TasksOf
<1>16. ASSUME NEW e \in Events PROVE DependencyInv(e)'
    BY <1>1 DEF TaskInv, DependencyInv, Waited
<1>17. QueueInv'
    <2>1. \A i, j \in 1 .. Len(queue) + 1 :
              Append(queue, t)[i] = Append(queue, t)[j] => i = j
        <3>1. \A i \in 1 .. Len(queue) : queue[i] # t
            BY <1>7 DEF Queued
        <3>2. \A i \in 1 .. Len(queue) + 1 : i = Len(queue) + 1 \/ i \in 1 .. Len(queue)
            BY <1>3
        <3> QED
            BY <1>3, <3>1, <3>2 DEF TaskInv, QueueInv
    <2>2. \A s \in Tasks : /\ Queued(s)' => ~Held(s)' /\ ~Unpushed(s)' /\ s \notin completed'
                           /\ Held(s)' => ~Unpushed(s)'
                           /\ Unpushed(s)' => s \notin completed'
        BY <1>1, <1>2, <1>7, <1>8, <1>9, <1>10 DEF TaskInv, QueueInv
    <2> QED
        BY <1>1, <1>3, <2>1, <2>2 DEF QueueInv
<1>18. ASSUME Live', NEW s \in Tasks, Lost(s) PROVE Lost(s)'
    <2>1. Live /\ s[1] \in Events
        BY <1>1, <1>18, TasksAreTasks DEF Live
    <2>2. \A x \in TasksOf(s[1]) : Left(x)' => Left(x)
        BY <1>10 DEF TasksOf
    <2>3. /\ s \in started' /\ s \notin completed' /\ state'[s[1]] = "SCHEDULED" /\ ~Fresh(s[1])'
          /\ tasks_remaining'[s[1]] = tasks_remaining[s[1]]
        BY <1>1, <1>11, <1>18, <2>1 DEF Lost
    <2>4. ~Unpushed(s)' /\ ~Queued(s)' /\ ~Held(s)'
        BY <1>7, <1>8, <1>9, <1>10, <1>18 DEF Lost
    <2> QED
        BY <1>18, <2>1, <2>2, <2>3, <2>4, LostStays
<1>19. LostKept
    BY <1>18 DEF LostKept
<1> QED
    BY <1>19, <1>14, <1>15, <1>16, <1>17 DEF TaskInv, Events

\* CountDown of a task whose event is still counted does not wrap, and takes exactly
\* that task off what is left.
LEMMA CountDownStep ==
    ASSUME Types, TaskInv, \A w \in Workers : WorkerInv(w), NEW v \in Workers, CountDown(v)
    PROVE  TaskInv' /\ LostKept
<1>30. PICK t \in Tasks : t = worker[v].task
    BY DEF CountDown, At, WorkerInv, HandPoints
<1> DEFINE n == (tasks_remaining[t[1]] - 1) % CounterModulus
<1>0. worker \in [Workers -> WorkerRecords]
      /\ tasks_remaining \in [Events -> 0 .. CounterModulus - 1]
    BY DEF Types
<1>1. /\ UNCHANGED <<state, pending_dependencies, queue, leader, control, started, completed>>
      /\ tasks_remaining' = [tasks_remaining EXCEPT ![t[1]] = n]
      /\ worker[v].pc = "count"
    BY <1>30 DEF CountDown, At, dagVars, historyVars
<1>2. PICK to \in {"notify", "check"} : Moves(v, "count", to)
    BY <1>0, MoveEffect DEF CountDown, WorkerPoints
<1>3. t \in Tasks /\ WorkerIndex(t[1], t[2]) = v /\ t \in started /\ (Uncut => t \in completed)
    BY <1>1, <1>30 DEF WorkerInv, HandPoints
<1>20. t[1] \in Events
    BY <1>3, TasksAreTasks
<1>4. Hand(v) = t /\ \A w \in Workers : w # v => Hand(w)' = Hand(w)
    BY <1>1, <1>2, <1>30 DEF Hand, HandPoints, Moves
<1>5. Hand(v)' = NoTask
    BY <1>0, <1>2, HandAfterMove DEF HandPoints, WorkerPoints
<1> HIDE DEF n
<1>6. \A w \in Workers : Hand(w) = t => w = v
    BY <1>3, TasksAreTasks DEF WorkerInv, Hand
<1>7. Held(t) /\ ~Queued(t) /\ ~Unpushed(t)
    BY <1>3, <1>4 DEF Held, TaskInv, QueueInv
<1>8. ASSUME NEW s \in Tasks PROVE /\ Queued(s)' <=> Queued(s)
                                   /\ Held(s)' <=> Held(s) /\ s # t
                                   /\ Unpushed(s)' <=> Unpushed(s)
                                   /\ Left(s)' <=> Left(s) /\ s # t
    <2>1. /\ Queued(s)' <=> Queued(s)
          /\ Held(s)' <=> Held(s) /\ s # t
          /\ Unpushed(s)' <=> Unpushed(s)
        BY <1>1, <1>4, <1>5, <1>6, TasksAreTasks DEF Queued, Held, Unpushed, LeaderAt
    <2> QED
        BY <1>1, <1>3, <1>7, <2>1 DEF Left, Uncut, LeaderAt
<1>9. /\ \A e \in Events : (Fresh(e)' <=> Fresh(e)) /\ Rest(e)' = Rest(e)
                            /\ (Counted(e)' <=> Counted(e))
      /\ Uncut' <=> Uncut
    BY <1>1 DEF Fresh, Rest, Counted, Live, LeaderAt, Uncut
<1>10. Sound' => Sound
    <2>1. \A w \in Workers : At(w, "catch") => At(w, "catch")'
        BY <1>1, <1>2 DEF At, Moves
    <2> QED
        BY <1>1, <2>1 DEF Sound
<1>11. ASSUME NEW e \in Events
       PROVE  Outstanding(e)' = Outstanding(e) - (IF t[1] = e THEN 1 ELSE 0)
    <2>1. Cardinality(InHand(e)') = Cardinality(InHand(e)) - (IF t[1] = e THEN 1 ELSE 0)
        BY <1>4, <1>5, HandEmptied
    <2>2. InQueue(e)' = InQueue(e) /\ Rest(e)' = Rest(e)
        BY <1>1, <1>9 DEF InQueue
    <2>3. Cardinality(InQueue(e)) \in Nat /\ Cardinality(InHand(e)) \in Nat /\ Rest(e) \in Int
        <3>1. queue \in Seq(Tasks)
            BY DEF Types
        <3>2. Cardinality(InQueue(e)) \in Nat
            BY <3>1, PositionsFinite DEF InQueue, Positions
        <3>3. leader.pushed \in Nat
            BY DEF Types, LeaderRecords
        <3>4. Rest(e) \in Int
            BY <3>3, TaskCounts DEF Rest
        <3> QED
            BY <3>2, <3>4, HandsFinite
    <2> QED
        BY <2>1, <2>2, <2>3 DEF Outstanding
<1>12. ~Fresh(t[1]) /\ state[t[1]] = "SCHEDULED" /\ ~IsFinalize(t[1])
    <2>1. PlaceInv(t[1]) /\ t \in TasksOf(t[1])
        BY <1>3, <1>20 DEF TaskInv, TasksOf
    <2> QED
        BY <1>7, <1>20, <2>1 DEF PlaceInv, Fresh, Types
<1>13. Live => /\ tasks_remaining[t[1]] > 0
               /\ n = tasks_remaining[t[1]] - 1
               /\ n >= Cardinality(LeftOf(t[1])')
    <2> HAVE Live
    <2>1. Counted(t[1])
        BY <1>12 DEF Counted
    <2>2. tasks_remaining[t[1]] >= Cardinality(LeftOf(t[1]))
        BY <1>20, <2>1 DEF TaskInv, CounterInv
    <2>3. t \in LeftOf(t[1]) /\ LeftOf(t[1])' = LeftOf(t[1]) \ {t}
        <3>1. t \in TasksOf(t[1]) /\ Left(t)
            BY <1>3, <1>7 DEF TasksOf, Left
        <3>2. \A x \in TasksOf(t[1]) : Left(x)' <=> Left(x) /\ x # t
            BY <1>8 DEF TasksOf
        <3> QED
            BY <3>1, <3>2 DEF LeftOf, TasksOf
    <2>4. Cardinality(LeftOf(t[1])') = Cardinality(LeftOf(t[1])) - 1
          /\ Cardinality(LeftOf(t[1])') \in Nat
        <3>1. IsFiniteSet(LeftOf(t[1])) /\ Cardinality(LeftOf(t[1])) \in Nat
            BY <1>20, LeftFinite
        <3>2. Cardinality(LeftOf(t[1]) \ {t}) = Cardinality(LeftOf(t[1])) - 1
            BY <2>3, <3>1, FS_RemoveElement
        <3>3. Cardinality(LeftOf(t[1]) \ {t}) \in Nat
            BY <3>1, FS_RemoveElement, FS_CardinalityType
        <3> QED
            BY <2>3, <3>2, <3>3
    <2>5. tasks_remaining[t[1]] \in 0 .. CounterModulus - 1 /\ CounterModulus \in Nat
        BY <1>0, <1>20, CountsAssumption DEF CountsAssumption
    <2>6. Cardinality(LeftOf(t[1])) \in Nat
        BY <1>20, LeftFinite
    <2>7. tasks_remaining[t[1]] > 0
        BY <2>2, <2>4, <2>5, <2>6
    <2>8. n = tasks_remaining[t[1]] - 1
        BY <2>5, <2>7 DEF n
    <2> QED
        BY <2>2, <2>4, <2>5, <2>6, <2>7, <2>8
<1>19. Live /\ tasks_remaining[t[1]] > Cardinality(LeftOf(t[1])) =>
           n > Cardinality(LeftOf(t[1])')
    <2>1. t \in LeftOf(t[1]) /\ LeftOf(t[1])' = LeftOf(t[1]) \ {t}
        <3>1. t \in TasksOf(t[1]) /\ Left(t)
            BY <1>3, <1>7 DEF TasksOf, Left
        <3>2. \A x \in TasksOf(t[1]) : Left(x)' <=> Left(x) /\ x # t
            BY <1>8 DEF TasksOf
        <3> QED
            BY <3>1, <3>2 DEF LeftOf, TasksOf
    <2>2. IsFiniteSet(LeftOf(t[1])) /\ Cardinality(LeftOf(t[1])) \in Nat
        BY <1>20, LeftFinite
    <2>3. Cardinality(LeftOf(t[1])') = Cardinality(LeftOf(t[1])) - 1
        BY <2>1, <2>2, FS_RemoveElement
    <2> QED
        BY <1>0, <1>13, <1>20, <2>2, <2>3
<1>14. ASSUME NEW e \in Events PROVE CounterInv(e)'
    <2>1. CounterInv(e)
        BY DEF TaskInv
    <2>2. CASE e = t[1]
        <3>1. ~Fresh(e)'
            BY <1>9, <1>12, <2>2
        <3>2. ASSUME Counted(e)' PROVE Live /\ Counted(e)
            BY <1>9, <3>2 DEF Counted
        <3>3. tasks_remaining'[e] = n
            BY <1>0, <1>1, <2>2
        <3>4. tasks_remaining[e] \in Int /\ Outstanding(e)' = Outstanding(e) - 1
            BY <1>0, <1>11, <2>2
        <3> QED
            BY <1>10, <1>13, <2>1, <2>2, <3>1, <3>2, <3>3, <3>4 DEF CounterInv
    <2>3. CASE e # t[1]
        <3>1. tasks_remaining'[e] = tasks_remaining[e]
            BY <1>0, <1>1, <2>3
        <3>2. LeftOf(e)' = LeftOf(e)
            BY <1>8, <2>3 DEF LeftOf, TasksOf
        <3>3. Outstanding(e)' = Outstanding(e)
            <4>1. Outstanding(e) \in Int
                <5>1. queue \in Seq(Tasks) /\ leader.pushed \in Nat
                    BY DEF Types, LeaderRecords
                <5>2. Cardinality(InQueue(e)) \in Nat
                    BY <5>1, PositionsFinite DEF InQueue, Positions
                <5>3. Rest(e) \in Int
                    BY <5>1, TaskCounts DEF Rest
                <5> QED
                    BY <5>2, <5>3, HandsFinite DEF Outstanding
            <4> QED
                BY <1>11, <2>3, <4>1
        <3> QED
            BY <1>9, <1>10, <2>1, <3>1, <3>2, <3>3 DEF CounterInv
    <2> QED
        BY <2>2, <2>3
<1>15. ASSUME NEW e \in Events PROVE PlaceInv(e)'
    BY <1>1, <1>8, <1>9 DEF TaskInv, PlaceInv, TasksOf
<1>16. ASSUME NEW e \in Events PROVE DependencyInv(e)'
    BY <1>1 DEF TaskInv, DependencyInv, Waited
<1>17. QueueInv'
    BY <1>1, <1>8 DEF TaskInv, QueueInv
<1>18. ASSUME Live', NEW s \in Tasks, Lost(s) PROVE Lost(s)'
    <2>1. s # t
        BY <1>7, <1>18 DEF Lost
    <2>2. Live
        BY <1>1, <1>18 DEF Live
    <2>3. CASE s[1] # t[1]
        <3>1. tasks_remaining'[s[1]] = tasks_remaining[s[1]]
            BY <1>0, <1>1, <2>3, TasksAreTasks
        <3>2. s[1] \in Events
            BY TasksAreTasks
        <3> QED
            BY <1>1, <1>8, <1>9, <1>18, <2>2, <3>1, <3>2, LostStays DEF Lost, TasksOf
    <2>4. CASE s[1] = t[1]
        <3>1. tasks_remaining'[t[1]] = n
            BY <1>0, <1>1, <1>20
        <3>2. ~Uncut' => n > Cardinality(LeftOf(t[1])')
            BY <1>9, <1>13, <1>18, <1>19, <2>2, <2>4 DEF Lost
        <3> QED
            BY <1>1, <1>8, <1>9, <1>18, <1>20, <2>1, <2>4, <3>1, <3>2 DEF Lost
    <2> QED
        BY <2>3, <2>4
<1>21. LostKept
    BY <1>18 DEF LostKept
<1> QED
    BY <1>21, <1>14, <1>15, <1>16, <1>17 DEF TaskInv, Events

------------------------------------------------------------------------------
(* The steps of the leader. *)

\* The leader leaves a point at which it schedules nothing, or leaves its loop.
LeaderQuiet ==
    /\ UNCHANGED <<state, pending_dependencies, tasks_remaining, queue, started, completed>>
    /\ \A w \in Workers : /\ worker'[w].pc = worker[w].pc
                          /\ worker'[w].task = worker[w].task
    /\ control'.worker_error = control.worker_error
    /\ control.shutdown_requested # 0 => control'.shutdown_requested # 0
    /\ leader'.pc \notin {"schedule", "push"} /\ leader.pc # "dead"
    /\ Live' => leader.pc \notin {"schedule", "push"} /\ Live

\* A step at which the leader schedules nothing is quiet.
LEMMA LeaderQuietIsQuiet ==
    ASSUME LeaderQuiet
    PROVE  Quiet
<1>1. \A w \in Workers : Hand(w)' = Hand(w) /\ (At(w, "catch")' <=> At(w, "catch"))
    BY DEF LeaderQuiet, Hand, At
<1>2. Uncut' => Uncut
    BY DEF LeaderQuiet, Uncut, LeaderAt
<1>3. Sound' => Sound
    BY <1>1 DEF LeaderQuiet, Sound, Live
<1>4. /\ \A e \in Events : Fresh(e)' => Fresh(e)
      /\ \A t \in Tasks : Unpushed(t)' => Unpushed(t)
      /\ Live' => Live /\ \A e \in Events : (Fresh(e) => Fresh(e)') /\ Rest(e)' = Rest(e)
    BY DEF LeaderQuiet, Fresh, Unpushed, Rest, LeaderAt
<1> QED
    BY <1>1, <1>2, <1>3, <1>4 DEF LeaderQuiet, Quiet

\* The leader's steps that are quiet.
LeaderQuietActs ==
    \/ Top \/ RaiseWorkerFailure \/ (\E e \in Events : ScanPass(e)) \/ ScanEnd
    \/ LeaderWakesOnLatch \/ LeaderWakesOnTimeout \/ SignalShutdown \/ TerminateWorkers
    \/ WorkersJoined \/ EmitResult \/ LastCheck \/ LeaderFails \/ LeaderDies

\* LeaderMoves changes the leader's program point and nothing else.
LEMMA LeaderMovesEffect ==
    ASSUME leader \in LeaderRecords, NEW from, NEW to, LeaderMoves(from, to)
    PROVE  /\ leader.pc = from /\ leader'.pc = to
           /\ leader'.event = leader.event /\ leader'.pushed = leader.pushed
           /\ leader'.cursor = leader.cursor /\ leader'.progress = leader.progress
           /\ leader'.resume = leader.resume
           /\ UNCHANGED <<dagVars, sharedVars, worker, yields, historyVars>>
BY DEF LeaderMoves, LeaderAt, LeaderRecords

\* The leader's loop is quiet outside the places that schedule, push and finish.
LEMMA LeaderActsAreQuiet ==
    ASSUME Types, LeaderQuietActs
    PROVE  Quiet
<1>0. leader \in LeaderRecords /\ control \in ControlRecords
      /\ worker \in [Workers -> WorkerRecords]
    BY DEF Types
<1>1. CASE Top
    <2>1. leader.pc = "top" /\ leader'.pc \in {"raise", "scan"}
        BY <1>0, <1>1 DEF Top, LeaderAt, LeaderRecords
    <2>2. LeaderQuiet
        BY <1>1, <2>1 DEF Top, LeaderQuiet, Live, dagVars, sharedVars, historyVars
    <2> QED
        BY <2>2, LeaderQuietIsQuiet
<1>2. CASE RaiseWorkerFailure
    <2>1. LeaderMoves("raise", "catch")
        BY <1>2 DEF RaiseWorkerFailure
    <2>2. LeaderQuiet
        BY <1>0, <2>1, LeaderMovesEffect DEF LeaderQuiet, Live, dagVars, sharedVars,
           historyVars
    <2> QED
        BY <2>2, LeaderQuietIsQuiet
<1>3. ASSUME NEW e \in Events, ScanPass(e) PROVE Quiet
    <2>1. leader.pc = "scan" /\ leader'.pc = "scan"
        BY <1>0, <1>3 DEF ScanPass, AtCursor, Passed, LeaderAt, LeaderRecords
    <2>2. LeaderQuiet
        BY <1>3, <2>1 DEF ScanPass, LeaderQuiet, Live, dagVars, sharedVars, historyVars
    <2> QED
        BY <2>2, LeaderQuietIsQuiet
<1>4. CASE ScanEnd
    <2>1. PICK to \in {"top", "shutdown", "wait"} : LeaderMoves("scan", to)
        BY <1>4 DEF ScanEnd
    <2>2. LeaderQuiet
        BY <1>0, <2>1, LeaderMovesEffect DEF LeaderQuiet, Live, dagVars, sharedVars,
           historyVars
    <2> QED
        BY <2>2, LeaderQuietIsQuiet
<1>5. CASE LeaderWakesOnLatch \/ LeaderWakesOnTimeout
    <2>1. LeaderWakes
        BY <1>5 DEF LeaderWakesOnLatch, LeaderWakesOnTimeout
    <2>2. leader.pc = "wait" /\ leader'.pc = "top"
        BY <1>0, <2>1 DEF LeaderWakes, LeaderAt, LeaderRecords
    <2>3. LeaderQuiet
        BY <2>1, <2>2 DEF LeaderWakes, LeaderQuiet, Live, dagVars, historyVars
    <2> QED
        BY <2>3, LeaderQuietIsQuiet
<1>6. CASE SignalShutdown
    <2>1. \/ leader.pc = "shutdown" /\ leader'.pc = "join"
          \/ leader.pc = "catch" /\ leader'.pc = "grace"
        BY <1>0, <1>6 DEF SignalShutdown, LeaderAt, LeaderRecords
    <2>2. control'.shutdown_requested = 1 /\ control'.worker_error = control.worker_error
        BY <1>0, <1>6 DEF SignalShutdown, ControlRecords
    <2>3. LeaderQuiet
        BY <1>6, <2>1, <2>2 DEF SignalShutdown, LeaderQuiet, Live, dagVars, historyVars
    <2> QED
        BY <2>3, LeaderQuietIsQuiet
<1>7. CASE TerminateWorkers
    <2>1. leader.pc = "grace" /\ leader'.pc = "reap"
        BY <1>0, <1>7 DEF TerminateWorkers, LeaderAt, LeaderRecords
    <2>2. \A w \in Workers : worker'[w].pc = worker[w].pc /\ worker'[w].task = worker[w].task
        BY <1>0, <1>7 DEF TerminateWorkers, WorkerRecords
    <2>3. LeaderQuiet
        BY <1>7, <2>1, <2>2 DEF TerminateWorkers, LeaderQuiet, Live, dagVars, sharedVars,
           historyVars
    <2> QED
        BY <2>3, LeaderQuietIsQuiet
<1>8. CASE WorkersJoined
    <2>1. LeaderMoves("join", "emit") \/ LeaderMoves("reap", "failed")
        BY <1>8 DEF WorkersJoined
    <2>2. LeaderQuiet
        BY <1>0, <2>1, LeaderMovesEffect DEF LeaderQuiet, Live, dagVars, sharedVars,
           historyVars
    <2> QED
        BY <2>2, LeaderQuietIsQuiet
<1>9. CASE EmitResult
    <2>1. leader.pc = "emit" /\ leader'.pc = "emitted"
        BY <1>0, <1>9 DEF EmitResult, LeaderAt, LeaderRecords
    <2>2. LeaderQuiet
        BY <1>9, <2>1 DEF EmitResult, LeaderQuiet, Live, dagVars, sharedVars
    <2> QED
        BY <2>2, LeaderQuietIsQuiet
<1>10. CASE LastCheck
    <2>1. PICK to \in {"raise", "done"} : LeaderMoves("emitted", to)
        BY <1>10 DEF LastCheck
    <2>2. LeaderQuiet
        BY <1>0, <2>1, LeaderMovesEffect DEF LeaderQuiet, Live, dagVars, sharedVars,
           historyVars
    <2> QED
        BY <2>2, LeaderQuietIsQuiet
<1>11. CASE LeaderFails
    <2>1. PICK from \in {"top", "schedule", "scan", "join", "emit", "emitted"} :
              LeaderMoves(from, "catch")
        BY <1>11 DEF LeaderFails
    <2>2. LeaderQuiet
        BY <1>0, <2>1, LeaderMovesEffect DEF LeaderQuiet, Live, dagVars, sharedVars,
           historyVars
    <2> QED
        BY <2>2, LeaderQuietIsQuiet
<1>12. CASE LeaderDies
    <2>1. PICK from \in LeaderPoints \ {"done", "failed", "dead"} : LeaderMoves(from, "dead")
        BY <1>12 DEF LeaderDies
    <2>2. LeaderQuiet
        BY <1>0, <2>1, LeaderMovesEffect DEF LeaderQuiet, Live, dagVars, sharedVars,
           historyVars
    <2> QED
        BY <2>2, LeaderQuietIsQuiet
<1> QED
    BY <1>1, <1>2, <1>3, <1>4, <1>5, <1>6, <1>7, <1>8, <1>9, <1>10, <1>11, <1>12
    DEF LeaderQuietActs

\* At most one event waits for e.
LEMMA OneDependent ==
    ASSUME NEW e \in Events, NEW c \in Dependents(e), NEW d \in Dependents(e)
    PROVE  c = d /\ c \in Events
<1>1. c \in Events /\ d \in Events /\ e \in Upstream(c) /\ e \in Upstream(d)
    BY DEF Dependents
<1>2. ASSUME NEW x \in Events, e \in Upstream(x), IsRun(x)
      PROVE  /\ IsFinalize(e) /\ x = Run(PipelineOf(x)) /\ PipelineOf(x) \in Pipelines
             /\ PipelineOf(e) \in DependsOn[PipelineOf(x)]
    BY <1>2, EventKinds, PipelineEvents, PlanAssumption DEF Upstream, PlanAssumption
<1>3. ASSUME NEW x \in Events, e \in Upstream(x), ~IsRun(x)
      PROVE  x = e + 1 /\ ~IsFinalize(e)
    <2>1. e = x - 1 /\ e \in Int /\ x \in Int
        BY <1>3, EventKinds DEF Upstream
    <2>2. x = e + 1
        BY <2>1
    <2>3. ~IsFinalize(e)
        BY <1>3, <2>1 DEF IsFinalize, IsRun
    <2> QED
        BY <2>2, <2>3
<1>4. CASE IsFinalize(e)
    <2>1. IsRun(c) /\ IsRun(d)
        BY <1>1, <1>3, <1>4
    <2> QED
        BY <1>1, <1>2, <2>1, PlanAssumption DEF PlanAssumption
<1>5. CASE ~IsFinalize(e)
    BY <1>1, <1>2, <1>3, <1>5
<1> QED
    BY <1>4, <1>5

\* FinishEvent finishes e and schedules the one event that waited for e alone.
LEMMA FinishEffect ==
    ASSUME Types, TaskInv, NEW e \in Events, NEW l \in LeaderRecords,
           state[e] = "SCHEDULED", FinishEvent(e, l),
           \A x \in Events : x # e => (Fresh(x) <=> state[x] = "PENDING")
    PROVE  /\ state' \in [Events -> {"PENDING", "SCHEDULED", "FINISHED"}]
           /\ pending_dependencies' \in [Events -> Nat]
           /\ state'[e] = "FINISHED" /\ ~Fresh(e)'
           /\ \A x \in Events : x # e =>
                 /\ state'[x] = "FINISHED" <=> state[x] = "FINISHED"
                 /\ state[x] = "SCHEDULED" => state'[x] = "SCHEDULED"
                 /\ Fresh(x)' <=> Fresh(x)
           /\ \A x \in Events : DependencyInv(x)'
           /\ leader' \in LeaderRecords
           /\ leader'.pc \in {"start", "scan", "schedule"}
           /\ leader'.pc = "schedule" =>
                 state'[leader'.event] = "SCHEDULED" /\ state[leader'.event] = "PENDING"
           /\ leader'.pc = "start" => leader.resume = "start"
           /\ leader'.pc = "scan" => leader.resume = "scan"
           /\ leader'.cursor = l.cursor /\ leader'.progress = l.progress
           /\ leader'.resume = l.resume
<1> DEFINE ready == {d \in Dependents(e) : pending_dependencies[d] = 1
                                           /\ state[d] = "PENDING"}
<1>1. /\ state' = [x \in Events |-> IF x = e THEN "FINISHED"
                                    ELSE IF x \in ready THEN "SCHEDULED" ELSE state[x]]
      /\ pending_dependencies' =
            [x \in Events |-> pending_dependencies[x]
                              - (IF x \in Dependents(e) THEN 1 ELSE 0)]
      /\ \/ ready = {} /\ leader' = [l EXCEPT !.pc = leader.resume]
         \/ \E d \in ready : leader' = [l EXCEPT !.pc = "schedule", !.event = d]
    BY DEF FinishEvent
<1>2. /\ ready \subseteq Events /\ e \notin ready
      /\ \A d \in ready : state[d] = "PENDING" /\ pending_dependencies[d] = 1
      /\ \A c \in ready, d \in ready : c = d
      /\ \A d \in ready : d \in Dependents(e)
    BY OneDependent
<1> HIDE DEF ready
<1>3. leader.resume \in {"start", "scan"} /\ leader.resume \in LeaderPoints
    BY DEF Types, LeaderRecords, LeaderPoints
<1>4. /\ state' \in [Events -> {"PENDING", "SCHEDULED", "FINISHED"}]
      /\ state'[e] = "FINISHED"
      /\ \A x \in Events : x # e =>
            /\ state'[x] = "FINISHED" <=> state[x] = "FINISHED"
            /\ state[x] = "SCHEDULED" => state'[x] = "SCHEDULED"
            /\ state'[x] = "PENDING" <=> state[x] = "PENDING" /\ x \notin ready
    BY <1>1, <1>2 DEF Types
<1>5. /\ leader' \in LeaderRecords
      /\ leader'.cursor = l.cursor /\ leader'.progress = l.progress
      /\ leader'.resume = l.resume
      /\ \/ ready = {} /\ leader'.pc = leader.resume
         \/ /\ leader'.pc = "schedule" /\ leader'.event \in ready
    BY <1>1, <1>2, <1>3 DEF LeaderRecords, LeaderPoints
<1>6. ~Fresh(e)'
    BY <1>2, <1>3, <1>4, <1>5 DEF Fresh, LeaderAt
<1>7. ASSUME NEW x \in Events, x # e PROVE Fresh(x)' <=> Fresh(x)
    <2>1. leader'.pc = "schedule" /\ leader'.event = x <=> x \in ready
        BY <1>2, <1>3, <1>5
    <2> QED
        BY <1>2, <1>4, <1>7, <2>1 DEF Fresh, LeaderAt
<1>8. ASSUME NEW x \in Events
      PROVE  DependencyInv(x)' /\ pending_dependencies'[x] \in Nat
    <2>1. Waited(x)' = Waited(x) \ {e}
        BY <1>4, UpstreamFacts DEF Waited
    <2>2. e \in Waited(x) <=> x \in Dependents(e)
        BY DEF Waited, Dependents
    <2>3. IsFiniteSet(Waited(x)) /\ Cardinality(Waited(x)) \in Nat
        BY UpstreamFacts, FS_Subset, FS_CardinalityType DEF Waited
    <2>4. Cardinality(Waited(x)') =
              Cardinality(Waited(x)) - (IF x \in Dependents(e) THEN 1 ELSE 0)
        <3>1. Cardinality(Waited(x) \ {e}) =
                  IF e \in Waited(x) THEN Cardinality(Waited(x)) - 1
                  ELSE Cardinality(Waited(x))
            BY <2>3, FS_RemoveElement
        <3> QED
            BY <2>1, <2>2, <2>3, <3>1
    <2>5. Cardinality(Waited(x)') \in Nat
        BY <2>1, <2>3, FS_RemoveElement, FS_CardinalityType
    <2>6. pending_dependencies[x] = Cardinality(Waited(x))
          /\ (state[x] # "PENDING" => Waited(x) = {})
        BY DEF TaskInv, DependencyInv
    <2>7. pending_dependencies'[x] = Cardinality(Waited(x)')
        BY <1>1, <2>4, <2>6
    <2>8. ASSUME state'[x] # "PENDING" PROVE Waited(x)' = {}
        <3>1. CASE x \in ready
            <4>1. Cardinality(Waited(x)) = 1 /\ x \in Dependents(e)
                BY <1>2, <2>6, <3>1
            <4>2. Cardinality(Waited(x)') = 0
                BY <2>4, <4>1
            <4>3. IsFiniteSet(Waited(x)')
                BY <2>1, <2>3, FS_Subset
            <4> QED
                BY <4>2, <4>3, FS_EmptySet
        <3>2. CASE x \notin ready
            BY <1>4, <2>1, <2>6, <2>8, <3>2
        <3> QED
            BY <3>1, <3>2
    <2> QED
        BY <2>5, <2>7, <2>8 DEF DependencyInv
<1>9. pending_dependencies' \in [Events -> Nat]
    BY <1>1, <1>8
<1>10. leader'.pc = "schedule" =>
           state'[leader'.event] = "SCHEDULED" /\ state[leader'.event] = "PENDING"
    BY <1>1, <1>2, <1>3, <1>5
<1> QED
    BY <1>3, <1>4, <1>5, <1>6, <1>7, <1>8, <1>9, <1>10

\* A step that finishes e, whose tasks are all over, and moves no other task.
Finishing(e, l) ==
    /\ e \in Events /\ l \in LeaderRecords /\ state[e] = "SCHEDULED" /\ FinishEvent(e, l)
    /\ (leader.pc = "schedule" /\ leader.event = e) \/ leader.pc = "scan"
    /\ l.resume = leader.resume /\ (l.resume = "start" \/ l.progress)
    /\ UNCHANGED <<queue, control, worker>>
    /\ \A x \in Events : x # e => tasks_remaining'[x] = tasks_remaining[x]
    /\ \A t \in TasksOf(e) : ~Queued(t) /\ ~Held(t) /\ t \in started'
                             /\ (Uncut => t \in completed')
                             /\ ~Lost(t)
    /\ \A t \in Tasks : t[1] # e => /\ t \in started' <=> t \in started
                                    /\ t \in completed' <=> t \in completed

\* Finishing an event whose tasks are all over keeps what the counters cover.
LEMMA FinishingStep ==
    ASSUME Types, TaskInv, NEW e, NEW l, Finishing(e, l)
    PROVE  TaskInv' /\ LostKept
<1>0. e \in Events /\ l \in LeaderRecords
    BY DEF Finishing
<1>1. \A x \in Events : x # e => (Fresh(x) <=> state[x] = "PENDING")
    BY DEF Finishing, Fresh, LeaderAt
<1>2. /\ state'[e] = "FINISHED" /\ ~Fresh(e)'
      /\ \A x \in Events : x # e =>
            /\ state'[x] = "FINISHED" <=> state[x] = "FINISHED"
            /\ state[x] = "SCHEDULED" => state'[x] = "SCHEDULED"
            /\ Fresh(x)' <=> Fresh(x)
      /\ \A x \in Events : DependencyInv(x)'
      /\ leader'.pc \in {"start", "scan", "schedule"}
      /\ state' \in [Events -> {"PENDING", "SCHEDULED", "FINISHED"}]
    BY <1>0, <1>1, FinishEffect DEF Finishing
<1>3. /\ \A x \in Events : InHand(x)' = InHand(x) /\ InQueue(x)' = InQueue(x)
      /\ \A t \in Tasks : (Queued(t)' <=> Queued(t)) /\ (Held(t)' <=> Held(t))
    BY DEF Finishing, InHand, InQueue, Queued, Held, Hand
<1>4. /\ Uncut' <=> Uncut
      /\ Sound' <=> Sound
      /\ Live
      /\ \A t \in Tasks : ~Unpushed(t) /\ ~Unpushed(t)'
      /\ \A x \in Events : Rest(x) = 0 /\ Rest(x)' = 0
    BY <1>2 DEF Finishing, Uncut, Sound, At, Live, Unpushed, Rest, LeaderAt
<1>5. ASSUME NEW x \in Events PROVE CounterInv(x)'
    <2>1. CASE x = e
        BY <1>2, <2>1 DEF CounterInv, Counted
    <2>2. CASE x # e
        <3>1. tasks_remaining'[x] = tasks_remaining[x] /\ Outstanding(x)' = Outstanding(x)
            BY <1>3, <1>4, <2>2 DEF Finishing, Outstanding
        <3>2. LeftOf(x)' = LeftOf(x)
            BY <1>3, <1>4, <2>2 DEF LeftOf, TasksOf, Left, Finishing
        <3>3. Counted(x)' => Counted(x)
            BY <1>2, <1>4, <2>2 DEF Counted, Fresh, Types
        <3> QED
            BY <1>2, <1>4, <2>2, <3>1, <3>2, <3>3 DEF CounterInv, TaskInv
    <2> QED
        BY <2>1, <2>2
<1>6. ASSUME NEW x \in Events PROVE PlaceInv(x)'
    <2>1. CASE x = e
        BY <1>2, <1>3, <1>4, <2>1 DEF PlaceInv, TasksOf, Finishing
    <2>2. CASE x # e
        BY <1>2, <1>3, <1>4, <2>2 DEF PlaceInv, TasksOf, Finishing, TaskInv
    <2> QED
        BY <2>1, <2>2
<1>7. QueueInv'
    <2>1. queue' = queue
        BY DEF Finishing
    <2>2. \A t \in Tasks : t[1] # e => (t \in completed' <=> t \in completed)
        BY DEF Finishing
    <2>3. \A t \in Tasks : t[1] = e => ~Queued(t)
        BY DEF Finishing, TasksOf
    <2> QED
        BY <1>3, <1>4, <2>1, <2>2, <2>3 DEF QueueInv, TaskInv
<1>8. ASSUME NEW t \in Tasks, Lost(t) PROVE Lost(t)'
    <2>1. t[1] # e /\ t[1] \in Events
        BY <1>8, TasksAreTasks DEF Finishing, TasksOf
    <2>2. \A s \in TasksOf(t[1]) : Left(s)' => Left(s)
        BY <1>3, <1>4, <2>1 DEF Left, TasksOf, Finishing
    <2>3. /\ t \in started' /\ t \notin completed'
          /\ tasks_remaining'[t[1]] = tasks_remaining[t[1]]
        BY <1>8, <2>1 DEF Finishing, Lost
    <2> QED
        BY <1>2, <1>3, <1>4, <1>8, <2>1, <2>2, <2>3, LostStays DEF Lost
<1>9. LostKept
    BY <1>8 DEF LostKept
<1> QED
    BY <1>9, <1>2, <1>5, <1>6, <1>7 DEF TaskInv, Events

\* A FINALIZE has one task.
LEMMA FinalizeTask ==
    ASSUME NEW e \in Events, IsFinalize(e)
    PROVE  TasksOf(e) = {<<e, 0>>} /\ <<e, 0>> \in Tasks
<1>1. TaskCount(e) = 1
    BY TaskCounts
<1>2. <<e, 0>> \in Tasks /\ <<e, 0>>[1] = e
    BY <1>1, TaskPairs
<1>3. \A t \in TasksOf(e) : t = <<e, 0>>
    BY <1>1, TaskPairs DEF TasksOf
<1> QED
    BY <1>2, <1>3 DEF TasksOf

\* The leader's record after an event has been passed in the scan.
LEMMA PassedRecord ==
    ASSUME leader \in LeaderRecords, NEW e \in Events
    PROVE  /\ Passed(e) \in LeaderRecords
           /\ [Passed(e) EXCEPT !.progress = TRUE] \in LeaderRecords
           /\ Passed(e).cursor = e + 1 /\ Passed(e).progress = leader.progress
           /\ Passed(e).resume = leader.resume /\ Passed(e).pc = leader.pc
           /\ Passed(e).event = leader.event
           /\ [Passed(e) EXCEPT !.progress = TRUE].progress = TRUE
           /\ [Passed(e) EXCEPT !.progress = TRUE].resume = leader.resume
<1>1. e + 1 \in Nat
    BY CountsAssumption DEF Events, CountsAssumption
<1> QED
    BY <1>1 DEF Passed, LeaderRecords

\* The four places at which the leader finishes an event.
FinishActs ==
    \/ ScheduleTrivialCombine
    \/ FinalizeIsTrivial(PipelineOf(leader.event)) /\ ScheduleFinalize
    \/ \E e \in Events : ScanFinalize(e) \/ ScanFinish(e)

\* At each of the four places that call FinishEvent the tasks of the event are
\* over.
LEMMA FinishActsFinish ==
    ASSUME Types, TaskInv, LeaderInv, FinishActs
    PROVE  \E e \in Events, l \in LeaderRecords : Finishing(e, l)
<1>0. leader \in LeaderRecords /\ tasks_remaining \in [Events -> 0 .. CounterModulus - 1]
      /\ leader.event \in Events
    BY DEF Types, LeaderRecords
<1>1. CASE ScheduleTrivialCombine
    <2> DEFINE e == leader.event
    <2>1. /\ leader.pc = "schedule" /\ TaskCount(e) = 0 /\ FinishEvent(e, leader)
          /\ tasks_remaining' = [tasks_remaining EXCEPT ![e] = 0]
          /\ UNCHANGED <<queue, control, worker, started, completed>>
        BY <1>1 DEF ScheduleTrivialCombine, LeaderAt, historyVars
    <2>2. TasksOf(e) = {}
        BY <1>0, <2>1, TaskPairs DEF TasksOf
    <2>3. state[e] = "SCHEDULED" /\ (leader.resume = "start" \/ leader.progress)
        BY <2>1 DEF LeaderInv
    <2> HIDE DEF e
    <2>4. e = leader.event
        BY DEF e
    <2>5. \A x \in Events : x # e => tasks_remaining'[x] = tasks_remaining[x]
        BY <1>0, <2>1
    <2>6. Finishing(e, leader)
        BY <1>0, <2>1, <2>2, <2>3, <2>4, <2>5 DEF Finishing
    <2> QED
        BY <1>0, <2>4, <2>6
<1>2. CASE FinalizeIsTrivial(PipelineOf(leader.event)) /\ ScheduleFinalize
    <2> DEFINE e == leader.event
    <2>1. /\ leader.pc = "schedule" /\ IsFinalize(e) /\ FinishEvent(e, leader)
          /\ tasks_remaining' = [tasks_remaining EXCEPT ![e] = 0]
          /\ started' = started \cup {<<e, 0>>}
          /\ completed' = completed \cup {<<e, 0>>}
          /\ UNCHANGED <<queue, control, worker>>
        BY <1>2 DEF ScheduleFinalize, LeaderAt
    <2>2. TasksOf(e) = {<<e, 0>>}
        BY <1>0, <2>1, FinalizeTask
    <2>3. state[e] = "SCHEDULED" /\ (leader.resume = "start" \/ leader.progress)
        BY <2>1 DEF LeaderInv
    <2> HIDE DEF e
    <2>4. e = leader.event
        BY DEF e
    <2>5. \A x \in Events : x # e => tasks_remaining'[x] = tasks_remaining[x]
        BY <1>0, <2>1
    <2>7. \A t \in TasksOf(e) : ~Queued(t) /\ ~Held(t) /\ ~Lost(t)
        BY <1>0, <2>1, <2>3, <2>4 DEF TaskInv, PlaceInv, Lost
    <2>6. Finishing(e, leader)
        BY <1>0, <2>1, <2>2, <2>3, <2>4, <2>5, <2>7 DEF Finishing
    <2> QED
        BY <1>0, <2>4, <2>6
<1>3. ASSUME NEW e \in Events, ScanFinalize(e)
      PROVE  \E l \in LeaderRecords : Finishing(e, l)
    <2> DEFINE l == [Passed(e) EXCEPT !.progress = TRUE]
    <2>1. /\ leader.pc = "scan" /\ IsFinalize(e) /\ FinishEvent(e, l)
          /\ state[e] = "SCHEDULED"
          /\ tasks_remaining' = [tasks_remaining EXCEPT ![e] = 0]
          /\ started' = started \cup {<<e, 0>>}
          /\ completed' = completed \cup {<<e, 0>>}
          /\ UNCHANGED <<queue, control, worker>>
        BY <1>3 DEF ScanFinalize, AtCursor, LeaderAt
    <2>2. TasksOf(e) = {<<e, 0>>}
        BY <2>1, FinalizeTask
    <2>3. l \in LeaderRecords /\ l.resume = leader.resume /\ l.progress
        BY <1>0, PassedRecord
    <2> HIDE DEF l
    <2>5. \A x \in Events : x # e => tasks_remaining'[x] = tasks_remaining[x]
        BY <1>0, <2>1
    <2>7. \A t \in TasksOf(e) : ~Queued(t) /\ ~Held(t) /\ ~Lost(t)
        BY <2>1 DEF TaskInv, PlaceInv, Lost
    <2>6. Finishing(e, l)
        BY <2>1, <2>2, <2>3, <2>5, <2>7 DEF Finishing
    <2> QED
        BY <2>3, <2>6
<1>4. ASSUME NEW e \in Events, ScanFinish(e)
      PROVE  \E l \in LeaderRecords : Finishing(e, l)
    <2> DEFINE l == [Passed(e) EXCEPT !.progress = TRUE]
    <2>1. /\ leader.pc = "scan" /\ tasks_remaining[e] = 0 /\ FinishEvent(e, l)
          /\ state[e] = "SCHEDULED"
          /\ UNCHANGED <<queue, control, worker, tasks_remaining, started, completed>>
        BY <1>4 DEF ScanFinish, AtCursor, LeaderAt, sharedVars, historyVars
    <2>2. Counted(e)
        BY <2>1 DEF Counted, Live, Fresh, LeaderAt
    <2>3. Cardinality(LeftOf(e)) = 0
        BY <2>1, <2>2, LeftFinite DEF TaskInv, CounterInv
    <2>4. LeftOf(e) = {}
        BY <2>3, LeftFinite, FS_EmptySet
    <2>5. l \in LeaderRecords /\ l.resume = leader.resume /\ l.progress
        BY <1>0, PassedRecord
    <2> HIDE DEF l
    <2>7. \A t \in TasksOf(e) : /\ ~Queued(t) /\ ~Held(t) /\ t \in started
                                /\ (Uncut => t \in completed)
        BY <2>4 DEF LeftOf, Left
    <2>8. \A t \in TasksOf(e) : ~Lost(t)
        BY <2>1, <2>3, <2>7 DEF Lost, TasksOf
    <2>6. Finishing(e, l)
        BY <2>1, <2>5, <2>7, <2>8 DEF Finishing
    <2> QED
        BY <2>5, <2>6
<1> QED
    BY <1>1, <1>2, <1>3, <1>4 DEF FinishActs

\* Scheduling the RUN event of a pipeline that waits for none keeps what the
\* counters cover.
LEMMA StartStep ==
    ASSUME Types, TaskInv, StartPipeline
    PROVE  TaskInv' /\ LostKept
<1>0. leader \in LeaderRecords /\ state \in [Events -> {"PENDING", "SCHEDULED", "FINISHED"}]
    BY DEF Types
<1>1. leader.pc = "start" /\ UNCHANGED <<pending_dependencies, sharedVars, worker, historyVars>>
    BY DEF StartPipeline, LeaderAt
<1>2. CASE leader' = [leader EXCEPT !.pc = "top", !.resume = "scan"] /\ UNCHANGED state
    <2>1. leader'.pc = "top"
        BY <1>0, <1>2 DEF LeaderRecords
    <2>2. LeaderQuiet
        BY <1>1, <1>2, <2>1 DEF LeaderQuiet, Live, sharedVars, historyVars
    <2> QED
        BY <2>2, LeaderQuietIsQuiet, QuietStep
<1>3. ASSUME NEW p \in Pipelines, DependsOn[p] = {}, state[Run(p)] = "PENDING",
             state' = [state EXCEPT ![Run(p)] = "SCHEDULED"],
             leader' = [leader EXCEPT !.pc = "schedule", !.event = Run(p)]
      PROVE  TaskInv' /\ LostKept
    <2> DEFINE r == Run(p)
    <2>1. r \in Events /\ Upstream(r) = {}
        BY <1>3, PipelineEvents DEF Upstream
    <2>2. leader'.pc = "schedule" /\ leader'.event = r
        BY <1>0, <1>3 DEF LeaderRecords
    <2>3. \A x \in Events : /\ state'[x] = "FINISHED" <=> state[x] = "FINISHED"
                            /\ x # r => state'[x] = state[x]
                            /\ state'[r] = "SCHEDULED" /\ state[r] = "PENDING"
        BY <1>0, <1>3, <2>1
    <2> HIDE DEF r
    <2>4. \A x \in Events : Fresh(x)' <=> Fresh(x)
        BY <1>1, <2>2, <2>3 DEF Fresh, LeaderAt
    <2>5. /\ Uncut' <=> Uncut
          /\ Sound' <=> Sound
          /\ Live
          /\ \A t \in Tasks : ~Unpushed(t) /\ ~Unpushed(t)'
          /\ \A x \in Events : Rest(x) = 0 /\ Rest(x)' = 0
        BY <1>1, <2>2 DEF Uncut, Sound, At, Live, Unpushed, Rest, LeaderAt, sharedVars
    <2>6. /\ \A x \in Events : InHand(x)' = InHand(x) /\ InQueue(x)' = InQueue(x)
          /\ \A t \in Tasks : (Queued(t)' <=> Queued(t)) /\ (Held(t)' <=> Held(t))
        BY <1>1 DEF InHand, InQueue, Queued, Held, Hand, sharedVars
    <2>7. \A t \in Tasks : Left(t)' <=> Left(t)
        BY <1>1, <2>5, <2>6 DEF Left, historyVars
    <2>8. ASSUME NEW x \in Events PROVE CounterInv(x)'
        <3>1. LeftOf(x)' = LeftOf(x) /\ Outstanding(x)' = Outstanding(x)
            BY <2>5, <2>6, <2>7 DEF LeftOf, TasksOf, Outstanding
        <3>2. Counted(x)' => Counted(x)
            BY <2>3, <2>4, <2>5, <2>2 DEF Counted, Fresh, LeaderAt
        <3> QED
            BY <1>1, <2>4, <2>5, <3>1, <3>2 DEF CounterInv, TaskInv, sharedVars
    <2>9. ASSUME NEW x \in Events PROVE PlaceInv(x)'
        BY <1>1, <2>3, <2>4, <2>5, <2>6 DEF PlaceInv, TasksOf, TaskInv, historyVars
    <2>10. ASSUME NEW x \in Events PROVE DependencyInv(x)'
        <3>1. Waited(x)' = Waited(x)
            BY <2>3, UpstreamFacts DEF Waited
        <3>2. Waited(r) = {}
            BY <2>1 DEF Waited
        <3> QED
            BY <1>1, <2>3, <3>1, <3>2 DEF DependencyInv, TaskInv
    <2>11. QueueInv'
        BY <1>1, <2>5, <2>6 DEF QueueInv, TaskInv, sharedVars, historyVars
    <2>12. LostKept
        <3>1. \A t \in Tasks : Lost(t) => t[1] # r /\ t[1] \in Events
            BY <2>3, TasksAreTasks DEF Lost
        <3> QED
            BY <1>1, <2>3, <2>4, <2>5, <2>6, <2>7, <3>1, LostStays
            DEF Lost, LostKept, TasksOf, sharedVars, historyVars
    <2> QED
        BY <2>8, <2>9, <2>10, <2>11, <2>12 DEF TaskInv, Events
<1> QED
    BY <1>2, <1>3 DEF StartPipeline

\* The tasks of an event that is about to be scheduled have gone nowhere.
LEMMA FreshTasks ==
    ASSUME Types, TaskInv, LeaderInv, completed \subseteq started, LeaderAt("schedule"),
           NEW e \in Events, e = leader.event
    PROVE  /\ state[e] = "SCHEDULED" /\ Fresh(e) /\ Live
           /\ \A t \in TasksOf(e) : /\ ~Queued(t) /\ ~Held(t) /\ t \notin started
                                    /\ t \notin completed
           /\ InHand(e) = {} /\ InQueue(e) = {}
           /\ \A x \in Events : x # e => (Fresh(x) <=> state[x] = "PENDING")
<1>1. state[e] = "SCHEDULED" /\ Fresh(e) /\ Live
    BY DEF LeaderInv, LeaderAt, Fresh, Live
<1>2. \A t \in TasksOf(e) : /\ ~Queued(t) /\ ~Held(t) /\ t \notin started
                            /\ t \notin completed
    BY <1>1 DEF TaskInv, PlaceInv
<1>3. InHand(e) = {}
    <2>1. ASSUME NEW w \in InHand(e) PROVE FALSE
        <3>1. w \in Workers /\ Hand(w) = worker[w].task /\ worker[w].task[1] = e
            BY DEF InHand, Hand, HandPoints
        <3>2. NoTask[1] # e
            BY EventKinds, CountsAssumption DEF NoTask, Events, CountsAssumption
        <3>3. worker[w].task \in TasksOf(e)
            BY <3>1, <3>2 DEF Types, WorkerRecords, TasksOf
        <3> QED
            BY <1>2, <3>1, <3>3 DEF Held
    <2> QED
        BY <2>1
<1>4. InQueue(e) = {}
    BY <1>2 DEF InQueue, TasksOf, Queued, Types
<1> QED
    BY <1>1, <1>2, <1>3, <1>4 DEF Fresh, LeaderAt

\* ScheduleEvent gives an event's counter its task count before the first task is
\* pushed.
LEMMA ScheduleStep ==
    ASSUME Types, TaskInv, LeaderInv, completed \subseteq started, ScheduleTasks
    PROVE  TaskInv' /\ LostKept
<1>0. leader \in LeaderRecords /\ tasks_remaining \in [Events -> 0 .. CounterModulus - 1]
    BY DEF Types
<1>1. PICK e \in Events : e = leader.event
    BY <1>0 DEF LeaderRecords
<1>2. /\ leader.pc = "schedule" /\ ~IsFinalize(e) /\ TaskCount(e) > 0
      /\ tasks_remaining' = [tasks_remaining EXCEPT ![e] = TaskCount(e)]
      /\ leader' = [leader EXCEPT !.pc = "push", !.pushed = 0]
      /\ UNCHANGED <<state, pending_dependencies, queue, control, worker, started, completed>>
    BY <1>1 DEF ScheduleTasks, LeaderAt, dagVars, historyVars
<1>3. leader'.pc = "push" /\ leader'.event = e /\ leader'.pushed = 0
    BY <1>0, <1>1, <1>2 DEF LeaderRecords
<1>4. /\ state[e] = "SCHEDULED" /\ Fresh(e) /\ Live
      /\ \A t \in TasksOf(e) : /\ ~Queued(t) /\ ~Held(t) /\ t \notin started
                               /\ t \notin completed
      /\ InHand(e) = {} /\ InQueue(e) = {}
      /\ \A x \in Events : x # e => (Fresh(x) <=> state[x] = "PENDING")
    BY <1>1, <1>2, FreshTasks DEF LeaderAt
<1>5. /\ \A x \in Events : InHand(x)' = InHand(x) /\ InQueue(x)' = InQueue(x)
      /\ \A t \in Tasks : (Queued(t)' <=> Queued(t)) /\ (Held(t)' <=> Held(t))
    BY <1>2 DEF InHand, InQueue, Queued, Held, Hand
<1>6. \A t \in Tasks : ~Unpushed(t) /\ (Unpushed(t)' => t[1] = e)
    BY <1>2, <1>3 DEF Unpushed, LeaderAt
<1>7. /\ Uncut' <=> Uncut
      /\ Sound' <=> Sound
      /\ ~Fresh(e)' /\ \A x \in Events : x # e => (Fresh(x)' <=> Fresh(x))
      /\ Rest(e)' = TaskCount(e) /\ \A x \in Events : x # e => Rest(x) = 0 /\ Rest(x)' = 0
    <2>1. Rest(e)' = TaskCount(e)
        BY <1>3, TaskCounts DEF Rest, LeaderAt
    <2> QED
        BY <1>2, <1>3, <1>4, <2>1 DEF Uncut, Sound, At, Fresh, Rest, LeaderAt
<1>8. ASSUME NEW x \in Events PROVE CounterInv(x)'
    <2>1. CASE x = e
        <3>1. tasks_remaining'[e] = TaskCount(e)
            BY <1>0, <1>2
        <3>2. Cardinality(LeftOf(e)') <= TaskCount(e)
            <4>1. LeftOf(e)' \subseteq TasksOf(e)
                BY DEF LeftOf, TasksOf
            <4> QED
                BY <4>1, TasksOfEvent, FS_Subset
        <3>3. Outstanding(e)' = TaskCount(e)
            <4>1. Cardinality(InHand(e)') = 0 /\ Cardinality(InQueue(e)') = 0
                BY <1>4, <1>5, FS_EmptySet
            <4> QED
                BY <1>7, <4>1, TaskCounts DEF Outstanding
        <3>4. Cardinality(LeftOf(e)') \in Nat
            BY TasksOfEvent, FS_Subset, FS_CardinalityType DEF LeftOf, TasksOf
        <3> QED
            BY <1>7, <2>1, <3>1, <3>2, <3>3, <3>4, TaskCounts DEF CounterInv
    <2>2. CASE x # e
        <3>1. tasks_remaining'[x] = tasks_remaining[x]
            BY <1>0, <1>2, <2>2
        <3>2. LeftOf(x)' = LeftOf(x)
            BY <1>2, <1>5, <1>6, <1>7, <2>2 DEF LeftOf, TasksOf, Left
        <3>3. Outstanding(x)' = Outstanding(x)
            BY <1>5, <1>7, <2>2 DEF Outstanding
        <3>4. Counted(x)' => Counted(x)
            BY <1>2, <1>4, <1>7, <2>2 DEF Counted
        <3> QED
            BY <1>7, <2>2, <3>1, <3>2, <3>3, <3>4 DEF CounterInv, TaskInv
    <2> QED
        BY <2>1, <2>2
<1>9. ASSUME NEW x \in Events PROVE PlaceInv(x)'
    BY <1>2, <1>4, <1>5, <1>7 DEF PlaceInv, TasksOf, TaskInv
<1>10. ASSUME NEW x \in Events PROVE DependencyInv(x)'
    BY <1>2 DEF TaskInv, DependencyInv, Waited
<1>11. QueueInv'
    <2>1. \A t \in Tasks : Unpushed(t)' => ~Queued(t) /\ ~Held(t) /\ t \notin completed
        BY <1>4, <1>6 DEF TasksOf
    <2> QED
        BY <1>2, <1>5, <2>1 DEF QueueInv, TaskInv
<1>12. ASSUME NEW t \in Tasks, Lost(t) PROVE Lost(t)'
    <2>1. t[1] # e /\ t[1] \in Events
        BY <1>4, <1>12, TasksAreTasks DEF Lost
    <2>2. tasks_remaining'[t[1]] = tasks_remaining[t[1]]
        BY <1>0, <1>2, <2>1
    <2>3. \A s \in TasksOf(t[1]) : Left(s)' => Left(s)
        BY <1>2, <1>5, <1>6, <1>7, <2>1 DEF Left, TasksOf
    <2> QED
        BY <1>2, <1>4, <1>5, <1>6, <1>7, <1>12, <2>1, <2>2, <2>3, LostStays DEF Lost
<1>13. LostKept
    BY <1>12 DEF LostKept
<1> QED
    BY <1>13, <1>8, <1>9, <1>10, <1>11 DEF TaskInv, Events

\* A FINALIZE that is left to the scan.
LEMMA DeferStep ==
    ASSUME Types, TaskInv, LeaderInv, completed \subseteq started, ScheduleFinalize,
           ~FinalizeIsTrivial(PipelineOf(leader.event))
    PROVE  TaskInv' /\ LostKept
<1>0. leader \in LeaderRecords /\ tasks_remaining \in [Events -> 0 .. CounterModulus - 1]
    BY DEF Types
<1>1. PICK e \in Events : e = leader.event
    BY <1>0 DEF LeaderRecords
<1>2. /\ leader.pc = "schedule" /\ IsFinalize(e)
      /\ tasks_remaining' = [tasks_remaining EXCEPT ![e] = 1]
      /\ leader' = [leader EXCEPT !.pc = leader.resume]
      /\ UNCHANGED <<state, pending_dependencies, queue, control, worker, started, completed>>
    BY <1>1 DEF ScheduleFinalize, LeaderAt
<1>3. leader'.pc \in {"start", "scan"}
    BY <1>0, <1>2 DEF LeaderRecords
<1>4. /\ state[e] = "SCHEDULED" /\ Fresh(e) /\ Live
      /\ \A t \in TasksOf(e) : /\ ~Queued(t) /\ ~Held(t) /\ t \notin started
                               /\ t \notin completed
      /\ \A x \in Events : x # e => (Fresh(x) <=> state[x] = "PENDING")
    BY <1>1, <1>2, FreshTasks DEF LeaderAt
<1>5. /\ \A x \in Events : InHand(x)' = InHand(x) /\ InQueue(x)' = InQueue(x)
      /\ \A t \in Tasks : (Queued(t)' <=> Queued(t)) /\ (Held(t)' <=> Held(t))
    BY <1>2 DEF InHand, InQueue, Queued, Held, Hand
<1>7. /\ Uncut' <=> Uncut
      /\ Sound' <=> Sound
      /\ \A t \in Tasks : ~Unpushed(t) /\ ~Unpushed(t)'
      /\ ~Fresh(e)' /\ \A x \in Events : x # e => (Fresh(x)' <=> Fresh(x))
      /\ \A x \in Events : x # e => Rest(x) = 0 /\ Rest(x)' = 0
    BY <1>2, <1>3, <1>4 DEF Uncut, Sound, At, Fresh, Rest, Unpushed, LeaderAt
<1>8. ASSUME NEW x \in Events PROVE CounterInv(x)'
    <2>1. CASE x = e
        <3>1. 1 \in 0 .. CounterModulus - 1 /\ TaskCount(e) = 1
            BY <1>2, TaskCounts, CountsAssumption DEF CountsAssumption
        <3>2. tasks_remaining'[e] = 1
            BY <1>0, <1>2
        <3>3. Cardinality(LeftOf(e)') <= 1
            <4>1. LeftOf(e)' \subseteq TasksOf(e)
                BY DEF LeftOf, TasksOf
            <4> QED
                BY <3>1, <4>1, TasksOfEvent, FS_Subset
        <3>4. Cardinality(LeftOf(e)') \in Nat
            BY TasksOfEvent, FS_Subset, FS_CardinalityType DEF LeftOf, TasksOf
        <3> QED
            BY <1>2, <1>7, <2>1, <3>2, <3>3, <3>4 DEF CounterInv
    <2>2. CASE x # e
        <3>1. tasks_remaining'[x] = tasks_remaining[x]
            BY <1>0, <1>2, <2>2
        <3>2. LeftOf(x)' = LeftOf(x)
            BY <1>2, <1>5, <1>7, <2>2 DEF LeftOf, TasksOf, Left
        <3>3. Outstanding(x)' = Outstanding(x)
            BY <1>5, <1>7, <2>2 DEF Outstanding
        <3>4. Counted(x)' => Counted(x)
            BY <1>2, <1>4, <1>7, <2>2 DEF Counted
        <3> QED
            BY <1>7, <2>2, <3>1, <3>2, <3>3, <3>4 DEF CounterInv, TaskInv
    <2> QED
        BY <2>1, <2>2
<1>9. ASSUME NEW x \in Events PROVE PlaceInv(x)'
    BY <1>2, <1>4, <1>5, <1>7 DEF PlaceInv, TasksOf, TaskInv
<1>10. ASSUME NEW x \in Events PROVE DependencyInv(x)'
    BY <1>2 DEF TaskInv, DependencyInv, Waited
<1>11. QueueInv'
    BY <1>2, <1>5, <1>7 DEF QueueInv, TaskInv
<1>12. ASSUME NEW t \in Tasks, Lost(t) PROVE Lost(t)'
    <2>1. t[1] # e /\ t[1] \in Events
        BY <1>4, <1>12, TasksAreTasks DEF Lost
    <2>2. tasks_remaining'[t[1]] = tasks_remaining[t[1]]
        BY <1>0, <1>2, <2>1
    <2>3. \A s \in TasksOf(t[1]) : Left(s)' => Left(s)
        BY <1>2, <1>5, <1>7, <2>1 DEF Left, TasksOf
    <2> QED
        BY <1>2, <1>4, <1>5, <1>7, <1>12, <2>1, <2>2, <2>3, LostStays DEF Lost
<1>13. LostKept
    BY <1>12 DEF LostKept
<1> QED
    BY <1>13, <1>8, <1>9, <1>10, <1>11 DEF TaskInv, Events

\* A push moves a task of the event that is being scheduled into the queue.
LEMMA PushStep ==
    ASSUME Types, TaskInv, LeaderInv, PushTask
    PROVE  TaskInv' /\ LostKept
<1>0. leader \in LeaderRecords /\ queue \in Seq(Tasks)
      /\ tasks_remaining \in [Events -> 0 .. CounterModulus - 1]
    BY DEF Types
<1>1. PICK e \in Events, k \in Nat : e = leader.event /\ k = leader.pushed
    BY <1>0 DEF LeaderRecords
<1>2. PICK t : t = <<e, k>>
    OBVIOUS
<1>3. /\ leader.pc = "push" /\ queue' = Append(queue, t)
      /\ leader' = [leader EXCEPT !.pushed = k + 1,
                        !.pc = IF k + 1 = TaskCount(e) THEN leader.resume ELSE "push"]
      /\ UNCHANGED <<state, pending_dependencies, tasks_remaining, control, worker, started,
                     completed>>
    BY <1>1, <1>2 DEF PushTask, TryPush, LeaderAt, dagVars, historyVars
<1>4. /\ leader'.pc = IF k + 1 = TaskCount(e) THEN leader.resume ELSE "push"
      /\ leader'.event = e /\ leader'.pushed = k + 1
      /\ leader.resume \in {"start", "scan"}
    BY <1>0, <1>1, <1>3 DEF LeaderRecords
<1>5. /\ state[e] = "SCHEDULED" /\ ~IsFinalize(e) /\ k < TaskCount(e)
      /\ TaskCount(e) \in Nat
    BY <1>1, <1>3, TaskCounts DEF LeaderInv
<1>6. t \in Tasks /\ t[1] = e /\ t[2] = k
    BY <1>2, <1>5, TaskPairs
<1>7. /\ Len(queue) \in Nat /\ Len(Append(queue, t)) = Len(queue) + 1
      /\ Append(queue, t)[Len(queue) + 1] = t
      /\ \A i \in 1 .. Len(queue) : Append(queue, t)[i] = queue[i]
    BY <1>0, <1>6
<1>8. ASSUME NEW s \in Tasks PROVE Queued(s)' <=> Queued(s) \/ s = t
    <2>1. ASSUME Queued(s)' PROVE Queued(s) \/ s = t
        <3>1. PICK i \in 1 .. Len(queue) + 1 : Append(queue, t)[i] = s
            BY <1>3, <1>7, <2>1 DEF Queued
        <3>2. i = Len(queue) + 1 \/ i \in 1 .. Len(queue)
            BY <1>7
        <3> QED
            BY <1>7, <3>1, <3>2 DEF Queued
    <2>2. ASSUME Queued(s) \/ s = t PROVE Queued(s)'
        <3>1. \A i \in 1 .. Len(queue) : i \in 1 .. Len(queue) + 1
            BY <1>7
        <3>2. Len(queue) + 1 \in 1 .. Len(queue) + 1
            BY <1>7
        <3> QED
            BY <1>3, <1>7, <2>2, <3>1, <3>2 DEF Queued
    <2> QED
        BY <2>1, <2>2
<1>9. \A s \in Tasks : Held(s)' <=> Held(s)
    BY <1>3 DEF Held, Hand
<1>10. ASSUME NEW s \in Tasks PROVE Unpushed(s)' <=> Unpushed(s) /\ s # t
    <2>1. Unpushed(s) <=> s[1] = e /\ s[2] >= k
        BY <1>1, <1>3 DEF Unpushed, LeaderAt
    <2>2. s = <<s[1], s[2]>> /\ s[2] \in Nat /\ s[2] < TaskCount(s[1])
        BY TaskPairs
    <2>3. Unpushed(s)' <=> k + 1 # TaskCount(e) /\ s[1] = e /\ s[2] >= k + 1
        BY <1>4 DEF Unpushed, LeaderAt
    <2>4. s = t <=> s[1] = e /\ s[2] = k
        BY <1>2, <2>2
    <2> QED
        BY <1>5, <2>1, <2>2, <2>3, <2>4
<1>11. Unpushed(t) /\ ~Queued(t) /\ ~Held(t) /\ t \notin completed
    <2>1. Unpushed(t)
        BY <1>1, <1>3, <1>6 DEF Unpushed, LeaderAt
    <2> QED
        BY <1>6, <2>1 DEF TaskInv, QueueInv
<1>12. /\ Uncut' <=> Uncut
       /\ Sound' <=> Sound
       /\ Live' <=> Live
       /\ \A x \in Events : Fresh(x)' <=> Fresh(x)
    BY <1>3, <1>4 DEF Uncut, Sound, At, Live, Fresh, LeaderAt
<1>13. \A s \in Tasks : Left(s)' <=> Left(s)
    BY <1>3, <1>8, <1>9, <1>10, <1>11, <1>12 DEF Left
<1>14. ASSUME NEW x \in Events PROVE Outstanding(x)' = Outstanding(x)
    <2>1. InHand(x)' = InHand(x)
        BY <1>3 DEF InHand
    <2>2. Cardinality(InQueue(x)') = Cardinality(InQueue(x)) + (IF e = x THEN 1 ELSE 0)
        <3>1. InQueue(x)' = Positions(Append(queue, t), x) /\ InQueue(x) = Positions(queue, x)
            BY <1>3 DEF InQueue, Positions
        <3> QED
            BY <1>0, <1>6, <3>1, AppendCount
    <2>3. Cardinality(InQueue(x)) \in Nat /\ Cardinality(InHand(x)) \in Nat
        BY <1>0, PositionsFinite, HandsFinite DEF InQueue, Positions
    <2>4. Rest(x)' = Rest(x) - (IF e = x THEN 1 ELSE 0) /\ Rest(x) \in Int
        <3>1. Rest(x) = IF e = x THEN TaskCount(e) - k ELSE 0
            BY <1>1, <1>3 DEF Rest, LeaderAt
        <3>2. Rest(x)' = IF e = x THEN TaskCount(e) - (k + 1) ELSE 0
            BY <1>4, <1>5 DEF Rest, LeaderAt
        <3> QED
            BY <1>5, <3>1, <3>2
    <2> QED
        BY <2>1, <2>2, <2>3, <2>4 DEF Outstanding
<1>15. ASSUME NEW x \in Events PROVE CounterInv(x)'
    <2>1. LeftOf(x)' = LeftOf(x)
        BY <1>13 DEF LeftOf, TasksOf
    <2>2. Counted(x)' <=> Counted(x)
        BY <1>3, <1>12 DEF Counted
    <2> QED
        BY <1>3, <1>12, <1>14, <2>1, <2>2 DEF CounterInv, TaskInv
<1>16. ASSUME NEW x \in Events PROVE PlaceInv(x)'
    <2>1. IsFinalize(x) \/ Fresh(x) \/ state[x] = "FINISHED" => x # e
        BY <1>3, <1>5 DEF Fresh, LeaderAt
    <2> QED
        BY <1>3, <1>6, <1>8, <1>9, <1>12, <2>1 DEF PlaceInv, TasksOf, TaskInv
<1>17. ASSUME NEW x \in Events PROVE DependencyInv(x)'
    BY <1>3 DEF TaskInv, DependencyInv, Waited
<1>18. QueueInv'
    <2>1. \A i, j \in 1 .. Len(queue) + 1 :
              Append(queue, t)[i] = Append(queue, t)[j] => i = j
        <3>1. \A i \in 1 .. Len(queue) : queue[i] # t
            BY <1>11 DEF Queued
        <3>2. \A i \in 1 .. Len(queue) + 1 : i = Len(queue) + 1 \/ i \in 1 .. Len(queue)
            BY <1>7
        <3> QED
            BY <1>7, <3>1, <3>2 DEF TaskInv, QueueInv
    <2>2. \A s \in Tasks : /\ Queued(s)' => ~Held(s)' /\ ~Unpushed(s)' /\ s \notin completed'
                           /\ Held(s)' => ~Unpushed(s)'
                           /\ Unpushed(s)' => s \notin completed'
        BY <1>3, <1>8, <1>9, <1>10, <1>11 DEF TaskInv, QueueInv
    <2> QED
        BY <1>3, <1>7, <2>1, <2>2 DEF QueueInv
<1>19. ASSUME Live', NEW s \in Tasks, Lost(s) PROVE Lost(s)'
    <2>1. Live /\ s[1] \in Events
        BY <1>12, <1>19, TasksAreTasks
    <2>2. \A x \in TasksOf(s[1]) : Left(x)' => Left(x)
        BY <1>13 DEF TasksOf
    <2>3. /\ s \in started' /\ s \notin completed' /\ state'[s[1]] = "SCHEDULED" /\ ~Fresh(s[1])'
          /\ tasks_remaining'[s[1]] = tasks_remaining[s[1]]
        BY <1>3, <1>12, <1>19, <2>1 DEF Lost
    <2>4. ~Unpushed(s)' /\ ~Queued(s)' /\ ~Held(s)'
        BY <1>8, <1>9, <1>10, <1>11, <1>19 DEF Lost
    <2> QED
        BY <1>19, <2>1, <2>2, <2>3, <2>4, LostStays
<1>20. LostKept
    BY <1>19 DEF LostKept
<1> QED
    BY <1>20, <1>15, <1>16, <1>17, <1>18 DEF TaskInv, Events

\* A push into a full queue raises an error in the leader and moves no task.
LEMMA RefusedStep ==
    ASSUME Types, TaskInv, LeaderInv, PushTaskRefused
    PROVE  TaskInv' /\ LostKept
<1>0. leader \in LeaderRecords /\ tasks_remaining \in [Events -> 0 .. CounterModulus - 1]
    BY DEF Types
<1>1. PICK e \in Events : e = leader.event
    BY <1>0 DEF LeaderRecords
<1>2. /\ leader.pc = "push" /\ leader' = [leader EXCEPT !.pc = "catch"]
      /\ tasks_remaining' = [tasks_remaining EXCEPT ![e] = 0]
      /\ UNCHANGED <<state, pending_dependencies, queue, control, worker, started, completed>>
    BY <1>1 DEF PushTaskRefused, PushRefused, LeaderAt, dagVars, historyVars
<1>3. leader'.pc = "catch"
    BY <1>0, <1>2 DEF LeaderRecords
<1>4. /\ Uncut' <=> Uncut
      /\ ~Live'
      /\ \A x \in Events : Fresh(x)' <=> Fresh(x)
      /\ \A t \in Tasks : /\ ~Unpushed(t)'
                          /\ Queued(t)' <=> Queued(t)
                          /\ Held(t)' <=> Held(t)
    BY <1>2, <1>3 DEF Uncut, Live, Fresh, Unpushed, Queued, Held, Hand, LeaderAt
<1>5. \A x \in Events : tasks_remaining'[x] = IF x = e THEN 0 ELSE tasks_remaining[x]
    BY <1>0, <1>2
<1>6. \A x \in Events : CounterInv(x)'
    BY <1>4, <1>5 DEF CounterInv, Counted, TaskInv
<1>7. \A x \in Events : PlaceInv(x)'
    BY <1>2, <1>4 DEF PlaceInv, TasksOf, TaskInv
<1>8. \A x \in Events : DependencyInv(x)'
    BY <1>2 DEF TaskInv, DependencyInv, Waited
<1>9. QueueInv'
    BY <1>2, <1>4 DEF QueueInv, TaskInv
<1>10. LostKept
    BY <1>4 DEF LostKept
<1> QED
    BY <1>10, <1>6, <1>7, <1>8, <1>9 DEF TaskInv, Events

\* Every disjunct of Next, sorted by what it does to the tasks.
LEMMA NextCases ==
    ASSUME Next
    PROVE  \/ StartPipeline \/ ScheduleTasks
           \/ ScheduleFinalize /\ ~FinalizeIsTrivial(PipelineOf(leader.event))
           \/ FinishActs \/ PushTask \/ PushTaskRefused \/ LeaderQuietActs
           \/ \E v \in Workers : QuietActs(v) \/ WorkerPops(v) \/ Repush(v) \/ CountDown(v)
BY DEF Next, LeaderStep, WorkerActs, FinishActs, LeaderQuietActs, QuietActs

\* Every step of the runtime keeps what the counters cover.
LEMMA TaskInvStep ==
    ASSUME Types, TaskInv, \A w \in Workers : WorkerInv(w), completed \subseteq started,
           ErrorInv, LeaderInv, [Next]_vars
    PROVE  TaskInv' /\ LostKept
<1>1. CASE UNCHANGED vars
    <2>1. LeaderAt("push")' <=> LeaderAt("push")
        BY <1>1 DEF vars, LeaderAt
    <2>2. Quiet
        BY <1>1 DEF vars, dagVars, sharedVars, historyVars, Quiet, Hand, Uncut, Sound,
           Fresh,
                    Unpushed, Live, Rest, LeaderAt, At
    <2> QED
        BY <2>2, QuietStep
<1>2. CASE Next
    <2>1. CASE FinishActs
        BY <2>1, FinishActsFinish, FinishingStep
    <2>2. CASE LeaderQuietActs
        BY <2>2, LeaderActsAreQuiet, QuietStep
    <2>3. CASE \E v \in Workers : QuietActs(v)
        BY <2>3, QuietActsAreQuiet, QuietStep
    <2>4. CASE \E v \in Workers : WorkerPops(v) \/ Repush(v) \/ CountDown(v)
        BY <2>4, PopStep, RepushStep, CountDownStep
    <2>5. CASE StartPipeline \/ ScheduleTasks \/ PushTask \/ PushTaskRefused
        BY <2>5, StartStep, ScheduleStep, PushStep, RefusedStep
    <2>6. CASE ScheduleFinalize /\ ~FinalizeIsTrivial(PipelineOf(leader.event))
        BY <2>6, DeferStep
    <2> QED
        BY <1>2, <2>1, <2>2, <2>3, <2>4, <2>5, <2>6, NextCases
<1> QED
    BY <1>1, <1>2

------------------------------------------------------------------------------
(* Types. *)

\* A worker's move keeps the types.
LEMMA WorkerMoveTypes ==
    ASSUME Types, NEW v \in Workers, NEW from \in WorkerPoints, NEW to \in WorkerPoints,
           WorkerMoves(v, from, to), yields' \in 0 .. MaxYields, faults' \in 0 .. MaxFaults
    PROVE  Types'
<1>1. worker' \in [Workers -> WorkerRecords]
    BY MoveEffect DEF WorkerMoves, Types, Moves
<1> QED
    BY <1>1 DEF WorkerMoves, Types, dagVars, sharedVars, historyVars

\* The workers' steps that move nothing but a program point.
PlainActs(v) ==
    \/ WorkerChecks(v) \/ WorkerFindsNothing(v) \/ WorkerDrops(v) \/ TaskCutShort(v)
    \/ TaskYields(v) \/ TaskFails(v) \/ RepushRefused(v) \/ WorkerExits(v) \/ ExitFails(v)
    \/ WorkerDies(v)

\* Every step of a worker keeps the types.
LEMMA WorkerTypes ==
    ASSUME Types, NEW v \in Workers, WorkerInv(v),
           WorkerActs(v) \/ WorkerWakesOnTimeout(v) \/ TaskFails(v) \/ ExitFails(v)
           \/ WorkerDies(v)
    PROVE  Types'
<1>0. /\ worker \in [Workers -> WorkerRecords] /\ control \in ControlRecords
      /\ queue \in Seq(Tasks) /\ Len(queue) <= Capacity
      /\ tasks_remaining \in [Events -> 0 .. CounterModulus - 1]
      /\ latch \in [Workers -> BOOLEAN]
    BY DEF Types
<1>1. CASE PlainActs(v)
    <2>1. \E from \in WorkerPoints, to \in WorkerPoints : WorkerMoves(v, from, to)
        BY <1>1 DEF PlainActs, WorkerChecks, WorkerFindsNothing, WorkerDrops, TaskCutShort,
                    TaskYields, TaskFails, RepushRefused, WorkerExits, ExitFails, WorkerDies,
                    WorkerPoints
    <2>2. yields' \in 0 .. MaxYields /\ faults' \in 0 .. MaxFaults
        BY <1>1, CountsAssumption
        DEF PlainActs, WorkerChecks, WorkerFindsNothing, WorkerDrops, TaskCutShort,
            TaskYields, TaskFails, RepushRefused, WorkerExits, ExitFails, WorkerDies,
            Fault, Types, CountsAssumption
    <2> QED
        BY <2>1, <2>2, WorkerMoveTypes
<1>2. CASE WorkerPops(v)
    <2>1. Head(queue) \in Tasks /\ queue' \in Seq(Tasks) /\ Len(queue') <= Capacity
        BY <1>0, <1>2, CountsAssumption DEF WorkerPops, HeadIsFor, CountsAssumption
    <2>2. worker' \in [Workers -> WorkerRecords]
        <3>1. [worker[v] EXCEPT !.pc = "popped", !.task = Head(queue)] \in WorkerRecords
            BY <1>0, <2>1 DEF WorkerRecords, WorkerPoints
        <3>2. worker' = [worker EXCEPT ![v] = [worker[v] EXCEPT !.pc = "popped",
                                                                !.task = Head(queue)]]
            BY <1>0, <1>2 DEF WorkerPops
        <3> QED
            BY <1>0, <3>1, <3>2
    <2> QED
        BY <1>2, <2>1, <2>2 DEF WorkerPops, WakeRegisteredWorkers, Types, dagVars,
           historyVars
<1>3. CASE WorkerWakesOnLatch(v) \/ WorkerWakesOnTimeout(v)
    <2>1. WorkerWakes(v)
        BY <1>3 DEF WorkerWakesOnLatch, WorkerWakesOnTimeout
    <2>2. worker' \in [Workers -> WorkerRecords]
        BY <1>0, <2>1, MoveEffect DEF WorkerWakes, WorkerPoints, Moves
    <2>3. latch' \in [Workers -> BOOLEAN]
        BY <1>0, <2>1 DEF WorkerWakes
    <2> QED
        BY <2>1, <2>2, <2>3 DEF WorkerWakes, Types, dagVars, historyVars
<1>4. CASE WorkerBegins(v)
    <2> DEFINE p == PipelineOf(worker[v].task[1])
               new == worker[v].ran \cup (IF IsRun(worker[v].task[1]) THEN {p} ELSE {})
    <2>1. worker[v].task \in Tasks
        BY <1>4 DEF WorkerBegins, At, WorkerInv, HandPoints
    <2>2. p \in Pipelines
        BY <2>1, TaskPairs, EventKinds
    <2>3. worker' = [worker EXCEPT ![v] = [worker[v] EXCEPT !.pc = "run", !.ran = new]]
        BY <1>0, <1>4 DEF WorkerBegins
    <2> HIDE DEF p
    <2>4. [worker[v] EXCEPT !.pc = "run", !.ran = new] \in WorkerRecords
        BY <1>0, <2>2 DEF WorkerRecords, WorkerPoints
    <2> HIDE DEF new
    <2>5. worker' \in [Workers -> WorkerRecords]
        BY <1>0, <2>3, <2>4
    <2>6. started' = started \cup {worker[v].task}
        BY <1>4 DEF WorkerBegins
    <2> QED
        BY <1>4, <2>1, <2>5, <2>6 DEF WorkerBegins, Types, dagVars, sharedVars
<1>5. CASE TaskCompletes(v)
    <2> DEFINE p == PipelineOf(worker[v].task[1])
               new == worker[v].combined \cup
                         (IF IsCombine(worker[v].task[1]) /\ Sink[p] # "HASH_AGGREGATE"
                          THEN {p} ELSE {})
    <2>1. worker[v].task \in Tasks
        BY <1>5 DEF TaskCompletes, At, WorkerInv, HandPoints
    <2>2. p \in Pipelines
        BY <2>1, TaskPairs, EventKinds
    <2>3. worker' = [worker EXCEPT ![v] = [worker[v] EXCEPT !.pc = "count",
                                                            !.combined = new]]
        BY <1>0, <1>5 DEF TaskCompletes
    <2> HIDE DEF p
    <2>4. [worker[v] EXCEPT !.pc = "count", !.combined = new] \in WorkerRecords
        BY <1>0, <2>2 DEF WorkerRecords, WorkerPoints
    <2> HIDE DEF new
    <2>5. worker' \in [Workers -> WorkerRecords]
        BY <1>0, <2>3, <2>4
    <2>6. completed' = completed \cup {worker[v].task}
        BY <1>5 DEF TaskCompletes
    <2> QED
        BY <1>5, <2>1, <2>5, <2>6 DEF TaskCompletes, Types, dagVars, sharedVars
<1>6. CASE Repush(v)
    <2>1. worker[v].task \in Tasks /\ Len(queue) < Capacity /\ Capacity \in Nat
        BY <1>6, CountsAssumption DEF Repush, TryPush, At, WorkerInv, HandPoints,
           CountsAssumption
    <2>2. queue' \in Seq(Tasks) /\ Len(queue') <= Capacity
        BY <1>0, <1>6, <2>1 DEF Repush, TryPush
    <2>3. worker' = [worker EXCEPT ![v] = [worker[v] EXCEPT !.pc = "check", !.stale = TRUE]]
        BY <1>0, <1>6 DEF Repush
    <2>4. [worker[v] EXCEPT !.pc = "check", !.stale = TRUE] \in WorkerRecords
        BY <1>0 DEF WorkerRecords, WorkerPoints
    <2>5. worker' \in [Workers -> WorkerRecords]
        BY <1>0, <2>3, <2>4
    <2> QED
        BY <1>6, <2>2, <2>5 DEF Repush, TryPush, WakeRegisteredWorkers, Types, dagVars,
                                historyVars
<1>7. CASE CountDown(v)
    <2> DEFINE e == worker[v].task[1]
    <2>1. e \in Events
        BY <1>7, TasksAreTasks DEF CountDown, At, WorkerInv, HandPoints
    <2>2. (tasks_remaining[e] - 1) % CounterModulus \in 0 .. CounterModulus - 1
        <3>1. CounterModulus \in Nat /\ CounterModulus > 0
            BY CountsAssumption DEF CountsAssumption
        <3>2. tasks_remaining[e] - 1 \in Int
            BY <1>0, <2>1
        <3> HIDE DEF e
        <3> QED
            BY <3>1, <3>2
    <2>3. tasks_remaining' \in [Events -> 0 .. CounterModulus - 1]
        BY <1>0, <1>7, <2>1, <2>2 DEF CountDown
    <2>4. worker' \in [Workers -> WorkerRecords]
        BY <1>0, <1>7, MoveEffect DEF CountDown, WorkerPoints, Moves
    <2> QED
        BY <1>7, <2>3, <2>4 DEF CountDown, Types, dagVars, historyVars
<1>8. CASE NotifyLeader(v)
    <2>1. worker' \in [Workers -> WorkerRecords]
        BY <1>0, <1>8, MoveEffect DEF NotifyLeader, WorkerPoints, Moves
    <2> QED
        BY <1>8, <2>1 DEF NotifyLeader, Types, dagVars, historyVars
<1>9. CASE CatchError(v)
    <2>1. worker' \in [Workers -> WorkerRecords]
        BY <1>0, <1>9, MoveEffect DEF CatchError, WorkerPoints, Moves
    <2>2. control' \in ControlRecords
        BY <1>0, <1>9 DEF CatchError, ControlRecords
    <2> QED
        BY <1>9, <2>1, <2>2 DEF CatchError, Types, dagVars, historyVars
<1>10. CASE ReportError(v)
    <2>1. worker' \in [Workers -> WorkerRecords]
        BY <1>0, <1>10, MoveEffect DEF ReportError, WorkerPoints, Moves
    <2>2. control' \in ControlRecords
        BY <1>0, <1>10 DEF ReportError, ControlRecords, At
    <2> QED
        BY <1>10, <2>1, <2>2 DEF ReportError, Types, dagVars, historyVars
<1> QED
    BY <1>1, <1>2, <1>3, <1>4, <1>5, <1>6, <1>7, <1>8, <1>9, <1>10 DEF WorkerActs, PlainActs

\* A move of the leader keeps the types.
LEMMA LeaderMoveTypes ==
    ASSUME Types, NEW from, NEW to \in LeaderPoints, LeaderMoves(from, to),
           faults' \in 0 .. MaxFaults
    PROVE  Types'
BY DEF Types, LeaderMoves, LeaderRecords, dagVars, sharedVars, historyVars

\* Finishing an event keeps the types.
LEMMA FinishingTypes ==
    ASSUME Types, TaskInv, NEW e, NEW l, Finishing(e, l)
    PROVE  /\ state' \in [Events -> {"PENDING", "SCHEDULED", "FINISHED"}]
           /\ pending_dependencies' \in [Events -> Nat]
           /\ leader' \in LeaderRecords
           /\ queue' = queue /\ control' = control /\ worker' = worker
<1>1. e \in Events /\ l \in LeaderRecords
    BY DEF Finishing
<1>2. \A x \in Events : x # e => (Fresh(x) <=> state[x] = "PENDING")
    BY DEF Finishing, Fresh, LeaderAt
<1> QED
    BY <1>1, <1>2, FinishEffect DEF Finishing

\* Every step of the leader keeps the types.
LEMMA LeaderTypes ==
    ASSUME Types, TaskInv, LeaderInv,
           LeaderStep \/ LeaderWakesOnTimeout \/ LeaderFails \/ LeaderDies
    PROVE  Types'
<1>0. leader \in LeaderRecords
    BY DEF Types
<1>20. faults \in 0 .. MaxFaults /\ (Fault => faults' \in 0 .. MaxFaults)
       /\ 0 \in 0 .. CounterModulus - 1 /\ 1 \in 0 .. CounterModulus - 1
    BY CountsAssumption DEF Types, Fault, CountsAssumption
<1>1. CASE StartPipeline
    <2>1. state' \in [Events -> {"PENDING", "SCHEDULED", "FINISHED"}] /\ leader' \in LeaderRecords
        <3>1. CASE leader' = [leader EXCEPT !.pc = "top", !.resume = "scan"] /\ UNCHANGED state
            BY <1>0, <3>1 DEF Types, LeaderRecords, LeaderPoints
        <3>2. ASSUME NEW p \in Pipelines, state' = [state EXCEPT ![Run(p)] = "SCHEDULED"],
                     leader' = [leader EXCEPT !.pc = "schedule", !.event = Run(p)]
              PROVE  state' \in [Events -> {"PENDING", "SCHEDULED", "FINISHED"}]
                     /\ leader' \in LeaderRecords
            <4>1. Run(p) \in Events
                BY PipelineEvents
            <4> QED
                BY <1>0, <3>2, <4>1 DEF Types, LeaderRecords, LeaderPoints
        <3> QED
            BY <1>1, <3>1, <3>2 DEF StartPipeline
    <2> QED
        BY <1>1, <2>1 DEF StartPipeline, Types, dagVars, sharedVars, historyVars
<1>2. CASE ScheduleTasks
    <2>1. TaskCount(leader.event) \in 0 .. CounterModulus - 1
        BY <1>0, TaskCounts, CountsAssumption DEF LeaderRecords, CountsAssumption
    <2> QED
        BY <1>2, <2>1 DEF ScheduleTasks, Types, LeaderRecords, LeaderPoints, dagVars,
           sharedVars, historyVars
<1>3. CASE FinishActs
    <2>1. /\ state' \in [Events -> {"PENDING", "SCHEDULED", "FINISHED"}]
          /\ pending_dependencies' \in [Events -> Nat]
          /\ leader' \in LeaderRecords
          /\ queue' = queue /\ control' = control /\ worker' = worker
        BY <1>3, FinishActsFinish, FinishingTypes
    <2>2. /\ tasks_remaining' \in [Events -> 0 .. CounterModulus - 1]
          /\ UNCHANGED <<leader_latch, latch, yields, faults, emitted>>
        BY <1>3, <1>20 DEF FinishActs, ScheduleTrivialCombine, ScheduleFinalize,
           ScanFinalize, ScanFinish,
                    Types, sharedVars, historyVars
    <2>3. started' \subseteq Tasks /\ completed' \subseteq Tasks
        <3>1. started \subseteq Tasks /\ completed \subseteq Tasks /\ leader.event \in Events
            BY <1>0 DEF Types, LeaderRecords
        <3>2. ASSUME NEW e \in Events, IsFinalize(e), started' = started \cup {<<e, 0>>},
                     completed' = completed \cup {<<e, 0>>}
              PROVE  started' \subseteq Tasks /\ completed' \subseteq Tasks
            BY <3>1, <3>2, FinalizeTask
        <3>3. CASE ScheduleTrivialCombine \/ \E e \in Events : ScanFinish(e)
            BY <3>1, <3>3 DEF ScheduleTrivialCombine, ScanFinish, historyVars
        <3>4. CASE FinalizeIsTrivial(PipelineOf(leader.event)) /\ ScheduleFinalize
            BY <3>1, <3>2, <3>4 DEF ScheduleFinalize
        <3>5. CASE \E e \in Events : ScanFinalize(e)
            BY <3>2, <3>5 DEF ScanFinalize
        <3> QED
            BY <1>3, <3>3, <3>4, <3>5 DEF FinishActs
    <2>4. released' \subseteq Pipelines
        <3>1. \A e \in Events : BuildsProbedBy(PipelineOf(e)) \subseteq Pipelines
            BY EventKinds, PlanAssumption DEF BuildsProbedBy, PlanAssumption
        <3>2. released' = released \/ \E e \in Events :
                  released' = released \cup BuildsProbedBy(PipelineOf(e))
            BY <1>3 DEF FinishActs, ScheduleTrivialCombine, ScheduleFinalize, ScanFinalize,
                        ScanFinish
        <3> QED
            BY <3>1, <3>2 DEF Types
    <2> QED
        BY <2>1, <2>2, <2>3, <2>4 DEF Types
<1>4. CASE ScheduleFinalize /\ ~FinalizeIsTrivial(PipelineOf(leader.event))
    <2>1. leader.event \in Events /\ leader' \in LeaderRecords
        BY <1>0, <1>4 DEF ScheduleFinalize, LeaderRecords, LeaderPoints
    <2>2. tasks_remaining' \in [Events -> 0 .. CounterModulus - 1]
        BY <1>4, <1>20, <2>1 DEF ScheduleFinalize, Types
    <2> QED
        BY <1>4, <2>1, <2>2 DEF ScheduleFinalize, Types
<1>5. CASE PushTask
    <2>1. <<leader.event, leader.pushed>> \in Tasks
        BY <1>0, <1>5, TaskPairs DEF PushTask, LeaderAt, LeaderInv, LeaderRecords
    <2>2. queue' \in Seq(Tasks) /\ Len(queue') <= Capacity
        BY <1>5, <2>1, CountsAssumption DEF PushTask, TryPush, Types, CountsAssumption
    <2>3. leader' \in LeaderRecords
        <3>1. leader.resume \in LeaderPoints /\ leader.pushed + 1 \in Nat
            BY <1>0 DEF LeaderRecords, LeaderPoints
        <3>2. \A q \in LeaderPoints, n \in Nat :
                  [leader EXCEPT !.pushed = n, !.pc = q] \in LeaderRecords
            BY <1>0 DEF LeaderRecords
        <3>3. PICK q \in LeaderPoints, n \in Nat :
                  leader' = [leader EXCEPT !.pushed = n, !.pc = q]
            BY <1>5, <3>1 DEF PushTask, LeaderPoints
        <3> QED
            BY <3>2, <3>3
    <2> QED
        BY <1>5, <2>2, <2>3 DEF PushTask, TryPush, WakeRegisteredWorkers, Types, dagVars,
                                historyVars
<1>6. CASE PushTaskRefused
    BY <1>6, <1>20 DEF PushTaskRefused, PushRefused, Types, LeaderRecords, LeaderPoints,
       dagVars,
                historyVars
<1>7. CASE Top
    BY <1>7 DEF Top, Types, LeaderRecords, LeaderPoints, dagVars, sharedVars, historyVars
<1>8. CASE RaiseWorkerFailure \/ ScanEnd \/ WorkersJoined \/ LastCheck
    <2>1. \E from \in LeaderPoints, to \in LeaderPoints : LeaderMoves(from, to)
        BY <1>8 DEF RaiseWorkerFailure, ScanEnd, WorkersJoined, LastCheck, LeaderPoints
    <2>2. faults' = faults
        BY <1>8 DEF RaiseWorkerFailure, ScanEnd, WorkersJoined, LastCheck
    <2> QED
        BY <1>20, <2>1, <2>2, LeaderMoveTypes
<1>9. CASE \E e \in Events : ScanPass(e)
    BY <1>0, <1>9, PassedRecord DEF ScanPass, Types, dagVars, sharedVars, historyVars
<1>10. CASE LeaderWakesOnLatch \/ LeaderWakesOnTimeout
    BY <1>10 DEF LeaderWakesOnLatch, LeaderWakesOnTimeout, LeaderWakes, Types,
       LeaderRecords,
                 LeaderPoints, dagVars, historyVars
<1>11. CASE SignalShutdown
    BY <1>11 DEF SignalShutdown, WakeRegisteredWorkers, Types, LeaderRecords, LeaderPoints,
                 ControlRecords, dagVars, historyVars
<1>12. CASE TerminateWorkers
    <2>1. \A w \in Workers : [worker[w] EXCEPT !.sigterm = ~At(w, "exited")] \in WorkerRecords
        BY DEF Types, WorkerRecords, At
    <2>2. worker' \in [Workers -> WorkerRecords]
        BY <1>12, <2>1 DEF TerminateWorkers
    <2> QED
        BY <1>12, <2>2 DEF TerminateWorkers, Types, LeaderRecords, LeaderPoints, dagVars,
                           sharedVars, historyVars
<1>13. CASE EmitResult
    BY <1>13 DEF EmitResult, Types, LeaderRecords, LeaderPoints, dagVars, sharedVars
<1>14. CASE LeaderFails \/ LeaderDies
    <2>1. \E from \in LeaderPoints, to \in LeaderPoints : LeaderMoves(from, to)
        BY <1>14 DEF LeaderFails, LeaderDies, LeaderPoints
    <2>2. faults' \in 0 .. MaxFaults
        BY <1>14, <1>20 DEF LeaderFails, LeaderDies
    <2> QED
        BY <2>1, <2>2, LeaderMoveTypes
<1> QED
    BY <1>1, <1>2, <1>3, <1>4, <1>5, <1>6, <1>7, <1>8, <1>9, <1>10, <1>11, <1>12, <1>13,
       <1>14 DEF LeaderStep, FinishActs

\* Every step keeps the types.
LEMMA TypesStep ==
    ASSUME Types, TaskInv, LeaderInv, \A w \in Workers : WorkerInv(w), [Next]_vars
    PROVE  Types'
<1>1. CASE UNCHANGED vars
    BY <1>1 DEF vars, dagVars, sharedVars, historyVars, Types
<1>2. CASE Next
    BY <1>2, LeaderTypes, WorkerTypes DEF Next
<1> QED
    BY <1>1, <1>2

------------------------------------------------------------------------------
(* The program points of the workers. *)

Reporting == {"report", "report_own"}

\* A step of a worker from one point to another, and what comes with it.
Turn(v, from, to) ==
    /\ from \in WorkerPoints /\ to \in WorkerPoints /\ Moves(v, from, to)
    /\ UNCHANGED <<state, released, leader, started, completed, queue>>
    /\ to \in HandPoints =>
          from = "run" /\ ((to = "count" /\ ~Uncut)
                           \/ (to = "repush" /\ IsRun(worker[v].task[1])))
    /\ control.worker_error = 1 => control'.worker_error = 1
    /\ control'.worker_error = 1 => control.worker_error = 1 \/ to \in Reporting
    /\ to \in Reporting => control'.worker_error = 1
    /\ control.shutdown_requested # 0 => control'.shutdown_requested # 0
    /\ control'.shutdown_requested # 0 =>
          control.shutdown_requested # 0 \/ control.worker_error = 1
    /\ from \in {"notify"} \cup Reporting => leader_latch' = TRUE \/ worker[v].sigterm
    /\ leader_latch' = leader_latch \/ leader_latch' = TRUE
    /\ \A e \in Events : \/ tasks_remaining'[e] = tasks_remaining[e]
                         \/ tasks_remaining'[e] # 0 \/ to = "notify"

WorkerAny(v) ==
    WorkerActs(v) \/ WorkerWakesOnTimeout(v) \/ TaskFails(v) \/ ExitFails(v) \/ WorkerDies(v)

\* A worker pops, begins, completes or pushes a task back, or turns to another
\* point.
LEMMA WorkerTurns ==
    ASSUME Types, ErrorInv, NEW v \in Workers, WorkerInv(v), WorkerAny(v)
    PROVE  \/ WorkerPops(v) \/ WorkerBegins(v) \/ TaskCompletes(v) \/ Repush(v)
           \/ \E from, to : Turn(v, from, to)
<1>0. worker \in [Workers -> WorkerRecords] /\ control \in ControlRecords
      /\ tasks_remaining \in [Events -> 0 .. CounterModulus - 1]
    BY DEF Types
<1>1. ASSUME NEW from \in WorkerPoints, NEW to \in WorkerPoints, WorkerMoves(v, from, to),
             to \in HandPoints =>
                 from = "run" /\ ((to = "count" /\ ~Uncut)
                                  \/ (to = "repush" /\ IsRun(worker[v].task[1]))),
             to \notin Reporting,
             from \in {"notify"} \cup Reporting => worker[v].sigterm
      PROVE  Turn(v, from, to)
    <2>1. Moves(v, from, to)
        BY <1>0, <1>1, MoveEffect DEF WorkerMoves
    <2> QED
        BY <1>1, <2>1 DEF Turn, WorkerMoves, dagVars, sharedVars, historyVars
<1>2. CASE PlainActs(v)
    <2>1. CASE WorkerChecks(v)
        BY <1>1, <2>1 DEF WorkerChecks, WorkerPoints, HandPoints, Reporting
    <2>2. CASE WorkerFindsNothing(v)
        BY <1>1, <2>2 DEF WorkerFindsNothing, WorkerPoints, HandPoints, Reporting
    <2>3. CASE WorkerDrops(v)
        BY <1>1, <2>3 DEF WorkerDrops, WorkerPoints, HandPoints, Reporting
    <2>4. CASE TaskCutShort(v)
        <3>1. ~Uncut /\ WorkerMoves(v, "run", "count")
            BY <2>4 DEF TaskCutShort, Uncut
        <3>2. Turn(v, "run", "count")
            BY <1>1, <3>1 DEF WorkerPoints, HandPoints, Reporting
        <3> QED
            BY <3>2
    <2>5. CASE TaskYields(v)
        BY <1>1, <2>5 DEF TaskYields, WorkerPoints, HandPoints, Reporting
    <2>6. CASE TaskFails(v)
        BY <1>1, <2>6 DEF TaskFails, WorkerPoints, HandPoints, Reporting
    <2>7. CASE RepushRefused(v)
        BY <1>1, <2>7 DEF RepushRefused, WorkerPoints, HandPoints, Reporting
    <2>8. CASE WorkerExits(v)
        BY <1>1, <2>8 DEF WorkerExits, WorkerPoints, HandPoints, Reporting
    <2>9. CASE ExitFails(v)
        BY <1>1, <2>9 DEF ExitFails, WorkerPoints, HandPoints, Reporting
    <2>10. CASE WorkerDies(v)
        BY <1>1, <2>10 DEF WorkerDies, WorkerPoints, HandPoints, Reporting
    <2> QED
        BY <1>2, <2>1, <2>2, <2>3, <2>4, <2>5, <2>6, <2>7, <2>8, <2>9, <2>10 DEF PlainActs
<1>3. CASE WorkerWakesOnLatch(v) \/ WorkerWakesOnTimeout(v)
    <2>1. Moves(v, "wait", "check")
        BY <1>0, <1>3, MoveEffect
        DEF WorkerWakesOnLatch, WorkerWakesOnTimeout, WorkerWakes, WorkerPoints
    <2>2. Turn(v, "wait", "check")
        BY <1>3, <2>1 DEF WorkerWakesOnLatch, WorkerWakesOnTimeout, WorkerWakes, Turn,
                          WorkerPoints, HandPoints, Reporting, dagVars, historyVars
    <2> QED
        BY <2>2
<1>4. CASE CountDown(v)
    <2> DEFINE e == worker[v].task[1]
               n == (tasks_remaining[e] - 1) % CounterModulus
               to == IF n = 0 THEN "notify" ELSE "check"
    <2>1. Moves(v, "count", to) /\ to \in WorkerPoints
        BY <1>0, <1>4, MoveEffect DEF CountDown, WorkerPoints
    <2>2. tasks_remaining' = [tasks_remaining EXCEPT ![e] = n]
        BY <1>4 DEF CountDown
    <2> HIDE DEF n, e
    <2>3. \A x \in Events : \/ tasks_remaining'[x] = tasks_remaining[x]
                            \/ tasks_remaining'[x] # 0 \/ to = "notify"
        BY <1>0, <2>2
    <2>4. /\ UNCHANGED <<state, released, leader, started, completed, queue, control,
                         leader_latch>>
        BY <1>4 DEF CountDown, dagVars, historyVars
    <2>5. Turn(v, "count", to)
        BY <2>1, <2>3, <2>4 DEF Turn, WorkerPoints, HandPoints, Reporting
    <2> QED
        BY <2>5
<1>5. CASE NotifyLeader(v)
    <2>1. Moves(v, "notify", "check")
        BY <1>0, <1>5, MoveEffect DEF NotifyLeader, WorkerPoints
    <2>2. Turn(v, "notify", "check")
        BY <1>5, <2>1 DEF NotifyLeader, Turn, WorkerPoints, HandPoints, Reporting, dagVars,
                          historyVars
    <2> QED
        BY <2>2
<1>6. CASE CatchError(v)
    <2>1. PICK to \in Reporting : Moves(v, "catch", to)
        BY <1>0, <1>6, MoveEffect DEF CatchError, WorkerPoints, Reporting
    <2>2. control'.worker_error = 1
          /\ control'.shutdown_requested = control.shutdown_requested
        BY <1>0, <1>6 DEF CatchError, ControlRecords
    <2>3. Turn(v, "catch", to)
        BY <1>6, <2>1, <2>2 DEF CatchError, Turn, WorkerPoints, HandPoints, Reporting,
           dagVars,
                                historyVars
    <2> QED
        BY <2>3
<1>7. CASE ReportError(v)
    <2>1. PICK from \in Reporting, to \in {"catch", "exited"} : Moves(v, from, to)
        BY <1>0, <1>7, MoveEffect DEF ReportError, WorkerPoints, Reporting
    <2>2. control'.worker_error = control.worker_error /\ control'.shutdown_requested = 1
        BY <1>0, <1>7 DEF ReportError, ControlRecords
    <2>3. control.worker_error = 1
        BY <1>7 DEF ReportError, ErrorInv, At
    <2>4. Turn(v, from, to)
        BY <1>7, <2>1, <2>2, <2>3 DEF ReportError, Turn, WorkerPoints, HandPoints,
           Reporting,
                                      dagVars, historyVars
    <2> QED
        BY <2>4
<1> QED
    BY <1>2, <1>3, <1>4, <1>5, <1>6, <1>7 DEF WorkerAny, WorkerActs, PlainActs

\* A worker whose point and task stay keeps its invariant.
LEMMA WorkerStays ==
    ASSUME NEW w \in Workers, WorkerInv(w),
           worker'[w].pc = worker[w].pc, worker'[w].task = worker[w].task,
           started \subseteq started', completed \subseteq completed', Uncut' => Uncut,
           worker[w].pc \in {"popped", "run", "repush"} =>
               (worker[w].task \in completed' => worker[w].task \in completed)
    PROVE  WorkerInv(w)'
BY DEF WorkerInv

\* A turn keeps the invariant of every worker.
LEMMA WorkerInvByTurn ==
    ASSUME Types, NEW v \in Workers, \A w \in Workers : WorkerInv(w),
           NEW from, NEW to, Turn(v, from, to)
    PROVE  \A w \in Workers : WorkerInv(w)'
<1>1. Uncut' => Uncut
    BY DEF Turn, Uncut, LeaderAt
<1>2. ASSUME NEW w \in Workers, w # v PROVE WorkerInv(w)'
    BY <1>1, <1>2, WorkerStays DEF Turn, Moves
<1>3. worker \in [Workers -> WorkerRecords]
    BY DEF Types
<1>4. worker[v].pc = from /\ worker'[v].pc = to /\ worker'[v].task = worker[v].task
    BY <1>3, HandAfterMove DEF Turn, Moves
<1>5. WorkerInv(v)'
    <2>1. WorkerInv(v) /\ completed' = completed /\ started' = started
        BY DEF Turn
    <2>2. to \in HandPoints =>
          from = "run" /\ ((to = "count" /\ ~Uncut)
                           \/ (to = "repush" /\ IsRun(worker[v].task[1])))
        BY DEF Turn
    <2> QED
        BY <1>1, <1>4, <2>1, <2>2 DEF WorkerInv, HandPoints
<1> QED
    BY <1>2, <1>5

\* A step of a worker keeps the invariant of every worker.
LEMMA WorkerInvByWorker ==
    ASSUME Types, TaskInv, ErrorInv, \A w \in Workers : WorkerInv(w),
           NEW v \in Workers, WorkerAny(v)
    PROVE  \A w \in Workers : WorkerInv(w)'
<1>0. worker \in [Workers -> WorkerRecords] /\ queue \in Seq(Tasks)
    BY DEF Types
<1>1. CASE \E from, to : Turn(v, from, to)
    BY <1>1, WorkerInvByTurn
<1>2. CASE WorkerPops(v)
    <2>1. worker'[v].pc = "popped" /\ worker'[v].task = Head(queue)
          /\ WorkerIndex(Head(queue)[1], Head(queue)[2]) = v /\ queue # << >>
        BY <1>0, <1>2 DEF WorkerPops, HeadIsFor, WorkerRecords
    <2>2. \A w \in Workers : w # v => worker'[w] = worker[w]
        BY <1>0, <1>2 DEF WorkerPops
    <2>3. UNCHANGED <<started, completed, control, leader>>
        BY <1>2 DEF WorkerPops, historyVars
    <2>4. Head(queue) \in Tasks /\ Head(queue) \notin completed
        <3>1. Head(queue) \in Tasks /\ Head(queue) = queue[1] /\ 1 \in 1 .. Len(queue)
            BY <1>0, <2>1
        <3>2. Queued(Head(queue))
            BY <3>1 DEF Queued
        <3> QED
            BY <3>1, <3>2 DEF TaskInv, QueueInv
    <2>5. WorkerInv(v)'
        BY <2>1, <2>3, <2>4 DEF WorkerInv
    <2>6. ASSUME NEW w \in Workers, w # v PROVE WorkerInv(w)'
        BY <2>2, <2>3, <2>6, WorkerStays DEF Uncut, LeaderAt
    <2> QED
        BY <2>5, <2>6
<1>3. CASE WorkerBegins(v)
    <2>1. worker'[v].pc = "run" /\ worker'[v].task = worker[v].task /\ worker[v].pc = "popped"
        BY <1>0, <1>3 DEF WorkerBegins, At, WorkerRecords
    <2>2. \A w \in Workers : w # v => worker'[w] = worker[w]
        BY <1>0, <1>3 DEF WorkerBegins
    <2>3. UNCHANGED <<completed, control, leader>> /\ started' = started \cup {worker[v].task}
        BY <1>3 DEF WorkerBegins, sharedVars
    <2>4. WorkerInv(v)'
        BY <2>1, <2>3 DEF WorkerInv, HandPoints
    <2>5. ASSUME NEW w \in Workers, w # v PROVE WorkerInv(w)'
        BY <2>2, <2>3, <2>5, WorkerStays DEF Uncut, LeaderAt
    <2> QED
        BY <2>4, <2>5
<1>4. CASE TaskCompletes(v)
    <2>1. worker'[v].pc = "count" /\ worker'[v].task = worker[v].task /\ worker[v].pc = "run"
        BY <1>0, <1>4 DEF TaskCompletes, At, WorkerRecords
    <2>2. \A w \in Workers : w # v => worker'[w] = worker[w]
        BY <1>0, <1>4 DEF TaskCompletes
    <2>3. UNCHANGED <<started, control, leader>>
          /\ completed' = completed \cup {worker[v].task}
        BY <1>4 DEF TaskCompletes, sharedVars
    <2>4. WorkerInv(v)'
        BY <2>1, <2>3 DEF WorkerInv, HandPoints
    <2>5. ASSUME NEW w \in Workers, w # v PROVE WorkerInv(w)'
        <3>1. worker[w].pc \in {"popped", "run", "repush"} => worker[w].task # worker[v].task
            BY <2>1, <2>5 DEF WorkerInv, HandPoints
        <3> QED
            BY <2>2, <2>3, <2>5, <3>1, WorkerStays DEF Uncut, LeaderAt
    <2> QED
        BY <2>4, <2>5
<1>5. CASE Repush(v)
    <2>1. worker'[v].pc = "check"
        BY <1>0, <1>5 DEF Repush, WorkerRecords
    <2>2. \A w \in Workers : w # v => worker'[w] = worker[w]
        BY <1>0, <1>5 DEF Repush
    <2>3. UNCHANGED <<started, completed, control, leader>>
        BY <1>5 DEF Repush, historyVars
    <2>4. WorkerInv(v)'
        BY <2>1 DEF WorkerInv, HandPoints
    <2>5. ASSUME NEW w \in Workers, w # v PROVE WorkerInv(w)'
        BY <2>2, <2>3, <2>5, WorkerStays DEF Uncut, LeaderAt
    <2> QED
        BY <2>4, <2>5
<1> QED
    BY <1>1, <1>2, <1>3, <1>4, <1>5, WorkerTurns


LeaderAny == LeaderStep \/ LeaderWakesOnTimeout \/ LeaderFails \/ LeaderDies

\* What the leader's steps leave to the workers: FINALIZE tasks are the leader's own,
\* and no worker's point moves.
LeaderEffect ==
    /\ \A w \in Workers :
          /\ worker'[w].pc = worker[w].pc /\ worker'[w].task = worker[w].task
          /\ worker'[w].ran = worker[w].ran /\ worker'[w].combined = worker[w].combined
          /\ worker'[w].sigterm => worker[w].sigterm \/ leader'.pc = "reap"
    /\ \/ started' = started /\ completed' = completed
       \/ \E e \in Events : /\ IsFinalize(e) /\ started' = started \cup {<<e, 0>>}
                            /\ completed' = completed \cup {<<e, 0>>}
    /\ control'.worker_error = control.worker_error
    /\ control.shutdown_requested # 0 => control'.shutdown_requested # 0
    /\ control'.shutdown_requested # 0 =>
          \/ control.shutdown_requested # 0 \/ leader.pc = "shutdown" \/ leader'.pc = "grace"
    /\ leader.pc # "dead" /\ (Live' => Live)

\* What the leader does to the workers and to the shared control record.
LEMMA LeaderLeavesWorkers ==
    ASSUME Types, TaskInv, LeaderInv, LeaderAny
    PROVE  LeaderEffect
<1>0. leader \in LeaderRecords /\ control \in ControlRecords
      /\ worker \in [Workers -> WorkerRecords] /\ leader.event \in Events
    BY DEF Types, LeaderRecords
<1>1. CASE UNCHANGED <<control, worker, started, completed>> /\ leader.pc # "dead"
           /\ (Live' => Live)
    BY <1>1 DEF LeaderEffect
<1>2. ASSUME NEW from, NEW to, LeaderMoves(from, to), from # "dead",
             from \notin {"catch", "grace", "reap", "failed", "dead"}
             \/ to \in {"catch", "grace", "reap", "failed", "dead"}
      PROVE  LeaderEffect
    BY <1>0, <1>1, <1>2, LeaderMovesEffect DEF sharedVars, historyVars, Live
<1>3. CASE StartPipeline \/ ScheduleTasks \/ ScheduleTrivialCombine \/ Top
           \/ PushTask \/ PushTaskRefused \/ LeaderWakesOnLatch \/ LeaderWakesOnTimeout
           \/ \E e \in Events : ScanFinish(e) \/ ScanPass(e)
    <2>1. leader.pc \in {"start", "schedule", "top", "push", "wait", "scan"}
          /\ UNCHANGED <<control, worker, started, completed>>
        BY <1>3 DEF StartPipeline, ScheduleTasks, ScheduleTrivialCombine, Top, PushTask,
                    PushTaskRefused, LeaderWakesOnLatch, LeaderWakesOnTimeout, LeaderWakes,
                    ScanFinish, ScanPass, AtCursor, LeaderAt, sharedVars, historyVars
    <2> QED
        BY <1>1, <2>1 DEF Live
<1>4. CASE ScheduleFinalize
    <2>1. leader.pc = "schedule" /\ UNCHANGED <<control, worker>> /\ IsFinalize(leader.event)
        BY <1>4 DEF ScheduleFinalize, LeaderAt
    <2>2. \/ started' = started /\ completed' = completed
          \/ /\ started' = started \cup {<<leader.event, 0>>}
             /\ completed' = completed \cup {<<leader.event, 0>>}
        BY <1>4 DEF ScheduleFinalize
    <2> QED
        BY <1>0, <2>1, <2>2 DEF LeaderEffect, Live
<1>5. ASSUME NEW e \in Events, ScanFinalize(e) PROVE LeaderEffect
    <2>1. leader.pc = "scan" /\ UNCHANGED <<control, worker>> /\ IsFinalize(e)
          /\ started' = started \cup {<<e, 0>>}
          /\ completed' = completed \cup {<<e, 0>>}
        BY <1>5 DEF ScanFinalize, AtCursor, LeaderAt
    <2> QED
        BY <2>1 DEF LeaderEffect, Live
<1>6. CASE RaiseWorkerFailure \/ ScanEnd \/ WorkersJoined \/ LastCheck
    BY <1>2, <1>6 DEF RaiseWorkerFailure, ScanEnd, WorkersJoined, LastCheck
<1>7. CASE LeaderFails \/ LeaderDies
    BY <1>2, <1>7 DEF LeaderFails, LeaderDies
<1>8. CASE SignalShutdown
    <2>1. \/ leader.pc = "shutdown"
          \/ leader.pc = "catch" /\ leader'.pc = "grace"
        BY <1>0, <1>8 DEF SignalShutdown, LeaderAt, LeaderRecords
    <2>2. control'.shutdown_requested = 1 /\ control'.worker_error = control.worker_error
          /\ UNCHANGED <<worker, started, completed>>
        BY <1>0, <1>8 DEF SignalShutdown, ControlRecords, historyVars
    <2> QED
        BY <2>1, <2>2 DEF LeaderEffect, Live
<1>9. CASE TerminateWorkers
    <2>1. leader.pc = "grace" /\ leader'.pc = "reap"
          /\ UNCHANGED <<control, started, completed>>
        BY <1>0, <1>9 DEF TerminateWorkers, LeaderAt, LeaderRecords, sharedVars, historyVars
    <2>2. \A w \in Workers :
              /\ worker'[w].pc = worker[w].pc /\ worker'[w].task = worker[w].task
              /\ worker'[w].ran = worker[w].ran /\ worker'[w].combined = worker[w].combined
        BY <1>0, <1>9 DEF TerminateWorkers, WorkerRecords
    <2> QED
        BY <2>1, <2>2 DEF LeaderEffect, Live
<1>10. CASE EmitResult
    BY <1>1, <1>10 DEF EmitResult, LeaderAt, Live, sharedVars
<1> QED
    BY <1>3, <1>4, <1>5, <1>6, <1>7, <1>8, <1>9, <1>10 DEF LeaderAny, LeaderStep

\* A step of the leader keeps the invariant of every worker.
LEMMA WorkerInvByLeader ==
    ASSUME Types, TaskInv, \A w \in Workers : WorkerInv(w), LeaderEffect
    PROVE  \A w \in Workers : WorkerInv(w)'
<1>1. Uncut' => Uncut
    BY DEF LeaderEffect, Uncut, LeaderAt
<1>2. ASSUME NEW w \in Workers PROVE WorkerInv(w)'
    <2>1. worker'[w].pc = worker[w].pc /\ worker'[w].task = worker[w].task
          /\ started \subseteq started' /\ completed \subseteq completed'
        BY DEF LeaderEffect
    <2>2. ASSUME worker[w].pc \in {"popped", "run", "repush"},
                 worker[w].task \in completed', worker[w].task \notin completed
          PROVE  FALSE
        <3>1. worker[w].task \in Tasks /\ Held(worker[w].task)
            BY <2>2 DEF WorkerInv, HandPoints, Held, Hand
        <3>2. IsFinalize(worker[w].task[1])
            BY <2>2 DEF LeaderEffect
        <3>3. worker[w].task[1] \in Events
            BY <3>1, TasksAreTasks
        <3> QED
            BY <3>1, <3>2, <3>3 DEF TaskInv, PlaceInv, TasksOf
    <2> QED
        BY <1>1, <2>1, <2>2, WorkerStays
<1> QED
    BY <1>2

\* A step of the leader takes no state from a worker that a COMBINE will look for.
LEMMA HistoryInvByLeader ==
    ASSUME Types, NEW w \in Workers, HistoryInv(w), LeaderEffect
    PROVE  HistoryInv(w)'
<1>1. worker'[w].ran = worker[w].ran /\ worker'[w].combined = worker[w].combined
    BY DEF LeaderEffect
<1>2. completed \subseteq completed'
    BY DEF LeaderEffect
<1>3. ASSUME NEW p \in Pipelines, <<Run(p), w>> \in started' PROVE <<Run(p), w>> \in started
    <2>1. \A e \in Events : IsFinalize(e) => <<Run(p), w>> # <<e, 0>>
        BY PipelineEvents, EventKinds
    <2> QED
        BY <1>3, <2>1 DEF LeaderEffect
<1> QED
    BY <1>1, <1>2, <1>3 DEF HistoryInv

\* A step of a worker keeps the state a COMBINE will look for.
LEMMA HistoryInvByWorker ==
    ASSUME Types, ErrorInv, \A w \in Workers : WorkerInv(w) /\ HistoryInv(w),
           NEW v \in Workers, WorkerAny(v)
    PROVE  \A w \in Workers : HistoryInv(w)'
<1>0. worker \in [Workers -> WorkerRecords]
    BY DEF Types
<1>1. ASSUME NEW w \in Workers, worker'[w].ran = worker[w].ran,
             worker'[w].combined = worker[w].combined, started' = started,
             completed' = completed
      PROVE  HistoryInv(w)'
    BY <1>1 DEF HistoryInv
<1>2. ASSUME NEW from, NEW to, Turn(v, from, to) PROVE \A w \in Workers : HistoryInv(w)'
    <2>1. \A w \in Workers : worker'[w].ran = worker[w].ran
                             /\ worker'[w].combined = worker[w].combined
        BY <1>0, <1>2, HandAfterMove DEF Turn, Moves
    <2> QED
        BY <1>1, <1>2, <2>1 DEF Turn
<1>3. CASE WorkerPops(v) \/ Repush(v)
    <2>1. \A w \in Workers : worker'[w].ran = worker[w].ran
                             /\ worker'[w].combined = worker[w].combined
        BY <1>0, <1>3 DEF WorkerPops, Repush, WorkerRecords
    <2> QED
        BY <1>1, <1>3, <2>1 DEF WorkerPops, Repush, historyVars
<1>4. CASE WorkerBegins(v)
    <2> DEFINE t == worker[v].task
               new == worker[v].ran \cup (IF IsRun(t[1]) THEN {PipelineOf(t[1])} ELSE {})
    <2>1. /\ t \in Tasks /\ WorkerIndex(t[1], t[2]) = v
          /\ started' = started \cup {t} /\ completed' = completed
        BY <1>4 DEF WorkerBegins, At, WorkerInv, HandPoints
    <2>2. worker' = [worker EXCEPT ![v] = [worker[v] EXCEPT !.pc = "run", !.ran = new]]
        BY <1>0, <1>4 DEF WorkerBegins
    <2> HIDE DEF new
    <2>3. /\ worker'[v].ran = new /\ worker'[v].combined = worker[v].combined
          /\ \A w \in Workers : w # v => worker'[w] = worker[w]
        BY <1>0, <2>2 DEF WorkerRecords
    <2>4. new = worker[v].ran \cup (IF IsRun(t[1]) THEN {PipelineOf(t[1])} ELSE {})
        BY DEF new
    <2> HIDE DEF t
    <2>5. ASSUME NEW w \in Workers PROVE HistoryInv(w)'
        <3>1. worker[w].ran \subseteq worker'[w].ran
              /\ worker'[w].combined = worker[w].combined
            BY <2>3, <2>4
        <3>2. ASSUME NEW p \in Pipelines, <<Run(p), w>> \in started', w < RunTasks[p]
              PROVE  p \in worker'[w].ran
            <4>1. CASE <<Run(p), w>> \in started
                BY <3>1, <3>2, <4>1 DEF HistoryInv
            <4>2. CASE <<Run(p), w>> = t
                <5>1. t[1] = Run(p) /\ t[2] = w
                    BY <4>2
                <5>2. IsRun(t[1]) /\ PipelineOf(t[1]) = p
                    BY <5>1, PipelineEvents
                <5>3. w = v
                    BY <2>1, <5>1, <5>2, WorkerIndexFacts
                <5> QED
                    BY <2>3, <2>4, <5>2, <5>3
            <4> QED
                BY <2>1, <3>2, <4>1, <4>2
        <3> QED
            BY <2>1, <3>1, <3>2 DEF HistoryInv
    <2> QED
        BY <2>5
<1>5. CASE TaskCompletes(v)
    <2> DEFINE t == worker[v].task
               q == PipelineOf(t[1])
               new == worker[v].combined \cup
                         (IF IsCombine(t[1]) /\ Sink[q] # "HASH_AGGREGATE" THEN {q} ELSE {})
    <2>1. /\ t \in Tasks /\ WorkerIndex(t[1], t[2]) = v
          /\ completed' = completed \cup {t} /\ started' = started
        BY <1>5 DEF TaskCompletes, At, WorkerInv, HandPoints
    <2>2. worker' = [worker EXCEPT ![v] = [worker[v] EXCEPT !.pc = "count",
                                                            !.combined = new]]
        BY <1>0, <1>5 DEF TaskCompletes
    <2> HIDE DEF new
    <2>3. /\ worker'[v].combined = new /\ worker'[v].ran = worker[v].ran
          /\ \A w \in Workers : w # v => worker'[w] = worker[w]
        BY <1>0, <2>2 DEF WorkerRecords
    <2>4. new = worker[v].combined \cup
                   (IF IsCombine(t[1]) /\ Sink[q] # "HASH_AGGREGATE" THEN {q} ELSE {})
        BY DEF new
    <2>5. IsCombine(t[1]) /\ Sink[q] # "HASH_AGGREGATE" =>
              q \in Pipelines /\ t = <<Combine(q), v>>
        <3>1. t = <<t[1], t[2]>> /\ t[1] \in Events
            BY <2>1, TaskPairs
        <3>2. IsCombine(t[1]) => t[1] = Combine(q) /\ q \in Pipelines
            BY <3>1, EventKinds
        <3>3. IsCombine(t[1]) /\ Sink[q] # "HASH_AGGREGATE" => t[2] = v
            BY <2>1 DEF WorkerIndex
        <3> QED
            BY <3>1, <3>2, <3>3
    <2> HIDE DEF t, q
    <2>6. ASSUME NEW w \in Workers PROVE HistoryInv(w)'
        <3>1. worker'[w].ran = worker[w].ran
            BY <2>3
        <3>2. ASSUME NEW p \in Pipelines, p \in worker'[w].combined
              PROVE  Sink[p] # "HASH_AGGREGATE" /\ <<Combine(p), w>> \in completed'
            <4>1. CASE p \in worker[w].combined
                BY <2>1, <4>1 DEF HistoryInv
            <4>2. CASE p \notin worker[w].combined
                <5>1. w = v /\ p = q /\ IsCombine(t[1]) /\ Sink[q] # "HASH_AGGREGATE"
                    BY <2>3, <2>4, <3>2, <4>2
                <5> QED
                    BY <2>1, <2>5, <5>1
            <4> QED
                BY <4>1, <4>2
        <3> QED
            BY <2>1, <3>1, <3>2 DEF HistoryInv
    <2> QED
        BY <2>6
<1> QED
    BY <1>2, <1>3, <1>4, <1>5, WorkerTurns

------------------------------------------------------------------------------
(* The leader's program point. *)

\* What the places that finish an event do to the states and to the leader.
LEMMA FinishActsEffect ==
    ASSUME Types, TaskInv, LeaderInv, FinishActs
    PROVE  /\ \A x \in Events : state[x] = "FINISHED" => state'[x] = "FINISHED"
           /\ leader'.pc \in {"start", "scan", "schedule"}
           /\ leader'.pc = "schedule" => state'[leader'.event] = "SCHEDULED"
           /\ leader'.pc = "start" => leader'.resume = "start"
           /\ leader'.pc = "scan" => leader'.progress
           /\ leader'.resume = "start" \/ leader'.progress
<1>1. PICK e \in Events, l \in LeaderRecords : Finishing(e, l)
    BY FinishActsFinish
<1>2. \A x \in Events : x # e => (Fresh(x) <=> state[x] = "PENDING")
    BY <1>1 DEF Finishing, Fresh, LeaderAt
<1>3. state[e] = "SCHEDULED" /\ FinishEvent(e, l)
      /\ l.resume = leader.resume /\ (l.resume = "start" \/ l.progress)
    BY <1>1 DEF Finishing
<1>4. /\ state'[e] = "FINISHED"
      /\ \A x \in Events : x # e => (state'[x] = "FINISHED" <=> state[x] = "FINISHED")
      /\ leader'.pc \in {"start", "scan", "schedule"}
      /\ leader'.pc = "schedule" => state'[leader'.event] = "SCHEDULED"
      /\ leader'.pc = "start" => leader.resume = "start"
      /\ leader'.pc = "scan" => leader.resume = "scan"
      /\ leader'.progress = l.progress /\ leader'.resume = l.resume
    BY <1>2, <1>3, FinishEffect
<1> QED
    BY <1>3, <1>4

\* Steps that finish no event leave the states of the events and the released
\* builds alone.
LEMMA QuietActsKeepStates ==
    ASSUME LeaderQuietActs \/ ScheduleTasks \/ PushTask \/ PushTaskRefused
    PROVE  UNCHANGED <<state, released>>
BY DEF LeaderQuietActs, ScheduleTasks, PushTask, PushTaskRefused, Top, RaiseWorkerFailure,
       ScanPass, ScanEnd, LeaderWakesOnLatch, LeaderWakesOnTimeout, LeaderWakes,
       SignalShutdown, TerminateWorkers, WorkersJoined, EmitResult, LastCheck, LeaderFails,
       LeaderDies, LeaderMoves, dagVars

\* Workers never touch the states of the events, the released builds or the leader.
LEMMA WorkersKeepStates ==
    ASSUME NEW v \in Workers, WorkerAny(v)
    PROVE  UNCHANGED <<state, released, leader>>
BY DEF WorkerAny, WorkerActs, WorkerChecks, WorkerPops, WorkerFindsNothing,
       WorkerWakesOnLatch, WorkerWakesOnTimeout, WorkerWakes, WorkerDrops, WorkerBegins,
       TaskCompletes, TaskCutShort, TaskYields, TaskFails, Repush, RepushRefused, CountDown,
       NotifyLeader, CatchError, ReportError, WorkerExits, ExitFails, WorkerDies, WorkerMoves,
       dagVars

\* The steps of the leader, sorted by what they do to the tasks.
LEMMA LeaderCases ==
    ASSUME LeaderAny
    PROVE  \/ StartPipeline \/ ScheduleTasks
           \/ ScheduleFinalize /\ ~FinalizeIsTrivial(PipelineOf(leader.event))
           \/ FinishActs \/ PushTask \/ PushTaskRefused \/ LeaderQuietActs
BY DEF LeaderAny, LeaderStep, FinishActs, LeaderQuietActs

\* What the start of a pipeline does to the leader and to the states of the events.
LEMMA StartEffect ==
    ASSUME Types, StartPipeline
    PROVE  /\ leader.pc = "start" /\ leader'.resume \in {leader.resume, "scan"}
           /\ released' = released
           /\ \A x \in Events : state[x] = "FINISHED" => state'[x] = "FINISHED"
           /\ leader'.pc \in {"schedule", "top"}
           /\ leader'.pc = "schedule" =>
                 leader'.resume = leader.resume /\ state'[leader'.event] = "SCHEDULED"
<1>0. leader \in LeaderRecords /\ state \in [Events -> {"PENDING", "SCHEDULED", "FINISHED"}]
    BY DEF Types
<1>1. leader.pc = "start" /\ released' = released
    BY DEF StartPipeline, LeaderAt
<1>2. CASE leader' = [leader EXCEPT !.pc = "top", !.resume = "scan"] /\ UNCHANGED state
    BY <1>0, <1>1, <1>2 DEF LeaderRecords
<1>3. ASSUME NEW p \in Pipelines, state[Run(p)] = "PENDING",
             state' = [state EXCEPT ![Run(p)] = "SCHEDULED"],
             leader' = [leader EXCEPT !.pc = "schedule", !.event = Run(p)]
      PROVE  /\ \A x \in Events : state[x] = "FINISHED" => state'[x] = "FINISHED"
             /\ leader'.pc = "schedule" /\ leader'.resume = leader.resume
             /\ state'[leader'.event] = "SCHEDULED"
    <2>1. Run(p) \in Events
        BY PipelineEvents
    <2>2. leader'.pc = "schedule" /\ leader'.resume = leader.resume /\ leader'.event = Run(p)
        BY <1>0, <1>3 DEF LeaderRecords
    <2> QED
        BY <1>0, <1>3, <2>1, <2>2
<1> QED
    BY <1>1, <1>2, <1>3 DEF StartPipeline

\* An event that is finished stays so.
LEMMA StatesGrow ==
    ASSUME Types, TaskInv, LeaderInv, LeaderAny
    PROVE  /\ \A x \in Events : state[x] = "FINISHED" => state'[x] = "FINISHED"
           /\ AllEventsFinished => AllEventsFinished'
<1>1. CASE ScheduleFinalize /\ ~FinalizeIsTrivial(PipelineOf(leader.event))
    BY <1>1 DEF ScheduleFinalize, AllEventsFinished
<1>2. CASE ~ScheduleFinalize \/ FinalizeIsTrivial(PipelineOf(leader.event))
    <2>1. \A x \in Events : state[x] = "FINISHED" => state'[x] = "FINISHED"
        BY <1>2, LeaderCases, StartEffect, FinishActsEffect, QuietActsKeepStates
    <2> QED
        BY <2>1 DEF AllEventsFinished, Events
<1> QED
    BY <1>1, <1>2

\* The leader's point agrees with the state of the event it is scheduling, and it
\* leaves the loop without an error only when every event is finished.
LEMMA LeaderInvByLeader ==
    ASSUME Types, TaskInv, LeaderInv, LeaderAny
    PROVE  LeaderInv'
<1>0. leader \in LeaderRecords
    BY DEF Types
<1>1. CASE StartPipeline
    BY <1>1, StartEffect DEF LeaderInv
<1>2. CASE FinishActs
    BY <1>2, FinishActsEffect DEF LeaderInv
<1>3. CASE ScheduleTasks
    <2>1. leader.pc = "schedule" /\ leader'.pc = "push" /\ leader'.event = leader.event
          /\ leader'.pushed = 0 /\ leader'.resume = leader.resume
          /\ leader'.progress = leader.progress /\ state' = state
          /\ ~IsFinalize(leader.event) /\ TaskCount(leader.event) > 0
        BY <1>0, <1>3 DEF ScheduleTasks, LeaderAt, LeaderRecords, dagVars
    <2> QED
        BY <2>1 DEF LeaderInv
<1>4. CASE ScheduleFinalize /\ ~FinalizeIsTrivial(PipelineOf(leader.event))
    <2>1. leader.resume \in {"start", "scan"} /\ leader'.pc = leader.resume
          /\ leader'.resume = leader.resume /\ state' = state
        BY <1>0, <1>4 DEF ScheduleFinalize, LeaderRecords
    <2> QED
        BY <2>1 DEF LeaderInv
<1>5. CASE PushTask
    <2>1. /\ leader.resume \in {"start", "scan"} /\ leader.pushed \in Nat
          /\ leader.pc = "push" /\ leader'.event = leader.event
          /\ leader'.resume = leader.resume /\ leader'.progress = leader.progress
          /\ leader'.pushed = leader.pushed + 1 /\ state' = state
          /\ leader'.pc = IF leader.pushed + 1 = TaskCount(leader.event) THEN leader.resume
                          ELSE "push"
        BY <1>0, <1>5 DEF PushTask, LeaderAt, LeaderRecords, dagVars
    <2>2. TaskCount(leader.event) \in Nat
        BY <1>0, TaskCounts DEF LeaderRecords
    <2> QED
        BY <2>1, <2>2 DEF LeaderInv
<1>6. CASE PushTaskRefused
    <2>1. leader'.pc = "catch"
        BY <1>0, <1>6 DEF PushTaskRefused, LeaderRecords
    <2> QED
        BY <2>1 DEF LeaderInv
<1>7. CASE LeaderQuietActs
    <2>1. state' = state
        BY <1>7, QuietActsKeepStates
    <2>2. /\ leader'.pc \notin {"start", "schedule", "push"}
          /\ leader'.pc \in {"shutdown", "join", "emit", "emitted", "done"} =>
                AllEventsFinished \/ leader.pc \in {"shutdown", "join", "emit", "emitted", "done"}
        <3>1. ASSUME NEW from, NEW to, LeaderMoves(from, to)
              PROVE  leader.pc = from /\ leader'.pc = to
            BY <1>0, <3>1, LeaderMovesEffect
        <3>2. CASE RaiseWorkerFailure \/ ScanEnd \/ WorkersJoined \/ LastCheck
                   \/ LeaderFails \/ LeaderDies
            BY <3>1, <3>2 DEF RaiseWorkerFailure, ScanEnd, WorkersJoined, LastCheck,
                              LeaderFails, LeaderDies
        <3>3. CASE Top \/ TerminateWorkers \/ EmitResult \/ SignalShutdown
            BY <1>0, <3>3 DEF Top, TerminateWorkers, EmitResult, SignalShutdown, LeaderAt,
                              LeaderRecords
        <3>4. CASE \E e \in Events : ScanPass(e)
            BY <1>0, <3>4, PassedRecord DEF ScanPass, AtCursor, LeaderAt
        <3>5. CASE LeaderWakesOnLatch \/ LeaderWakesOnTimeout
            BY <1>0, <3>5 DEF LeaderWakesOnLatch, LeaderWakesOnTimeout, LeaderWakes,
                              LeaderRecords
        <3> QED
            BY <1>7, <3>2, <3>3, <3>4, <3>5 DEF LeaderQuietActs
    <2>3. AllEventsFinished => AllEventsFinished'
        BY <2>1 DEF AllEventsFinished
    <2> QED
        BY <2>2, <2>3 DEF LeaderInv
<1> QED
    BY <1>1, <1>2, <1>3, <1>4, <1>5, <1>6, <1>7, LeaderCases

\* A build side is released only after the RUN event that probes it is finished.
LEMMA ReleasedInvByLeader ==
    ASSUME Types, TaskInv, LeaderInv, ReleasedInv, LeaderAny
    PROVE  ReleasedInv'
<1>1. \A x \in Events : state[x] = "FINISHED" => state'[x] = "FINISHED"
    BY StatesGrow
<1>2. ASSUME NEW d \in released
      PROVE  \E p \in Pipelines : d \in BuildsProbedBy(p) /\ state'[Run(p)] = "FINISHED"
    BY <1>1, PipelineEvents DEF ReleasedInv
<1>3. CASE \E e \in Events : ScanFinish(e) /\ IsRun(e)
    <2>1. PICK e \in Events : ScanFinish(e) /\ IsRun(e)
        BY <1>3
    <2>2. released' = released \cup BuildsProbedBy(PipelineOf(e)) /\ state'[e] = "FINISHED"
        BY <2>1 DEF ScanFinish, FinishEvent
    <2>3. PipelineOf(e) \in Pipelines /\ e = Run(PipelineOf(e))
        BY <2>1, EventKinds
    <2> QED
        BY <1>2, <2>2, <2>3 DEF ReleasedInv, BuildsProbedBy
<1>4. CASE ~\E e \in Events : ScanFinish(e) /\ IsRun(e)
    <2>1. released' = released
        BY <1>4, LeaderCases, StartEffect, QuietActsKeepStates
        DEF FinishActs, ScheduleTrivialCombine, ScheduleFinalize, ScanFinalize, ScanFinish
    <2> QED
        BY <1>2, <2>1 DEF ReleasedInv, BuildsProbedBy
<1> QED
    BY <1>3, <1>4

\* A step of the leader keeps the reasons for a shutdown.
LEMMA ErrorInvByLeader ==
    ASSUME Types, TaskInv, LeaderInv, ErrorInv, LeaderAny
    PROVE  ErrorInv'
<1>1. LeaderEffect /\ (AllEventsFinished => AllEventsFinished')
    BY LeaderLeavesWorkers, StatesGrow
<1>2. leader'.pc \in {"grace", "reap"} => ~Live'
    BY DEF Live
<1>3. \A w \in Workers : worker'[w].sigterm => ~Live'
    BY <1>1, <1>2 DEF LeaderEffect, ErrorInv
<1>4. \A w \in Workers : worker'[w].pc \in {"report", "report_own"} =>
          control'.worker_error = 1
    BY <1>1 DEF LeaderEffect, ErrorInv
<1>5. control'.shutdown_requested # 0 =>
          control'.worker_error # 0 \/ ~Live' \/ AllEventsFinished'
    BY <1>1, <1>2 DEF LeaderEffect, ErrorInv, LeaderInv
<1> QED
    BY <1>3, <1>4, <1>5 DEF ErrorInv

\* A step of a worker keeps the reasons for a shutdown.
LEMMA ErrorInvByWorker ==
    ASSUME Types, ErrorInv, NEW v \in Workers, WorkerInv(v), WorkerAny(v)
    PROVE  ErrorInv'
<1>0. worker \in [Workers -> WorkerRecords] /\ control \in ControlRecords
    BY DEF Types
<1>1. state' = state /\ leader' = leader
    BY WorkersKeepStates
<1>2. (Live' <=> Live) /\ (AllEventsFinished' <=> AllEventsFinished)
    BY <1>1 DEF Live, AllEventsFinished
<1>3. ASSUME NEW from, NEW to, Turn(v, from, to) PROVE ErrorInv'
    <2>1. worker'[v].pc = to /\ worker'[v].sigterm = worker[v].sigterm
          /\ \A w \in Workers : w # v => worker'[w] = worker[w]
        BY <1>0, <1>3, HandAfterMove DEF Turn, Moves
    <2>2. \A w \in Workers : worker'[w].sigterm => ~Live'
        BY <1>2, <2>1 DEF ErrorInv
    <2>3. \A w \in Workers : worker'[w].pc \in {"report", "report_own"} =>
              control'.worker_error = 1
        BY <1>3, <2>1 DEF ErrorInv, Turn, Reporting
    <2>4. control'.shutdown_requested # 0 =>
              control'.worker_error # 0 \/ ~Live' \/ AllEventsFinished'
        BY <1>0, <1>2, <1>3 DEF ErrorInv, Turn, ControlRecords
    <2> QED
        BY <2>2, <2>3, <2>4 DEF ErrorInv
<1>4. CASE WorkerPops(v) \/ WorkerBegins(v) \/ TaskCompletes(v) \/ Repush(v)
    <2>1. control' = control
        BY <1>4 DEF WorkerPops, WorkerBegins, TaskCompletes, Repush, sharedVars
    <2>2. \A w \in Workers :
              /\ worker'[w].sigterm = worker[w].sigterm
              /\ worker'[w].pc \in {"report", "report_own"} =>
                    worker[w].pc \in {"report", "report_own"}
        BY <1>0, <1>4 DEF WorkerPops, WorkerBegins, TaskCompletes, Repush, WorkerRecords
    <2> QED
        BY <1>2, <2>1, <2>2 DEF ErrorInv
<1> QED
    BY <1>3, <1>4, WorkerTurns

\* The numerically least of some events.
LEMMA LeastEvent ==
    ASSUME NEW S \in SUBSET Events, S # {}
    PROVE  \E x \in S : \A y \in S : x <= y
<1>1. Events \subseteq Nat
    BY CountsAssumption DEF Events, CountsAssumption
<1>2. \E x \in S : \A y \in S : ~(<<y, x>> \in OpToRel(<, Nat))
    BY <1>1, NatLessThanWellFounded, WFMin, Zenon
<1>3. PICK x \in S : \A y \in S : ~(<<y, x>> \in OpToRel(<, Nat))
    BY <1>2
<1>4. \A y \in S : ~(y < x)
    BY <1>1, <1>3 DEF OpToRel
<1> QED
    BY <1>1, <1>4

\* At the end of a scan no event past the cursor is scheduled.
LEMMA ScanIsOver ==
    ASSUME Types, LeaderAt("scan"), \A e \in Events : ~AtCursor(e)
    PROVE  \A e \in Events : state[e] = "SCHEDULED" => e < leader.cursor
<1> SUFFICES ASSUME NEW e \in Events, state[e] = "SCHEDULED", ~(e < leader.cursor)
             PROVE  FALSE
    OBVIOUS
<1> DEFINE S == {x \in Events : state[x] = "SCHEDULED" /\ x >= leader.cursor}
<1>1. leader.cursor \in Nat /\ Events \subseteq Nat
    BY CountsAssumption DEF Types, LeaderRecords, Events, CountsAssumption
<1>2. S # {} /\ S \subseteq Events
    BY <1>1
<1>3. PICK x \in S : \A y \in S : x <= y
    BY <1>2, LeastEvent
<1>4. AtCursor(x)
    BY <1>1, <1>3 DEF AtCursor
<1> QED
    BY <1>3, <1>4

\* A step of the leader does not lose its own wake-up.
LEMMA WakeInvByLeader ==
    ASSUME Types, TaskInv, LeaderInv, WakeInv, LeaderAny
    PROVE  WakeInv'
<1>0. leader \in LeaderRecords /\ control \in ControlRecords
    BY DEF Types
<1>1. CASE leader'.pc \notin {"scan", "wait"} \/ (leader'.pc = "scan" /\ leader'.progress)
    BY <1>1 DEF WakeInv, LeaderAt
<1>2. CASE Top
    <2>1. UNCHANGED <<state, tasks_remaining, control, leader_latch, worker>>
        BY <1>2 DEF Top, dagVars, sharedVars
    <2>2. \/ leader'.pc = "raise"
          \/ leader'.pc = "scan" /\ leader'.cursor = 0 /\ control.worker_error = 0
        BY <1>0, <1>2 DEF Top, LeaderRecords
    <2>3. \A e \in Events : ~(e < 0)
        BY CountsAssumption DEF Events, CountsAssumption
    <2> QED
        BY <1>1, <2>1, <2>2, <2>3 DEF WakeInv, LeaderAt
<1>3. ASSUME NEW e \in Events, ScanPass(e) PROVE WakeInv'
    <2>1. /\ UNCHANGED <<state, tasks_remaining, control, leader_latch, worker>>
          /\ leader.pc = "scan" /\ leader'.pc = "scan" /\ leader'.cursor = e + 1
          /\ leader'.progress = leader.progress /\ tasks_remaining[e] # 0
          /\ \A x \in Events : leader.cursor <= x /\ x < e => state[x] # "SCHEDULED"
        BY <1>0, <1>3, PassedRecord DEF ScanPass, AtCursor, LeaderAt, dagVars, sharedVars
    <2>2. leader.cursor \in Nat /\ Events \subseteq Nat
        BY <1>0, CountsAssumption DEF LeaderRecords, Events, CountsAssumption
    <2>3. \A x \in Events : x < e + 1 /\ state[x] = "SCHEDULED" /\ tasks_remaining[x] = 0
              => x < leader.cursor
        <3> SUFFICES ASSUME NEW x \in Events, x < e + 1, state[x] = "SCHEDULED",
                            tasks_remaining[x] = 0
                     PROVE  x < leader.cursor
            OBVIOUS
        <3>1. x \in Nat /\ e \in Nat
            BY <2>2
        <3>2. x # e
            BY <2>1
        <3>3. x < e
            BY <3>1, <3>2
        <3> QED
            BY <2>1, <2>2, <3>1, <3>3
    <2> QED
        BY <2>1, <2>3 DEF WakeInv, LeaderAt, At
<1>4. CASE ScanEnd
    <2>1. /\ UNCHANGED <<state, tasks_remaining, control, leader_latch, worker>>
          /\ leader.pc = "scan"
          /\ leader'.pc = "wait" => ~leader.progress
          /\ leader'.pc \in {"wait", "top", "shutdown"}
        BY <1>0, <1>4, LeaderMovesEffect DEF ScanEnd, dagVars, sharedVars
    <2>2. \A x \in Events : state[x] = "SCHEDULED" => x < leader.cursor
        BY <1>4, <2>1, ScanIsOver DEF ScanEnd, LeaderAt
    <2> QED
        BY <2>1, <2>2 DEF WakeInv, LeaderAt, At
<1>5. CASE ~Top /\ ~ScanEnd /\ ~\E e \in Events : ScanPass(e)
    <2>1. CASE FinishActs
        BY <1>1, <2>1, FinishActsEffect
    <2>2. CASE StartPipeline
        BY <1>1, <2>2, StartEffect
    <2>3. CASE ScheduleTasks
        BY <1>0, <1>1, <2>3 DEF ScheduleTasks, LeaderRecords
    <2>4. CASE ScheduleFinalize /\ ~FinalizeIsTrivial(PipelineOf(leader.event))
        <3>1. /\ leader'.pc = leader.resume /\ leader'.progress = leader.progress
              /\ leader.pc = "schedule" /\ leader.resume \in {"start", "scan"}
            BY <1>0, <2>4 DEF ScheduleFinalize, LeaderAt, LeaderRecords
        <3> QED
            BY <1>1, <3>1 DEF LeaderInv
    <2>5. CASE PushTask
        <3>1. /\ leader'.pc \in {leader.resume, "push"} /\ leader'.progress = leader.progress
              /\ leader.pc = "push" /\ leader.resume \in {"start", "scan"}
            BY <1>0, <2>5 DEF PushTask, LeaderAt, LeaderRecords
        <3> QED
            BY <1>1, <3>1 DEF LeaderInv
    <2>6. CASE PushTaskRefused
        BY <1>0, <1>1, <2>6 DEF PushTaskRefused, LeaderRecords
    <2>7. CASE LeaderQuietActs
        <3>1. ASSUME NEW from, NEW to, LeaderMoves(from, to) PROVE leader'.pc = to
            BY <1>0, <3>1, LeaderMovesEffect
        <3>2. CASE RaiseWorkerFailure \/ WorkersJoined \/ LastCheck \/ LeaderFails \/ LeaderDies
            BY <1>1, <3>1, <3>2 DEF RaiseWorkerFailure, WorkersJoined, LastCheck,
                                    LeaderFails, LeaderDies
        <3>3. CASE TerminateWorkers \/ EmitResult \/ SignalShutdown
            BY <1>0, <1>1, <3>3 DEF TerminateWorkers, EmitResult, SignalShutdown,
               LeaderRecords
        <3>4. CASE LeaderWakesOnLatch \/ LeaderWakesOnTimeout
            BY <1>0, <1>1, <3>4 DEF LeaderWakesOnLatch, LeaderWakesOnTimeout, LeaderWakes,
                                    LeaderRecords
        <3> QED
            BY <1>5, <2>7, <3>2, <3>3, <3>4 DEF LeaderQuietActs
    <2> QED
        BY <2>1, <2>2, <2>3, <2>4, <2>5, <2>6, <2>7, LeaderCases
<1> QED
    BY <1>2, <1>3, <1>4, <1>5

\* A step of a worker does not lose the leader's wake-up.
LEMMA WakeInvByWorker ==
    ASSUME Types, ErrorInv, WakeInv, NEW v \in Workers, WorkerInv(v), WorkerAny(v)
    PROVE  WakeInv'
<1>0. worker \in [Workers -> WorkerRecords] /\ leader_latch \in BOOLEAN
    BY DEF Types
<1>1. state' = state /\ leader' = leader
    BY WorkersKeepStates
<1> DEFINE Sleepy == LeaderAt("wait") \/ (LeaderAt("scan") /\ ~leader.progress)
<1>2. Sleepy => Live
    BY DEF LeaderAt, Live
<1>3. ASSUME NEW from, NEW to, Turn(v, from, to), Sleepy, ~leader_latch'
      PROVE  /\ ~leader_latch
             /\ \A e \in Events : state[e] = "SCHEDULED" /\ tasks_remaining'[e] = 0
                   /\ (LeaderAt("scan") => e < leader.cursor)
                   => \E w \in Workers : At(w, "notify")'
             /\ control'.worker_error = 1 =>
                   \E w \in Workers : At(w, "report")' \/ At(w, "report_own")'
    <2>1. worker[v].pc = from /\ worker'[v].pc = to
          /\ \A w \in Workers : w # v => worker'[w] = worker[w]
        BY <1>0, <1>3, HandAfterMove DEF Turn, Moves
    <2>2. ~leader_latch /\ from \notin {"notify"} \cup Reporting
        BY <1>0, <1>2, <1>3 DEF Turn, ErrorInv
    <2>3. /\ \A e \in Events : state[e] = "SCHEDULED" /\ tasks_remaining[e] = 0
                /\ (LeaderAt("scan") => e < leader.cursor)
                => \E w \in Workers : At(w, "notify")
          /\ control.worker_error = 1 =>
                \E w \in Workers : At(w, "report") \/ At(w, "report_own")
        BY <1>3, <2>2 DEF WakeInv
    <2>4. /\ (\E w \in Workers : At(w, "notify")) => \E w \in Workers : At(w, "notify")'
          /\ (\E w \in Workers : At(w, "report") \/ At(w, "report_own")) =>
                \E w \in Workers : At(w, "report")' \/ At(w, "report_own")'
        BY <2>1, <2>2 DEF At, Reporting
    <2>5. /\ to = "notify" => \E w \in Workers : At(w, "notify")'
          /\ to \in Reporting => \E w \in Workers : At(w, "report")' \/ At(w, "report_own")'
        BY <2>1 DEF At, Reporting
    <2>6. ASSUME NEW e \in Events, state[e] = "SCHEDULED", tasks_remaining'[e] = 0,
                 LeaderAt("scan") => e < leader.cursor
          PROVE  \E w \in Workers : At(w, "notify")'
        <3>1. tasks_remaining'[e] = tasks_remaining[e] \/ to = "notify"
            BY <1>3, <2>6 DEF Turn
        <3> QED
            BY <2>3, <2>4, <2>5, <2>6, <3>1
    <2>7. control'.worker_error = 1 =>
              \E w \in Workers : At(w, "report")' \/ At(w, "report_own")'
        BY <1>3, <2>3, <2>4, <2>5 DEF Turn
    <2> QED
        BY <2>2, <2>6, <2>7
<1>4. ASSUME NEW from, NEW to, Turn(v, from, to) PROVE WakeInv'
    BY <1>1, <1>3, <1>4 DEF WakeInv, LeaderAt
<1>5. CASE WorkerPops(v) \/ WorkerBegins(v) \/ TaskCompletes(v) \/ Repush(v)
    <2>1. UNCHANGED <<tasks_remaining, control, leader_latch>>
        BY <1>5 DEF WorkerPops, WorkerBegins, TaskCompletes, Repush, sharedVars
    <2>2. worker[v].pc \in {"pop", "popped", "run", "repush"}
          /\ \A w \in Workers : w # v => worker'[w] = worker[w]
        BY <1>0, <1>5 DEF WorkerPops, WorkerBegins, TaskCompletes, Repush, At
    <2>3. /\ (\E w \in Workers : At(w, "notify")) => \E w \in Workers : At(w, "notify")'
          /\ (\E w \in Workers : At(w, "report") \/ At(w, "report_own")) =>
                \E w \in Workers : At(w, "report")' \/ At(w, "report_own")'
        BY <2>2 DEF At
    <2> QED
        BY <1>1, <2>1, <2>3 DEF WakeInv, LeaderAt
<1> QED
    BY <1>4, <1>5, WorkerTurns

------------------------------------------------------------------------------
(* The inductive invariant. *)

Inv ==
    /\ Types /\ TaskInv
    /\ \A w \in Workers : WorkerInv(w) /\ HistoryInv(w)
    /\ completed \subseteq started
    /\ ErrorInv /\ LeaderInv /\ ReleasedInv /\ WakeInv

\* The invariant holds initially.
LEMMA InitInv == Init => Inv
<1> SUFFICES ASSUME Init PROVE Inv
    OBVIOUS
<1> USE DEF Init
<1>1. Types
    <2>1. \A e \in Events : Cardinality(Upstream(e)) \in Nat
        BY UpstreamFacts, FS_CardinalityType
    <2>2. 0 \in 0 .. CounterModulus - 1 /\ 0 \in Events /\ 0 \in 0 .. MaxYields
          /\ 0 \in 0 .. MaxFaults
        BY CountsAssumption DEF CountsAssumption, Events
    <2>3. queue \in Seq(Tasks) /\ Len(queue) <= Capacity
        BY CountsAssumption DEF CountsAssumption
    <2>4. leader \in LeaderRecords
        BY <2>2 DEF LeaderRecords, LeaderPoints
    <2>5. worker \in [Workers -> WorkerRecords]
        BY DEF WorkerRecords, WorkerPoints
    <2>6. control \in ControlRecords
        BY DEF ControlRecords
    <2> QED
        BY <2>1, <2>2, <2>3, <2>4, <2>5, <2>6 DEF Types
<1>2. /\ leader.pc = "start" /\ leader.resume = "start"
      /\ control.worker_error = 0 /\ control.shutdown_requested = 0
      /\ \A w \in Workers : /\ worker[w].pc = "check" /\ worker[w].sigterm = FALSE
                            /\ worker[w].ran = {} /\ worker[w].combined = {}
    OBVIOUS
<1>3. \A t \in Tasks : ~Queued(t) /\ ~Held(t) /\ ~Unpushed(t)
    <2>1. Len(queue) = 0
        OBVIOUS
    <2> QED
        BY <1>2, <2>1, TasksAreTasks DEF Queued, Held, Hand, HandPoints, Unpushed, LeaderAt
<1>4. ASSUME NEW e \in Events PROVE CounterInv(e) /\ PlaceInv(e) /\ DependencyInv(e)
    <2>1. Fresh(e) /\ state[e] = "PENDING"
        BY DEF Fresh
    <2>2. CounterInv(e)
        BY <2>1 DEF CounterInv, Counted
    <2>3. PlaceInv(e)
        BY <1>3, <2>1 DEF PlaceInv, TasksOf
    <2>4. Waited(e) = Upstream(e)
        BY UpstreamFacts DEF Waited
    <2> QED
        BY <2>1, <2>2, <2>3, <2>4 DEF DependencyInv
<1>5. QueueInv
    BY <1>3 DEF QueueInv
<1>6. \A w \in Workers : WorkerInv(w) /\ HistoryInv(w)
    BY <1>2 DEF WorkerInv, HistoryInv, HandPoints
<1>7. ErrorInv /\ LeaderInv /\ ReleasedInv /\ WakeInv
    BY <1>2 DEF ErrorInv, LeaderInv, ReleasedInv, WakeInv, LeaderAt
<1> QED
    BY <1>1, <1>4, <1>5, <1>6, <1>7 DEF Inv, TaskInv

\* Only tasks that were started complete.
LEMMA CompletedWereStarted ==
    ASSUME Inv, [Next]_vars
    PROVE  completed' \subseteq started'
<1>1. CASE UNCHANGED vars
    BY <1>1 DEF Inv, vars, historyVars
<1>2. CASE LeaderAny
    <2>1. LeaderEffect
        BY <1>2, LeaderLeavesWorkers DEF Inv
    <2> QED
        BY <2>1 DEF LeaderEffect, Inv
<1>3. ASSUME NEW v \in Workers, WorkerAny(v) PROVE completed' \subseteq started'
    <2>1. CASE \E from, to : Turn(v, from, to)
        BY <2>1 DEF Turn, Inv
    <2>2. CASE WorkerPops(v) \/ WorkerBegins(v) \/ Repush(v)
        BY <2>2 DEF WorkerPops, WorkerBegins, Repush, historyVars, Inv
    <2>3. CASE TaskCompletes(v)
        <3>1. completed' = completed \cup {worker[v].task} /\ started' = started
              /\ worker[v].pc = "run"
            BY <2>3 DEF TaskCompletes, At
        <3> QED
            BY <3>1 DEF Inv, WorkerInv
    <2> QED
        BY <1>3, <2>1, <2>2, <2>3, WorkerTurns DEF Inv
<1> QED
    BY <1>1, <1>2, <1>3 DEF Next, LeaderAny, WorkerAny

\* A stuttering step keeps the invariant.
LEMMA StutterInv ==
    ASSUME Inv, UNCHANGED vars
    PROVE  /\ \A w \in Workers : WorkerInv(w)' /\ HistoryInv(w)'
           /\ ErrorInv' /\ LeaderInv' /\ ReleasedInv' /\ WakeInv'
<1> USE DEF vars, dagVars, sharedVars, historyVars
<1>1. \A w \in Workers : WorkerInv(w)' /\ HistoryInv(w)'
    BY DEF Inv, WorkerInv, HistoryInv, Uncut, LeaderAt
<1>2. ErrorInv' /\ LeaderInv'
    BY DEF Inv, ErrorInv, LeaderInv, AllEventsFinished, Live
<1>3. ReleasedInv' /\ WakeInv'
    BY DEF Inv, ReleasedInv, WakeInv, LeaderAt, At
<1> QED
    BY <1>1, <1>2, <1>3

\* Every step keeps the invariant.
LEMMA NextInv == Inv /\ [Next]_vars => Inv'
<1> SUFFICES ASSUME Inv, [Next]_vars PROVE Inv'
    OBVIOUS
<1>1. Types'
    BY TypesStep DEF Inv
<1>2. TaskInv'
    BY TaskInvStep DEF Inv
<1>3. completed' \subseteq started'
    BY CompletedWereStarted
<1>4. CASE UNCHANGED vars
    BY <1>1, <1>2, <1>3, <1>4, StutterInv DEF Inv, Workers
<1>5. CASE LeaderAny
    <2>1. LeaderEffect
        BY <1>5, LeaderLeavesWorkers DEF Inv
    <2>2. \A w \in Workers : WorkerInv(w)' /\ HistoryInv(w)'
        BY <2>1, WorkerInvByLeader, HistoryInvByLeader DEF Inv
    <2>3. LeaderInv' /\ ReleasedInv' /\ ErrorInv' /\ WakeInv'
        BY <1>5, LeaderInvByLeader, ReleasedInvByLeader, ErrorInvByLeader, WakeInvByLeader
        DEF Inv
    <2> QED
        BY <1>1, <1>2, <1>3, <2>2, <2>3 DEF Inv, Workers
<1>6. ASSUME NEW v \in Workers, WorkerAny(v) PROVE Inv'
    <2>1. \A w \in Workers : WorkerInv(w)' /\ HistoryInv(w)'
        BY <1>6, WorkerInvByWorker, HistoryInvByWorker DEF Inv
    <2>2. UNCHANGED <<state, released, leader>>
        BY <1>6, WorkersKeepStates
    <2>3. LeaderInv' /\ ReleasedInv'
        BY <2>2 DEF Inv, LeaderInv, ReleasedInv, AllEventsFinished
    <2>4. ErrorInv' /\ WakeInv'
        BY <1>6, ErrorInvByWorker, WakeInvByWorker DEF Inv
    <2> QED
        BY <1>1, <1>2, <1>3, <2>1, <2>3, <2>4 DEF Inv, Workers
<1> QED
    BY <1>4, <1>5, <1>6 DEF Next, LeaderAny, WorkerAny

\* The inductive invariant of the leader, the workers and the shared task queue.
THEOREM Invariance == Spec => []Inv
<1> QED
    BY InitInv, NextInv, PTL DEF Spec

------------------------------------------------------------------------------
(* What the runtime promises. *)

\* For any plan, number of workers and number of faults every variable keeps its
\* type and the shared task queue never exceeds its capacity.
THEOREM TypeCorrect == Spec => []TypeOK
<1>1. Inv => TypeOK
    BY TypesNamed DEF Inv
<1> QED
    BY <1>1, Invariance, PTL

\* An event none of whose tasks is queued or held has no task in hand and none in
\* the queue.
LEMMA NoneInHand ==
    ASSUME Inv, NEW e \in Events, \A t \in TasksOf(e) : ~Queued(t) /\ ~Held(t)
    PROVE  InHand(e) = {} /\ InQueue(e) = {}
<1>1. ASSUME NEW w \in InHand(e) PROVE FALSE
    <2>1. w \in Workers /\ worker[w].pc \in HandPoints /\ worker[w].task[1] = e
        BY DEF InHand, HandPoints
    <2>2. worker[w].task \in TasksOf(e) /\ Hand(w) = worker[w].task
        BY <2>1 DEF Inv, WorkerInv, TasksOf, Hand
    <2> QED
        BY <2>1, <2>2 DEF Held
<1>2. InQueue(e) = {}
    BY DEF InQueue, TasksOf, Queued, Inv, Types
<1> QED
    BY <1>1, <1>2

\* As long as nothing has gone wrong, the counter of a scheduled event
\* (tasks_remaining in the shared event descriptor) is the number of its tasks in
\* the queue, in the workers' hands and not yet pushed: the decrement in the worker
\* loop and the store in ScheduleEvent never disagree.
THEOREM CountersCover == Spec => []CounterCoversTasks
<1>1. ASSUME Inv, NEW e \in Events, state[e] = "FINISHED"
      PROVE  InHand(e) = {} /\ InQueue(e) = {}
    BY <1>1, NoneInHand DEF Inv, TaskInv, PlaceInv
<1>2. ASSUME Inv, NEW e \in Events, Sound, state[e] = "SCHEDULED", ~IsFinalize(e),
             ~(LeaderAt("schedule") /\ leader.event = e)
      PROVE  tasks_remaining[e] = Outstanding(e)
    BY <1>2 DEF Inv, TaskInv, CounterInv, Counted, Live, Sound, Fresh
<1>3. Inv => CounterCoversTasks
    BY <1>1, <1>2 DEF CounterCoversTasks, Outstanding, Rest
<1> QED
    BY <1>3, Invariance, PTL

\* A COMBINE task runs in the worker that ran the RUN task of the same index, and
\* finds the local state that task left there; without partitions it has not
\* combined it before (PipelineCombineTask::Execute).
THEOREM CombinesFindState == Spec => []CombineFindsState
<1>1. ASSUME Inv, NEW w \in Workers, At(w, "run"), IsCombine(worker[w].task[1])
      PROVE  LET p == PipelineOf(worker[w].task[1])
             IN  /\ p \in worker[w].ran
                 /\ Sink[p] # "HASH_AGGREGATE" => p \notin worker[w].combined
    <2>0. PICK t, e, p : t = worker[w].task /\ e = t[1] /\ p = PipelineOf(e)
        OBVIOUS
    <2>1. /\ t \in Tasks /\ WorkerIndex(t[1], t[2]) = w /\ Hand(w) = t /\ t \notin completed
        BY <1>1, <2>0 DEF At, Inv, WorkerInv, HandPoints, Hand
    <2>2. /\ e \in Events /\ p \in Pipelines /\ e = Combine(p) /\ ~IsFinalize(e) /\ ~IsRun(e)
          /\ t = <<Combine(p), t[2]>>
        BY <1>1, <2>0, <2>1, TaskPairs, EventKinds
    <2>3. w < RunTasks[p]
        BY <2>0, <2>1, <2>2, WorkerIndexFacts
    <2>9. PlaceInv(e) /\ PlaceInv(Run(p)) /\ DependencyInv(e) /\ HistoryInv(w)
        BY <1>1, <2>2, PipelineEvents DEF Inv, TaskInv
    <2>4. ~Fresh(e)
        BY <2>0, <2>1, <2>9 DEF PlaceInv, TasksOf, Held
    <2>5. state[Run(p)] = "FINISHED"
        <3>1. Waited(e) = {}
            BY <2>4, <2>9 DEF DependencyInv, Fresh
        <3>2. Run(p) \in Upstream(e)
            BY <2>2, CountsAssumption DEF Upstream, Combine, Run, Pipelines,
               CountsAssumption
        <3> QED
            BY <3>1, <3>2 DEF Waited
    <2>6. <<Run(p), w>> \in started
        <3>1. Run(p) \in Events /\ IsRun(Run(p)) /\ PipelineOf(Run(p)) = p
            BY <2>2, PipelineEvents
        <3>2. w \in Nat /\ w < TaskCount(Run(p))
            BY <2>3, <3>1, TaskCounts DEF Workers
        <3>3. <<Run(p), w>> \in TasksOf(Run(p))
            BY <3>1, <3>2, TaskPairs DEF TasksOf
        <3> QED
            BY <2>5, <2>9, <3>3 DEF PlaceInv
    <2>7. p \in worker[w].ran
        BY <2>2, <2>3, <2>6, <2>9 DEF HistoryInv
    <2>8. Sink[p] # "HASH_AGGREGATE" => p \notin worker[w].combined
        <3> SUFFICES ASSUME Sink[p] # "HASH_AGGREGATE", p \in worker[w].combined
                     PROVE  FALSE
            OBVIOUS
        <3>1. t[2] = w
            BY <2>0, <2>1 DEF WorkerIndex
        <3>2. <<Combine(p), w>> \in completed
            BY <2>2, <2>9 DEF HistoryInv
        <3> QED
            BY <2>1, <2>2, <3>1, <3>2
    <2> QED
        BY <2>0, <2>7, <2>8
<1>2. Inv => CombineFindsState
    BY <1>1 DEF CombineFindsState
<1> QED
    BY <1>2, Invariance, PTL

\* A build side is released (ReleaseBuildPayloadAfterConsumerRun) only when no
\* worker runs a task of the pipeline that probes it.
THEOREM BuildsOutlive == Spec => []BuildOutlivesProbes
<1>1. ASSUME Inv, NEW p \in Pipelines, NEW d \in BuildsProbedBy(p) \cap released
      PROVE  /\ state[Run(p)] # "PENDING"
             /\ \A w \in Workers : ~(At(w, "run") /\ worker[w].task[1] = Run(p))
    <2>1. PICK q \in Pipelines : d \in BuildsProbedBy(q) /\ state[Run(q)] = "FINISHED"
        BY <1>1 DEF Inv, ReleasedInv
    <2>2. d \in DependsOn[p] /\ d \in DependsOn[q]
        BY <1>1, <2>1 DEF BuildsProbedBy
    <2>3. p = q
        BY <2>2, PlanAssumption DEF PlanAssumption
    <2>4. Run(p) \in Events
        BY PipelineEvents
    <2>5. InHand(Run(p)) = {}
        BY <1>1, <2>1, <2>3, <2>4, NoneInHand DEF Inv, TaskInv, PlaceInv
    <2> QED
        BY <2>1, <2>3, <2>5 DEF InHand, At
<1>2. Inv => BuildOutlivesProbes
    BY <1>1 DEF BuildOutlivesProbes
<1> QED
    BY <1>2, Invariance, PTL

\* The leader never goes to sleep on its latch while an event waits to be finished
\* or an error to be raised, unless a worker is about to set the latch.
THEOREM LeaderWakeupKept == Spec => []NoLostLeaderWakeup
<1>1. Inv => NoLostLeaderWakeup
    BY DEF Inv, WakeInv, NoLostLeaderWakeup, LeaderAt
<1> QED
    BY <1>1, Invariance, PTL

------------------------------------------------------------------------------
(* The pipeline runtime implements the query that AbstractQuery promises.    *)
(* What it takes beyond Inv is that an error, once met, leaves a task that   *)
(* is never completed, so the leader cannot find every event finished.       *)

\* An error or a shutdown is about.
Trouble ==
    \/ control.worker_error # 0 \/ control.shutdown_requested # 0
    \/ \E w \in Workers : worker[w].pc \in {"catch", "exit"}

\* An error that no leader has met yet has left a task that is never completed.
LostInv == Live /\ Trouble => completed = Tasks \/ \E t \in Tasks : Lost(t)

\* The leader ends its loop without an error only when every task is completed.
EndInv == leader.pc \in {"shutdown", "join", "emit"} => completed = Tasks

\* Rows are emitted when the workers are gone.
EmitInv ==
    /\ emitted => leader.pc \in {"emitted", "raise", "catch", "grace", "reap", "failed",
                                 "dead", "done"}
    /\ leader.pc \in {"emitted", "done"} => emitted
    /\ emitted \/ leader.pc \in {"emit", "emitted", "done", "failed"} =>
          \A w \in Workers : At(w, "exited")

QueryInv == Inv /\ LostInv /\ EndInv /\ EmitInv

\* A step keeps the tasks that are lost and those that are completed.
LEMMA StepKeeps ==
    ASSUME Inv, [Next]_vars
    PROVE  LostKept /\ Inv' /\ (completed = Tasks => completed' = Tasks)
<1>1. LostKept
    BY TaskInvStep DEF Inv
<1>2. Inv'
    BY NextInv
<1>3. completed \subseteq completed'
    <2>1. CASE UNCHANGED vars
        BY <2>1 DEF vars, historyVars
    <2>2. CASE LeaderAny
        BY <2>2, LeaderLeavesWorkers DEF Inv, LeaderEffect
    <2>3. ASSUME NEW v \in Workers, WorkerAny(v) PROVE completed \subseteq completed'
        BY <2>3, WorkerTurns
        DEF Inv, Turn, WorkerPops, WorkerBegins, TaskCompletes, Repush, historyVars
    <2> QED
        BY <2>1, <2>2, <2>3 DEF Next, LeaderAny, WorkerAny
<1> QED
    BY <1>1, <1>2, <1>3 DEF Inv, Types

\* A task that fails, or that cannot be pushed back, is lost.
LEMMA FailureLoses ==
    ASSUME Inv, Live, NEW v \in Workers, TaskFails(v) \/ RepushRefused(v), Uncut
    PROVE  \E t \in Tasks : Lost(t)'
<1>1. PICK from \in {"run", "repush"} : WorkerMoves(v, from, "catch") /\ At(v, from)
    BY DEF TaskFails, RepushRefused, WorkerMoves
<1>2. Moves(v, from, "catch")
    BY <1>1, MoveEffect DEF WorkerMoves, WorkerPoints, Inv, Types
<1>3. /\ UNCHANGED <<state, pending_dependencies, tasks_remaining, queue, leader, control,
                     started, completed>>
    BY <1>1 DEF WorkerMoves, dagVars, sharedVars, historyVars
<1>12. PICK t \in Tasks : t = worker[v].task
    BY <1>1 DEF Inv, WorkerInv, HandPoints, At
<1>4. /\ t \in Tasks /\ WorkerIndex(t[1], t[2]) = v /\ t \in started /\ t \notin completed
      /\ Hand(v) = t
    BY <1>1, <1>12 DEF Inv, WorkerInv, HandPoints, At, Hand
<1>5. Held(t) /\ ~Queued(t) /\ ~Unpushed(t)
    BY <1>4 DEF Held, Inv, TaskInv, QueueInv
<1>6. \A w \in Workers : Hand(w) = t => w = v
    BY <1>4, TasksAreTasks DEF Inv, WorkerInv, Hand
<1>7. Hand(v)' = NoTask /\ \A w \in Workers : w # v => Hand(w)' = Hand(w)
    BY <1>2, HandAfterMove DEF Inv, Types, HandPoints, WorkerPoints, Moves, Hand
<1>8. ~Held(t)'
    BY <1>4, <1>6, <1>7, TasksAreTasks DEF Held
<1>9. t[1] \in Events /\ t \in TasksOf(t[1])
    BY <1>4, TasksAreTasks DEF TasksOf
<1>10. state[t[1]] = "SCHEDULED" /\ ~Fresh(t[1])
    <2>1. PlaceInv(t[1])
        BY <1>9 DEF Inv, TaskInv
    <2> QED
        BY <1>5, <1>9, <2>1 DEF PlaceInv, Fresh, Inv, Types
<1>11. Lost(t)'
    BY <1>3, <1>4, <1>5, <1>8, <1>10 DEF Lost, Unpushed, Queued, Fresh, Uncut, LeaderAt
<1> QED
    BY <1>4, <1>11

\* No trouble comes from a worker but by a failure.
LEMMA TroubleByWorker ==
    ASSUME Inv, Live, ~Trouble, NEW v \in Workers, WorkerAny(v), Trouble'
    PROVE  TaskFails(v) \/ RepushRefused(v)
<1> SUFFICES ASSUME ~TaskFails(v), ~RepushRefused(v) PROVE FALSE
    OBVIOUS
<1>0. /\ worker \in [Workers -> WorkerRecords] /\ control \in ControlRecords
      /\ control.worker_error = 0 /\ control.shutdown_requested = 0 /\ ~LeaderAt("dead")
      /\ \A w \in Workers : worker[w].pc \notin {"catch", "exit", "report", "report_own"}
      /\ ~worker[v].sigterm
    BY DEF Inv, Types, Trouble, Live, LeaderAt, ErrorInv
<1>1. control' = control
    BY <1>0 DEF WorkerAny, WorkerActs, WorkerChecks, WorkerPops, WorkerFindsNothing,
       WorkerWakesOnLatch, WorkerWakesOnTimeout, WorkerWakes, WorkerDrops, WorkerBegins,
       TaskCompletes, TaskCutShort, TaskYields, Repush, CountDown, NotifyLeader, CatchError,
       ReportError, WorkerExits, ExitFails, WorkerDies, WorkerMoves, sharedVars, At
<1>2. PICK to : \/ worker' = [worker EXCEPT ![v].pc = to] /\ to \notin {"catch", "exit"}
                \/ \A w \in Workers : worker'[w].pc \notin {"catch", "exit"}
    <2>1. CASE WorkerPops(v) \/ WorkerBegins(v) \/ TaskCompletes(v) \/ Repush(v)
        <3>1. worker[v] \in WorkerRecords
            BY <1>0
        <3>2. \A w \in Workers : w # v => worker'[w] = worker[w]
            BY <1>0, <2>1 DEF WorkerPops, WorkerBegins, TaskCompletes, Repush
        <3>3. worker'[v].pc \in {"popped", "run", "count", "check"}
            <4>1. WorkerPops(v) => worker'[v].pc = "popped"
                BY <1>0, <3>1 DEF WorkerPops, WorkerRecords
            <4>2. WorkerBegins(v) => worker'[v].pc = "run"
                BY <1>0, <3>1 DEF WorkerBegins, WorkerRecords
            <4>3. TaskCompletes(v) => worker'[v].pc = "count"
                BY <1>0, <3>1 DEF TaskCompletes, WorkerRecords
            <4>4. Repush(v) => worker'[v].pc = "check"
                BY <1>0, <3>1 DEF Repush, WorkerRecords
            <4> QED
                BY <2>1, <4>1, <4>2, <4>3, <4>4
        <3> QED
            BY <1>0, <3>2, <3>3
    <2>2. CASE ~(WorkerPops(v) \/ WorkerBegins(v) \/ TaskCompletes(v) \/ Repush(v))
        BY <1>0, <2>2
        DEF WorkerAny, WorkerActs, WorkerChecks, WorkerFindsNothing, WorkerWakesOnLatch,
            WorkerWakesOnTimeout, WorkerWakes, WorkerDrops, TaskCutShort, TaskYields,
            CountDown, NotifyLeader, CatchError, ReportError, WorkerExits, ExitFails,
            WorkerDies, WorkerMoves, MoveTo, At, WorkerShutdownRequested
    <2> QED
        BY <2>1, <2>2
<1>3. \A w \in Workers : worker'[w].pc \notin {"catch", "exit"}
    BY <1>0, <1>2 DEF WorkerRecords
<1> QED
    BY <1>0, <1>1, <1>3 DEF Trouble

\* Every step keeps an error accounted for: by a task that is lost, or by all being
\* complete.
LEMMA LostInvStep ==
    ASSUME QueryInv, [Next]_vars
    PROVE  LostInv'
<1>1. LostKept /\ Inv' /\ (completed = Tasks => completed' = Tasks)
    BY StepKeeps DEF QueryInv
<1> SUFFICES ASSUME Live', Trouble'
             PROVE  completed' = Tasks \/ \E t \in Tasks : Lost(t)'
    BY DEF LostInv
<1>2. CASE Live /\ Trouble
    BY <1>1, <1>2 DEF QueryInv, LostInv, LostKept
<1>3. CASE UNCHANGED vars
    <2>1. Live /\ Trouble
        BY <1>3 DEF vars, sharedVars, Live, Trouble
    <2> QED
        BY <1>2, <2>1
<1>4. CASE LeaderAny /\ ~(Live /\ Trouble)
    <2>1. LeaderEffect
        BY <1>4, LeaderLeavesWorkers DEF QueryInv, Inv
    <2>2. leader.pc = "shutdown" \/ leader'.pc = "grace"
        BY <1>4, <2>1 DEF LeaderEffect, Trouble
    <2> QED
        BY <1>1, <2>2 DEF QueryInv, EndInv, Live
<1>5. ASSUME NEW v \in Workers, WorkerAny(v), ~(Live /\ Trouble)
      PROVE  completed' = Tasks \/ \E t \in Tasks : Lost(t)'
    <2>1. Live /\ ~Trouble
        BY <1>5, WorkersKeepStates DEF Live
    <2>2. Uncut
        BY <2>1 DEF Uncut, Trouble, Live, LeaderAt
    <2> QED
        BY <1>5, <2>1, <2>2, TroubleByWorker, FailureLoses DEF QueryInv
<1> QED
    BY <1>2, <1>3, <1>4, <1>5 DEF Next, LeaderAny, WorkerAny

\* When every event is finished, every task is completed, or something is amiss.
LEMMA AllCompleted ==
    ASSUME QueryInv, Live, AllEventsFinished
    PROVE  completed = Tasks
<1>1. CASE Uncut
    <2>1. \A t \in Tasks : t \in completed
        BY <1>1, TasksAreTasks DEF QueryInv, Inv, TaskInv, PlaceInv, TasksOf, AllEventsFinished
    <2> QED
        BY <2>1 DEF QueryInv, Inv, Types
<1>2. CASE ~Uncut
    <2>1. Trouble
        BY <1>2 DEF Uncut, Trouble, Live, LeaderAt
    <2>2. \A t \in Tasks : ~Lost(t)
        BY TasksAreTasks DEF Lost, AllEventsFinished
    <2> QED
        BY <2>1, <2>2 DEF QueryInv, LostInv
<1> QED
    BY <1>1, <1>2

LoopPoints == {"start", "schedule", "push", "top", "scan", "wait"}

\* The steps at which the leader enters or leaves the end of the query.
EndActs ==
    \/ ScanEnd \/ RaiseWorkerFailure \/ SignalShutdown \/ TerminateWorkers \/ WorkersJoined
    \/ EmitResult \/ LastCheck \/ LeaderFails \/ LeaderDies

\* The other steps of the leader stay in its loop, or leave it with an error.
LEMMA LeaderLoops ==
    ASSUME Inv, LeaderAny, ~EndActs
    PROVE  leader.pc \in LoopPoints /\ leader'.pc \in LoopPoints \cup {"raise", "catch"}
           /\ emitted' = emitted
<1>0. leader \in LeaderRecords
    BY DEF Inv, Types
<1>1. CASE StartPipeline
    BY <1>1, StartEffect DEF Inv, StartPipeline, LoopPoints, historyVars
<1>2. CASE FinishActs
    <2>1. emitted' = emitted
        BY <1>2 DEF FinishActs, ScheduleTrivialCombine, ScheduleFinalize, ScanFinalize,
                    ScanFinish, historyVars
    <2>2. leader.pc \in {"schedule", "scan"}
        BY <1>2, FinishActsFinish DEF Finishing, Inv
    <2> QED
        BY <1>2, <2>1, <2>2, FinishActsEffect DEF Inv, LoopPoints
<1>3. CASE ScheduleTasks \/ PushTask \/ PushTaskRefused
    BY <1>0, <1>3 DEF ScheduleTasks, PushTask, PushTaskRefused, LeaderAt, LeaderRecords,
                      LoopPoints, historyVars
<1>4. CASE ScheduleFinalize /\ ~FinalizeIsTrivial(PipelineOf(leader.event))
    BY <1>0, <1>4 DEF ScheduleFinalize, LeaderAt, LeaderRecords, LoopPoints
<1>5. CASE Top \/ LeaderWakesOnLatch \/ LeaderWakesOnTimeout
    BY <1>0, <1>5 DEF Top, LeaderWakesOnLatch, LeaderWakesOnTimeout, LeaderWakes, LeaderAt,
                      LeaderRecords, LoopPoints, historyVars
<1>6. CASE \E e \in Events : ScanPass(e)
    BY <1>0, <1>6, PassedRecord DEF ScanPass, AtCursor, LeaderAt, LoopPoints, historyVars
<1> QED
    BY <1>1, <1>2, <1>3, <1>4, <1>5, <1>6, LeaderCases DEF EndActs, LeaderQuietActs

\* The leader reaches the end of the query only with every task completed.
LEMMA EndInvStep ==
    ASSUME QueryInv, [Next]_vars
    PROVE  EndInv'
<1>1. completed = Tasks => completed' = Tasks
    BY StepKeeps DEF QueryInv
<1>2. CASE leader' = leader
    BY <1>1, <1>2 DEF QueryInv, EndInv
<1>3. CASE LeaderAny
    <2>0. leader \in LeaderRecords
        BY DEF QueryInv, Inv, Types
    <2>1. CASE ScanEnd
        <3>1. /\ leader.pc = "scan" /\ completed' = completed
              /\ leader'.pc = "shutdown" => AllEventsFinished
              /\ leader'.pc \notin {"join", "emit"}
            BY <2>0, <2>1, LeaderMovesEffect DEF ScanEnd, historyVars
        <3>2. Live
            BY <3>1 DEF Live
        <3> QED
            BY <3>1, <3>2, AllCompleted DEF EndInv
    <2>2. CASE SignalShutdown \/ WorkersJoined
        <3>1. leader'.pc \in {"shutdown", "join", "emit"} =>
                  leader.pc \in {"shutdown", "join", "emit"}
            BY <2>0, <2>2 DEF SignalShutdown, WorkersJoined, LeaderMoves, LeaderAt, LeaderRecords
        <3> QED
            BY <1>1, <3>1 DEF QueryInv, EndInv
    <2>3. CASE ~ScanEnd /\ ~SignalShutdown /\ ~WorkersJoined
        <3>1. CASE RaiseWorkerFailure \/ TerminateWorkers \/ EmitResult \/ LastCheck
                   \/ LeaderFails \/ LeaderDies
            <4>1. ASSUME NEW from, NEW to, LeaderMoves(from, to) PROVE leader'.pc = to
                BY <2>0, <4>1, LeaderMovesEffect
            <4> QED
                BY <2>0, <3>1, <4>1
                DEF RaiseWorkerFailure, TerminateWorkers, EmitResult, LastCheck, LeaderFails,
                    LeaderDies, LeaderRecords, EndInv
        <3>2. CASE ~EndActs
            BY <1>3, <3>2, LeaderLoops DEF QueryInv, LoopPoints, EndInv
        <3> QED
            BY <2>3, <3>1, <3>2 DEF EndActs
    <2> QED
        BY <2>1, <2>2, <2>3
<1>4. ASSUME NEW v \in Workers, WorkerAny(v) PROVE EndInv'
    BY <1>2, <1>4, WorkersKeepStates
<1> QED
    BY <1>2, <1>3, <1>4 DEF Next, LeaderAny, WorkerAny, vars

\* A worker that has exited stays so.
LEMMA ExitedStay ==
    ASSUME Inv, [Next]_vars, NEW w \in Workers, At(w, "exited")
    PROVE  At(w, "exited")'
<1>1. CASE UNCHANGED vars
    BY <1>1 DEF vars, At
<1>2. CASE LeaderAny
    BY <1>2, LeaderLeavesWorkers DEF Inv, LeaderEffect, At
<1>3. ASSUME NEW v \in Workers, WorkerAny(v) PROVE At(w, "exited")'
    <2>0. worker \in [Workers -> WorkerRecords]
        BY DEF Inv, Types
    <2>1. worker[v].pc # "exited" /\ \A x \in Workers : x # v => worker'[x] = worker[x]
        BY <1>3, <2>0
        DEF WorkerAny, WorkerActs, WorkerChecks, WorkerPops, WorkerFindsNothing,
            WorkerWakesOnLatch, WorkerWakesOnTimeout, WorkerWakes, WorkerDrops, WorkerBegins,
            TaskCompletes, TaskCutShort, TaskYields, TaskFails, Repush, RepushRefused,
            CountDown, NotifyLeader, CatchError, ReportError, WorkerExits, ExitFails,
            WorkerDies, WorkerMoves, MoveTo, At
    <2> QED
        BY <2>1 DEF At
<1> QED
    BY <1>1, <1>2, <1>3 DEF Next, LeaderAny, WorkerAny

\* Where the leader's steps at the end of the query lead.
LEMMA LeaderEnds ==
    ASSUME Inv, EndActs
    PROVE  \/ ScanEnd /\ leader.pc = "scan" /\ leader'.pc \in {"top", "shutdown", "wait"}
           \/ RaiseWorkerFailure /\ leader.pc = "raise" /\ leader'.pc = "catch"
           \/ SignalShutdown /\ leader.pc = "shutdown" /\ leader'.pc = "join"
           \/ SignalShutdown /\ leader.pc = "catch" /\ leader'.pc = "grace"
           \/ TerminateWorkers /\ leader.pc = "grace" /\ leader'.pc = "reap"
           \/ WorkersJoined /\ leader.pc = "join" /\ leader'.pc = "emit"
           \/ WorkersJoined /\ leader.pc = "reap" /\ leader'.pc = "failed"
           \/ EmitResult /\ leader.pc = "emit" /\ leader'.pc = "emitted"
           \/ LastCheck /\ leader.pc = "emitted" /\ control.worker_error # 0
              /\ leader'.pc = "raise"
           \/ LastCheck /\ leader.pc = "emitted" /\ control.worker_error = 0
              /\ leader'.pc = "done"
           \/ LeaderFails /\ leader'.pc = "catch"
              /\ leader.pc \in {"top", "schedule", "scan", "join", "emit", "emitted"}
           \/ LeaderDies /\ leader'.pc = "dead" /\ leader.pc \notin {"done", "failed", "dead"}
<1>0. leader \in LeaderRecords
    BY DEF Inv, Types
<1>1. ASSUME NEW from, NEW to, LeaderMoves(from, to) PROVE leader.pc = from /\ leader'.pc = to
    BY <1>0, <1>1, LeaderMovesEffect
<1>2. CASE ScanEnd \/ RaiseWorkerFailure \/ WorkersJoined \/ LastCheck
    BY <1>1, <1>2 DEF ScanEnd, RaiseWorkerFailure, WorkersJoined, LastCheck
<1>3. CASE LeaderFails \/ LeaderDies
    BY <1>1, <1>3 DEF LeaderFails, LeaderDies
<1>4. CASE SignalShutdown \/ TerminateWorkers \/ EmitResult
    BY <1>0, <1>4 DEF SignalShutdown, TerminateWorkers, EmitResult, LeaderAt, LeaderRecords
<1> QED
    BY <1>2, <1>3, <1>4 DEF EndActs

\* What the leader does to the mark that rows were emitted.
LEMMA EmittedAfter ==
    ASSUME Inv, LeaderAny
    PROVE  emitted' = IF EmitResult THEN TRUE ELSE emitted
<1>1. CASE EndActs
    BY <1>1 DEF EndActs, ScanEnd, RaiseWorkerFailure, SignalShutdown, TerminateWorkers,
       WorkersJoined, EmitResult, LastCheck, LeaderFails, LeaderDies, LeaderMoves, historyVars
<1>2. CASE ~EndActs
    BY <1>2, LeaderLoops DEF EndActs
<1> QED
    BY <1>1, <1>2

\* Rows are emitted once, when the workers are gone.
LEMMA EmitInvStep ==
    ASSUME Inv, EmitInv, [Next]_vars
    PROVE  EmitInv'
<1>1. (\A w \in Workers : At(w, "exited")) => \A w \in Workers : At(w, "exited")'
    BY ExitedStay
<1>2. CASE leader' = leader /\ emitted' = emitted
    BY <1>1, <1>2 DEF EmitInv
<1>3. CASE LeaderAny /\ EndActs
    <2>1. emitted' = IF EmitResult THEN TRUE ELSE emitted
        BY <1>3, EmittedAfter
    <2>2. WorkersJoined => \A w \in Workers : At(w, "exited")
        BY DEF WorkersJoined
    <2>3. EmitResult => leader.pc = "emit"
        BY DEF EmitResult, LeaderAt
    <2> QED
        BY <1>1, <1>3, <2>1, <2>2, <2>3, LeaderEnds DEF EmitInv
<1>4. CASE LeaderAny /\ ~EndActs
    BY <1>4, LeaderLoops DEF EmitInv, LoopPoints
<1>5. ASSUME NEW v \in Workers, WorkerAny(v) PROVE emitted' = emitted /\ leader' = leader
    BY <1>5, WorkersKeepStates
    DEF WorkerAny, WorkerActs, WorkerChecks, WorkerPops, WorkerFindsNothing,
        WorkerWakesOnLatch, WorkerWakesOnTimeout, WorkerWakes, WorkerDrops, WorkerBegins,
        TaskCompletes, TaskCutShort, TaskYields, TaskFails, Repush, RepushRefused,
        CountDown, NotifyLeader, CatchError, ReportError, WorkerExits, ExitFails,
        WorkerDies, WorkerMoves, historyVars
<1> QED
    BY <1>2, <1>3, <1>4, <1>5 DEF Next, LeaderAny, WorkerAny, vars, historyVars

\* The invariant of the refinement holds initially.
LEMMA InitQueryInv == Init => QueryInv
<1> SUFFICES ASSUME Init PROVE QueryInv
    OBVIOUS
<1>1. Inv
    BY InitInv
<1>2. leader.pc = "start" /\ ~emitted /\ ~Trouble
    BY DEF Init, Trouble
<1> QED
    BY <1>1, <1>2 DEF QueryInv, LostInv, EndInv, EmitInv

\* Every step keeps the invariant of the refinement.
LEMMA NextQueryInv == QueryInv /\ [Next]_vars => QueryInv'
BY NextInv, LostInvStep, EndInvStep, EmitInvStep DEF QueryInv

------------------------------------------------------------------------------
(* Every step of the runtime is one of the query or none. *)

\* What a task of an event that is no longer pending reads from is complete, unless the
\* tasks were told to stop.
LEMMA TasksAreReady ==
    ASSUME Inv, Uncut, NEW t \in Tasks, state[t[1]] # "PENDING"
    PROVE  Query!Ready(t)
<1> SUFFICES ASSUME NEW s \in Tasks, <<s, t>> \in TaskOrder PROVE s \in completed
    BY DEF Query!Ready
<1>1. \A u \in Events : state[u] # "PENDING" => \A x \in Upstream(u) : state[x] = "FINISHED"
    BY DEF Inv, TaskInv, DependencyInv, Waited
<1>2. \A u \in Events : \A x \in Upstream(u) : x \in Events
    BY UpstreamFacts
<1>3. s[1] \in Upstream(t[1]) \/ \E x \in Upstream(t[1]) : s[1] \in Upstream(x)
    BY DEF TaskOrder
<1>4. t[1] \in Events /\ s[1] \in Events
    BY TasksAreTasks
<1>5. state[s[1]] = "FINISHED"
    BY <1>1, <1>2, <1>3, <1>4
<1> QED
    BY <1>4, <1>5 DEF Inv, TaskInv, PlaceInv, TasksOf

\* The query is running as long as a worker is.
LEMMA RunningQuery ==
    ASSUME EmitInv, NEW v \in Workers, ~At(v, "exited")
    PROVE  Outcome = "running"
BY DEF EmitInv, Outcome

\* A worker begins a task, completes one, meets an error, or does nothing the query
\* sees.
LEMMA WorkerSimulates ==
    ASSUME QueryInv, NEW v \in Workers, WorkerAny(v)
    PROVE  [Query!Next]_(Query!vars)
<1>0. worker \in [Workers -> WorkerRecords] /\ control \in ControlRecords
    BY DEF QueryInv, Inv, Types
<1>1. leader' = leader
    BY WorkersKeepStates
<1>2. CASE WorkerBegins(v)
    <2>1. PICK t \in Tasks : t = worker[v].task
        BY <1>2 DEF WorkerBegins, At, QueryInv, Inv, WorkerInv, HandPoints
    <2>2. /\ started' = started \cup {t} /\ At(v, "popped") /\ ~WorkerShutdownRequested
          /\ UNCHANGED <<completed, emitted, control>>
        BY <1>2, <2>1 DEF WorkerBegins, sharedVars
    <2>3. Uncut /\ Held(t)
        BY <2>1, <2>2 DEF WorkerShutdownRequested, Uncut, Held, Hand, HandPoints, At
    <2>4. state[t[1]] # "PENDING"
        BY <2>3, TasksAreTasks DEF QueryInv, Inv, TaskInv, PlaceInv, TasksOf, Fresh
    <2>5. Query!Ready(t)
        BY <2>3, <2>4, TasksAreReady DEF QueryInv
    <2>6. Outcome = "running"
        BY <2>2, RunningQuery DEF QueryInv, At
    <2>7. Outcome' = Outcome /\ Doomed' = Doomed
        BY <1>1, <2>2 DEF Outcome, Doomed
    <2>8. Query!Start(t)
        BY <2>2, <2>5, <2>6, <2>7 DEF Query!Start
    <2> QED
        BY <2>8 DEF Query!Next
<1>3. CASE TaskCompletes(v)
    <2>1. PICK t \in Tasks : t = worker[v].task
        BY <1>3 DEF TaskCompletes, At, QueryInv, Inv, WorkerInv, HandPoints
    <2>2. /\ completed' = completed \cup {t} /\ At(v, "run")
          /\ UNCHANGED <<started, emitted, control>>
        BY <1>3, <2>1 DEF TaskCompletes, sharedVars
    <2>3. t \in started \ completed
        BY <2>1, <2>2 DEF QueryInv, Inv, WorkerInv, At
    <2>4. Outcome = "running"
        BY <2>2, RunningQuery DEF QueryInv, At
    <2>5. Outcome' = Outcome /\ Doomed' = Doomed
        BY <1>1, <2>2 DEF Outcome, Doomed
    <2>6. Query!Complete(t)
        BY <2>2, <2>3, <2>4, <2>5 DEF Query!Complete
    <2> QED
        BY <2>6 DEF Query!Next
<1>4. CASE CatchError(v)
    <2>1. /\ control'.worker_error = 1 /\ At(v, "catch")
          /\ UNCHANGED <<started, completed, emitted>>
        BY <1>0, <1>4 DEF CatchError, ControlRecords, historyVars
    <2>2. Outcome = "running"
        BY <2>1, RunningQuery DEF QueryInv, At
    <2>3. Outcome' = Outcome /\ Doomed' = TRUE
        BY <1>1, <2>1 DEF Outcome, Doomed
    <2>4. Query!Doom
        BY <2>1, <2>2, <2>3 DEF Query!Doom
    <2> QED
        BY <2>4 DEF Query!Next
<1>5. CASE ~WorkerBegins(v) /\ ~TaskCompletes(v) /\ ~CatchError(v)
    <2>1. /\ UNCHANGED <<started, completed, emitted>>
          /\ control'.worker_error = control.worker_error
        BY <1>0, <1>5
        DEF WorkerAny, WorkerActs, WorkerChecks, WorkerPops, WorkerFindsNothing,
            WorkerWakesOnLatch, WorkerWakesOnTimeout, WorkerWakes, WorkerDrops,
            TaskCutShort, TaskYields, TaskFails, Repush, RepushRefused, CountDown,
            NotifyLeader, ReportError, WorkerExits, ExitFails, WorkerDies, WorkerMoves,
            sharedVars, historyVars, ControlRecords
    <2>2. Outcome' = Outcome /\ Doomed' = Doomed
        BY <1>1, <2>1 DEF Outcome, Doomed
    <2> QED
        BY <2>1, <2>2 DEF Query!vars
<1> QED
    BY <1>2, <1>3, <1>4, <1>5

\* The leader's own task: it reads complete results, or the query has failed.
LEMMA FinalizeSimulates ==
    ASSUME QueryInv, NEW e \in Events, LeaderAny, ~EndActs, state[e] = "SCHEDULED", IsFinalize(e),
           started' = started \cup {<<e, 0>>}, completed' = completed \cup {<<e, 0>>},
           leader'.pc \notin {"raise", "catch"}
    PROVE  Query!Next
<1> DEFINE t == <<e, 0>>
<1>1. t \in Tasks /\ t[1] = e /\ t \in FinalizeTasks
    BY FinalizeTask DEF FinalizeTasks
<1> HIDE DEF t
<1>2. t \notin started
    BY <1>1 DEF QueryInv, Inv, TaskInv, PlaceInv, TasksOf
<1>3. /\ leader.pc \in LoopPoints /\ leader'.pc \in LoopPoints /\ emitted' = emitted
      /\ control'.worker_error = control.worker_error
    BY LeaderLoops, LeaderLeavesWorkers DEF QueryInv, Inv, LeaderEffect, LoopPoints
<1>4. Outcome = "running" /\ Outcome' = "running" /\ Doomed' = Doomed
    BY <1>3 DEF QueryInv, EmitInv, Outcome, Doomed, LoopPoints
<1>5. Uncut => Query!Ready(t)
    BY <1>1, TasksAreReady DEF QueryInv
<1>6. ~Uncut => Doomed
    <2>1. Live /\ ~AllEventsFinished /\ ~LeaderAt("dead")
        BY <1>3 DEF Live, LoopPoints, AllEventsFinished, LeaderAt
    <2> QED
        BY <2>1 DEF Uncut, QueryInv, Inv, ErrorInv, Doomed
<1>7. Query!Ready(t) \/ Doomed
    BY <1>5, <1>6
<1>8. Query!Finalize(t)
    BY <1>2, <1>4, <1>7 DEF Query!Finalize, t
<1> QED
    BY <1>1, <1>8 DEF Query!Next

\* In its loop the leader runs its own tasks, meets an error, or does nothing the
\* query sees.
LEMMA LoopSimulates ==
    ASSUME QueryInv, LeaderAny, ~EndActs
    PROVE  [Query!Next]_(Query!vars)
<1>0. leader \in LeaderRecords
    BY DEF QueryInv, Inv, Types
<1>1. /\ leader.pc \in LoopPoints /\ leader'.pc \in LoopPoints \cup {"raise", "catch"}
      /\ emitted' = emitted /\ control'.worker_error = control.worker_error
    BY LeaderLoops, LeaderLeavesWorkers DEF QueryInv, Inv, LeaderEffect
<1>2. Outcome = "running" /\ Outcome' = "running"
    BY <1>1 DEF QueryInv, EmitInv, Outcome, LoopPoints
<1>3. CASE UNCHANGED <<started, completed>>
    <2>1. CASE leader'.pc = "catch"
        <3>1. Query!Doom
            BY <1>2, <1>3, <2>1 DEF Query!Doom, Doomed
        <3> QED
            BY <3>1 DEF Query!Next
    <2>2. CASE leader'.pc # "catch"
        <3>1. Doomed' = Doomed
            BY <1>1, <2>2 DEF Doomed, LoopPoints
        <3> QED
            BY <1>2, <1>3, <3>1 DEF Query!vars
    <2> QED
        BY <2>1, <2>2
<1>4. CASE FinalizeIsTrivial(PipelineOf(leader.event)) /\ ScheduleFinalize
    <2>1. /\ leader.event \in Events /\ IsFinalize(leader.event) /\ leader.pc = "schedule"
          /\ started' = started \cup {<<leader.event, 0>>}
          /\ completed' = completed \cup {<<leader.event, 0>>}
        BY <1>0, <1>4 DEF ScheduleFinalize, LeaderAt, LeaderRecords
    <2>2. state[leader.event] = "SCHEDULED"
        BY <2>1 DEF QueryInv, Inv, LeaderInv
    <2>3. leader'.pc \notin {"raise", "catch"}
        BY <1>4, FinishActsEffect DEF FinishActs, QueryInv, Inv
    <2> QED
        BY <2>1, <2>2, <2>3, FinalizeSimulates
<1>5. ASSUME NEW e \in Events, ScanFinalize(e) PROVE [Query!Next]_(Query!vars)
    <2>1. /\ IsFinalize(e) /\ state[e] = "SCHEDULED"
          /\ started' = started \cup {<<e, 0>>} /\ completed' = completed \cup {<<e, 0>>}
        BY <1>5 DEF ScanFinalize, AtCursor
    <2>2. leader'.pc \notin {"raise", "catch"}
        BY <1>5, FinishActsEffect DEF FinishActs, QueryInv, Inv
    <2> QED
        BY <2>1, <2>2, FinalizeSimulates
<1>6. CASE ScheduleTrivialCombine \/ \E e \in Events : ScanFinish(e) \/ ScanPass(e)
    BY <1>3, <1>6 DEF ScheduleTrivialCombine, ScanFinish, ScanPass, historyVars
<1>7. CASE StartPipeline \/ ScheduleTasks \/ PushTask \/ PushTaskRefused
           \/ (ScheduleFinalize /\ ~FinalizeIsTrivial(PipelineOf(leader.event)))
    BY <1>3, <1>7 DEF StartPipeline, ScheduleTasks, PushTask, PushTaskRefused,
                      ScheduleFinalize, historyVars
<1>8. CASE Top \/ LeaderWakesOnLatch \/ LeaderWakesOnTimeout
    BY <1>3, <1>8 DEF Top, LeaderWakesOnLatch, LeaderWakesOnTimeout, LeaderWakes, historyVars
<1> QED
    BY <1>4, <1>5, <1>6, <1>7, <1>8, LeaderCases DEF FinishActs, LeaderQuietActs, EndActs

\* At the end of the query the leader emits, reports success or reports the
\* failure.
LEMMA EndSimulates ==
    ASSUME QueryInv, EndActs
    PROVE  [Query!Next]_(Query!vars)
<1>0. LeaderAny
    BY DEF EndActs, LeaderAny, LeaderStep
<1>1. /\ UNCHANGED <<started, completed>>
      /\ control'.worker_error = control.worker_error
      /\ emitted' = IF EmitResult THEN TRUE ELSE emitted
    <2>1. UNCHANGED <<started, completed>>
        BY DEF EndActs, ScanEnd, RaiseWorkerFailure, SignalShutdown, TerminateWorkers,
           WorkersJoined, EmitResult, LastCheck, LeaderFails, LeaderDies, LeaderMoves,
           historyVars
    <2> QED
        BY <1>0, <2>1, EmittedAfter, LeaderLeavesWorkers DEF QueryInv, Inv, LeaderEffect
<1>2. CASE EmitResult
    <2>1. leader.pc = "emit" /\ leader'.pc = "emitted"
        BY <1>2, LeaderEnds, LeaderMovesEffect
        DEF QueryInv, EmitResult, LeaderAt, Inv, Types, LeaderRecords
    <2>2. completed = Tasks /\ ~emitted
        BY <2>1 DEF QueryInv, EndInv, EmitInv
    <2>3. Outcome = "running" /\ Outcome' = "emitted" /\ Doomed' = Doomed
        BY <1>1, <1>2, <2>1, <2>2 DEF Outcome, Doomed
    <2>4. Query!Emit
        BY <1>1, <2>2, <2>3 DEF Query!Emit
    <2> QED
        BY <2>4 DEF Query!Next
<1>3. CASE ~EmitResult /\ leader'.pc = "done"
    <2>1. leader.pc = "emitted" /\ control.worker_error = 0
        BY <1>3, LeaderEnds DEF QueryInv
    <2>2. Outcome = "emitted" /\ Outcome' = "done" /\ Doomed = FALSE /\ Doomed' = FALSE
        BY <1>1, <1>3, <2>1 DEF QueryInv, EmitInv, Outcome, Doomed
    <2>3. Query!Succeed
        BY <1>1, <2>2 DEF Query!Succeed
    <2> QED
        BY <2>3 DEF Query!Next
<1>4. CASE ~EmitResult /\ leader'.pc = "failed"
    <2>1. leader.pc = "reap"
        BY <1>4, LeaderEnds DEF QueryInv
    <2>2. /\ Outcome \in {"running", "emitted"} /\ Outcome' = "failed"
          /\ Doomed = TRUE /\ Doomed' = TRUE
        BY <1>4, <2>1 DEF Outcome, Doomed
    <2>3. Query!Fail
        BY <1>1, <2>2 DEF Query!Fail
    <2> QED
        BY <2>3 DEF Query!Next
<1>5. CASE ~EmitResult /\ leader'.pc \notin {"done", "failed"}
    <2>1. leader.pc \notin {"done", "failed"}
          /\ (leader.pc \in {"catch", "grace", "reap", "dead"} =>
                  leader'.pc \in {"catch", "grace", "reap", "dead"})
        BY <1>5, LeaderEnds DEF QueryInv
    <2>2. Outcome \in {"running", "emitted"} /\ Outcome' = Outcome
        BY <1>1, <1>5, <2>1 DEF Outcome
    <2>3. CASE leader'.pc \in {"catch", "grace", "reap", "dead"}
        <3>1. Query!Doom
            BY <1>1, <2>2, <2>3 DEF Query!Doom, Doomed
        <3> QED
            BY <3>1 DEF Query!Next
    <2>4. CASE leader'.pc \notin {"catch", "grace", "reap", "dead"}
        <3>1. Doomed' = Doomed
            BY <1>1, <1>5, <2>1, <2>4 DEF Doomed
        <3> QED
            BY <1>1, <2>2, <3>1 DEF Query!vars
    <2> QED
        BY <2>3, <2>4
<1> QED
    BY <1>2, <1>3, <1>4, <1>5

\* Every step of the runtime is a step of the query or a stutter.
LEMMA NextSimulates == QueryInv /\ [Next]_vars => [Query!Next]_(Query!vars)
<1> SUFFICES ASSUME QueryInv, [Next]_vars PROVE [Query!Next]_(Query!vars)
    OBVIOUS
<1>1. CASE UNCHANGED vars
    BY <1>1 DEF vars, sharedVars, historyVars, Query!vars, Outcome, Doomed
<1>2. CASE LeaderAny
    BY <1>2, LoopSimulates, EndSimulates
<1>3. ASSUME NEW v \in Workers, WorkerAny(v) PROVE [Query!Next]_(Query!vars)
    BY <1>3, WorkerSimulates
<1> QED
    BY <1>1, <1>2, <1>3 DEF Next, LeaderAny, WorkerAny

\* PgYaapPipelineRun, for every plan and any faults of leader and workers: a task
\* begins only when what it reads from is complete, it completes once, rows are
\* emitted only when every task is complete, and an error met before the end is
\* never reported as success, whatever the order in which the leader and the
\* workers see counters, flags and latches.
THEOREM RuntimeImplementsQuery == Spec => ImplementsQuery
<1>1. Init => Query!Init
    BY DEF Init, Query!Init, Outcome, Doomed
<1> QED
    BY <1>1, InitQueryInv, NextQueryInv, NextSimulates, PTL
    DEF Spec, ImplementsQuery, Query!Spec
==============================================================================
