----------------------------- MODULE DsmTaskQueue -----------------------------
(****************************************************************************)
(* The bounded multi-producer multi-consumer queue that lives in the DSM    *)
(* segment (dsm_task_queue.cpp), with the leader that pushes tasks and the  *)
(* workers that pop, run and, when a chunk budget is used up, push them     *)
(* back (pipeline_worker_main.cpp).  One action per access to shared        *)
(* memory; every process is at a program point pc[p].                       *)
(*                                                                          *)
(* enqueue_pos_ and dequeue_pos_ are 64-bit in the code and unbounded here; *)
(* the 32-bit sequence of a cell wraps at SeqModulus.  TryPop (without a    *)
(* worker index) has no caller and differs from TryPopForWorker only by the *)
(* affinity test and the wake, so it is not modelled.                       *)
(****************************************************************************)
EXTENDS Integers, Sequences, FiniteSets

CONSTANTS
    Workers,       \* worker indexes of the started background workers
    Capacity,      \* capacity_, a power of two, so pos & mask_ is pos % Capacity
    SeqModulus,    \* 2^32 in the code: the range of a cell's sequence
    TaskCount,     \* bound: tasks the leader issues
    MaxYields      \* bound: times a task is pushed back, over all tasks

ASSUME WorkersAssumption == Workers \subseteq Nat
ASSUME CapacityAssumption == Capacity \in Nat /\ Capacity >= 2
ASSUME SeqModulusAssumption == SeqModulus \in Nat /\ Capacity < SeqModulus
ASSUME BoundsAssumption == TaskCount \in Nat /\ MaxYields \in Nat

Leader == -1
Procs == Workers \cup {Leader}

\* A TaskDescriptor: its pipeline, event and partition are one id here.
Task == [id : Nat, worker_index : Nat]
ZeroDesc == [id |-> 0, worker_index |-> 0]

Slots == 0 .. Capacity - 1
Slot(x) == x % Capacity
U32(x) == x % SeqModulus

VARIABLES
    enqueue_pos_, dequeue_pos_,
    sequence, desc,   \* the two fields of each cell
    pc, pos,          \* each process's program point and local pos
    task,             \* the descriptor it pushes, or has popped (out)
    latch,            \* latch[w]: the worker's process latch is set
    issued, yields,   \* counters for the bounds TaskCount and MaxYields
    done,             \* ids of the tasks run to the end
    log               \* history: the descriptors in the order claimed by pushes

queueVars == <<enqueue_pos_, dequeue_pos_, sequence, desc, log>>
clientVars == <<latch, issued, yields, done>>
vars == <<queueVars, pc, pos, task, clientVars>>

PushPoints == {"push_load", "push_check", "push_cas", "push_store",
               "push_publish", "push_wake"}
PopPoints == {"pop_load", "pop_check", "pop_affinity", "pop_cas", "pop_copy",
              "pop_release", "pop_wake"}

\* InitInPlace, and the leader after RegisterWorkerPids: nothing pushed yet.
Init ==
    /\ enqueue_pos_ = 0
    /\ dequeue_pos_ = 0
    /\ sequence = [s \in Slots |-> s]
    /\ desc = [s \in Slots |-> ZeroDesc]
    /\ pc = [p \in Procs |-> IF p = Leader THEN "idle" ELSE "pop_load"]
    /\ pos = [p \in Procs |-> 0]
    /\ task = [p \in Procs |-> ZeroDesc]
    /\ latch = [w \in Workers |-> FALSE]
    /\ issued = 0
    /\ yields = 0
    /\ done = {}
    /\ log = << >>

Step(p, from, to) ==
    /\ pc[p] = from
    /\ pc' = [pc EXCEPT ![p] = to]

\* SetLatch on every registered worker, one after the other in the code.
WakeRegisteredWorkers == latch' = [w \in Workers |-> TRUE]

------------------------------------------------------------------------------
(* The leader: EnqueueTasks pushes one descriptor after the other. *)

Issue ==
    /\ issued < TaskCount
    /\ Step(Leader, "idle", "push_load")
    /\ issued' = issued + 1
    /\ \E w \in Workers :
          task' = [task EXCEPT ![Leader] =
                      [id |-> issued + 1, worker_index |-> w]]
    /\ UNCHANGED <<queueVars, pos, latch, yields, done>>

------------------------------------------------------------------------------
(* TryPush *)

PushLoad(p) ==
    /\ Step(p, "push_load", "push_check")
    /\ pos' = [pos EXCEPT ![p] = enqueue_pos_]
    /\ UNCHANGED <<queueVars, task, clientVars>>

\* Reads the cell's sequence; "refused" is TryPush returning false, which
\* EnqueueTasks and the worker both turn into an ERROR.
PushCheck(p) ==
    LET diff == sequence[Slot(pos[p])] - U32(pos[p])
    IN  /\ \/ diff = 0 /\ Step(p, "push_check", "push_cas")
           \/ diff < 0 /\ Step(p, "push_check", "refused")
           \/ diff > 0 /\ Step(p, "push_check", "push_load")
        /\ UNCHANGED <<queueVars, pos, task, clientVars>>

PushCas(p) ==
    /\ pos[p] = enqueue_pos_
    /\ Step(p, "push_cas", "push_store")
    /\ enqueue_pos_' = enqueue_pos_ + 1
    /\ log' = Append(log, task[p])
    /\ UNCHANGED <<dequeue_pos_, sequence, desc, pos, task, clientVars>>

PushCasFails(p) ==
    /\ pos[p] # enqueue_pos_
    /\ Step(p, "push_cas", "push_check")
    /\ pos' = [pos EXCEPT ![p] = enqueue_pos_]
    /\ UNCHANGED <<queueVars, task, clientVars>>

PushStore(p) ==
    /\ Step(p, "push_store", "push_publish")
    /\ desc' = [desc EXCEPT ![Slot(pos[p])] = task[p]]
    /\ UNCHANGED <<enqueue_pos_, dequeue_pos_, sequence, log, pos, task, clientVars>>

PushPublish(p) ==
    /\ Step(p, "push_publish", "push_wake")
    /\ sequence' = [sequence EXCEPT ![Slot(pos[p])] = U32(pos[p] + 1)]
    /\ UNCHANGED <<enqueue_pos_, dequeue_pos_, desc, log, pos, task, clientVars>>

\* Variant: the pusher forgets WakeRegisteredWorkers.
PushWakeSilent(p) ==
    /\ Step(p, "push_wake", IF p = Leader THEN "idle" ELSE "pop_load")
    /\ UNCHANGED <<queueVars, pos, task, clientVars>>

PushWake(p) ==
    /\ Step(p, "push_wake", IF p = Leader THEN "idle" ELSE "pop_load")
    /\ WakeRegisteredWorkers
    /\ UNCHANGED <<queueVars, pos, task, issued, yields, done>>

TryPush(p) ==
    \/ PushLoad(p) \/ PushCheck(p) \/ PushCas(p) \/ PushCasFails(p)
    \/ PushStore(p) \/ PushPublish(p) \/ PushWake(p)

------------------------------------------------------------------------------
(* TryPopForWorker *)

PopLoad(w) ==
    /\ Step(w, "pop_load", "pop_check")
    /\ pos' = [pos EXCEPT ![w] = dequeue_pos_]
    /\ UNCHANGED <<queueVars, task, clientVars>>

\* "wait" is TryPopForWorker returning false.
PopCheck(w) ==
    LET diff == sequence[Slot(pos[w])] - U32(pos[w] + 1)
    IN  /\ \/ diff = 0 /\ Step(w, "pop_check", "pop_affinity")
           \/ diff < 0 /\ Step(w, "pop_check", "wait")
           \/ diff > 0 /\ Step(w, "pop_check", "pop_load")
        /\ UNCHANGED <<queueVars, pos, task, clientVars>>

\* Variant: any worker takes the head, as "Bug O attempt #1" did.
PopAffinityIgnored(w) ==
    /\ Step(w, "pop_affinity", "pop_cas")
    /\ UNCHANGED <<queueVars, pos, task, clientVars>>

\* Reads the descriptor before the cursor is claimed.
PopAffinity(w) ==
    /\ Step(w, "pop_affinity",
            IF desc[Slot(pos[w])].worker_index = w THEN "pop_cas" ELSE "wait")
    /\ UNCHANGED <<queueVars, pos, task, clientVars>>

\* Variant: the cursor is stored without comparing it first.
PopCasBlind(w) ==
    /\ Step(w, "pop_cas", "pop_copy")
    /\ dequeue_pos_' = pos[w] + 1
    /\ UNCHANGED <<enqueue_pos_, sequence, desc, log, pos, task, clientVars>>

PopCas(w) ==
    /\ pos[w] = dequeue_pos_
    /\ Step(w, "pop_cas", "pop_copy")
    /\ dequeue_pos_' = dequeue_pos_ + 1
    /\ UNCHANGED <<enqueue_pos_, sequence, desc, log, pos, task, clientVars>>

PopCasFails(w) ==
    /\ pos[w] # dequeue_pos_
    /\ Step(w, "pop_cas", "pop_check")
    /\ pos' = [pos EXCEPT ![w] = dequeue_pos_]
    /\ UNCHANGED <<queueVars, task, clientVars>>

PopCopy(w) ==
    /\ Step(w, "pop_copy", "pop_release")
    /\ task' = [task EXCEPT ![w] = desc[Slot(pos[w])]]
    /\ UNCHANGED <<queueVars, pos, clientVars>>

\* Variant: the released sequence is not cut to 32 bits.
PopReleaseUntruncated(w) ==
    /\ Step(w, "pop_release", "pop_wake")
    /\ sequence' = [sequence EXCEPT ![Slot(pos[w])] = pos[w] + Capacity]
    /\ UNCHANGED <<enqueue_pos_, dequeue_pos_, desc, log, pos, task, clientVars>>

PopRelease(w) ==
    /\ Step(w, "pop_release", "pop_wake")
    /\ sequence' = [sequence EXCEPT ![Slot(pos[w])] = U32(pos[w] + Capacity)]
    /\ UNCHANGED <<enqueue_pos_, dequeue_pos_, desc, log, pos, task, clientVars>>

\* Variant: the popper does not wake the others, as before the "Bug O" fix.
PopWakeSilent(w) ==
    /\ Step(w, "pop_wake", "run")
    /\ UNCHANGED <<queueVars, pos, task, clientVars>>

PopWake(w) ==
    /\ Step(w, "pop_wake", "run")
    /\ WakeRegisteredWorkers
    /\ UNCHANGED <<queueVars, pos, task, issued, yields, done>>

TryPopForWorker(w) ==
    \/ PopLoad(w) \/ PopCheck(w) \/ PopAffinity(w) \/ PopCas(w)
    \/ PopCasFails(w) \/ PopCopy(w) \/ PopRelease(w) \/ PopWake(w)

------------------------------------------------------------------------------
(* The worker's loop around TryPopForWorker. *)

\* Execute returned TASK_NOT_FINISHED: the same descriptor is pushed again.
RunYields(w) ==
    /\ yields < MaxYields
    /\ Step(w, "run", "push_load")
    /\ yields' = yields + 1
    /\ UNCHANGED <<queueVars, pos, task, latch, issued, done>>

RunFinishes(w) ==
    /\ Step(w, "run", "pop_load")
    /\ done' = done \cup {task[w].id}
    /\ UNCHANGED <<queueVars, pos, task, latch, issued, yields>>

\* WaitLatch returns, then ResetLatch, then the worker looks again.
Wake(w) ==
    /\ Step(w, "wait", "pop_load")
    /\ latch' = [latch EXCEPT ![w] = FALSE]
    /\ UNCHANGED <<queueVars, pos, task, issued, yields, done>>

WakeOnLatch(w) == latch[w] /\ Wake(w)

\* WaitLatch's 1000 ms timeout: never counted on, see Fairness.
WakeOnTimeout(w) == ~latch[w] /\ Wake(w)

WorkerStep(w) ==
    \/ TryPopForWorker(w) \/ TryPush(w)
    \/ RunYields(w) \/ RunFinishes(w) \/ WakeOnLatch(w)

LeaderStep == Issue \/ TryPush(Leader)

Next ==
    \/ LeaderStep
    \/ \E w \in Workers : WorkerStep(w) \/ WakeOnTimeout(w)

Spec == Init /\ [][Next]_vars

\* The operating system schedules every process and a worker's run is finite.
\* The timeout gets no fairness: progress must come from the latches.
Fairness == WF_vars(LeaderStep) /\ \A w \in Workers : WF_vars(WorkerStep(w))

FairSpec == Spec /\ Fairness

------------------------------------------------------------------------------
(* What the queue promises. *)

\* The variables hold values of their types, and every cursor and position
\* that a process remembers was once a value of the cursor it was read from
\* (the layout and the atomics of DsmTaskQueue and its cells).
TypeOK ==
    /\ enqueue_pos_ \in Nat
    /\ dequeue_pos_ \in Nat
    /\ sequence \in [Slots -> 0 .. SeqModulus - 1]
    /\ desc \in [Slots -> Task]
    /\ pc \in [Procs -> PushPoints \cup PopPoints
                           \cup {"idle", "refused", "run", "wait"}]
    /\ pc[Leader] \in PushPoints \cup {"idle", "refused"}
    /\ pos \in [Procs -> Nat]
    /\ task \in [Procs -> Task]
    /\ latch \in [Workers -> BOOLEAN]
    /\ issued \in 0 .. TaskCount
    /\ yields \in 0 .. MaxYields
    /\ done \subseteq Nat
    /\ log \in Seq(Task)

\* The descriptors pushed and not yet taken: a push takes effect when it moves
\* enqueue_pos_, a pop when it moves dequeue_pos_.
Queued == SubSeq(log, dequeue_pos_ + 1, enqueue_pos_)

\* The descriptor process p answers for: a pusher until it has claimed a cell,
\* a popper from its claim on, although it has not copied the cell yet.
Holding(p) ==
    CASE pc[p] \in {"push_load", "push_check", "push_cas", "refused",
                    "pop_release", "pop_wake", "run"} -> {task[p]}
      [] pc[p] = "pop_copy" -> {log[pos[p] + 1]}
      [] OTHER -> {}

Fifo == INSTANCE AbstractTaskQueue
          WITH queue <- Queued, holding <- [p \in Procs |-> Holding(p)]

\* The lock-free protocol is a first-in first-out queue of at most capacity_
\* descriptors that hands each one to the worker it is addressed to, whatever
\* the interleaving of claims, stores and releases and the wrap of sequence.
ImplementsFifo == Fifo!Spec

\* A task that was issued is finished, or in the queue once, or in the hands of
\* one process: stale cursors and the unlocked read of worker_index never let
\* two workers take one cell or a pusher overwrite one.
NoTaskLostOrDuplicated ==
    \A id \in 1 .. issued :
        LET queuedAt == {i \in 1 .. Len(Queued) : Queued[i].id = id}
            heldBy   == {p \in Procs : \E t \in Holding(p) : t.id = id}
        IN  /\ Cardinality(queuedAt) + Cardinality(heldBy) <= 1
            /\ (queuedAt \cup heldBy = {}) <=> (id \in done)

\* A worker never sleeps with its latch clear while the published head of the
\* queue is addressed to it, unless a process is on its way to wake it (the
\* "Bug O" wake at the end of TryPopForWorker).
NoLostWakeup ==
    \A w \in Workers :
        ( /\ pc[w] = "wait" /\ ~latch[w]
          /\ dequeue_pos_ < enqueue_pos_
          /\ sequence[Slot(dequeue_pos_)] = U32(dequeue_pos_ + 1)
          /\ desc[Slot(dequeue_pos_)].worker_index = w )
        => \E p \in Procs :
              pc[p] \in {"push_wake", "pop_copy", "pop_release", "pop_wake"}

\* Without help from the 1000 ms timeout every issued task is run to its end,
\* unless some TryPush was refused, which ends the query with an ERROR.
EveryTaskFinishes ==
    \A id \in 1 .. TaskCount :
        (issued >= id) ~> (id \in done \/ \E p \in Procs : pc[p] = "refused")
==============================================================================
