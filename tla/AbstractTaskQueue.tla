-------------------------- MODULE AbstractTaskQueue --------------------------
(****************************************************************************)
(* What DsmTaskQueue promises its users (dsm_task_queue.hpp): one bounded   *)
(* first-in first-out queue of task descriptors, in which every descriptor  *)
(* is addressed to one worker and only that worker may take it.  Push and   *)
(* Pop are atomic here; a refused TryPush or TryPopForWorker is a stutter.  *)
(****************************************************************************)
EXTENDS Integers, Sequences

CONSTANTS
    Workers,     \* the worker indexes the leader started, a set of naturals
    Capacity     \* capacity_: how many descriptors the queue holds

Leader == -1
Procs == Workers \cup {Leader}

VARIABLES
    queue,       \* the descriptors pushed and not yet taken, oldest first
    holding,     \* holding[p]: the descriptors process p is responsible for
    issued       \* how many descriptors the leader has made

vars == <<queue, holding, issued>>

Task == [id : Nat, worker_index : Workers]

Init ==
    /\ queue = << >>
    /\ holding = [p \in Procs |-> {}]
    /\ issued = 0

\* The leader makes the next descriptor and addresses it to a worker.
Issue ==
    /\ holding[Leader] = {}
    /\ issued' = issued + 1
    /\ \E w \in Workers :
          holding' = [holding EXCEPT ![Leader] =
                         {[id |-> issued + 1, worker_index |-> w]}]
    /\ UNCHANGED queue

\* The leader, or a worker that yields, hands its descriptor to the queue.
Push(p) ==
    /\ Len(queue) < Capacity
    /\ \E t \in holding[p] : queue' = Append(queue, t)
    /\ holding' = [holding EXCEPT ![p] = {}]
    /\ UNCHANGED issued

\* A worker takes the oldest descriptor, which must be addressed to it.
Pop(w) ==
    /\ holding[w] = {}
    /\ queue # << >>
    /\ Head(queue).worker_index = w
    /\ holding' = [holding EXCEPT ![w] = {Head(queue)}]
    /\ queue' = Tail(queue)
    /\ UNCHANGED issued

\* A worker has run its descriptor's task to the end.
Finish(w) ==
    /\ holding[w] # {}
    /\ holding' = [holding EXCEPT ![w] = {}]
    /\ UNCHANGED <<queue, issued>>

Next ==
    \/ Issue
    \/ \E p \in Procs : Push(p)
    \/ \E w \in Workers : Pop(w) \/ Finish(w)

Spec == Init /\ [][Next]_vars
==============================================================================
