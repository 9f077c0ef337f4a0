-------------------------- MODULE DsmTaskQueueProofs --------------------------
(****************************************************************************)
(* The queue of DsmTaskQueue is a first-in first-out queue for every number *)
(* of workers, every capacity of at least two and every modulus of sequence *)
(* above the capacity.  The cursors are ordinary numbers in the argument;   *)
(* what makes it work although a cell only shows them modulo SeqModulus is  *)
(* that the positions a cell can be confused about are less than            *)
(* Capacity + 1 apart.                                                      *)
(****************************************************************************)
EXTENDS DsmTaskQueue, SequenceTheorems, FiniteSetTheorems, TLAPS

\* p has claimed the cell of pos[p] for a push and not yet published it.
Pushing(p) == pc[p] \in {"push_store", "push_publish"}

\* p has claimed the cell of pos[p] for a pop and not yet released it.
Popping(p) == pc[p] \in {"pop_copy", "pop_release"}

Published(x) == sequence[Slot(x)] = U32(x + 1) /\ desc[Slot(x)] = log[x + 1]

CursorInv ==
    /\ dequeue_pos_ <= enqueue_pos_
    /\ enqueue_pos_ <= dequeue_pos_ + Capacity
    /\ Len(log) = enqueue_pos_

\* Every cell between the cursors is published or owned by its pusher, and
\* every other cell is free for its next position or owned by its popper.
CellInv ==
    /\ \A x \in dequeue_pos_ .. enqueue_pos_ - 1 :
          Published(x) \/ \E p \in Procs : Pushing(p) /\ pos[p] = x
    /\ \A x \in enqueue_pos_ .. dequeue_pos_ + Capacity - 1 :
          \/ sequence[Slot(x)] = U32(x)
          \/ \E p \in Procs : Popping(p) /\ pos[p] + Capacity = x

PusherInv(p) ==
    Pushing(p) =>
        /\ dequeue_pos_ <= pos[p] /\ pos[p] < enqueue_pos_
        /\ sequence[Slot(pos[p])] = U32(pos[p])
        /\ log[pos[p] + 1] = task[p]
        /\ pc[p] = "push_publish" => desc[Slot(pos[p])] = task[p]

PopperInv(p) ==
    Popping(p) =>
        /\ pos[p] < dequeue_pos_ /\ enqueue_pos_ <= pos[p] + Capacity
        /\ Published(pos[p])
        /\ log[pos[p] + 1].worker_index = p
        /\ pc[p] = "pop_release" => task[p] = log[pos[p] + 1]

OwnersDiffer ==
    \A p, q \in Procs :
        /\ Pushing(p) /\ Pushing(q) /\ pos[p] = pos[q] => p = q
        /\ Popping(p) /\ Popping(q) /\ pos[p] = pos[q] => p = q

\* What p knows between its reads and its compare-and-swap: its position is
\* not ahead of the cursor, and if the cursor still has that value then what
\* was read from the cell is still so.
ClaimInv(p) ==
    /\ pc[p] = "push_check" => pos[p] <= enqueue_pos_
    /\ pc[p] = "push_cas" =>
          /\ pos[p] <= enqueue_pos_
          /\ pos[p] = enqueue_pos_ =>
                /\ enqueue_pos_ < dequeue_pos_ + Capacity
                /\ sequence[Slot(pos[p])] = U32(pos[p])
    /\ pc[p] = "pop_check" => pos[p] <= dequeue_pos_
    /\ pc[p] \in {"pop_affinity", "pop_cas"} =>
          /\ pos[p] <= dequeue_pos_
          /\ pos[p] = dequeue_pos_ =>
                /\ dequeue_pos_ < enqueue_pos_
                /\ Published(pos[p])
                /\ pc[p] = "pop_cas" => log[pos[p] + 1].worker_index = p

IInv ==
    /\ TypeOK
    /\ CursorInv
    /\ CellInv
    /\ OwnersDiffer
    /\ \A p \in Procs : PusherInv(p) /\ PopperInv(p) /\ ClaimInv(p)

------------------------------------------------------------------------------
(* Arithmetic of the modulus: positions less than m apart differ modulo m. *)

\* x % m is one of the m remainders.
LEMMA ModRange ==
    ASSUME NEW m \in Nat, m > 0, NEW x \in Nat
    PROVE  x % m \in 0 .. m - 1
OBVIOUS

\* Division with remainder.
LEMMA DivMod ==
    ASSUME NEW m \in Nat, m > 0, NEW x \in Nat
    PROVE  x \div m \in Nat /\ x = (m * (x \div m)) + (x % m)
OBVIOUS

\* The only multiple of m between -m and m is zero.
LEMMA SmallMultiple ==
    ASSUME NEW m \in Nat, m > 0, NEW d \in Int, 0 - m < m * d, m * d < m
    PROVE  d = 0
OBVIOUS

\* Two naturals less than m apart have different remainders.
LEMMA ModDistinct ==
    ASSUME NEW m \in Nat, m > 0, NEW a \in Nat, NEW b \in Nat, a < b, b < a + m
    PROVE  a % m # b % m
<1> SUFFICES ASSUME a % m = b % m PROVE FALSE
  OBVIOUS
<1> DEFINE d == (b \div m) - (a \div m)
<1>1. d \in Int
  BY DivMod
<1>2. b - a = m * d
  BY DivMod
<1>3. d # 0
  BY <1>2
<1> QED
  BY <1>1, <1>2, <1>3, SmallMultiple

\* A position and the one a whole m later have the same remainder.
LEMMA ModAdd ==
    ASSUME NEW m \in Nat, m > 0, NEW x \in Nat
    PROVE  (x + m) % m = x % m
<1> DEFINE y == x + m
           d == (y \div m) - (x \div m) - 1
<1>1. d \in Int
  BY DivMod
<1>2. m * d = (x % m) - (y % m)
  BY DivMod
<1>3. x % m \in 0 .. m - 1 /\ y % m \in 0 .. m - 1
  BY ModRange
<1>4. d = 0
  BY <1>1, <1>2, <1>3, SmallMultiple
<1> QED
  BY <1>2, <1>4

\* A position's cell is a cell, shared only with positions a capacity away.
LEMMA SlotFacts ==
    /\ \A x \in Nat : Slot(x) \in Slots /\ Slot(x + Capacity) = Slot(x)
    /\ \A x, y \in Nat : x < y /\ y < x + Capacity => Slot(x) # Slot(y)
<1>1. Capacity \in Nat /\ Capacity > 0
  BY CapacityAssumption
<1>2. \A x \in Nat : Slot(x) \in Slots /\ Slot(x + Capacity) = Slot(x)
  BY <1>1, ModRange, ModAdd DEF Slot, Slots
<1>3. ASSUME NEW x \in Nat, NEW y \in Nat, x < y, y < x + Capacity
      PROVE  Slot(x) # Slot(y)
  BY <1>1, <1>3, ModDistinct DEF Slot
<1> QED
  BY <1>2, <1>3

\* A cell's sequence shows a position, told apart from the SeqModulus - 1
\* positions that follow it.
LEMMA SequenceFacts ==
    /\ \A x \in Nat : U32(x) \in 0 .. SeqModulus - 1
    /\ \A x, y \in Nat : x < y /\ y < x + SeqModulus => U32(x) # U32(y)
<1>1. SeqModulus \in Nat /\ SeqModulus > 0
  BY CapacityAssumption, SeqModulusAssumption
<1>2. \A x \in Nat : U32(x) \in 0 .. SeqModulus - 1
  BY <1>1, ModRange DEF U32
<1>3. ASSUME NEW x \in Nat, NEW y \in Nat, x < y, y < x + SeqModulus
      PROVE  U32(x) # U32(y)
  BY <1>1, <1>3, ModDistinct DEF U32
<1> QED
  BY <1>2, <1>3

------------------------------------------------------------------------------
(* Type correctness. *)

\* The queue, its clients and the history start with values of their types.
LEMMA InitTypeOK == Init => TypeOK
<1> SUFFICES ASSUME Init PROVE TypeOK
  OBVIOUS
<1>1. sequence \in [Slots -> 0 .. SeqModulus - 1]
  BY CapacityAssumption, SeqModulusAssumption DEF Init, Slots
<1>2. desc \in [Slots -> Task] /\ task \in [Procs -> Task]
  BY DEF Init, Task, ZeroDesc
<1> QED
  BY <1>1, <1>2, WorkersAssumption, BoundsAssumption
  DEF Init, TypeOK, PushPoints, PopPoints, Procs, Leader, Slots

\* Every step of the leader and of a worker keeps the types.
LEMMA NextTypeOK == TypeOK /\ [Next]_vars => TypeOK'
<1> SUFFICES ASSUME TypeOK, [Next]_vars PROVE TypeOK'
  OBVIOUS
<1> USE DEF TypeOK, PushPoints, PopPoints, Step, queueVars, clientVars
<1>leader. Leader \in Procs /\ \A w \in Workers : w \in Procs /\ w # Leader
  BY WorkersAssumption DEF Procs, Leader
<1>slot. \A x \in Nat : Slot(x) \in Slots
  BY SlotFacts
<1>u32. \A x \in Nat : U32(x) \in 0 .. SeqModulus - 1
  BY SequenceFacts
<1>1. CASE Issue
  <2>1. \A w \in Workers : [id |-> issued + 1, worker_index |-> w] \in Task
    BY WorkersAssumption, BoundsAssumption DEF Task
  <2> QED
    BY <1>1, <2>1, <1>leader, BoundsAssumption DEF Issue
<1>2. ASSUME NEW p \in Procs, TryPush(p)
      PROVE  TypeOK'
  <2>1. CASE PushLoad(p)
    BY <2>1, <1>leader DEF PushLoad
  <2>2. CASE PushCheck(p)
    BY <2>2, <1>leader DEF PushCheck
  <2>3. CASE PushCas(p)
    BY <2>3, <1>leader DEF PushCas
  <2>4. CASE PushCasFails(p)
    BY <2>4, <1>leader DEF PushCasFails
  <2>5. CASE PushStore(p)
    BY <2>5, <1>leader, <1>slot DEF PushStore
  <2>6. CASE PushPublish(p)
    <3>1. pos[p] + 1 \in Nat
      OBVIOUS
    <3>2. U32(pos[p] + 1) \in 0 .. SeqModulus - 1
      BY <3>1, <1>u32, Zenon
    <3> QED
      BY <2>6, <3>2, <1>leader DEF PushPublish
  <2>7. CASE PushWake(p)
    BY <2>7, <1>leader DEF PushWake, WakeRegisteredWorkers
  <2> QED
    BY <1>2, <2>1, <2>2, <2>3, <2>4, <2>5, <2>6, <2>7 DEF TryPush
<1>3. ASSUME NEW w \in Workers, TryPopForWorker(w)
      PROVE  TypeOK'
  <2>1. CASE PopLoad(w)
    BY <2>1, <1>leader DEF PopLoad
  <2>2. CASE PopCheck(w)
    BY <2>2, <1>leader DEF PopCheck
  <2>3. CASE PopAffinity(w)
    BY <2>3, <1>leader DEF PopAffinity
  <2>4. CASE PopCas(w)
    BY <2>4, <1>leader DEF PopCas
  <2>5. CASE PopCasFails(w)
    BY <2>5, <1>leader DEF PopCasFails
  <2>6. CASE PopCopy(w)
    BY <2>6, <1>leader, <1>slot DEF PopCopy
  <2>7. CASE PopRelease(w)
    <3>1. pos[w] + Capacity \in Nat
      BY <1>leader, CapacityAssumption
    <3>2. U32(pos[w] + Capacity) \in 0 .. SeqModulus - 1
      BY <3>1, <1>u32, Zenon
    <3> QED
      BY <2>7, <3>2, <1>leader DEF PopRelease
  <2>8. CASE PopWake(w)
    BY <2>8, <1>leader DEF PopWake, WakeRegisteredWorkers
  <2> QED
    BY <1>3, <2>1, <2>2, <2>3, <2>4, <2>5, <2>6, <2>7, <2>8 DEF TryPopForWorker
<1>4. ASSUME NEW w \in Workers, RunYields(w) \/ RunFinishes(w) \/ Wake(w)
      PROVE  TypeOK'
  <2>1. CASE RunYields(w)
    BY <2>1, <1>leader, BoundsAssumption DEF RunYields
  <2>2. CASE RunFinishes(w)
    <3>1. task[w].id \in Nat
      BY <1>leader DEF Task
    <3> QED
      BY <2>2, <3>1, <1>leader DEF RunFinishes
  <2>3. CASE Wake(w)
    BY <2>3, <1>leader DEF Wake
  <2> QED
    BY <1>4, <2>1, <2>2, <2>3
<1>5. CASE UNCHANGED vars
  BY <1>5 DEF vars
<1> QED
  BY <1>1, <1>2, <1>3, <1>4, <1>5, <1>leader
  DEF Next, LeaderStep, WorkerStep, WakeOnLatch, WakeOnTimeout

\* Every reachable state of the queue and its clients is well typed: cursors
\* and counters are naturals, sequences stay within their 32 bits, the leader
\* is never at a program point of a worker.
THEOREM TypeCorrect == Spec => []TypeOK
<1> QED
  BY InitTypeOK, NextTypeOK, PTL DEF Spec

------------------------------------------------------------------------------
(* The protocol of the cells. *)

\* The queue starts empty with every cell free for its first position.
LEMMA InitIInv == Init => IInv
<1> SUFFICES ASSUME Init PROVE IInv
  OBVIOUS
<1>1. TypeOK
  BY InitTypeOK
<1>2. CursorInv
  BY CapacityAssumption DEF Init, CursorInv
<1>3. CellInv
  <2>1. ASSUME NEW x \in 0 .. Capacity - 1
        PROVE  sequence[Slot(x)] = U32(x)
    <3>1. x % Capacity = x /\ x % SeqModulus = x
      BY CapacityAssumption, SeqModulusAssumption
    <3> QED
      BY <3>1 DEF Init, Slots, Slot, U32
  <2> QED
    BY <2>1, CapacityAssumption DEF Init, CellInv
<1>4. \A p \in Procs : pc[p] \in {"idle", "pop_load"}
  BY DEF Init
<1> QED
  BY <1>1, <1>2, <1>3, <1>4
  DEF IInv, OwnersDiffer, PusherInv, PopperInv, ClaimInv, Pushing, Popping

\* A step of p that leaves the queue alone and neither starts nor ends a claim
\* of p keeps the invariant, if it keeps what p itself knows.
LEMMA QuietStep ==
    ASSUME IInv, TypeOK', UNCHANGED queueVars, NEW p \in Procs,
           ~Pushing(p), ~Popping(p), ~Pushing(p)', ~Popping(p)',
           ClaimInv(p)',
           \A q \in Procs \ {p} :
              pc'[q] = pc[q] /\ pos'[q] = pos[q] /\ task'[q] = task[q]
    PROVE  IInv'
<1> USE DEF queueVars
<1>1. CursorInv'
  BY DEF IInv, CursorInv
<1>2. CellInv'
  BY DEF IInv, CellInv, Pushing, Popping, Published
<1>3. OwnersDiffer'
  BY DEF IInv, OwnersDiffer, Pushing, Popping
<1>4. \A q \in Procs : PusherInv(q)' /\ PopperInv(q)'
  BY DEF IInv, PusherInv, PopperInv, Pushing, Popping, Published
<1>5. \A q \in Procs \ {p} : ClaimInv(q)'
  BY DEF IInv, ClaimInv, Published
<1> QED
  BY <1>1, <1>2, <1>3, <1>4, <1>5 DEF IInv

\* When the cell of enqueue_pos_ shows that position, the queue is not full:
\* a full queue's cell shows a position Capacity or Capacity - 1 earlier.
LEMMA FreeCellMeansRoom ==
    ASSUME IInv, sequence[Slot(enqueue_pos_)] = U32(enqueue_pos_)
    PROVE  enqueue_pos_ < dequeue_pos_ + Capacity
<1> DEFINE d == dequeue_pos_
<1> SUFFICES ASSUME enqueue_pos_ = d + Capacity PROVE FALSE
  BY CapacityAssumption DEF IInv, TypeOK, CursorInv
<1>1. d \in Nat /\ d \in d .. enqueue_pos_ - 1
  BY CapacityAssumption DEF IInv, TypeOK
<1>2. Slot(d + Capacity) = Slot(d)
  BY <1>1, SlotFacts
<1>3. U32(d) # U32(d + Capacity) /\ U32(d + 1) # U32(d + Capacity)
  BY <1>1, SequenceFacts, CapacityAssumption, SeqModulusAssumption
<1>4. sequence[Slot(d)] = U32(d) \/ sequence[Slot(d)] = U32(d + 1)
  BY <1>1 DEF IInv, CellInv, PusherInv, Published
<1> QED
  BY <1>2, <1>3, <1>4

\* When the cell of dequeue_pos_ shows the position after it, the queue is not
\* empty and the cell is published: no pusher owns it.
LEMMA FullCellMeansPublished ==
    ASSUME IInv, sequence[Slot(dequeue_pos_)] = U32(dequeue_pos_ + 1)
    PROVE  dequeue_pos_ < enqueue_pos_ /\ Published(dequeue_pos_)
<1> DEFINE d == dequeue_pos_
<1>1. d \in Nat /\ enqueue_pos_ \in Nat /\ Capacity \in Nat /\ d <= enqueue_pos_
  BY CapacityAssumption DEF IInv, TypeOK, CursorInv
<1>2. U32(d) # U32(d + 1)
  BY <1>1, SequenceFacts, CapacityAssumption, SeqModulusAssumption
<1>3. d < enqueue_pos_
  <2> SUFFICES ASSUME enqueue_pos_ = d PROVE FALSE
    BY <1>1
  <2>1. d \in enqueue_pos_ .. d + Capacity - 1
    BY <1>1, CapacityAssumption
  <2>2. PICK p \in Procs : Popping(p) /\ pos[p] + Capacity = d
    BY <1>2, <2>1 DEF IInv, CellInv
  <2>3. pos[p] \in Nat /\ Slot(pos[p] + Capacity) = Slot(pos[p])
    BY SlotFacts DEF IInv, TypeOK
  <2>4. sequence[Slot(d)] = U32(pos[p] + 1)
    BY <2>2, <2>3 DEF IInv, PopperInv, Published
  <2>5. U32(pos[p] + 1) # U32(d + 1)
    BY <2>2, <2>3, SequenceFacts, CapacityAssumption, SeqModulusAssumption
  <2> QED
    BY <2>4, <2>5
<1>4. d \in d .. enqueue_pos_ - 1
  BY <1>1, <1>3
<1>5. \A p \in Procs : ~(Pushing(p) /\ pos[p] = d)
  BY <1>2 DEF IInv, PusherInv
<1>6. Published(d)
  BY <1>4, <1>5 DEF IInv, CellInv
<1> QED
  BY <1>3, <1>6

\* Claiming a cell for a push: the cursor moves over a free cell.
LEMMA PushCasStep ==
    ASSUME IInv, TypeOK', NEW p \in Procs, PushCas(p)
    PROVE  IInv'
<1> DEFINE e == enqueue_pos_
<1> USE DEF PushCas, Step
<1>1. /\ e \in Nat /\ dequeue_pos_ \in Nat /\ Capacity \in Nat /\ pos \in [Procs -> Nat]
      /\ pc[p] = "push_cas" /\ pos[p] = e
      /\ \A q \in Procs : pc'[q] = IF q = p THEN "push_store" ELSE pc[q]
      /\ log \in Seq(Task) /\ task[p] \in Task /\ Len(log) = e
  BY CapacityAssumption DEF IInv, TypeOK, CursorInv, PushPoints, PopPoints
<1>2. e < dequeue_pos_ + Capacity /\ sequence[Slot(e)] = U32(e)
  BY <1>1 DEF IInv, ClaimInv
<1>3. /\ Len(log') = e + 1
      /\ log'[e + 1] = task[p]
      /\ \A x \in Nat : x < e => log'[x + 1] = log[x + 1]
  BY <1>1
<1>4. \A q \in Procs : Popping(q) => e + 1 <= pos[q] + Capacity
  <2> SUFFICES ASSUME NEW q \in Procs, Popping(q)
               PROVE  e + 1 <= pos[q] + Capacity
    OBVIOUS
  <2>0. e <= pos[q] + Capacity /\ pos[q] \in Nat
    BY <1>1 DEF IInv, PopperInv
  <2> SUFFICES ASSUME e = pos[q] + Capacity
               PROVE  FALSE
    BY <1>1, <2>0
  <2>1. pos[q] \in Nat /\ Slot(pos[q] + Capacity) = Slot(pos[q])
    BY <1>1, SlotFacts
  <2>2. pos[q] + 1 \in Nat /\ pos[q] + 1 < e /\ e < (pos[q] + 1) + SeqModulus
    BY <1>1, <2>1, CapacityAssumption, SeqModulusAssumption
  <2>3. U32(pos[q] + 1) # U32(e)
    BY <1>1, <2>2, SequenceFacts, Zenon
  <2> QED
    BY <1>2, <2>1, <2>3 DEF IInv, PopperInv, Published
<1>5. CursorInv'
  BY <1>1, <1>2, <1>3 DEF IInv, CursorInv
<1>6. CellInv'
  <2>1. ASSUME NEW x \in dequeue_pos_ .. e
        PROVE  Published(x)' \/ \E q \in Procs : Pushing(q)' /\ pos'[q] = x
    <3>1. CASE x = e
      BY <1>1, <3>1 DEF Pushing
    <3>2. CASE x < e
      <4>1. x \in dequeue_pos_ .. e - 1 /\ x \in Nat /\ log'[x + 1] = log[x + 1]
        BY <1>1, <1>3, <3>2
      <4>2. Published(x) \/ \E q \in Procs : Pushing(q) /\ pos[q] = x
        BY <4>1 DEF IInv, CellInv
      <4>3. \A q \in Procs : Pushing(q) => Pushing(q)'
        BY <1>1 DEF Pushing
      <4> QED
        BY <4>1, <4>2, <4>3 DEF Published
    <3> QED
      BY <1>1, <3>1, <3>2
  <2>2. ASSUME NEW x \in e + 1 .. dequeue_pos_ + Capacity - 1
        PROVE  \/ sequence[Slot(x)] = U32(x)
               \/ \E q \in Procs : Popping(q)' /\ pos[q] + Capacity = x
    BY <1>1 DEF IInv, CellInv, Popping
  <2> QED
    BY <1>1, <2>1, <2>2 DEF CellInv
<1>7. \A q \in Procs : PusherInv(q)'
  <2>1. PusherInv(p)'
    BY <1>1, <1>2, <1>3 DEF IInv, CursorInv, PusherInv, Pushing
  <2>2. ASSUME NEW q \in Procs, q # p PROVE PusherInv(q)'
    BY <1>1, <1>3, <2>2 DEF IInv, PusherInv, Pushing
  <2> QED
    BY <2>1, <2>2
<1>8. \A q \in Procs : PopperInv(q)'
  <2>1. ASSUME NEW q \in Procs, Popping(q)' PROVE Popping(q) /\ q # p
    BY <1>1, <2>1 DEF Popping
  <2>2. ASSUME NEW q \in Procs, Popping(q)
        PROVE  pos[q] \in Nat /\ pos[q] < e /\ log'[pos[q] + 1] = log[pos[q] + 1]
    BY <1>1, <1>3, <2>2 DEF IInv, PopperInv, CursorInv
  <2> QED
    BY <1>1, <1>4, <2>1, <2>2 DEF IInv, PopperInv, Published
<1>9. OwnersDiffer'
  BY <1>1 DEF IInv, OwnersDiffer, PusherInv, Pushing, Popping
<1>10. \A q \in Procs : ClaimInv(q)'
  <2>1. ASSUME NEW q \in Procs, q # p PROVE ClaimInv(q)'
    BY <1>1, <1>3, <2>1 DEF IInv, ClaimInv, Published
  <2>2. ClaimInv(p)'
    BY <1>1 DEF ClaimInv
  <2> QED
    BY <2>1, <2>2
<1> QED
  BY <1>5, <1>6, <1>7, <1>8, <1>9, <1>10 DEF IInv

\* Two processes that own cells own different ones: positions between the
\* released one and the next claim of its cell are less than Capacity apart.
LEMMA OwnedCellsDiffer ==
    ASSUME IInv, NEW p \in Procs, NEW q \in Procs, p # q,
           Pushing(p) \/ Popping(p), Pushing(q) \/ Popping(q)
    PROVE  Slot(pos[p]) # Slot(pos[q])
<1>1. /\ pos[p] \in Nat /\ pos[q] \in Nat /\ Capacity \in Nat
      /\ dequeue_pos_ \in Nat /\ enqueue_pos_ \in Nat
      /\ enqueue_pos_ <= dequeue_pos_ + Capacity
  BY CapacityAssumption DEF IInv, TypeOK, CursorInv
<1>2. pos[p] # pos[q]
  BY <1>1 DEF IInv, OwnersDiffer, PusherInv, PopperInv
<1>3. pos[p] < pos[q] + Capacity /\ pos[q] < pos[p] + Capacity
  <2>1. ASSUME NEW r \in Procs, Pushing(r) PROVE dequeue_pos_ <= pos[r] /\ pos[r] < enqueue_pos_
    BY <2>1 DEF IInv, PusherInv
  <2>2. ASSUME NEW r \in Procs, Popping(r) PROVE pos[r] < dequeue_pos_ /\ enqueue_pos_ <= pos[r] + Capacity
    BY <2>2 DEF IInv, PopperInv
  <2>3. CASE Pushing(p) /\ Pushing(q)
    BY <1>1, <2>1, <2>3
  <2>4. CASE Pushing(p) /\ Popping(q)
    BY <1>1, <2>1, <2>2, <2>4
  <2>5. CASE Popping(p) /\ Pushing(q)
    BY <1>1, <2>1, <2>2, <2>5
  <2>6. CASE Popping(p) /\ Popping(q)
    BY <1>1, <2>2, <2>6, CapacityAssumption DEF IInv, CursorInv
  <2> QED
    BY <2>3, <2>4, <2>5, <2>6
<1> QED
  BY <1>1, <1>2, <1>3, SlotFacts

\* Storing the descriptor into a claimed cell disturbs no other cell.
LEMMA PushStoreStep ==
    ASSUME IInv, TypeOK', NEW p \in Procs, PushStore(p)
    PROVE  IInv'
<1> USE DEF PushStore, Step
<1>1. /\ enqueue_pos_ \in Nat /\ dequeue_pos_ \in Nat /\ Capacity \in Nat
      /\ pos \in [Procs -> Nat] /\ pc[p] = "push_store"
      /\ \A q \in Procs : pc'[q] = IF q = p THEN "push_publish" ELSE pc[q]
      /\ \A x \in Nat : desc'[Slot(x)] = IF Slot(x) = Slot(pos[p]) THEN task[p] ELSE desc[Slot(x)]
  BY CapacityAssumption, SlotFacts DEF IInv, TypeOK
<1>2. /\ \A q \in Procs : Pushing(q)' <=> Pushing(q)
      /\ \A q \in Procs : Popping(q)' <=> Popping(q)
      /\ Pushing(p)
  BY <1>1 DEF Pushing, Popping
<1>3. CursorInv'
  BY DEF IInv, CursorInv
<1>4. sequence[Slot(pos[p])] = U32(pos[p]) /\ pos[p] \in Nat /\ U32(pos[p]) # U32(pos[p] + 1)
        /\ dequeue_pos_ <= pos[p] /\ pos[p] < enqueue_pos_ /\ enqueue_pos_ <= dequeue_pos_ + Capacity
  <2>1. pos[p] \in Nat /\ pos[p] + 1 \in Nat /\ pos[p] < pos[p] + 1 /\ pos[p] + 1 < pos[p] + SeqModulus
    BY <1>1, CapacityAssumption, SeqModulusAssumption
  <2>2. U32(pos[p]) # U32(pos[p] + 1)
    BY <2>1, SequenceFacts, Zenon
  <2> QED
    BY <1>2, <2>1, <2>2 DEF IInv, PusherInv, CursorInv
<1>5. \A x \in Nat : dequeue_pos_ <= x /\ x < enqueue_pos_ /\ x # pos[p] => Slot(x) # Slot(pos[p])
  BY <1>1, <1>4, SlotFacts
<1>6. CellInv'
  <2>1. ASSUME NEW x \in dequeue_pos_ .. enqueue_pos_ - 1
        PROVE  Published(x)' \/ \E q \in Procs : Pushing(q)' /\ pos[q] = x
    <3>1. CASE x = pos[p]
      BY <1>2, <3>1
    <3>2. CASE x # pos[p]
      BY <1>1, <1>2, <1>5, <3>2 DEF IInv, CellInv, Published
    <3> QED
      BY <3>1, <3>2
  <2> QED
    BY <1>2, <2>1 DEF IInv, CellInv
<1>7. \A q \in Procs \ {p} : Pushing(q) \/ Popping(q) => Slot(pos[q]) # Slot(pos[p])
  BY <1>2, OwnedCellsDiffer
<1>8. \A q \in Procs : PusherInv(q)'
  BY <1>1, <1>2, <1>7 DEF IInv, PusherInv
<1>9. \A q \in Procs : PopperInv(q)'
  BY <1>1, <1>2, <1>7 DEF IInv, PopperInv, Published, Pushing, Popping
<1>10. OwnersDiffer'
  BY <1>2 DEF IInv, OwnersDiffer
<1>11. \A q \in Procs : ClaimInv(q)'
  BY <1>1, <1>4, <1>5 DEF IInv, ClaimInv, Published
<1> QED
  BY <1>3, <1>6, <1>8, <1>9, <1>10, <1>11 DEF IInv

\* Publishing a cell ends its pusher's claim and shows the descriptor stored.
LEMMA PushPublishStep ==
    ASSUME IInv, TypeOK', NEW p \in Procs, PushPublish(p)
    PROVE  IInv'
<1> USE DEF PushPublish, Step
<1>1. /\ enqueue_pos_ \in Nat /\ dequeue_pos_ \in Nat /\ Capacity \in Nat
      /\ pos \in [Procs -> Nat] /\ pc[p] = "push_publish"
      /\ \A q \in Procs : pc'[q] = IF q = p THEN "push_wake" ELSE pc[q]
      /\ \A x \in Nat : sequence'[Slot(x)] =
            IF Slot(x) = Slot(pos[p]) THEN U32(pos[p] + 1) ELSE sequence[Slot(x)]
  BY CapacityAssumption, SlotFacts DEF IInv, TypeOK
<1>2. /\ \A q \in Procs : Pushing(q)' <=> Pushing(q) /\ q # p
      /\ \A q \in Procs : Popping(q)' <=> Popping(q)
      /\ Pushing(p)
  BY <1>1 DEF Pushing, Popping
<1>3. CursorInv'
  BY DEF IInv, CursorInv
<1>4. /\ pos[p] \in Nat /\ dequeue_pos_ <= pos[p] /\ pos[p] < enqueue_pos_
      /\ enqueue_pos_ <= dequeue_pos_ + Capacity
      /\ desc[Slot(pos[p])] = log[pos[p] + 1]
  BY <1>1, <1>2 DEF IInv, PusherInv, CursorInv
<1>5. \A x \in Nat : /\ dequeue_pos_ <= x /\ x < dequeue_pos_ + Capacity
                     /\ x # pos[p]
                     => Slot(x) # Slot(pos[p])
  BY <1>1, <1>4, SlotFacts
<1>6. Published(pos[p])'
  BY <1>1, <1>4 DEF Published
<1>7. CellInv'
  <2>1. ASSUME NEW x \in dequeue_pos_ .. enqueue_pos_ - 1
        PROVE  Published(x)' \/ \E q \in Procs : Pushing(q)' /\ pos[q] = x
    <3>1. CASE x = pos[p]
      BY <1>6, <3>1
    <3>2. CASE x # pos[p]
      <4>1. x \in Nat /\ Slot(x) # Slot(pos[p])
        BY <1>1, <1>4, <1>5, <3>2
      <4> QED
        BY <1>1, <1>2, <3>2, <4>1 DEF IInv, CellInv, Published
    <3> QED
      BY <3>1, <3>2
  <2>2. ASSUME NEW x \in enqueue_pos_ .. dequeue_pos_ + Capacity - 1
        PROVE  \/ sequence'[Slot(x)] = U32(x)
               \/ \E q \in Procs : Popping(q)' /\ pos[q] + Capacity = x
    <3>1. x \in Nat /\ Slot(x) # Slot(pos[p])
      BY <1>1, <1>4, <1>5
    <3> QED
      BY <1>1, <1>2, <3>1 DEF IInv, CellInv
  <2> QED
    BY <2>1, <2>2 DEF CellInv
<1>8. \A q \in Procs \ {p} : Pushing(q) \/ Popping(q) => Slot(pos[q]) # Slot(pos[p])
  BY <1>2, OwnedCellsDiffer
<1>9. \A q \in Procs : PusherInv(q)'
  BY <1>1, <1>2, <1>8 DEF IInv, PusherInv
<1>10. \A q \in Procs : PopperInv(q)'
  BY <1>1, <1>2, <1>8 DEF IInv, PopperInv, Published, Pushing, Popping
<1>11. OwnersDiffer'
  BY <1>2 DEF IInv, OwnersDiffer
<1>12. \A q \in Procs : ClaimInv(q)'
  BY <1>1, <1>4, <1>5, <1>6 DEF IInv, ClaimInv, Published
<1> QED
  BY <1>3, <1>7, <1>9, <1>10, <1>11, <1>12 DEF IInv

\* Claiming the head for a pop: its cell is published, and free for the
\* position a capacity later once its popper releases it.
LEMMA PopCasStep ==
    ASSUME IInv, TypeOK', NEW p \in Procs, PopCas(p)
    PROVE  IInv'
<1> DEFINE d == dequeue_pos_
<1> USE DEF PopCas, Step
<1>1. /\ enqueue_pos_ \in Nat /\ d \in Nat /\ Capacity \in Nat
      /\ pos \in [Procs -> Nat] /\ pc[p] = "pop_cas" /\ pos[p] = d
      /\ \A q \in Procs : pc'[q] = IF q = p THEN "pop_copy" ELSE pc[q]
  BY CapacityAssumption DEF IInv, TypeOK
<1>2. /\ d < enqueue_pos_ /\ Published(d) /\ log[d + 1].worker_index = p
      /\ enqueue_pos_ <= d + Capacity
  BY <1>1 DEF IInv, ClaimInv, CursorInv
<1>3. /\ \A q \in Procs : Pushing(q)' <=> Pushing(q)
      /\ \A q \in Procs : Popping(q)' <=> Popping(q) \/ q = p
      /\ ~Popping(p) /\ ~Pushing(p)
  BY <1>1 DEF Pushing, Popping
<1>4. CursorInv'
  BY <1>1, <1>2 DEF IInv, CursorInv
<1>5. CellInv'
  <2>1. ASSUME NEW x \in d + 1 .. enqueue_pos_ - 1
        PROVE  Published(x)' \/ \E q \in Procs : Pushing(q)' /\ pos[q] = x
    BY <1>1, <1>3 DEF IInv, CellInv, Published
  <2>2. ASSUME NEW x \in enqueue_pos_ .. d + Capacity
        PROVE  \/ sequence[Slot(x)] = U32(x)
               \/ \E q \in Procs : Popping(q)' /\ pos[q] + Capacity = x
    <3>1. CASE x = d + Capacity
      BY <1>1, <1>3, <3>1
    <3>2. CASE x # d + Capacity
      BY <1>1, <1>3, <3>2 DEF IInv, CellInv
    <3> QED
      BY <3>1, <3>2
  <2> QED
    BY <1>1, <2>1, <2>2 DEF CellInv
<1>6. \A q \in Procs : Pushing(q) => pos[q] # d
  <2>1. d \in Nat /\ d + 1 \in Nat /\ d < d + 1 /\ d + 1 < d + SeqModulus
    BY <1>1, CapacityAssumption, SeqModulusAssumption
  <2>2. U32(d) # U32(d + 1)
    BY <2>1, SequenceFacts, Zenon
  <2> QED
    BY <1>2, <2>2 DEF IInv, PusherInv, Published
<1>7. \A q \in Procs : PusherInv(q)'
  BY <1>1, <1>3, <1>6 DEF IInv, PusherInv
<1>8. \A q \in Procs : PopperInv(q)'
  BY <1>1, <1>2, <1>3 DEF IInv, PopperInv, Published
<1>9. OwnersDiffer'
  BY <1>1, <1>3 DEF IInv, OwnersDiffer, PopperInv
<1>10. \A q \in Procs : ClaimInv(q)'
  BY <1>1 DEF IInv, ClaimInv, Published
<1> QED
  BY <1>4, <1>5, <1>7, <1>8, <1>9, <1>10 DEF IInv

\* Copying the claimed cell reads the descriptor that was pushed there.
LEMMA PopCopyStep ==
    ASSUME IInv, TypeOK', NEW p \in Procs, PopCopy(p)
    PROVE  IInv'
<1> USE DEF PopCopy, Step, queueVars
<1>1. /\ pc[p] = "pop_copy" /\ task'[p] = desc[Slot(pos[p])]
      /\ \A q \in Procs : pc'[q] = IF q = p THEN "pop_release" ELSE pc[q]
      /\ \A q \in Procs : q # p => task'[q] = task[q]
  BY DEF IInv, TypeOK
<1>2. /\ \A q \in Procs : Pushing(q)' <=> Pushing(q)
      /\ \A q \in Procs : Popping(q)' <=> Popping(q)
      /\ Popping(p) /\ ~Pushing(p)
  BY <1>1 DEF Pushing, Popping
<1>3. CursorInv' /\ CellInv' /\ OwnersDiffer'
  BY <1>2 DEF IInv, CursorInv, CellInv, OwnersDiffer, Published
<1>4. \A q \in Procs : PusherInv(q)' /\ PopperInv(q)'
  BY <1>1, <1>2 DEF IInv, PusherInv, PopperInv, Published
<1>5. \A q \in Procs : ClaimInv(q)'
  BY <1>1 DEF IInv, ClaimInv, Published
<1> QED
  BY <1>3, <1>4, <1>5 DEF IInv

\* Releasing a cell ends its popper's claim and frees the cell for the
\* position a capacity later, which no pusher has claimed meanwhile.
LEMMA PopReleaseStep ==
    ASSUME IInv, TypeOK', NEW p \in Procs, PopRelease(p)
    PROVE  IInv'
<1> DEFINE y == pos[p] + Capacity
<1> USE DEF PopRelease, Step
<1>1. /\ enqueue_pos_ \in Nat /\ dequeue_pos_ \in Nat /\ Capacity \in Nat /\ y \in Nat
      /\ pos \in [Procs -> Nat] /\ pc[p] = "pop_release"
      /\ \A q \in Procs : pc'[q] = IF q = p THEN "pop_wake" ELSE pc[q]
  BY CapacityAssumption DEF IInv, TypeOK
<1>slot. /\ Slot(y) = Slot(pos[p])
         /\ \A x \in Nat : Slot(x) \in Slots
         /\ \A x \in Nat : sequence'[Slot(x)] =
               IF Slot(x) = Slot(y) THEN U32(y) ELSE sequence[Slot(x)]
  <2>1. Slot(y) = Slot(pos[p])
    BY <1>1, SlotFacts
  <2>2. \A x \in Nat : Slot(x) \in Slots
    BY SlotFacts
  <2>3. sequence' = [sequence EXCEPT ![Slot(y)] = U32(y)]
    BY <2>1
  <2>4. sequence \in [Slots -> 0 .. SeqModulus - 1]
    BY DEF IInv, TypeOK
  <2> HIDE DEF y
  <2> QED
    BY <2>1, <2>2, <2>3, <2>4
<1>2. /\ \A q \in Procs : Pushing(q)' <=> Pushing(q)
      /\ \A q \in Procs : Popping(q)' <=> Popping(q) /\ q # p
      /\ Popping(p)
  BY <1>1 DEF Pushing, Popping
<1>3. CursorInv'
  BY DEF IInv, CursorInv
<1>4. enqueue_pos_ <= y /\ y < dequeue_pos_ + Capacity
  BY <1>1, <1>2 DEF IInv, PopperInv
<1>5. \A x \in Nat : /\ dequeue_pos_ <= x /\ x < dequeue_pos_ + Capacity /\ x # y
                     => Slot(x) # Slot(y)
  <2> SUFFICES ASSUME NEW x \in Nat, dequeue_pos_ <= x, x < dequeue_pos_ + Capacity, x # y
               PROVE  Slot(x) # Slot(y)
    OBVIOUS
  <2>1. x < y + Capacity /\ y < x + Capacity /\ (x < y \/ y < x)
    BY <1>1, <1>4 DEF IInv, CursorInv
  <2> HIDE DEF y
  <2> QED
    BY <1>1, <2>1, SlotFacts
<1>6. CellInv'
  <2>1. ASSUME NEW x \in dequeue_pos_ .. enqueue_pos_ - 1
        PROVE  Published(x)' \/ \E q \in Procs : Pushing(q)' /\ pos[q] = x
    <3>1. x \in Nat /\ Slot(x) # Slot(y)
      BY <1>1, <1>slot, <1>4, <1>5 DEF IInv, CursorInv
    <3> QED
      BY <1>1, <1>slot, <1>2, <3>1 DEF IInv, CellInv, Published
  <2>2. ASSUME NEW x \in enqueue_pos_ .. dequeue_pos_ + Capacity - 1
        PROVE  \/ sequence'[Slot(x)] = U32(x)
               \/ \E q \in Procs : Popping(q)' /\ pos[q] + Capacity = x
    <3>1. CASE x = y
      BY <1>1, <1>slot, <3>1
    <3>2. CASE x # y
      <4>1. x \in Nat /\ Slot(x) # Slot(y)
        BY <1>1, <1>slot, <1>5, <3>2 DEF IInv, CursorInv
      <4> QED
        BY <1>1, <1>slot, <1>2, <3>2, <4>1 DEF IInv, CellInv
    <3> QED
      BY <3>1, <3>2
  <2> QED
    BY <2>1, <2>2 DEF CellInv
<1>7. \A q \in Procs \ {p} : Pushing(q) \/ Popping(q) => Slot(pos[q]) # Slot(y)
  BY <1>1, <1>slot, <1>2, OwnedCellsDiffer
<1>8. \A q \in Procs : PusherInv(q)'
  BY <1>1, <1>slot, <1>2, <1>7 DEF IInv, PusherInv, Pushing, Popping
<1>9. \A q \in Procs : PopperInv(q)'
  BY <1>1, <1>slot, <1>2, <1>7 DEF IInv, PopperInv, Published
<1>10. OwnersDiffer'
  BY <1>2 DEF IInv, OwnersDiffer
<1>11. \A q \in Procs : ClaimInv(q)'
  BY <1>1, <1>slot, <1>4, <1>5 DEF IInv, CursorInv, ClaimInv, Published
<1> QED
  BY <1>3, <1>6, <1>8, <1>9, <1>10, <1>11 DEF IInv

\* Every step keeps the protocol of the cells.
LEMMA NextIInv == IInv /\ [Next]_vars => IInv'
<1> SUFFICES ASSUME IInv, [Next]_vars PROVE IInv'
  OBVIOUS
<1>type. TypeOK'
  BY NextTypeOK DEF IInv
<1>leader. Leader \in Procs /\ \A w \in Workers : w \in Procs
  BY DEF Procs
<1>pc. pc \in [Procs -> PushPoints \cup PopPoints \cup {"idle", "refused", "run", "wait"}]
       /\ pos \in [Procs -> Nat] /\ task \in [Procs -> Task]
       /\ enqueue_pos_ \in Nat /\ dequeue_pos_ \in Nat
  BY DEF IInv, TypeOK
<1> DEFINE Quiet(p) ==
      /\ UNCHANGED queueVars
      /\ ~Pushing(p) /\ ~Popping(p) /\ ~Pushing(p)' /\ ~Popping(p)'
      /\ \A q \in Procs \ {p} :
            pc'[q] = pc[q] /\ pos'[q] = pos[q] /\ task'[q] = task[q]
<1> USE DEF Step
<1>1. CASE Issue
  <2>1. Quiet(Leader) /\ ClaimInv(Leader)'
    BY <1>1, <1>pc, <1>leader DEF Issue, Pushing, Popping, ClaimInv
  <2> QED
    BY <2>1, <1>type, <1>leader, QuietStep
<1>2. ASSUME NEW p \in Procs, TryPush(p)
      PROVE  IInv'
  <2>1. CASE PushLoad(p)
    <3>1. Quiet(p) /\ ClaimInv(p)'
      BY <2>1, <1>pc DEF PushLoad, Pushing, Popping, ClaimInv, queueVars
    <3> QED
      BY <3>1, <1>type, QuietStep
  <2>2. CASE PushCheck(p)
    <3>1. Quiet(p)
      BY <2>2, <1>pc DEF PushCheck, Pushing, Popping
    <3>2. pos[p] <= enqueue_pos_ /\ pos'[p] = pos[p] /\ UNCHANGED queueVars
      BY <2>2 DEF PushCheck, IInv, ClaimInv
    <3>3. CASE sequence[Slot(pos[p])] = U32(pos[p])
      <4>1. pos[p] = enqueue_pos_ => enqueue_pos_ < dequeue_pos_ + Capacity
        BY <3>3, FreeCellMeansRoom
      <4>2. U32(pos[p]) \in Int
        BY SequenceFacts, <1>pc
      <4>3. pc'[p] = "push_cas"
        BY <2>2, <3>3, <4>2, <1>pc DEF PushCheck
      <4>4. ClaimInv(p)'
        BY <3>2, <3>3, <4>1, <4>3 DEF ClaimInv, queueVars
      <4> QED
        BY <3>1, <4>4, <1>type, QuietStep
    <3>4. CASE sequence[Slot(pos[p])] # U32(pos[p])
      <4>1. sequence[Slot(pos[p])] \in Int /\ U32(pos[p]) \in Int
        BY SequenceFacts, SlotFacts, <1>pc DEF IInv, TypeOK
      <4>2. pc'[p] \in {"refused", "push_load"}
        BY <2>2, <3>4, <4>1, <1>pc DEF PushCheck
      <4>3. ClaimInv(p)'
        BY <4>2 DEF ClaimInv
      <4> QED
        BY <3>1, <4>3, <1>type, QuietStep
    <3> QED
      BY <3>3, <3>4
  <2>3. CASE PushCas(p)
    BY <2>3, <1>type, PushCasStep
  <2>4. CASE PushCasFails(p)
    <3>1. Quiet(p) /\ ClaimInv(p)'
      BY <2>4, <1>pc DEF PushCasFails, Pushing, Popping, ClaimInv, queueVars
    <3> QED
      BY <3>1, <1>type, QuietStep
  <2>5. CASE PushStore(p)
    BY <2>5, <1>type, PushStoreStep
  <2>6. CASE PushPublish(p)
    BY <2>6, <1>type, PushPublishStep
  <2>7. CASE PushWake(p)
    <3>1. Quiet(p) /\ ClaimInv(p)'
      BY <2>7, <1>pc DEF PushWake, Pushing, Popping, ClaimInv
    <3> QED
      BY <3>1, <1>type, QuietStep
  <2> QED
    BY <1>2, <2>1, <2>2, <2>3, <2>4, <2>5, <2>6, <2>7 DEF TryPush
<1>3. ASSUME NEW w \in Workers, TryPopForWorker(w)
      PROVE  IInv'
  <2>w. w \in Procs
    BY <1>leader
  <2>1. CASE PopLoad(w)
    <3>1. Quiet(w) /\ ClaimInv(w)'
      BY <2>1, <2>w, <1>pc DEF PopLoad, Pushing, Popping, ClaimInv, queueVars
    <3> QED
      BY <3>1, <2>w, <1>type, QuietStep
  <2>2. CASE PopCheck(w)
    <3>1. Quiet(w)
      BY <2>2, <2>w, <1>pc DEF PopCheck, Pushing, Popping
    <3>2. pos[w] <= dequeue_pos_ /\ pos'[w] = pos[w] /\ UNCHANGED queueVars
      BY <2>2, <2>w DEF PopCheck, IInv, ClaimInv
    <3>n. pos[w] \in Nat /\ pos[w] + 1 \in Nat
      BY <2>w, <1>pc
    <3>i. sequence[Slot(pos[w])] \in Int /\ U32(pos[w] + 1) \in Int
      <4>1. U32(pos[w] + 1) \in 0 .. SeqModulus - 1
        BY <3>n, SequenceFacts, Zenon
      <4>2. sequence[Slot(pos[w])] \in 0 .. SeqModulus - 1
        BY <3>n, SlotFacts DEF IInv, TypeOK
      <4> QED
        BY <4>1, <4>2, SeqModulusAssumption
    <3>3. CASE sequence[Slot(pos[w])] = U32(pos[w] + 1)
      <4>1. pos[w] = dequeue_pos_ =>
               dequeue_pos_ < enqueue_pos_ /\ Published(dequeue_pos_)
        BY <3>3, FullCellMeansPublished
      <4>2. pc'[w] = "pop_affinity"
        BY <2>2, <2>w, <3>3, <3>i, <1>pc DEF PopCheck
      <4>3. ClaimInv(w)'
        BY <3>2, <4>1, <4>2 DEF ClaimInv, Published, queueVars
      <4> QED
        BY <3>1, <4>3, <2>w, <1>type, QuietStep
    <3>4. CASE sequence[Slot(pos[w])] # U32(pos[w] + 1)
      <4>1. pc'[w] \in {"wait", "pop_load"}
        BY <2>2, <2>w, <3>4, <3>i, <1>pc DEF PopCheck
      <4>2. ClaimInv(w)'
        BY <4>1 DEF ClaimInv
      <4> QED
        BY <3>1, <4>2, <2>w, <1>type, QuietStep
    <3> QED
      BY <3>3, <3>4
  <2>3. CASE PopAffinity(w)
    <3>1. Quiet(w) /\ pc[w] = "pop_affinity" /\ pos'[w] = pos[w]
      BY <2>3, <2>w, <1>pc DEF PopAffinity, Pushing, Popping
    <3>2. CASE desc[Slot(pos[w])].worker_index = w
      <4>1. pc'[w] = "pop_cas"
        BY <2>3, <3>2, <2>w, <1>pc DEF PopAffinity
      <4>2. ClaimInv(w)'
        BY <3>1, <3>2, <4>1, <2>w DEF IInv, ClaimInv, Published, queueVars
      <4> QED
        BY <3>1, <4>2, <2>w, <1>type, QuietStep
    <3>3. CASE desc[Slot(pos[w])].worker_index # w
      <4>1. pc'[w] = "wait"
        BY <2>3, <3>3, <2>w, <1>pc DEF PopAffinity
      <4>2. ClaimInv(w)'
        BY <4>1 DEF ClaimInv
      <4> QED
        BY <3>1, <4>2, <2>w, <1>type, QuietStep
    <3> QED
      BY <3>2, <3>3
  <2>4. CASE PopCas(w)
    BY <2>4, <2>w, <1>type, PopCasStep
  <2>5. CASE PopCasFails(w)
    <3>1. Quiet(w) /\ ClaimInv(w)'
      BY <2>5, <2>w, <1>pc DEF PopCasFails, Pushing, Popping, ClaimInv, queueVars
    <3> QED
      BY <3>1, <2>w, <1>type, QuietStep
  <2>6. CASE PopCopy(w)
    BY <2>6, <2>w, <1>type, PopCopyStep
  <2>7. CASE PopRelease(w)
    BY <2>7, <2>w, <1>type, PopReleaseStep
  <2>8. CASE PopWake(w)
    <3>1. Quiet(w) /\ ClaimInv(w)'
      BY <2>8, <2>w, <1>pc DEF PopWake, Pushing, Popping, ClaimInv
    <3> QED
      BY <3>1, <2>w, <1>type, QuietStep
  <2> QED
    BY <1>3, <2>1, <2>2, <2>3, <2>4, <2>5, <2>6, <2>7, <2>8 DEF TryPopForWorker
<1>4. ASSUME NEW w \in Workers, RunYields(w) \/ RunFinishes(w) \/ Wake(w)
      PROVE  IInv'
  <2>1. w \in Procs /\ Quiet(w) /\ ClaimInv(w)'
    BY <1>4, <1>leader, <1>pc
    DEF RunYields, RunFinishes, Wake, Pushing, Popping, ClaimInv
  <2> QED
    BY <2>1, <1>type, QuietStep
<1>5. CASE UNCHANGED vars
  BY <1>5, <1>type
  DEF vars, queueVars, IInv, CursorInv, CellInv, OwnersDiffer, PusherInv, PopperInv,
      ClaimInv, Published, Pushing, Popping
<1> QED
  BY <1>1, <1>2, <1>3, <1>4, <1>5, <1>leader
  DEF Next, LeaderStep, WorkerStep, WakeOnLatch, WakeOnTimeout

\* In every reachable state each cell is free, being filled by one pusher,
\* published, or being read by one popper, as the cursors say: the tickets of
\* TryPush and TryPopForWorker give exclusive ownership for any number of
\* processes, any capacity and any wrap of the sequence.
THEOREM CellsOwned == Spec => []IInv
<1> QED
  BY InitIInv, NextIInv, PTL DEF Spec

------------------------------------------------------------------------------
(* The queue implements AbstractTaskQueue. *)

\* The abstract queue is the part of the history between the two cursors.
LEMMA QueuedFacts ==
    ASSUME IInv
    PROVE  /\ Queued \in Seq(Task)
           /\ Len(Queued) = enqueue_pos_ - dequeue_pos_
           /\ \A i \in 1 .. enqueue_pos_ - dequeue_pos_ :
                 Queued[i] = log[dequeue_pos_ + i]
<1>1. /\ enqueue_pos_ \in Nat /\ dequeue_pos_ \in Nat /\ dequeue_pos_ <= enqueue_pos_
      /\ log \in Seq(Task) /\ Len(log) = enqueue_pos_
  BY DEF IInv, TypeOK, CursorInv
<1> QED
  BY <1>1 DEF Queued

\* A claim by a pusher appends its descriptor to the abstract queue.
LEMMA PushCasPushes ==
    ASSUME IInv, IInv', NEW p \in Procs, PushCas(p)
    PROVE  Queued' = Append(Queued, task[p])
<1>1. /\ enqueue_pos_ \in Nat /\ dequeue_pos_ \in Nat /\ dequeue_pos_ <= enqueue_pos_
      /\ log \in Seq(Task) /\ Len(log) = enqueue_pos_ /\ task[p] \in Task
      /\ enqueue_pos_' = enqueue_pos_ + 1 /\ dequeue_pos_' = dequeue_pos_
      /\ log' = Append(log, task[p])
  BY DEF IInv, TypeOK, CursorInv, PushCas
<1>2. /\ Queued \in Seq(Task) /\ Len(Queued) = enqueue_pos_ - dequeue_pos_
      /\ \A i \in 1 .. enqueue_pos_ - dequeue_pos_ :
            Queued[i] = log[dequeue_pos_ + i]
  BY QueuedFacts
<1>3. /\ Queued' \in Seq(Task) /\ Len(Queued') = enqueue_pos_ + 1 - dequeue_pos_
      /\ \A i \in 1 .. enqueue_pos_ + 1 - dequeue_pos_ :
            Queued'[i] = log'[dequeue_pos_ + i]
  BY <1>1 DEF Queued
<1>4. /\ Append(Queued, task[p]) \in Seq(Task)
      /\ Len(Append(Queued, task[p])) = enqueue_pos_ + 1 - dequeue_pos_
  BY <1>1, <1>2
<1>5. \A i \in 1 .. enqueue_pos_ + 1 - dequeue_pos_ :
         Queued'[i] = Append(Queued, task[p])[i]
  <2> SUFFICES ASSUME NEW i \in 1 .. enqueue_pos_ + 1 - dequeue_pos_
               PROVE  log'[dequeue_pos_ + i] = Append(Queued, task[p])[i]
    BY <1>3
  <2>1. CASE i = enqueue_pos_ + 1 - dequeue_pos_
    <3>1. dequeue_pos_ + i = Len(log) + 1 /\ i = Len(Queued) + 1
      BY <1>1, <1>2, <2>1
    <3>2. log'[Len(log) + 1] = task[p]
      BY <1>1
    <3>3. Append(Queued, task[p])[Len(Queued) + 1] = task[p]
      BY <1>1, <1>2
    <3> QED
      BY <3>1, <3>2, <3>3
  <2>2. CASE i \in 1 .. enqueue_pos_ - dequeue_pos_
    <3>1. dequeue_pos_ + i \in 1 .. Len(log) /\ i \in 1 .. Len(Queued)
      BY <1>1, <1>2, <2>2
    <3>2. log'[dequeue_pos_ + i] = log[dequeue_pos_ + i]
      BY <1>1, <3>1
    <3>3. Append(Queued, task[p])[i] = Queued[i]
      BY <1>1, <1>2, <3>1
    <3> QED
      BY <1>2, <2>2, <3>2, <3>3
  <2>3. i = enqueue_pos_ + 1 - dequeue_pos_ \/ i \in 1 .. enqueue_pos_ - dequeue_pos_
    BY <1>1
  <2> QED
    BY <2>1, <2>2, <2>3
<1> QED
  BY <1>3, <1>4, <1>5, SeqEqual

\* A claim by a popper takes the head of the abstract queue.
LEMMA PopCasPops ==
    ASSUME IInv, IInv', NEW p \in Procs, PopCas(p)
    PROVE  /\ Queued # << >>
           /\ Head(Queued) = log[dequeue_pos_ + 1]
           /\ Head(Queued).worker_index = p
           /\ Queued' = Tail(Queued)
<1>1. /\ enqueue_pos_ \in Nat /\ dequeue_pos_ \in Nat /\ dequeue_pos_ < enqueue_pos_
      /\ log \in Seq(Task) /\ Len(log) = enqueue_pos_
      /\ enqueue_pos_' = enqueue_pos_ /\ dequeue_pos_' = dequeue_pos_ + 1
      /\ log' = log /\ log[dequeue_pos_ + 1].worker_index = p
  BY DEF IInv, TypeOK, CursorInv, ClaimInv, PopCas, Step
<1>2. dequeue_pos_ + 1 \in 1 .. Len(log) /\ enqueue_pos_ \in dequeue_pos_ + 1 .. Len(log)
  BY <1>1
<1>3. /\ Head(Queued) = log[dequeue_pos_ + 1]
      /\ Tail(Queued) = SubSeq(log, (dequeue_pos_ + 1) + 1, enqueue_pos_)
  BY <1>1, <1>2, HeadTailOfSubSeq DEF Queued
<1>4. Queued # << >>
  BY <1>1, QueuedFacts
<1> QED
  BY <1>1, <1>3, <1>4 DEF Queued

\* A step of the abstract queue or a stutter, and what it does to the tasks done.
QueueStep ==
    \/ Fifo!Issue /\ done' = done
    \/ \E p \in Procs : Fifo!Push(p) /\ done' = done
    \/ \E w \in Workers : Fifo!Pop(w) /\ done' = done
    \/ \E w \in Workers : Fifo!Finish(w) /\ done' = done \cup {t.id : t \in Holding(w)}
    \/ UNCHANGED Fifo!vars /\ done' = done

\* A step of p that leaves the cursors, the history and the counters alone, and
\* what p answers for, is a stutter of the abstract queue.
LEMMA StutterStep ==
    ASSUME NEW p \in Procs, Holding(p)' = Holding(p),
           enqueue_pos_' = enqueue_pos_, dequeue_pos_' = dequeue_pos_, log' = log,
           issued' = issued, done' = done,
           \A q \in Procs \ {p} :
              pc'[q] = pc[q] /\ pos'[q] = pos[q] /\ task'[q] = task[q]
    PROVE  QueueStep
<1>1. Queued' = Queued
  BY DEF Queued
<1>2. \A q \in Procs : Holding(q)' = Holding(q)
  BY DEF Holding
<1> QED
  BY <1>1, <1>2 DEF QueueStep, Fifo!vars

\* Every step of the detailed queue is a step of the abstract one or a stutter:
\* pushes and pops take effect at their compare-and-swap.
LEMMA NextIsQueueStep == IInv /\ IInv' /\ [Next]_vars => QueueStep
<1> SUFFICES ASSUME IInv, IInv', [Next]_vars PROVE QueueStep
  OBVIOUS
<1> DEFINE H == [p \in Procs |-> Holding(p)]
<1>leader. Leader \in Procs /\ (\A w \in Workers : w \in Procs /\ w # Leader)
           /\ Fifo!Leader = Leader /\ Fifo!Procs = Procs
  BY WorkersAssumption DEF Procs, Leader, Fifo!Leader, Fifo!Procs
<1>pc. pc \in [Procs -> PushPoints \cup PopPoints \cup {"idle", "refused", "run", "wait"}]
       /\ pos \in [Procs -> Nat] /\ task \in [Procs -> Task]
  BY DEF IInv, TypeOK
<1> USE DEF Step
<1>1. CASE Issue
  <2>1. Queued' = Queued
    BY <1>1 DEF Issue, queueVars, Queued
  <2>2. PICK w \in Workers :
           task' = [task EXCEPT ![Leader] = [id |-> issued + 1, worker_index |-> w]]
    BY <1>1 DEF Issue
  <2>3. H[Leader] = {} /\ Holding(Leader)' = {[id |-> issued + 1, worker_index |-> w]}
    BY <1>1, <2>2, <1>pc, <1>leader DEF Issue, Holding
  <2>4. \A q \in Procs : q # Leader => Holding(q)' = Holding(q)
    BY <1>1, <2>2, <1>pc DEF Issue, Holding, queueVars
  <2>5. H' = [H EXCEPT ![Leader] = {[id |-> issued + 1, worker_index |-> w]}]
    BY <2>3, <2>4
  <2> QED
    BY <1>1, <2>1, <2>3, <2>5, <1>leader DEF Issue, Fifo!Issue, QueueStep
<1>2. ASSUME NEW p \in Procs, TryPush(p)
      PROVE  QueueStep
  <2>1. CASE PushCas(p)
    <3>1. Queued' = Append(Queued, task[p])
      BY <2>1, PushCasPushes
    <3>2. Len(Queued) < Capacity
      BY <2>1, QueuedFacts, CapacityAssumption
      DEF IInv, TypeOK, CursorInv, ClaimInv, PushCas
    <3>3. H[p] = {task[p]} /\ Holding(p)' = {}
      BY <2>1, <1>pc DEF PushCas, Holding
    <3>4. \A q \in Procs : q # p => Holding(q)' = Holding(q)
      <4> SUFFICES ASSUME NEW q \in Procs, q # p PROVE Holding(q)' = Holding(q)
        OBVIOUS
      <4>1. pc'[q] = pc[q] /\ pos'[q] = pos[q] /\ task'[q] = task[q]
        BY <2>1, <1>pc DEF PushCas
      <4>2. CASE pc[q] = "pop_copy"
        <5>1. log'[pos[q] + 1] = log[pos[q] + 1]
          <6>1. pos[q] + 1 \in 1 .. Len(log)
            BY <4>2, <1>pc DEF IInv, TypeOK, CursorInv, PopperInv, Popping
          <6> QED
            BY <2>1, <6>1, <1>pc DEF PushCas, IInv, TypeOK
        <5> QED
          BY <4>1, <4>2, <5>1 DEF Holding
      <4>3. CASE pc[q] # "pop_copy"
        BY <4>1, <4>3 DEF Holding
      <4> QED
        BY <4>2, <4>3
    <3>5. H' = [H EXCEPT ![p] = {}]
      BY <3>3, <3>4
    <3>6. \E t \in H[p] : Queued' = Append(Queued, t)
      BY <3>1, <3>3
    <3>7. UNCHANGED <<issued, done>>
      BY <2>1 DEF PushCas, clientVars
    <3>8. Fifo!Push(p)
      BY <3>2, <3>5, <3>6, <3>7 DEF Fifo!Push
    <3> QED
      BY <3>7, <3>8, <1>leader DEF QueueStep
  <2>2. CASE ~PushCas(p)
    BY <1>2, <2>2, <1>pc, StutterStep
    DEF TryPush, PushLoad, PushCheck, PushCasFails, PushStore, PushPublish, PushWake,
        Holding, queueVars, clientVars, Leader
  <2> QED
    BY <2>1, <2>2
<1>3. ASSUME NEW w \in Workers, TryPopForWorker(w)
      PROVE  QueueStep
  <2>w. w \in Procs
    BY <1>leader
  <2>1. CASE PopCas(w)
    <3>1. /\ Queued # << >> /\ Head(Queued) = log[dequeue_pos_ + 1]
          /\ Head(Queued).worker_index = w /\ Queued' = Tail(Queued)
      BY <2>1, <2>w, PopCasPops
    <3>2. H[w] = {} /\ Holding(w)' = {log[dequeue_pos_ + 1]}
      BY <2>1, <2>w, <1>pc DEF PopCas, Holding
    <3>3. \A q \in Procs : q # w => Holding(q)' = Holding(q)
      BY <2>1, <1>pc DEF PopCas, Holding
    <3>4. H' = [H EXCEPT ![w] = {Head(Queued)}]
      BY <3>1, <3>2, <3>3
    <3> QED
      BY <2>1, <2>w, <3>1, <3>2, <3>4 DEF PopCas, clientVars, Fifo!Pop, QueueStep
  <2>2. CASE PopCopy(w)
    <3>1. task'[w] = log[pos[w] + 1] /\ pc[w] = "pop_copy" /\ pc'[w] = "pop_release"
      BY <2>2, <2>w, <1>pc DEF PopCopy, IInv, PopperInv, Popping, Published
    <3>2. Holding(w)' = Holding(w)
      BY <3>1 DEF Holding
    <3> QED
      BY <2>2, <2>w, <3>2, <1>pc, StutterStep DEF PopCopy, queueVars, clientVars
  <2>3. CASE ~PopCas(w) /\ ~PopCopy(w)
    BY <1>3, <2>3, <2>w, <1>pc, StutterStep
    DEF TryPopForWorker, PopLoad, PopCheck, PopAffinity, PopCasFails, PopRelease,
        PopWake, Holding, queueVars, clientVars
  <2> QED
    BY <2>1, <2>2, <2>3
<1>4. ASSUME NEW w \in Workers, RunYields(w) \/ Wake(w)
      PROVE  QueueStep
  BY <1>4, <1>leader, <1>pc, StutterStep
  DEF RunYields, Wake, Holding, queueVars, clientVars
<1>5. ASSUME NEW w \in Workers, RunFinishes(w)
      PROVE  QueueStep
  <2>1. Queued' = Queued
    BY <1>5 DEF RunFinishes, queueVars, Queued
  <2>2. H[w] = {task[w]} /\ Holding(w)' = {}
    BY <1>5, <1>leader, <1>pc DEF RunFinishes, Holding
  <2>3. \A q \in Procs : q # w => Holding(q)' = Holding(q)
    BY <1>5, <1>pc DEF RunFinishes, Holding, queueVars
  <2>4. H' = [H EXCEPT ![w] = {}]
    BY <2>2, <2>3
  <2>5. Fifo!Finish(w)
    BY <1>5, <1>leader, <2>1, <2>2, <2>4 DEF RunFinishes, Fifo!Finish
  <2>6. done' = done \cup {t.id : t \in Holding(w)}
    BY <1>5, <1>leader, <2>2 DEF RunFinishes
  <2> QED
    BY <2>5, <2>6 DEF QueueStep
<1>6. CASE UNCHANGED vars
  BY <1>6 DEF vars, queueVars, clientVars, Fifo!vars, Queued, Holding, QueueStep
<1> QED
  BY <1>1, <1>2, <1>3, <1>4, <1>5, <1>6, <1>leader
  DEF Next, LeaderStep, WorkerStep, WakeOnLatch, WakeOnTimeout

\* So the detailed next-state relation simulates the abstract one.
LEMMA NextSimulates == IInv /\ IInv' /\ [Next]_vars => [Fifo!Next]_(Fifo!vars)
<1>1. Fifo!Procs = Procs
  BY DEF Fifo!Procs, Procs, Fifo!Leader, Leader
<1> QED
  BY <1>1, NextIsQueueStep DEF QueueStep, Fifo!Next

\* The lock-free queue implements the bounded first-in first-out queue with
\* worker affinity: no interleaving of TryPush and TryPopForWorker loses,
\* duplicates, reorders or misroutes a descriptor.
THEOREM QueueImplementsFifo == Spec => ImplementsFifo
<1>1. Init => Fifo!Init
  BY DEF Init, Fifo!Init, Queued, Holding, Procs, Fifo!Procs, Leader, Fifo!Leader
<1> QED
  BY <1>1, InitIInv, NextIInv, NextSimulates, PTL DEF Spec, ImplementsFifo, Fifo!Spec
------------------------------------------------------------------------------
(* Tasks are neither lost nor duplicated. *)

QueuedAt(id) == {i \in 1 .. Len(Queued) : Queued[i].id = id}
HeldBy(id) == {p \in Procs : \E t \in Holding(p) : t.id = id}

\* Every id in the queue or in the hands of a process was issued and is not done;
\* no id is in two places; and one that is in none is done.
TaskInv ==
    /\ done \subseteq 1 .. issued
    /\ \A i \in 1 .. Len(Queued) : Queued[i].id \in (1 .. issued) \ done
    /\ \A p \in Procs : \A t \in Holding(p) : t.id \in (1 .. issued) \ done
    /\ \A i, j \in 1 .. Len(Queued) : i # j => Queued[i].id # Queued[j].id
    /\ \A p, q \in Procs : \A t \in Holding(p), u \in Holding(q) :
          p # q => t.id # u.id
    /\ \A p \in Procs : \A t \in Holding(p) : \A i \in 1 .. Len(Queued) : t.id # Queued[i].id
    /\ \A id \in (1 .. issued) \ done : QueuedAt(id) # {} \/ HeldBy(id) # {}

\* What a process answers for is one descriptor at most.
LEMMA HoldingFacts ==
    ASSUME IInv, NEW p \in Procs
    PROVE  Holding(p) \subseteq Task /\ \A t, u \in Holding(p) : t = u
<1>1. pc[p] = "pop_copy" => log[pos[p] + 1] \in Task
  BY DEF IInv, TypeOK, CursorInv, PopperInv, Popping
<1> QED
  BY <1>1 DEF Holding, IInv, TypeOK

\* A part of the history is a sequence of descriptors.
LEMMA PartOfHistory ==
    ASSUME NEW s \in Seq(Task), NEW m \in Nat, NEW n \in Nat, n <= Len(s)
    PROVE  SubSeq(s, m + 1, n) \in Seq(Task)
BY SubSeqProperties

\* Initially there is no task.
LEMMA InitTaskInv == Init => TaskInv
BY DEF Init, TaskInv, Queued, Holding, QueuedAt, HeldBy, Procs, Leader

\* A queue step gives a new id to the leader, moves an id between a process and the
\* queue, or makes one done.
LEMMA NextTaskInv == TaskInv /\ IInv /\ IInv' /\ [Next]_vars => TaskInv'
<1> SUFFICES ASSUME TaskInv, IInv, IInv', QueueStep PROVE TaskInv'
  BY NextIsQueueStep
<1> DEFINE H == [p \in Procs |-> Holding(p)]
<1>h. \A p \in Procs : H[p] = Holding(p) /\ H'[p] = Holding(p)'
  OBVIOUS
<1>q. Queued \in Seq(Task) /\ Queued' \in Seq(Task) /\ issued \in Nat /\ issued' \in Nat
  <2>1. enqueue_pos_' \in Nat /\ dequeue_pos_' \in Nat
    BY DEF IInv, TypeOK
  <2>2. log' \in Seq(Task) /\ Len(log') = enqueue_pos_'
    BY DEF IInv, TypeOK, CursorInv
  <2>3. Len(log') \in Nat /\ enqueue_pos_' <= Len(log')
    BY <2>1, <2>2
  <2>4. Queued' \in Seq(Task)
    BY <2>1, <2>2, <2>3, PartOfHistory DEF Queued
  <2>5. issued \in Nat /\ issued' \in Nat
    BY BoundsAssumption DEF IInv, TypeOK
  <2> QED
    BY <2>4, <2>5, QueuedFacts
<1>one. \A p \in Procs : Holding(p) \subseteq Task /\ \A t, u \in Holding(p) : t = u
  BY HoldingFacts
<1>procs. Leader \in Procs /\ (\A w \in Workers : w \in Procs) /\ Fifo!Leader = Leader
  BY DEF Procs, Leader, Fifo!Leader
<1>1. CASE Fifo!Issue /\ done' = done
  <2>1. PICK w \in Workers :
           H' = [H EXCEPT ![Leader] = {[id |-> issued + 1, worker_index |-> w]}]
    BY <1>1, <1>procs DEF Fifo!Issue
  <2>2. /\ Holding(Leader) = {} /\ issued' = issued + 1 /\ Queued' = Queued
    BY <1>1, <1>procs DEF Fifo!Issue
  <2>3. Holding(Leader)' = {[id |-> issued + 1, worker_index |-> w]}
    BY <2>1, <1>h, <1>procs
  <2>4. \A p \in Procs : p # Leader => Holding(p)' = Holding(p)
    BY <2>1, <1>h
  <2>5. \A id \in (1 .. issued') \ done' : QueuedAt(id)' # {} \/ HeldBy(id)' # {}
    <3> SUFFICES ASSUME NEW id \in (1 .. issued') \ done'
                 PROVE  QueuedAt(id)' # {} \/ HeldBy(id)' # {}
      OBVIOUS
    <3>1. CASE id = issued + 1
      <4>1. \E t \in Holding(Leader)' : t.id = id
        BY <2>3, <3>1
      <4> QED
        BY <4>1, <1>procs DEF HeldBy
    <3>2. CASE id \in 1 .. issued
      <4>1. QueuedAt(id) # {} \/ HeldBy(id) # {}
        BY <3>2, <1>1 DEF TaskInv
      <4> QED
        BY <4>1, <2>2, <2>4 DEF QueuedAt, HeldBy
    <3> QED
      BY <3>1, <3>2, <2>2, <1>q
  <2> QED
    BY <2>2, <2>3, <2>4, <2>5, <1>1, <1>q, <1>procs DEF TaskInv
<1>2. ASSUME NEW p \in Procs, Fifo!Push(p) /\ done' = done
      PROVE  TaskInv'
  <2>1. PICK t \in Holding(p) : Queued' = Append(Queued, t)
    BY <1>2, <1>h DEF Fifo!Push
  <2>2. H' = [H EXCEPT ![p] = {}] /\ issued' = issued
    BY <1>2 DEF Fifo!Push
  <2>3. Holding(p) = {t} /\ Holding(p)' = {} /\ t \in Task
    BY <2>1, <2>2, <1>h, <1>one
  <2>4. \A q \in Procs : q # p => Holding(q)' = Holding(q)
    BY <2>2, <1>h
  <2>5. /\ Len(Queued') = Len(Queued) + 1 /\ Len(Queued) \in Nat
        /\ Queued'[Len(Queued) + 1] = t
        /\ \A i \in 1 .. Len(Queued) : Queued'[i] = Queued[i]
    BY <2>1, <2>3, <1>q
  <2>6. \A id \in (1 .. issued') \ done' : QueuedAt(id)' # {} \/ HeldBy(id)' # {}
    <3> SUFFICES ASSUME NEW id \in (1 .. issued) \ done
                 PROVE  QueuedAt(id)' # {} \/ HeldBy(id)' # {}
      BY <1>2, <2>2
    <3>1. CASE id = t.id
      BY <2>5, <3>1 DEF QueuedAt
    <3>2. CASE id # t.id
      <4>1. QueuedAt(id) # {} \/ HeldBy(id) # {}
        BY DEF TaskInv
      <4>2. QueuedAt(id) # {} => QueuedAt(id)' # {}
        BY <2>5 DEF QueuedAt
      <4>3. HeldBy(id) # {} => HeldBy(id)' # {}
        BY <2>3, <2>4, <3>2 DEF HeldBy
      <4> QED
        BY <4>1, <4>2, <4>3
    <3> QED
      BY <3>1, <3>2
  <2>7. \A i \in 1 .. Len(Queued') : i \in 1 .. Len(Queued) \/ i = Len(Queued) + 1
    BY <2>5
  <2>8. \A i \in 1 .. Len(Queued') : Queued'[i].id \in (1 .. issued) \ done
    BY <2>3, <2>5, <2>7 DEF TaskInv
  <2>9. \A i, j \in 1 .. Len(Queued') : i # j => Queued'[i].id # Queued'[j].id
    BY <2>3, <2>5, <2>7 DEF TaskInv
  <2>10. \A q \in Procs : \A u \in Holding(q)' : \A i \in 1 .. Len(Queued') : u.id # Queued'[i].id
    BY <2>3, <2>4, <2>5, <2>7 DEF TaskInv
  <2> QED
    BY <2>2, <2>3, <2>4, <2>6, <2>8, <2>9, <2>10, <1>2 DEF TaskInv
<1>3. ASSUME NEW w \in Workers, Fifo!Pop(w) /\ done' = done
      PROVE  TaskInv'
  <2>w. w \in Procs
    BY <1>procs
  <2>1. /\ Queued # << >> /\ Queued' = Tail(Queued) /\ issued' = issued
        /\ H' = [H EXCEPT ![w] = {Head(Queued)}] /\ Holding(w) = {}
    BY <1>3, <1>h, <2>w DEF Fifo!Pop
  <2>2. Holding(w)' = {Queued[1]} /\ 1 \in 1 .. Len(Queued)
    BY <2>1, <1>h, <1>q, <2>w
  <2>3. \A q \in Procs : q # w => Holding(q)' = Holding(q)
    BY <2>1, <1>h
  <2>4. /\ Len(Queued') = Len(Queued) - 1 /\ Len(Queued) \in Nat
        /\ \A i \in 1 .. Len(Queued') : Queued'[i] = Queued[i + 1]
    BY <2>1, <1>q
  <2>5. \A i \in 1 .. Len(Queued') : i + 1 \in 1 .. Len(Queued) /\ i + 1 # 1
    BY <2>4
  <2>6. \A id \in (1 .. issued') \ done' : QueuedAt(id)' # {} \/ HeldBy(id)' # {}
    <3> SUFFICES ASSUME NEW id \in (1 .. issued) \ done
                 PROVE  QueuedAt(id)' # {} \/ HeldBy(id)' # {}
      BY <1>3, <2>1
    <3>1. CASE id = Queued[1].id
      BY <2>2, <3>1, <2>w DEF HeldBy
    <3>2. ASSUME NEW i \in 1 .. Len(Queued), Queued[i].id = id, i # 1
          PROVE  QueuedAt(id)' # {}
      <4>1. i - 1 \in 1 .. Len(Queued')
        BY <2>4, <3>2
      <4>2. Queued'[i - 1] = Queued[i]
        BY <2>4, <4>1
      <4> QED
        BY <4>1, <4>2, <3>2 DEF QueuedAt
    <3>3. ASSUME HeldBy(id) # {} PROVE HeldBy(id)' # {}
      BY <2>1, <2>3, <3>3 DEF HeldBy
    <3>4. QueuedAt(id) # {} \/ HeldBy(id) # {}
      BY DEF TaskInv
    <3> QED
      BY <3>1, <3>2, <3>3, <3>4 DEF QueuedAt
  <2> QED
    BY <2>1, <2>2, <2>3, <2>4, <2>5, <2>6, <1>3 DEF TaskInv
<1>4. ASSUME NEW w \in Workers,
             Fifo!Finish(w) /\ done' = done \cup {t.id : t \in Holding(w)}
      PROVE  TaskInv'
  <2>w. w \in Procs
    BY <1>procs
  <2>1. /\ Queued' = Queued /\ issued' = issued
        /\ H' = [H EXCEPT ![w] = {}] /\ Holding(w) # {}
    BY <1>4, <1>h, <2>w DEF Fifo!Finish
  <2>2. PICK t \in Holding(w) : Holding(w) = {t}
    BY <2>1, <1>one, <2>w
  <2>3. Holding(w)' = {} /\ done' = done \cup {t.id}
    BY <2>1, <2>2, <1>4, <1>h, <2>w
  <2>4. \A q \in Procs : q # w => Holding(q)' = Holding(q)
    BY <2>1, <1>h
  <2>5. \A id \in (1 .. issued') \ done' : QueuedAt(id)' # {} \/ HeldBy(id)' # {}
    <3> SUFFICES ASSUME NEW id \in (1 .. issued) \ done, id # t.id
                 PROVE  QueuedAt(id)' # {} \/ HeldBy(id)' # {}
      BY <2>1, <2>3
    <3>1. QueuedAt(id) # {} \/ HeldBy(id) # {}
      BY DEF TaskInv
    <3>2. HeldBy(id) # {} => HeldBy(id)' # {}
      BY <2>2, <2>4 DEF HeldBy
    <3> QED
      BY <3>1, <3>2, <2>1 DEF QueuedAt
  <2>6. t.id \in 1 .. issued /\ \A i \in 1 .. Len(Queued) : Queued[i].id # t.id
    BY <2>w DEF TaskInv
  <2>7. \A q \in Procs : \A u \in Holding(q)' : q # w /\ u \in Holding(q) /\ u.id # t.id
    BY <2>3, <2>4, <2>w DEF TaskInv
  <2>8. done' \subseteq 1 .. issued'
    BY <2>1, <2>3, <2>6 DEF TaskInv
  <2>9. \A i \in 1 .. Len(Queued') : Queued'[i].id \in (1 .. issued') \ done'
    BY <2>1, <2>3, <2>6 DEF TaskInv
  <2>10. \A q \in Procs : \A u \in Holding(q)' : u.id \in (1 .. issued') \ done'
    BY <2>1, <2>3, <2>7 DEF TaskInv
  <2> QED
    BY <2>1, <2>5, <2>7, <2>8, <2>9, <2>10 DEF TaskInv
<1>5. CASE UNCHANGED Fifo!vars /\ done' = done
  <2>1. Queued' = Queued /\ issued' = issued /\ H' = H
    BY <1>5 DEF Fifo!vars
  <2>2. \A p \in Procs : Holding(p)' = Holding(p)
    BY <2>1, <1>h
  <2> QED
    BY <2>1, <2>2, <1>5 DEF TaskInv, QueuedAt, HeldBy
<1> QED
  BY <1>1, <1>2, <1>3, <1>4, <1>5 DEF QueueStep

\* In one place at most, and in none exactly when it is done.
LEMMA TaskInvSuffices == TaskInv /\ IInv => NoTaskLostOrDuplicated
<1> SUFFICES ASSUME TaskInv, IInv, NEW id \in 1 .. issued
             PROVE  /\ Cardinality(QueuedAt(id)) + Cardinality(HeldBy(id)) <= 1
                    /\ (QueuedAt(id) \cup HeldBy(id) = {}) <=> (id \in done)
  BY DEF NoTaskLostOrDuplicated, QueuedAt, HeldBy
<1>1. \A i, j \in QueuedAt(id) : i = j
  BY DEF TaskInv, QueuedAt
<1>2. \A p, q \in HeldBy(id) : p = q
  BY DEF TaskInv, HeldBy
<1>3. QueuedAt(id) = {} \/ HeldBy(id) = {}
  BY DEF TaskInv, QueuedAt, HeldBy
<1>4. QueuedAt(id) = {} \/ \E x : QueuedAt(id) = {x}
  BY <1>1, Zenon
<1>5. HeldBy(id) = {} \/ \E x : HeldBy(id) = {x}
  BY <1>2, Zenon
<1>6. Cardinality(QueuedAt(id)) + Cardinality(HeldBy(id)) <= 1
  <2>1. \A S : S = {} \/ (\E x : S = {x}) => Cardinality(S) \in 0 .. 1
    BY FS_EmptySet, FS_Singleton
  <2>2. Cardinality({}) = 0
    BY FS_EmptySet
  <2>3. Cardinality(QueuedAt(id)) \in 0 .. 1 /\ Cardinality(HeldBy(id)) \in 0 .. 1
    BY <2>1, <1>4, <1>5
  <2> QED
    BY <2>2, <2>3, <1>3
<1>7. id \in done => QueuedAt(id) = {} /\ HeldBy(id) = {}
  BY DEF TaskInv, QueuedAt, HeldBy
<1>8. id \notin done => QueuedAt(id) # {} \/ HeldBy(id) # {}
  BY DEF TaskInv
<1> QED
  BY <1>6, <1>7, <1>8

\* Every issued task is at every moment in the queue once, in the hands of one
\* process, or done: stale cursors and the unlocked read of worker_index in
\* TryPopForWorker never let two workers take one cell.
THEOREM TasksAreKept == Spec => []NoTaskLostOrDuplicated
<1> QED
  BY InitTaskInv, NextTaskInv, TaskInvSuffices, CellsOwned, PTL DEF Spec

------------------------------------------------------------------------------
(* Workers are woken. *)

\* Some process has moved a cursor or published a cell and has not set the latches yet.
WakerComes ==
    \E p \in Procs : pc[p] \in {"push_wake", "pop_copy", "pop_release", "pop_wake"}

\* A worker that examines a position the cursor has left behind goes to sleep or
\* looks again; until its latch is set, the popper that moved the cursor is there.
StaleInv ==
    \A w \in Workers :
        pc[w] \in {"pop_check", "pop_affinity"} /\ pos[w] < dequeue_pos_ /\ ~latch[w]
            => WakerComes

WakeInv == StaleInv /\ NoLostWakeup

\* No worker waits at the start.
LEMMA InitWakeInv == Init => WakeInv
BY DEF Init, WakeInv, StaleInv, NoLostWakeup, Procs, Leader
\* A step that clears no latch but of a worker it sends to look again, and that moves the
\* head, publishes a cell or stops the last waker only with a new waker or all latches set.
LEMMA NextWakeInv == WakeInv /\ IInv /\ IInv' /\ [Next]_vars => WakeInv'
<1> SUFFICES ASSUME WakeInv, IInv, IInv', [Next]_vars PROVE WakeInv'
  OBVIOUS
<1>leader. Leader \in Procs /\ (\A w \in Workers : w \in Procs /\ w # Leader)
  BY WorkersAssumption DEF Procs, Leader
<1>pc. pc \in [Procs -> PushPoints \cup PopPoints \cup {"idle", "refused", "run", "wait"}]
       /\ pos \in [Procs -> Nat] /\ latch \in [Workers -> BOOLEAN]
       /\ enqueue_pos_ \in Nat /\ dequeue_pos_ \in Nat
       /\ latch' \in [Workers -> BOOLEAN]
  BY DEF IInv, TypeOK
<1> DEFINE Looking(w) == pc[w] \in {"pop_check", "pop_affinity"}
           HeadFor(w) == /\ dequeue_pos_ < enqueue_pos_
                         /\ sequence[Slot(dequeue_pos_)] = U32(dequeue_pos_ + 1)
                         /\ desc[Slot(dequeue_pos_)].worker_index = w
<1>0. /\ \A w \in Workers : Looking(w) /\ pos[w] < dequeue_pos_ /\ ~latch[w] => WakerComes
      /\ \A w \in Workers : pc[w] = "wait" /\ ~latch[w] /\ HeadFor(w) => WakerComes
  BY DEF WakeInv, StaleInv, NoLostWakeup, WakerComes
<1>goal. ASSUME \A w \in Workers : Looking(w)' /\ (pos[w] < dequeue_pos_)' /\ ~latch'[w] => WakerComes',
                \A w \in Workers : pc'[w] = "wait" /\ ~latch'[w] /\ HeadFor(w)' => WakerComes'
         PROVE  WakeInv'
  BY <1>goal DEF WakeInv, StaleInv, NoLostWakeup, WakerComes
<1> USE DEF Step
<1>waker. ASSUME NEW p \in Procs,
                 pc'[p] \in {"push_wake", "pop_copy", "pop_release", "pop_wake"}
          PROVE  WakeInv'
  BY <1>goal, <1>waker DEF WakerComes
<1>latches. ASSUME latch' = [w \in Workers |-> TRUE]
            PROVE  WakeInv'
  BY <1>goal, <1>latches
<1>keeps. ASSUME NEW p \in Procs,
                 pc[p] \notin {"push_wake", "pop_copy", "pop_release", "pop_wake"},
                 \A q \in Procs : q # p => pc'[q] = pc[q]
          PROVE  WakerComes => WakerComes'
  BY <1>keeps DEF WakerComes
\* A step of a process that is no waker, touches neither queue nor latches, and does not
\* go to sleep or look at an old position without a waker.
<1>quiet. ASSUME NEW p \in Procs,
                 pc[p] \notin {"push_wake", "pop_copy", "pop_release", "pop_wake"},
                 UNCHANGED <<enqueue_pos_, dequeue_pos_, sequence, desc>>,
                 \A q \in Procs : q # p => pc'[q] = pc[q] /\ pos'[q] = pos[q],
                 \A w \in Workers : w # p => latch'[w] = latch[w],
                 p \in Workers =>
                     /\ Looking(p)' => latch'[p] = latch[p]
                     /\ Looking(p)' /\ pos'[p] < dequeue_pos_ => Looking(p) /\ pos[p] < dequeue_pos_
                     /\ pc'[p] = "wait" => latch'[p] = latch[p] /\ Looking(p) /\ pos[p] <= dequeue_pos_
                     /\ pc'[p] = "wait" /\ pos[p] = dequeue_pos_ => ~HeadFor(p)
          PROVE  WakeInv'
  <2>1. WakerComes => WakerComes'
    BY <1>keeps, <1>quiet
  <2>2. \A w \in Workers : HeadFor(w)' <=> HeadFor(w)
    BY <1>quiet
  <2>3. ASSUME NEW w \in Workers, Looking(w)', (pos[w] < dequeue_pos_)', ~latch'[w]
        PROVE  WakerComes'
    <3>1. Looking(w) /\ pos[w] < dequeue_pos_ /\ ~latch[w]
      BY <1>quiet, <1>leader, <2>3
    <3> QED
      BY <3>1, <2>1, <1>0
  <2>4. ASSUME NEW w \in Workers, pc'[w] = "wait", ~latch'[w], HeadFor(w)'
        PROVE  WakerComes'
    <3>1. CASE w # p
      BY <1>quiet, <1>leader, <2>1, <2>2, <2>4, <3>1, <1>0
    <3>2. CASE w = p
      <4>1. ~latch[w] /\ Looking(w) /\ pos[w] < dequeue_pos_
        BY <1>quiet, <2>2, <2>4, <3>2, <1>pc, <1>leader
      <4> QED
        BY <4>1, <2>1, <1>0
    <3> QED
      BY <3>1, <3>2
  <2> QED
    BY <2>3, <2>4, <1>goal
<1>1. CASE Issue
  BY <1>1, <1>pc, <1>leader, <1>quiet DEF Issue, queueVars
<1>2. ASSUME NEW p \in Procs, TryPush(p)
      PROVE  WakeInv'
  <2>1. CASE PushLoad(p) \/ PushCasFails(p)
    BY <2>1, <1>pc, <1>quiet DEF PushLoad, PushCasFails, queueVars, clientVars
  <2>2. CASE PushCheck(p)
    BY <2>2, <1>pc, <1>quiet DEF PushCheck, queueVars, clientVars
  <2>3. CASE PushCas(p) \/ PushStore(p)
    <3>1. /\ pc[p] \in {"push_cas", "push_store"} /\ pc'[p] \in {"push_store", "push_publish"}
          /\ dequeue_pos_' = dequeue_pos_ /\ sequence' = sequence /\ latch' = latch /\ pos' = pos
          /\ \A q \in Procs : q # p => pc'[q] = pc[q]
      BY <2>3, <1>pc DEF PushCas, PushStore, clientVars
    <3>2. WakerComes => WakerComes'
      BY <3>1, <1>keeps
    <3>3. pos[p] = dequeue_pos_ => sequence[Slot(dequeue_pos_)] # U32(dequeue_pos_ + 1)
      <4>1. pos[p] = dequeue_pos_ => sequence'[Slot(dequeue_pos_)] = U32(dequeue_pos_)
        BY <3>1 DEF IInv, PusherInv, Pushing
      <4>2. U32(dequeue_pos_) # U32(dequeue_pos_ + 1)
        BY <1>pc, SequenceFacts, CapacityAssumption, SeqModulusAssumption
      <4> QED
        BY <3>1, <4>1, <4>2
    <3>4. \A w \in Workers : HeadFor(w)' => HeadFor(w)
      <4>1. CASE PushCas(p)
        <5>1. dequeue_pos_ <= enqueue_pos_ /\ pos[p] = enqueue_pos_
          BY <4>1 DEF PushCas, IInv, CursorInv
        <5> QED
          BY <5>1, <3>3, <4>1, <1>pc DEF PushCas
      <4>2. CASE PushStore(p)
        <5>1. dequeue_pos_ <= pos[p] /\ pos[p] < enqueue_pos_ /\ enqueue_pos_ <= dequeue_pos_ + Capacity
          BY <4>2 DEF PushStore, IInv, PusherInv, Pushing, CursorInv
        <5>2. pos[p] # dequeue_pos_ => Slot(pos[p]) # Slot(dequeue_pos_)
          BY <5>1, <1>pc, SlotFacts, CapacityAssumption
        <5>3. desc' = [desc EXCEPT ![Slot(pos[p])] = task[p]] /\ enqueue_pos_' = enqueue_pos_
          BY <4>2 DEF PushStore
        <5>4. pos[p] # dequeue_pos_ => desc'[Slot(dequeue_pos_)] = desc[Slot(dequeue_pos_)]
          BY <5>2, <5>3 DEF IInv, TypeOK
        <5> QED
          BY <5>3, <5>4, <3>1, <3>3
      <4> QED
        BY <2>3, <4>1, <4>2
    <3> QED
      BY <3>1, <3>2, <3>4, <1>0, <1>goal, <1>leader
  <2>4. CASE PushPublish(p)
    BY <2>4, <1>pc, <1>waker DEF PushPublish
  <2>5. CASE PushWake(p)
    BY <2>5, <1>latches DEF PushWake, WakeRegisteredWorkers
  <2> QED
    BY <1>2, <2>1, <2>2, <2>3, <2>4, <2>5 DEF TryPush
<1>3. ASSUME NEW w \in Workers, TryPopForWorker(w)
      PROVE  WakeInv'
  <2>w. w \in Procs
    BY <1>leader
  <2>1. CASE PopLoad(w) \/ PopCasFails(w)
    BY <2>1, <2>w, <1>pc, <1>quiet DEF PopLoad, PopCasFails, queueVars, clientVars
  <2>2. CASE PopCheck(w)
    <3>1. /\ pc[w] = "pop_check" /\ pos[w] <= dequeue_pos_ /\ pos' = pos /\ latch' = latch
          /\ UNCHANGED <<enqueue_pos_, dequeue_pos_, sequence, desc>>
          /\ \A q \in Procs : q # w => pc'[q] = pc[q]
      BY <2>2, <2>w, <1>pc DEF PopCheck, queueVars, clientVars, IInv, ClaimInv
    <3>2. pc'[w] = "wait" /\ pos[w] = dequeue_pos_ =>
             sequence[Slot(dequeue_pos_)] # U32(dequeue_pos_ + 1)
      <4>1. pos[w] + 1 \in Nat
        BY <2>w, <1>pc
      <4>2. U32(pos[w] + 1) \in 0 .. SeqModulus - 1
        BY <4>1, SequenceFacts, Zenon
      <4>3. U32(pos[w] + 1) \in Int
        BY <4>2, SeqModulusAssumption
      <4>4. pc'[w] = "wait" => sequence[Slot(pos[w])] - U32(pos[w] + 1) < 0
        BY <2>2, <2>w, <1>pc DEF PopCheck
      <4> QED
        BY <4>3, <4>4
    <3> QED
      BY <3>1, <3>2, <2>w, <1>quiet
  <2>3. CASE PopAffinity(w)
    <3>1. /\ pc[w] = "pop_affinity" /\ pos[w] <= dequeue_pos_ /\ pos' = pos /\ latch' = latch
          /\ UNCHANGED <<enqueue_pos_, dequeue_pos_, sequence, desc>>
          /\ \A q \in Procs : q # w => pc'[q] = pc[q]
      BY <2>3, <2>w, <1>pc DEF PopAffinity, queueVars, clientVars, IInv, ClaimInv
    <3>2. /\ pc'[w] \in {"wait", "pop_cas"}
          /\ pc'[w] = "wait" => desc[Slot(pos[w])].worker_index # w
      BY <2>3, <2>w, <1>pc DEF PopAffinity
    <3> QED
      BY <3>1, <3>2, <2>w, <1>quiet
  <2>4. CASE PopCas(w) \/ PopCopy(w) \/ PopRelease(w)
    BY <2>4, <2>w, <1>pc, <1>waker DEF PopCas, PopCopy, PopRelease
  <2>5. CASE PopWake(w)
    BY <2>5, <1>latches DEF PopWake, WakeRegisteredWorkers
  <2> QED
    BY <1>3, <2>1, <2>2, <2>3, <2>4, <2>5 DEF TryPopForWorker
<1>4. ASSUME NEW w \in Workers, RunYields(w) \/ RunFinishes(w) \/ Wake(w)
      PROVE  WakeInv'
  BY <1>4, <1>leader, <1>pc, <1>quiet DEF RunYields, RunFinishes, Wake, queueVars
<1>5. CASE UNCHANGED vars
  BY <1>5 DEF vars, queueVars, clientVars, WakeInv, StaleInv, NoLostWakeup, WakerComes
<1> QED
  BY <1>1, <1>2, <1>3, <1>4, <1>5, <1>leader
  DEF Next, LeaderStep, WorkerStep, WakeOnLatch, WakeOnTimeout

\* No worker sleeps on while the head of the queue is published and addressed to it and
\* nobody is about to set its latch: the wakes of TryPush and TryPopForWorker suffice, for
\* any number of workers and without the timeout of WaitLatch.
THEOREM WorkersAreWoken == Spec => []NoLostWakeup
<1>1. WakeInv => NoLostWakeup
  BY DEF WakeInv
<1> QED
  BY <1>1, InitWakeInv, NextWakeInv, CellsOwned, PTL DEF Spec
==============================================================================
