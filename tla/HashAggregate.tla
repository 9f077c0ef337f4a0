---------------------------- MODULE HashAggregate ----------------------------
(****************************************************************************)
(* Hash aggregation: every worker groups the rows it sinks into partitions   *)
(* of its own, one COMBINE task per partition merges what the workers have,  *)
(* FINALIZE publishes the partitions, and one cursor reads them              *)
(* (physical_hash_aggregate.cpp, aggregate_hash_table.cpp).  The variant for *)
(* a single CHAR(1) group column keeps an array of row indices instead of a  *)
(* hash table and merges in one COMBINE task                                 *)
(* (physical_perfect_hash_aggregate.cpp).                                    *)
(*                                                                          *)
(* A store is a TupleDataCollection with its hash table: the group and the   *)
(* aggregate of every row, the rows it has room for, and a slot array with   *)
(* the index of a row or 0.  An aggregate is the bag of input rows <<worker, *)
(* position>> that went into it, which every aggregate function can be       *)
(* computed from; a slot's salt is the one of its row's group.               *)
(****************************************************************************)
EXTENDS Integers, FiniteSetsExt, SequencesExt

CONSTANTS
    AggWorkers,      \* 1 .. n
    AggCases,        \* [kind, input]: the operator and the groups of each worker's chunks
    Hash,            \* of a group: [partition, slot, step, salt], each a field of the hash
    Partitions,      \* HashAggChoosePartitionCount
    Lanes,           \* ProbeVector::kWidth
    MinRows,         \* rows a store has room for at first, PartitionRowCapacity
    MinSlots,        \* kMinCapacity
    MaxSlots,        \* kMaxCapacity
    EmitSize         \* PIPELINE_DEFAULT_CHUNK_SIZE

AllRows == "all"     \* the one group of an aggregate without group columns

\* The step of a probe is odd (ProbeStep), and the smallest table is not above the cap.
ASSUME AggregateSizes ==
    /\ IsFiniteSet(AggWorkers) /\ AggWorkers # {} /\ AggWorkers = 1 .. Cardinality(AggWorkers)
    /\ {Partitions, Lanes, MinRows, MinSlots, MaxSlots, EmitSize} \subseteq Nat \ {0}
ASSUME HashAssumption ==
    /\ AllRows \in DOMAIN Hash
    /\ \A g \in DOMAIN Hash :
        /\ Hash[g].partition \in 1 .. Partitions
        /\ Hash[g].slot \in Nat /\ Hash[g].step \in Nat /\ Hash[g].step % 2 = 1
ASSUME CasesAssumption ==
    AggCases \subseteq [kind : {"hash", "single", "perfect"},
                        input : [AggWorkers -> Seq(Seq(DOMAIN Hash))]]

VARIABLES
    agg,             \* the case: [kind, input]
    worker,          \* of each: [pc, chunk, partition, active, deferred, at, canonical]
    stores,          \* local_partitions of each worker
    global,          \* the shared partitions
    merge,           \* of each COMBINE task: [slot, row], the local row it is at
    reader,          \* the cursor of GetData: rows passed
    groups_out          \* rows put out

aggregateVars == <<agg, worker, stores, global, merge, reader, groups_out>>

NoEntry == 0         \* AHT_EMPTY_ENTRY_VALUE

IsHash == agg.kind = "hash"
PartitionIds == 1 .. (IF IsHash THEN Partitions ELSE 1)
GroupOf(w, c, i) == IF agg.kind = "single" THEN AllRows ELSE agg.input[w][c][i]
GroupsOfChunk(w) ==
    [i \in DOMAIN agg.input[w][worker[w].chunk] |-> GroupOf(w, worker[w].chunk, i)]

------------------------------------------------------------------------------
(* The hash table. *)

TwoTo[k \in Nat] == IF k = 0 THEN 1 ELSE 2 * TwoTo[k - 1]

\* A number doubled until it is enough.
Doubled(from, enough) == Min({n \in {from * TwoTo[k] : k \in 0 .. enough} : n >= enough})

\* 1.5 slots per row and one more, rounded up to a power of two.
ChooseCapacity(rows) ==
    Doubled(1, Min({Max({rows + (rows \div 2) + 1, MinSlots}), MaxSlots}))

EmptySlots(n) == [s \in 0 .. n - 1 |-> NoEntry]
NewStore == [groups |-> <<>>, aggs |-> <<>>, room |-> MinRows,
             slots |-> EmptySlots(ChooseCapacity(MinRows))]
SlotCount(store) == Cardinality(DOMAIN store.slots)

\* The slot, of n, a group is looked for at after `tries` misses.
SlotAt(n, group, tries) == (Hash[group].slot + tries * Hash[group].step) % n

\* Is the row of this group?  The salts are compared first.
SameGroup(groups, row, group) ==
    Hash[groups[row]].salt = Hash[group].salt /\ groups[row] = group

\* Rehash puts every row into the first empty slot of its group.
FirstFree(slots, n, group) ==
    SlotAt(n, group, Min({t \in 0 .. n - 1 : slots[SlotAt(n, group, t)] = NoEntry}))
Rehash(groups, n) ==
    LET filled[r \in 0 .. Len(groups)] ==
            IF r = 0 THEN EmptySlots(n)
            ELSE [filled[r - 1] EXCEPT ![FirstFree(filled[r - 1], n, groups[r])] = r]
    IN  filled[Len(groups)]

\* Twice the slots once two thirds of them are taken.
Resize(store) ==
    IF Len(store.groups) * 3 >= SlotCount(store) * 2
    THEN [store EXCEPT !.slots = Rehash(store.groups, 2 * SlotCount(store))]
    ELSE store

\* The room is doubled until n more rows fit; then there is a new table for it, unless it
\* has too few slots: that is an ERROR, which ends the query, so there is no next step.
RoomFor(store, n) == Doubled(store.room, Len(store.groups) + n)
MayGrow(store, n) ==
    RoomFor(store, n) = store.room \/ Len(store.groups) <= ChooseCapacity(RoomFor(store, n))
Grow(store, n) ==
    IF RoomFor(store, n) = store.room THEN store
    ELSE [store EXCEPT !.room = RoomFor(store, n),
                       !.slots = Rehash(store.groups, ChooseCapacity(RoomFor(store, n)))]

\* A new row of a group, at its slot.
AddRow(store, group, slot) ==
    [store EXCEPT !.groups = Append(@, group), !.aggs = Append(@, EmptyBag),
                  !.slots[slot] = Len(store.groups) + 1]

------------------------------------------------------------------------------
(* SinkChunk. *)

StartOfChunk == [pc |-> "sink", chunk |-> 1, partition |-> 1, active |-> <<>>, deferred |-> <<>>,
         at |-> <<>>, canonical |-> <<>>]

AggregateInit ==
    /\ agg \in AggCases
    /\ worker = [w \in AggWorkers |-> StartOfChunk]
    /\ stores = [w \in AggWorkers |-> [p \in PartitionIds |-> NewStore]]
    /\ global = [p \in PartitionIds |-> NewStore]
    /\ merge = [p \in PartitionIds |-> [slot |-> 1, row |-> 1]]
    /\ reader = 0
    /\ groups_out = <<>>

\* UpdateAggregatesGather: every row of the chunk goes into its group's row.
Updated(partitions, w, chunk, canonical) ==
    LET Rows(p, r) == {<<w, chunk, i>> : i \in {j \in DOMAIN canonical : canonical[j] = <<p, r>>}}
    IN  [p \in DOMAIN partitions |-> [partitions[p] EXCEPT !.aggs =
            [r \in DOMAIN @ |-> @[r] (+) SetToBag(Rows(p, r))]]]

NextChunk(w) ==
    worker' = [worker EXCEPT ![w] = [StartOfChunk EXCEPT !.chunk = worker[w].chunk + 1]]

\* Without group columns there is one row, appended for the first chunk; with one CHAR(1)
\* column an array says which row a value has.
WithGroups(groups, new) ==
    LET seen[i \in 0 .. Len(new)] ==
            IF i = 0 THEN groups
            ELSE IF Contains(seen[i - 1], new[i]) THEN seen[i - 1]
            ELSE Append(seen[i - 1], new[i])
    IN  seen[Len(new)]
RowOf(groups, group) == CHOOSE r \in DOMAIN groups : groups[r] = group

SinkDirect(w) ==
    LET new == GroupsOfChunk(w)
        groups == WithGroups(stores[w][1].groups, new)
        with_rows == [stores[w] EXCEPT ![1].groups = groups,
                        ![1].aggs = [r \in DOMAIN groups |->
                                        IF r \in DOMAIN @ THEN @[r] ELSE EmptyBag]]
    IN  /\ ~IsHash /\ worker[w].pc = "sink" /\ worker[w].chunk <= Len(agg.input[w])
        /\ stores' = [stores EXCEPT ![w] = Updated(with_rows, w, worker[w].chunk,
                [i \in DOMAIN new |-> <<1, RowOf(groups, new[i])>>])]
        /\ NextChunk(w)
        /\ UNCHANGED <<agg, global, merge, reader, groups_out>>

\* The rows of the chunk that belong to a partition are looked up as a batch, for which
\* the store must have room.
RowsOfPartition(groups, p) ==
    LET rows[i \in 0 .. Len(groups)] ==
            IF i = 0 THEN <<>>
            ELSE IF Hash[groups[i]].partition = p THEN Append(rows[i - 1], i) ELSE rows[i - 1]
    IN  rows[Len(groups)]

StartPartition(w) ==
    LET p == worker[w].partition
        rows == RowsOfPartition(GroupsOfChunk(w), p)
    IN  /\ IsHash /\ worker[w].pc = "sink"
        /\ worker[w].chunk <= Len(agg.input[w]) /\ p <= Partitions
        /\ IF rows = <<>>
           THEN worker' = [worker EXCEPT ![w].partition = p + 1] /\ UNCHANGED stores
           ELSE /\ MayGrow(stores[w][p], Len(rows))
                /\ stores' = [stores EXCEPT ![w][p] = Grow(@, Len(rows))]
                /\ worker' = [worker EXCEPT ![w].pc = "probe", ![w].active = rows,
                                ![w].at = [i \in Range(rows) |-> 0]]
        /\ UNCHANGED <<agg, global, merge, reader, groups_out>>

\* One row of a vector: the entries were all read before the first row was handled, so an
\* entry read as empty is looked at again.  The result has the store, the rows answered,
\* and the rows that move to their next slot, salts that differ before groups that differ.
IsFree(slot_now, slot_read) == slot_now = NoEntry
IsFreeAsRead(slot_now, slot_read) == slot_read = NoEntry
Free(slot_now, slot_read) == IsFree(slot_now, slot_read)

WithAnswer(found, i, row) == [j \in DOMAIN found \cup {i} |-> IF j = i THEN row ELSE found[j]]

ProbeLane(state, read, group, tries, i) ==
    LET slot == SlotAt(SlotCount(state.store), group, tries)
        row == state.store.slots[slot]
    IN  IF Free(row, read[slot])
        THEN [state EXCEPT !.store = AddRow(@, group, slot),
                           !.found = WithAnswer(@, i, Len(state.store.groups) + 1)]
        ELSE IF SameGroup(state.store.groups, row, group)
        THEN [state EXCEPT !.found = WithAnswer(@, i, row)]
        ELSE IF Hash[state.store.groups[row]].salt = Hash[group].salt
        THEN [state EXCEPT !.unequal = Append(@, i)]
        ELSE [state EXCEPT !.missed = Append(@, i)]

\* The vector of these rows of a chunk with these groups, after `at` tries of each.
Probed(store, vector, groups, at) ==
    LET after[k \in 0 .. Len(vector)] ==
            IF k = 0 THEN [store |-> store, found |-> <<>>, missed |-> <<>>, unequal |-> <<>>]
            ELSE ProbeLane(after[k - 1], store.slots, groups[vector[k]], at[vector[k]], vector[k])
    IN  after[Len(vector)]

\* FindOrInsertBatch takes the next vector of rows; the rows that have to look further
\* form the next round.  A row that has looked at every slot is an ERROR, as above.
ProbeVector(w) ==
    LET p == worker[w].partition
        vector == SubSeq(worker[w].active, 1, Min({Lanes, Len(worker[w].active)}))
        rest == SubSeq(worker[w].active, Len(vector) + 1, Len(worker[w].active))
        after == Probed(stores[w][p], vector, GroupsOfChunk(w), worker[w].at)
        further == after.missed \o after.unequal
        deferred == worker[w].deferred \o further
        at == [i \in DOMAIN worker[w].at |->
                  IF i \in Range(further) THEN worker[w].at[i] + 1 ELSE worker[w].at[i]]
        canonical == [i \in DOMAIN worker[w].canonical \cup DOMAIN after.found |->
                         IF i \in DOMAIN after.found THEN <<p, after.found[i]>>
                         ELSE worker[w].canonical[i]]
    IN  /\ worker[w].pc = "probe" /\ worker[w].active # <<>>
        /\ \A i \in Range(vector) : worker[w].at[i] < SlotCount(stores[w][p])
        /\ stores' = [stores EXCEPT ![w][p] = after.store]
        /\ worker' = [worker EXCEPT
                ![w].active = IF rest = <<>> THEN deferred ELSE rest,
                ![w].deferred = IF rest = <<>> THEN <<>> ELSE deferred,
                ![w].at = at, ![w].canonical = canonical]
        /\ UNCHANGED <<agg, global, merge, reader, groups_out>>

\* All rows of the batch have an answer: resize if the table is full enough, go on.
EndPartition(w) ==
    /\ worker[w].pc = "probe" /\ worker[w].active = <<>>
    /\ stores' = [stores EXCEPT ![w][worker[w].partition] = Resize(@)]
    /\ worker' = [worker EXCEPT ![w].pc = "sink", ![w].partition = @ + 1, ![w].at = <<>>]
    /\ UNCHANGED <<agg, global, merge, reader, groups_out>>

\* When every partition has been looked up, the aggregates of the chunk are updated at the
\* row indices found, although the tables may have moved in between.
UpdateAggregates(w) ==
    /\ IsHash /\ worker[w].pc = "sink" /\ worker[w].partition > Partitions
    /\ stores' = [stores EXCEPT ![w] = Updated(@, w, worker[w].chunk, worker[w].canonical)]
    /\ NextChunk(w)
    /\ UNCHANGED <<agg, global, merge, reader, groups_out>>

------------------------------------------------------------------------------
(* Combine, Finalize, GetData. *)

\* The order of the events (PipelineRuntime): every RUN task before every COMBINE task.
SinkDone == \A w \in AggWorkers : worker[w].chunk > Len(agg.input[w])

\* The tries at which probing for a group ends, and the slot it ends at.
Ends(store, group) ==
    LET Entry(t) == store.slots[SlotAt(SlotCount(store), group, t)]
    IN  {t \in 0 .. SlotCount(store) - 1 :
            Entry(t) = NoEntry \/ SameGroup(store.groups, Entry(t), group)}
Lookup(store, group) == SlotAt(SlotCount(store), group, Min(Ends(store, group)))

\* CombineRow: a local row is added to the row of its group, or becomes one.
MayAbsorb(store, group) == MayGrow(store, 1) /\ Ends(Grow(store, 1), group) # {}
Absorb(store, group, bag) ==
    LET grown == Grow(store, 1)
        slot == Lookup(grown, group)
        with_row == IF grown.slots[slot] # NoEntry THEN grown ELSE AddRow(grown, group, slot)
    IN  Resize([with_row EXCEPT !.aggs[with_row.slots[slot]] = @ (+) bag])

\* The same for the array of row indices.
AbsorbDirect(store, group, bag) ==
    IF Contains(store.groups, group)
    THEN [store EXCEPT !.aggs[RowOf(store.groups, group)] = @ (+) bag]
    ELSE [store EXCEPT !.groups = Append(@, group), !.aggs = Append(@, bag)]

\* The workers whose local rows a COMBINE task reads: of the registry all, of a task that
\* has a local sink state (the one of PERFECT_HASH_AGGREGATE has) only its own.
CombinedWorkers == IF agg.kind = "perfect" THEN {1} ELSE AggWorkers
CombinedButLast == {1}
MergeSources == CombinedWorkers

MergeDone(p) == merge[p].slot \notin MergeSources

\* The task of partition p reads its next local row, or goes to the next worker.
CombineRow(p) ==
    LET from == stores[merge[p].slot][p]
        r == merge[p].row
    IN  /\ SinkDone /\ ~MergeDone(p) /\ r <= Len(from.groups)
        /\ agg.kind = "perfect" \/ MayAbsorb(global[p], from.groups[r])
        /\ global' = [global EXCEPT ![p] =
                IF agg.kind = "perfect" THEN AbsorbDirect(@, from.groups[r], from.aggs[r])
                ELSE Absorb(@, from.groups[r], from.aggs[r])]
        /\ merge' = [merge EXCEPT ![p].row = r + 1]
        /\ UNCHANGED <<agg, worker, stores, reader, groups_out>>
CombineNextWorker(p) ==
    /\ SinkDone /\ ~MergeDone(p) /\ merge[p].row > Len(stores[merge[p].slot][p].groups)
    /\ merge' = [merge EXCEPT ![p] = [slot |-> @.slot + 1, row |-> 1]]
    /\ UNCHANGED <<agg, worker, stores, global, reader, groups_out>>

\* Finalize has no effect but to let the source read.
Finalized == SinkDone /\ \A p \in PartitionIds : MergeDone(p)

\* The rows of the result in the order of the cursor: partition after partition.
Result == FlattenSeq([p \in PartitionIds |->
    [r \in DOMAIN global[p].groups |->
        [group |-> global[p].groups[r], rows |-> global[p].aggs[r]]]])

\* GetData: the next chunk of rows.
ReadGroups ==
    LET chunk == SubSeq(Result, reader + 1, Min({reader + EmitSize, Len(Result)}))
    IN  /\ Finalized /\ reader < Len(Result)
        /\ groups_out' = groups_out \o chunk
        /\ reader' = reader + Len(chunk)
        /\ UNCHANGED <<agg, worker, stores, global, merge>>

SinkStep(w) ==
    \/ SinkDirect(w)
    \/ StartPartition(w)
    \/ ProbeVector(w)
    \/ EndPartition(w)
    \/ UpdateAggregates(w)

AggregateNext ==
    \/ \E w \in AggWorkers : SinkStep(w)
    \/ \E p \in PartitionIds : CombineRow(p) \/ CombineNextWorker(p)
    \/ ReadGroups

AggregateSpec == AggregateInit /\ [][AggregateNext]_aggregateVars

------------------------------------------------------------------------------
InputRows ==
    UNION {UNION {{<<w, c, i>> : i \in DOMAIN agg.input[w][c]} : c \in DOMAIN agg.input[w]} :
               w \in AggWorkers}
Groups == IF agg.kind = "single" THEN {AllRows}
          ELSE {GroupOf(x[1], x[2], x[3]) : x \in InputRows}
Read == Finalized /\ reader = Len(Result)
AllStores == {global[p] : p \in PartitionIds} \cup
             UNION {{stores[w][p] : p \in PartitionIds} : w \in AggWorkers}

\* Stores are consistent: a table has a slot for each row, and a slot holds a row.
AggregateTypeOK ==
    /\ \A w \in AggWorkers :
        /\ worker[w].pc \in {"sink", "probe"}
        /\ worker[w].partition \in 1 .. Partitions + 1
        /\ Range(worker[w].active \o worker[w].deferred) \subseteq DOMAIN worker[w].at
    /\ \A s \in AllStores :
        /\ Len(s.aggs) = Len(s.groups)
        /\ \A g \in DOMAIN s.slots : s.slots[g] \in 0 .. Len(s.groups)
        /\ IsHash => Len(s.groups) <= s.room /\ Len(s.groups) <= SlotCount(s)

\* Every group of a store has one row, which probing finds: rows of the same new group in
\* one vector share it, and neither a resize nor a growth loses or doubles it
\* (AggregateHashTableFindOrInsertBatch, AggregateHashTableRehash).
GroupsAreFound ==
    \A s \in AllStores :
        /\ IsInjective(s.groups)
        /\ IsHash => \A r \in DOMAIN s.groups : s.slots[Lookup(s, s.groups[r])] = r

\* When everything is read, every group was put out once, made of each of its input rows
\* once, whichever worker sank it (PhysicalHashAggregate, PhysicalPerfectHashAggregate).
AggregateIsExact ==
    Read =>
        /\ Len(groups_out) = Cardinality(Groups)
        /\ \A g \in Groups : \E i \in DOMAIN groups_out :
            /\ groups_out[i].group = g
            /\ groups_out[i].rows = SetToBag({x \in InputRows : GroupOf(x[1], x[2], x[3]) = g})
=============================================================================
