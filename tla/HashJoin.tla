------------------------------ MODULE HashJoin ------------------------------
(****************************************************************************)
(* A hash join: every worker keeps the build rows it sinks in stores of its  *)
(* own, the COMBINE tasks merge them into one shared hash table, FINALIZE    *)
(* publishes it, a consumer probes it chunk by chunk, and the leader frees it *)
(* (physical_hash_join.cpp, _combine.cpp, _fast_probe.cpp).                  *)
(*                                                                          *)
(* A key is a pair <<first, rest>> of column values; 0 is the zero value of a *)
(* type.  A build row is known by <<worker, position>>; row stores hold no   *)
(* NULLs (tuple_data_layout.hpp).                                            *)
(****************************************************************************)
EXTENDS Integers, FiniteSetsExt, SequencesExt

CONSTANTS
    Workers,       \* 1 .. n
    Layouts,       \* the joins considered, see `join`
    Inputs,        \* build input: functions from Workers to sequences of keys
    Chunks,        \* probe input: a sequence of chunks, each a sequence of keys
    ChunkSize,     \* PIPELINE_DEFAULT_CHUNK_SIZE, not 0
    BatchSize      \* rows appended while the spin lock is held, not 0

Modes == {"INNER", "LEFT", "SEMI", "ANTI"}
Keys == Nat \X Nat

ASSUME WorkersAssumption == IsFiniteSet(Workers) /\ Workers = 1 .. Cardinality(Workers)
ASSUME SizesAssumption == ChunkSize \in Nat \ {0} /\ BatchSize \in Nat \ {0}
ASSUME RowsAssumption == Inputs \subseteq [Workers -> Seq(Keys)] /\ Chunks \in Seq(Seq(Keys))

\* Layouts that are equal agree on strings.
ASSUME LayoutsAssumption ==
    Layouts \subseteq
        {j \in [mode : Modes, equal : BOOLEAN, key_strings : BOOLEAN, payload_strings : BOOLEAN,
                refs_right : BOOLEAN, filtered : BOOLEAN, capacity : Nat \ {0}] :
            j.equal => j.key_strings = j.payload_strings}

VARIABLES
    \* The plan: match mode; are key and payload layout equal; STRING_REF columns among
    \* the keys, among the payload; RIGHT output columns; residual filter; rows the global
    \* stores have room for at first.
    join,
    input,         \* build rows of each worker
    pc,            \* of each worker
    local,         \* its row stores: [capacity, count]; a worker sinks input[w] in order
    registry,      \* local_build_registry: [capacity, row_count, offset]
    payload,       \* HashJoinSharedPayload, the scalar fields
    table,         \* global rows and hash table
    link,          \* each worker's place in LinkPrecomputedJoinHashes or the batch loop
    live,          \* allocations in the DSA
    probe,         \* the prober and its cursor
    out, emitted   \* its output chunk, and all rows it has put out

vars == <<join, input, pc, local, registry, payload, table, link, live, probe, out, emitted>>
buildVars == <<join, input, pc, local, registry, payload, table, link>>
probeVars == <<probe, out, emitted>>

None == 0            \* no row
NoRow == [key |-> <<0, 0>>, id |-> <<0, 0>>]   \* a zeroed row, or no build row

------------------------------------------------------------------------------
(* What GetGlobalSinkState decides. *)

can_share_local_payload == join.mode \in {"ANTI", "SEMI"} /\ ~join.refs_right
payload_rows_unused == can_share_local_payload /\ ~join.filtered
build_rows_use_keys == join.equal \/ payload_rows_unused
build_rows_shared_local ==
    ~payload_rows_unused /\ (join.payload_strings \/ can_share_local_payload)

\* The branch of Combine under the spin lock.
Locked == ~build_rows_shared_local /\ join.key_strings

------------------------------------------------------------------------------
(* Rows, hashes, stores. *)

Salt(key) == key[1]
Bucket(key, capacity) == key[1] % capacity

\* ComputeHashTableCapacity doubles until the table is at most half full.  (Above 2^30
\* rows its uint32_t is 0 before that, and the loop does not end.)
HashCapacity(rows) ==
    LET power[k \in Nat] == IF k = 0 THEN 1 ELSE 2 * power[k - 1]
    IN  power[CHOOSE k \in 0 .. 2 * rows :
                  power[k] >= 2 * rows /\ \A j \in 0 .. k - 1 : power[j] < 2 * rows]

Row(w, i) == [key |-> input[w][i], id |-> <<w, i>>]

\* The residual filter reads the payload.
Accepts(row) == (IF join.equal THEN row.key[2] ELSE row.id[2]) % 2 = 1

\* A key store, and a payload store unless the key store serves as both.  The owner of
\* the global ones is 0; where payloads stay local, the global payload store never grows.
Stores(owner, capacity) ==
    {<<"keys", owner, capacity>>} \cup
        (IF build_rows_use_keys THEN {}
         ELSE {<<"rows", owner, IF owner = 0 /\ build_rows_shared_local THEN join.capacity
                                ELSE capacity>>})
Replaced(owner, old, new) == (live \ Stores(owner, old)) \cup Stores(owner, new)
Single(names) == names \X {0} \X {0}

Participants == {w \in Workers : pc[w] # "absent"}
At(w, point) == pc[w] = point
Goto(w, point) == pc' = [pc EXCEPT ![w] = point]

Init ==
    /\ join \in Layouts
    /\ input \in Inputs
    \* A worker that got no task of the pipeline has no local state.
    /\ \E absent \in SUBSET {w \in Workers : input[w] = <<>>} :
          pc = [w \in Workers |-> IF w \in absent THEN "absent" ELSE "start"]
    /\ local = [w \in Workers |-> [capacity |-> 0, count |-> 0]]
    /\ registry = [w \in Workers |-> [capacity |-> 0, row_count |-> 0, offset |-> 0]]
    /\ payload = [prepare |-> 0, combined_rows |-> 0, hash_capacity |-> 0,
                  row_capacity |-> join.capacity, mutex |-> 0,
                  finalized |-> FALSE, release_state |-> 0]
    /\ table = [rows |-> <<>>, built |-> FALSE, heads |-> <<>>, links |-> <<>>]
    /\ link = [w \in Workers |-> [row |-> 1, old |-> None]]
    /\ live = Stores(0, join.capacity) \cup Single({"registry", "payload"})
    /\ probe = [pc |-> "build", chunk |-> 1, row |-> 1, build |-> None, have |-> FALSE,
                matched |-> FALSE, active |-> FALSE, drained |-> FALSE]
    /\ out = <<>>
    /\ emitted = EmptyBag

------------------------------------------------------------------------------
(* Build: GetLocalSinkState, then SinkChunk row by row. *)

GetLocalSinkState(w) ==
    /\ At(w, "start")
    /\ local' = [local EXCEPT ![w].capacity = 1]
    /\ registry' = [registry EXCEPT ![w].capacity = 1]
    /\ live' = live \cup Stores(w, 1)
    /\ Goto(w, "sink")
    /\ UNCHANGED <<join, input, payload, table, link, probeVars>>

\* Variant: a store grows when it has overrun.
GrownLate(w) == IF local[w].count > local[w].capacity THEN 2 * local[w].capacity
                ELSE local[w].capacity

\* EnsureJoinLocalCapacity: a full store is copied to one of twice the size and freed.
Grown(w) == IF local[w].count = local[w].capacity THEN 2 * local[w].capacity
            ELSE local[w].capacity

\* Variant: the registry keeps pointing to the stores that were freed.
SinkRowStale(w) ==
    /\ At(w, "sink")
    /\ local[w].count < Len(input[w])
    /\ local' = [local EXCEPT ![w] = [capacity |-> Grown(w), count |-> local[w].count + 1]]
    /\ live' = Replaced(w, local[w].capacity, Grown(w))
    /\ UNCHANGED <<join, input, pc, registry, payload, table, link, probeVars>>

SinkRow(w) ==
    /\ At(w, "sink")
    /\ local[w].count < Len(input[w])
    /\ local' = [local EXCEPT ![w] = [capacity |-> Grown(w), count |-> local[w].count + 1]]
    /\ registry' = [registry EXCEPT ![w].capacity = Grown(w)]
    /\ live' = Replaced(w, local[w].capacity, Grown(w))
    /\ UNCHANGED <<join, input, pc, payload, table, link, probeVars>>

\* The RUN event is over when every worker has sunk its rows.
StartCombine ==
    /\ Participants # {}
    /\ \A w \in Participants : At(w, "sink") /\ local[w].count = Len(input[w])
    /\ pc' = [w \in Workers |-> IF w \notin Participants THEN "absent"
                                ELSE IF Locked THEN "batch" ELSE "prepare"]
    /\ UNCHANGED <<join, input, local, registry, payload, table, link, live, probeVars>>

------------------------------------------------------------------------------
(* Combine without locks. *)

\* The first to move combine_prepare_state from 0 to 1 prepares; the others wait.
Prepare(w) ==
    /\ At(w, "prepare")
    /\ IF payload.prepare = 0
       THEN payload' = [payload EXCEPT !.prepare = 1] /\ Goto(w, "sum")
       ELSE Goto(w, "wait") /\ UNCHANGED payload
    /\ UNCHANGED <<join, input, local, registry, table, link, live, probeVars>>

\* The loop over the registry: the rows of the first v workers.
RowsBefore ==
    LET before[v \in 0 .. Cardinality(Workers)] ==
            IF v = 0 THEN 0 ELSE before[v - 1] + local[v].count
    IN  before

\* Counts and offsets of all workers, room in the global stores, an empty hash table.
SumUp(w) ==
    LET total == RowsBefore[Cardinality(Workers)]
        rows == IF total > payload.row_capacity THEN total ELSE payload.row_capacity
        hash == IF total > 0 THEN HashCapacity(total) ELSE 0
    IN  /\ At(w, "sum")
        /\ registry' = [v \in Workers |->
               [registry[v] EXCEPT !.row_count = local[v].count, !.offset = RowsBefore[v - 1]]]
        /\ payload' = [payload EXCEPT !.combined_rows = total, !.row_capacity = rows,
                                      !.hash_capacity = hash]
        /\ table' = [rows |-> [i \in 1 .. total |-> NoRow],
                     links |-> [i \in 1 .. total |-> None],
                     heads |-> [b \in 0 .. hash - 1 |-> None],
                     built |-> total > 0]
        /\ live' = Replaced(0, payload.row_capacity, rows)
               \cup (IF build_rows_shared_local THEN Single({"slots", "local_idxs"}) ELSE {})
               \cup (IF total > 0 THEN Single({"table", "buckets", "links", "salts"}) ELSE {})
        /\ Goto(w, "publish")
        /\ UNCHANGED <<join, input, local, link, probeVars>>

PublishPrepared(w) ==
    /\ At(w, "publish")
    /\ payload' = [payload EXCEPT !.prepare = 2]
    /\ Goto(w, "copy")
    /\ UNCHANGED <<join, input, local, registry, table, link, live, probeVars>>

AwaitPrepared(w) ==
    /\ At(w, "wait")
    /\ payload.prepare = 2
    /\ Goto(w, "copy")
    /\ UNCHANGED <<join, input, local, registry, payload, table, link, live, probeVars>>

\* Rows, buckets and salts go to the worker's own range.  (So do payloads or their
\* slots, which nobody reads before FINALIZE.)
CopyLocal(w) ==
    /\ At(w, "copy")
    /\ table' = [table EXCEPT !.rows =
           [i \in DOMAIN @ |-> IF i - registry[w].offset \in 1 .. registry[w].row_count
                               THEN Row(w, i - registry[w].offset) ELSE @[i]]]
    /\ Goto(w, IF registry[w].row_count = 0 THEN "combined" ELSE "exchange")
    /\ UNCHANGED <<join, input, local, registry, payload, link, live, probeVars>>

GlobalIndex(w) == registry[w].offset + link[w].row
LinkBucket(w) == Bucket(Row(w, link[w].row).key, payload.hash_capacity)

\* pg_atomic_exchange_u32 of the bucket's head ...
ExchangeHead(w) ==
    /\ At(w, "exchange")
    /\ link' = [link EXCEPT ![w].old = table.heads[LinkBucket(w)]]
    /\ table' = [table EXCEPT !.heads[LinkBucket(w)] = GlobalIndex(w)]
    /\ Goto(w, "store")
    /\ UNCHANGED <<join, input, local, registry, payload, live, probeVars>>

\* Variant: the head is read again for the link.
StoreLinkReread(w) ==
    /\ At(w, "store")
    /\ table' = [table EXCEPT !.links[GlobalIndex(w)] = table.heads[LinkBucket(w)]]
    /\ link' = [link EXCEPT ![w].row = @ + 1]
    /\ Goto(w, IF link[w].row < registry[w].row_count THEN "exchange" ELSE "combined")
    /\ UNCHANGED <<join, input, local, registry, payload, live, probeVars>>

\* ... whose old value the row links to.
StoreLink(w) ==
    /\ At(w, "store")
    /\ table' = [table EXCEPT !.links[GlobalIndex(w)] = link[w].old]
    /\ link' = [link EXCEPT ![w].row = @ + 1]
    /\ Goto(w, IF link[w].row < registry[w].row_count THEN "exchange" ELSE "combined")
    /\ UNCHANGED <<join, input, local, registry, payload, live, probeVars>>

------------------------------------------------------------------------------
(* Combine under the spin lock, in batches. *)

\* PipelineCancelRequested: a worker that has failed has set shutdown_requested on its
\* way out (PG_CATCH of the worker's loop).
CancelRequested == \E v \in Workers : At(v, "failed")

\* The head of the loop over the batches ...
BeginBatch(w) ==
    /\ At(w, "batch")
    /\ link[w].row <= local[w].count
    /\ Goto(w, IF CancelRequested THEN "cancelled" ELSE "lock")
    /\ UNCHANGED <<join, input, local, registry, payload, table, link, live, probeVars>>

\* ... and SpinLockAcquire, which looks at nothing but the lock.
LockBatch(w) ==
    /\ At(w, "lock")
    /\ payload.mutex = 0
    /\ payload' = [payload EXCEPT !.mutex = w]
    /\ Goto(w, "append")
    /\ UNCHANGED <<join, input, local, registry, table, link, live, probeVars>>

\* EnsureJoinGlobalCapacity makes room for one row.
GlobalGrown ==
    IF Len(table.rows) = payload.row_capacity THEN 2 * payload.row_capacity
    ELSE payload.row_capacity

\* A key row and a payload row.  Where the key store serves as both, the second one
\* follows the first and receives the payload columns only, that is, the first key.
AppendedRows(row) ==
    IF ~build_rows_use_keys THEN <<row>>
    ELSE <<row, IF join.equal THEN row ELSE [NoRow EXCEPT !.key[1] = row.key[1]]>>

AppendRow(w) ==
    LET rows == AppendedRows(Row(w, link[w].row))
        next == link[w].row + 1
    IN  /\ At(w, "append")
        /\ Len(table.rows) + Len(rows) <= GlobalGrown
        /\ table' = [table EXCEPT !.rows = @ \o rows]
        /\ payload' = [payload EXCEPT !.row_capacity = GlobalGrown]
        /\ live' = Replaced(0, payload.row_capacity, GlobalGrown)
        /\ link' = [link EXCEPT ![w].row = next]
        /\ Goto(w, IF next > local[w].count \/ (next - 1) % BatchSize = 0
                   THEN "unlock" ELSE "append")
        /\ UNCHANGED <<join, input, local, registry, probeVars>>

\* No room for the second row: an ERROR, and the spin lock stays locked.
AppendFails(w) ==
    /\ At(w, "append")
    /\ Len(table.rows) + Len(AppendedRows(Row(w, link[w].row))) > GlobalGrown
    /\ table' = [table EXCEPT !.rows = Append(@, Row(w, link[w].row))]
    /\ payload' = [payload EXCEPT !.row_capacity = GlobalGrown]
    /\ live' = Replaced(0, payload.row_capacity, GlobalGrown)
    /\ Goto(w, "failed")
    /\ UNCHANGED <<join, input, local, registry, link, probeVars>>

\* Variant: the lock is kept at the end of the last batch.
UnlockBatchButLast(w) ==
    /\ At(w, "unlock")
    /\ payload' = IF link[w].row > local[w].count THEN payload
                  ELSE [payload EXCEPT !.mutex = 0]
    /\ Goto(w, "batch")
    /\ UNCHANGED <<join, input, local, registry, table, link, live, probeVars>>

UnlockBatch(w) ==
    /\ At(w, "unlock")
    /\ payload' = [payload EXCEPT !.mutex = 0]
    /\ Goto(w, "batch")
    /\ UNCHANGED <<join, input, local, registry, table, link, live, probeVars>>

EndBatches(w) ==
    /\ At(w, "batch")
    /\ link[w].row > local[w].count
    /\ Goto(w, "combined")
    /\ UNCHANGED <<join, input, local, registry, payload, table, link, live, probeVars>>

------------------------------------------------------------------------------
(* Finalize. *)

\* The rows of a bucket before row i; a chain leads from later rows to earlier ones.
Earlier(i, bucket, capacity) ==
    {j \in 1 .. i - 1 : Bucket(table.rows[j].key, capacity) = bucket}

Finalize ==
    LET count == Len(table.rows)
        capacity == HashCapacity(count)
    IN  /\ probe.pc = "build"
        /\ \A w \in Participants : At(w, "combined")
        /\ IF count > 0 /\ ~table.built
           THEN /\ table' = [table EXCEPT
                       !.built = TRUE,
                       !.heads = [b \in 0 .. capacity - 1 |->
                                     Max(Earlier(count + 1, b, capacity) \cup {None})],
                       !.links = [i \in 1 .. count |->
                                     LET b == Bucket(table.rows[i].key, capacity)
                                     IN  Max(Earlier(i, b, capacity) \cup {None})]]
                /\ live' = live \cup Single({"table", "links", "salts"})
           ELSE UNCHANGED <<table, live>>
        /\ payload' = [payload EXCEPT !.finalized = TRUE,
                                      !.hash_capacity = IF count > 0 THEN capacity ELSE 0]
        /\ probe' = [probe EXCEPT !.pc = "call"]
        /\ UNCHANGED <<join, input, pc, local, registry, link, out, emitted>>

------------------------------------------------------------------------------
(* Probe: Execute, called by DrainOperatorSuffix until it asks for more input. *)

\* The n-th row of the chain that starts with row i.
Chain(i) ==
    LET at[n \in Nat] == IF n = 0 THEN i
                         ELSE IF at[n - 1] = None THEN None ELSE table.links[at[n - 1]]
    IN  [n \in 0 .. Len(table.rows) |-> at[n]]

\* Rows with another salt are passed over.
SkipTo(i, salt) ==
    LET at == Chain(i)
        hits == {n \in DOMAIN at : at[n] # None /\ Salt(table.rows[at[n]].key) = salt}
    IN  IF hits = {} THEN None ELSE at[Min(hits)]

in == Chunks[probe.chunk]
ProbeKey == in[probe.row]

\* A drained chunk, and every chunk where there is no hash table, is used up;
\* otherwise the cursor starts or resumes.
Execute ==
    /\ probe.pc = "call"
    /\ probe.chunk <= Len(Chunks)
    /\ out' = <<>>
    /\ probe' = IF probe.drained THEN [probe EXCEPT !.drained = FALSE, !.chunk = @ + 1]
                ELSE IF ~table.built THEN [probe EXCEPT !.chunk = @ + 1]
                ELSE IF probe.active THEN [probe EXCEPT !.pc = "row"]
                ELSE [probe EXCEPT !.pc = "row", !.active = TRUE, !.row = 1,
                                   !.build = None, !.have = FALSE, !.matched = FALSE]
    /\ UNCHANGED <<buildVars, live, emitted>>

\* Variant: a row that is resumed has forgotten its matches.
ProbeRowForgets ==
    /\ probe.pc = "row"
    /\ probe.row <= Len(in)
    /\ Len(out) < ChunkSize
    /\ probe' = IF probe.have THEN [probe EXCEPT !.pc = "match", !.matched = FALSE]
                ELSE [probe EXCEPT
                         !.pc = "match", !.have = TRUE, !.matched = FALSE,
                         !.build = SkipTo(table.heads[Bucket(ProbeKey, payload.hash_capacity)],
                                          Salt(ProbeKey))]
    /\ UNCHANGED <<buildVars, live, out, emitted>>

ProbeRow ==
    /\ probe.pc = "row"
    /\ probe.row <= Len(in)
    /\ Len(out) < ChunkSize
    /\ probe' = IF probe.have THEN [probe EXCEPT !.pc = "match"]
                ELSE [probe EXCEPT
                         !.pc = "match", !.have = TRUE, !.matched = FALSE,
                         !.build = SkipTo(table.heads[Bucket(ProbeKey, payload.hash_capacity)],
                                          Salt(ProbeKey))]
    /\ UNCHANGED <<buildVars, live, out, emitted>>

\* What a pair of rows shows in the output.
Output(id) == <<probe.chunk, probe.row, IF join.mode \in {"SEMI", "ANTI"} THEN NoRow.id ELSE id>>

MatchRow ==
    LET row == table.rows[probe.build]
        matches == row.key = ProbeKey /\ (join.filtered => Accepts(row))
    IN  /\ probe.pc = "match"
        /\ probe.build # None
        /\ Len(out) < ChunkSize
        /\ probe' = [probe EXCEPT
               !.matched = @ \/ matches,
               !.build = IF matches /\ join.mode \in {"SEMI", "ANTI"} THEN None
                         ELSE SkipTo(table.links[@], Salt(ProbeKey))]
        /\ out' = IF matches /\ join.mode # "ANTI" THEN Append(out, Output(row.id)) ELSE out
        /\ UNCHANGED <<buildVars, live, emitted>>

EndRow ==
    /\ probe.pc = "match"
    /\ probe.build = None
    /\ out' = IF ~probe.matched /\ join.mode \in {"ANTI", "LEFT"}
              THEN Append(out, Output(NoRow.id)) ELSE out
    /\ probe' = [probe EXCEPT !.pc = "row", !.row = @ + 1, !.have = FALSE, !.matched = FALSE]
    /\ UNCHANGED <<buildVars, live, emitted>>

\* Back to the caller, which hands the output on and calls again, or fetches a chunk.
Return ==
    LET over == probe.row > Len(in)
    IN  /\ \/ probe.pc = "row" /\ (over \/ Len(out) = ChunkSize)
           \/ probe.pc = "match" /\ probe.build # None /\ Len(out) = ChunkSize
        /\ probe' = [probe EXCEPT
               !.pc = "call",
               !.active = ~over,
               !.drained = over /\ out # <<>>,
               !.chunk = IF out = <<>> THEN @ + 1 ELSE @]
        /\ emitted' = emitted (+) ToBag(out)
        /\ UNCHANGED <<buildVars, live, out>>

EndProbe ==
    /\ probe.pc = "call"
    /\ probe.chunk > Len(Chunks)
    /\ probe' = [probe EXCEPT !.pc = "done"]
    /\ UNCHANGED <<buildVars, live, out, emitted>>

------------------------------------------------------------------------------
(* ReleaseBuildPayloadAfterConsumerRun. *)

LocalStores(w) == IF registry[w].capacity = 0 THEN {} ELSE Stores(w, registry[w].capacity)

\* What the payload and the registry point to.
Pointers ==
    Stores(0, payload.row_capacity) \cup (UNION {LocalStores(w) : w \in Workers})
        \cup Single({"registry", "payload"})
        \cup (IF payload.prepare = 2 /\ build_rows_shared_local
              THEN Single({"slots", "local_idxs"}) ELSE {})
        \cup (IF table.built THEN Single({"table", "links", "salts"}) ELSE {})
        \cup (IF table.built /\ payload.prepare = 2 THEN Single({"buckets"}) ELSE {})

Release ==
    /\ probe.pc = "done"
    /\ payload.release_state = 0
    /\ payload' = [payload EXCEPT !.release_state = 2]
    /\ live' = live \ Pointers
    /\ UNCHANGED <<join, input, pc, local, registry, table, link, probeVars>>

------------------------------------------------------------------------------
CombineStep(w) ==
    \/ Prepare(w) \/ SumUp(w) \/ PublishPrepared(w) \/ AwaitPrepared(w) \/ CopyLocal(w)
    \/ ExchangeHead(w) \/ StoreLink(w)
    \/ BeginBatch(w) \/ LockBatch(w) \/ AppendRow(w) \/ AppendFails(w) \/ UnlockBatch(w)
    \/ EndBatches(w)

ProbeStep == Execute \/ ProbeRow \/ MatchRow \/ EndRow \/ Return \/ EndProbe

Next ==
    \/ \E w \in Workers : GetLocalSinkState(w) \/ SinkRow(w) \/ CombineStep(w)
    \/ StartCombine \/ Finalize \/ ProbeStep \/ Release

Fairness ==
    /\ \A w \in Workers : WF_vars(GetLocalSinkState(w) \/ SinkRow(w) \/ CombineStep(w))
    /\ WF_vars(StartCombine \/ Finalize \/ ProbeStep \/ Release)

Spec == Init /\ [][Next]_vars /\ Fairness

------------------------------------------------------------------------------
TypeOK ==
    /\ \A w \in Workers :
          /\ pc[w] \in {"absent", "start", "sink", "prepare", "sum", "publish", "wait", "copy",
                        "exchange", "store", "batch", "lock", "append", "unlock", "combined",
                        "cancelled", "failed"}
          /\ local[w].count \in 0 .. local[w].capacity
          /\ local[w].count <= Len(input[w])
          /\ registry[w].row_count \in 0 .. Len(input[w])
    /\ payload.mutex \in Workers \cup {0}
    /\ Len(table.rows) <= payload.row_capacity
    /\ \A i \in DOMAIN table.links : table.links[i] \in 0 .. Len(table.rows)
    /\ Len(out) <= ChunkSize

\* Once the build is final, every chain ends and visits exactly the rows of its bucket,
\* each once, whatever the interleaving in which the workers exchanged heads and stored
\* links (LinkPrecomputedJoinHashes against the sequential loop of Finalize).
ChainsComplete ==
    payload.finalized /\ table.built =>
        \A b \in DOMAIN table.heads :
            LET at == Chain(table.heads[b])
                visits == {n \in DOMAIN at : at[n] # None}
                rows == {i \in DOMAIN table.rows :
                            Bucket(table.rows[i].key, payload.hash_capacity) = b}
            IN  /\ {at[n] : n \in visits} = rows
                /\ Cardinality(visits) = Cardinality(rows)

\* The join as SQL defines it.
Matches(key) ==
    {id \in UNION {{w} \X DOMAIN input[w] : w \in Workers} :
        /\ input[id[1]][id[2]] = key
        /\ join.filtered => Accepts(Row(id[1], id[2]))}
RowsOf(c, r) ==
    LET matches == Matches(Chunks[c][r])
    IN  CASE join.mode = "INNER" -> matches
          [] join.mode = "LEFT"  -> IF matches = {} THEN {NoRow.id} ELSE matches
          [] join.mode = "SEMI"  -> IF matches = {} THEN {} ELSE {NoRow.id}
          [] join.mode = "ANTI"  -> IF matches = {} THEN {NoRow.id} ELSE {}
SqlJoin ==
    UNION {UNION {{c} \X {r} \X RowsOf(c, r) : r \in DOMAIN Chunks[c]} : c \in DOMAIN Chunks}

\* An empty build side makes no hash table, and Execute then drops unmatched rows too.
EmptyBuild == join.mode \in {"LEFT", "ANTI"} /\ \A w \in Workers : input[w] = <<>>

\* The locked branch appends a row of the first key alone where keys and payload share
\* a store but differ in layout.
PhantomRows == Locked /\ build_rows_use_keys /\ ~join.equal

\* The prober puts out the join's rows, each as often as SQL asks for, whatever chunks,
\* full output chunks, salts and collisions it met (Execute and its cursor; the two
\* exceptions are known wrong).
JoinOutput ==
    probe.pc = "done" /\ ~EmptyBuild /\ ~PhantomRows => emitted = SetToBag(SqlJoin)

\* Without the exceptions, as README.md:64 has it.
OutputIsJoin == probe.pc = "done" => emitted = SetToBag(SqlJoin)

\* What the payload and the registry point to is allocated until the release, although
\* local and global stores are replaced when they grow, and nothing is left after it.
StoresLiveUntilRelease ==
    IF payload.release_state = 0 THEN Pointers \subseteq live ELSE live = {}

\* A worker at a spin lock that was taken by one who failed with it.
AtLostLock(w) == At(w, "lock") /\ \E v \in Workers : At(v, "failed") /\ payload.mutex = v

\* It has left Combine.
LeftCombine(w) == pc[w] \in {"absent", "combined", "cancelled", "failed"}

\* The build was published, probed and released; or a worker failed, and the others have
\* left Combine but for those at the lock it took with it.
Ended ==
    \/ payload.release_state = 2
    \/ CancelRequested /\ \A w \in Workers : LeftCombine(w) \/ AtLostLock(w)
=============================================================================
