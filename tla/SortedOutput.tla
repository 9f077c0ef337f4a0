----------------------------- MODULE SortedOutput -----------------------------
(****************************************************************************)
(* ORDER BY and LIMIT, from the physical plan to the client.  A LIMIT on an  *)
(* ORDER BY becomes a top-N operator and splits the plan into pipelines; any *)
(* other one is left to the output sink, as are the sort keys               *)
(* (yaap_pipeline_init.cpp, physical_top_n.cpp, output_sink.cpp).  The       *)
(* source is a delim scan, whose partitions the workers claim               *)
(* (physical_delim_scan.cpp); later pipelines read a finalized top-N.        *)
(****************************************************************************)
EXTENDS Integers, FiniteSetsExt, SequencesExt

CONSTANTS
    Sorters,       \* the workers, 1 .. pg_yaap_parallel_max_workers
    SortChunk,     \* PIPELINE_DEFAULT_CHUNK_SIZE
    InitialRows,   \* EstimateInitialResultRows
    InlineBytes,   \* length of a string that needs no heap (VecStringRef)
    HeapPerRow,    \* string heap reserved per row of capacity
    HeapStep,      \* the least a string heap grows by
    Queries        \* [plan, partitions]: the nodes over the scan from below, and the
                   \* rows, pairs of a number and of the length of a string

\* Rows have two columns.  A plan over the scan, from below: filters, projections, LIMITs
\* and ORDER BYs.
SortRow == Int \X Int
SortKey == [col : 1 .. 2, asc : BOOLEAN]
PlanNode == [op : {"filter", "projection"}] \cup [op : {"limit"}, n : Nat]
            \cup [op : {"order"}, keys : Seq(SortKey)]
SortInputs ==
    /\ IsFiniteSet(Sorters) /\ Sorters = 1 .. Cardinality(Sorters)
    /\ SortChunk \in Nat \ {0}
    /\ Queries \subseteq [plan : Seq(PlanNode), partitions : Seq(Seq(SortRow))]
ASSUME SortAssumption == SortInputs

VARIABLES
    query,         \* the query of this behaviour
    pipelines,     \* its pipelines in the order they run [ops, keys, max_rows, limit]
    segment,       \* the pipeline that runs; one more than there are: all have
    claims,        \* source_partition_next
    sorter,        \* of each worker [at, partition, cursor, chunk, sheet]
    sheets,        \* the tuple data collections that are allocated [rows, capacity, heap]
    published,     \* tdc_dp of each top-N, shared_payload of the output sink
    sorted,        \* rows of each finalized top-N in order
    given,         \* bag of the rows the sink of this pipeline was given
    sent           \* rows the client got

sortVars == <<query, pipelines, segment, claims, sorter, sheets, published, sorted, given, sent>>

------------------------------------------------------------------------------
(* Rows and their order. *)

Before(keys, r, s) ==
    \E k \in DOMAIN keys :
        /\ \A j \in 1 .. k - 1 : r[keys[j].col] = s[keys[j].col]
        /\ IF keys[k].asc THEN r[keys[k].col] < s[keys[k].col] ELSE r[keys[k].col] > s[keys[k].col]
InOrder(keys, rows) == \A i, j \in DOMAIN rows : i < j => ~Before(keys, rows[j], rows[i])

\* std::sort: some order that the keys allow.
Sortings(keys, rows) ==
    {s \in {[i \in DOMAIN rows |-> rows[p[i]]] :
              p \in {f \in [DOMAIN rows -> DOMAIN rows] : IsInjective(f)}} : InOrder(keys, s)}

BagOf(rows) == [r \in Range(rows) |-> Cardinality({i \in DOMAIN rows : rows[i] = r})]

\* What a filter or a projection makes of a chunk.  The filter keeps the rows whose number
\* is not 2, the projection turns the numbers around.
ApplyOperator(op, rows) ==
    IF op = "filter" THEN FlattenSeq([i \in DOMAIN rows |->
                              IF rows[i][1] = 2 THEN <<>> ELSE <<rows[i]>>])
    ELSE [i \in DOMAIN rows |-> <<4 - rows[i][1], rows[i][2]>>]
ApplyOperators(ops, rows) == FoldLeft(LAMBDA in, op : ApplyOperator(op, in), rows, ops)

------------------------------------------------------------------------------
(* The translation of a plan. *)

IsOrder(plan, i) == i \in DOMAIN plan /\ plan[i].op = "order"
IsTopNNode(plan, i) == i \in DOMAIN plan /\ plan[i].op = "limit" /\ IsOrder(plan, i - 1)

\* The directions are read off the text of the query, from its first ORDER BY up to a
\* LIMIT or the end, so always those of the innermost one.  The last item is only taken
\* when no parenthesis is closed in between, that is when a LIMIT follows or the ORDER BY
\* is not in a subquery.
ParseOrderDirections(plan, n) ==
    LET first == Min({i \in DOMAIN plan : IsOrder(plan, i)})
        items == plan[first].keys
        closed == IsTopNNode(plan, first + 1) \/ first = Len(plan)
        taken == IF closed THEN Len(items) ELSE Len(items) - 1
    IN  [k \in 1 .. n |-> k > taken \/ items[k].asc]

\* Mutant of BuildFinalSortKeys: all ascending.
DirectionsIgnored(plan, i) == [k \in DOMAIN plan[i].keys |-> [plan[i].keys[k] EXCEPT !.asc = TRUE]]

BuildFinalSortKeys(plan, i) ==
    LET asc == ParseOrderDirections(plan, Len(plan[i].keys))
    IN  [k \in DOMAIN plan[i].keys |-> [plan[i].keys[k] EXCEPT !.asc = asc[k]]]

\* A node on top of the pipelines so far, of which the last one is still open.  A top-N
\* closes it, with the sort keys of the ORDER BY and without the LIMIT found in it; any
\* other LIMIT, and other sort keys, are left to the output sink.
OpenPipeline == [ops |-> <<>>, keys |-> <<>>, max_rows |-> 0, limit |-> 0]
TranslateOptimizerNode(plan, i, done) ==
    LET last == Len(done)
    IN  CASE IsTopNNode(plan, i) ->
                Append([done EXCEPT ![last] = [@ EXCEPT !.max_rows = plan[i].n, !.limit = 0]],
                       OpenPipeline)
          [] plan[i].op = "limit" /\ ~IsTopNNode(plan, i) -> [done EXCEPT ![last].limit = plan[i].n]
          [] plan[i].op = "order" -> [done EXCEPT ![last].keys = BuildFinalSortKeys(plan, i)]
          [] OTHER -> [done EXCEPT ![last].ops = Append(@, plan[i].op)]
Translated(plan) ==
    FoldLeft(LAMBDA done, i : TranslateOptimizerNode(plan, i, done), <<OpenPipeline>>,
             [i \in DOMAIN plan |-> i])

Segments == Len(pipelines)
IsOutput(k) == k = Segments
SinkKeys(k) == pipelines[k].keys

\* Rows a sink keeps, 0 for all of them: the output sink only counts when it also sorts.
Kept(pipeline) ==
    IF pipeline.max_rows > 0 THEN pipeline.max_rows
    ELSE IF pipeline.keys = <<>> THEN 0 ELSE pipeline.limit

\* DeriveRunTaskCount: the output sink and the source of a later pipeline have one thread,
\* a delim scan no more than partitions.
Threads(k) ==
    IF IsOutput(k) \/ k > 1 THEN 1
    ELSE Max({1, Min({Cardinality(Sorters), Len(query.partitions)})})
Tasks(k) == {w \in Sorters : Cardinality({v \in Sorters : v <= w}) <= Threads(k)}

------------------------------------------------------------------------------
(* Tuple data collections. *)

\* A collection that was freed holds nothing any more.
Sheet(id) ==
    IF id \in DOMAIN sheets THEN sheets[id] ELSE [rows |-> <<>>, capacity |-> 0, heap |-> 0]
\* Short strings are kept in the row.
Bytes(row) == IF row[2] > InlineBytes THEN row[2] ELSE 0
HeapUsed(rows) == FoldLeft(LAMBDA n, r : n + Bytes(r), 0, rows)
DefaultHeap(capacity) == capacity * HeapPerRow
HasSpaceForAppend(sheet, row) ==
    Len(sheet.rows) < sheet.capacity /\ HeapUsed(sheet.rows) + Bytes(row) <= sheet.heap

NewSheet(capacity) == [rows |-> <<>>, capacity |-> capacity, heap |-> DefaultHeap(capacity)]

\* RebuildGlobalTdc, ReplaceWorstTopNRow: a copy without one row and with a new one, of
\* the same capacity.
Rebuilt(sheet, without, row) ==
    LET rows == Append(IF without = 0 THEN sheet.rows ELSE RemoveAt(sheet.rows, without), row)
    IN  [rows |-> rows, capacity |-> sheet.capacity,
         heap |-> Max({DefaultHeap(sheet.capacity), HeapUsed(rows)})]

\* Room for more rows and strings.
GrowOutputTdc(sheet, row) ==
    [rows |-> Append(sheet.rows, row),
     capacity |-> Max({2 * sheet.capacity, Len(sheet.rows) + 1}),
     heap |-> Max({sheet.heap + Max({sheet.heap \div 2, HeapStep}), HeapUsed(sheet.rows) + Bytes(row)})]

\* Mutant of FindWorst: the first in the order is dropped.
FindBest(keys, rows) ==
    Min({i \in DOMAIN rows : \A j \in DOMAIN rows : ~Before(keys, rows[j], rows[i])})

\* The first of the rows that no other comes after.
FindWorst(keys, rows) ==
    Min({i \in DOMAIN rows : \A j \in DOMAIN rows : ~Before(keys, rows[i], rows[j])})

------------------------------------------------------------------------------
NoSorter == [at |-> "none", partition |-> 0, cursor |-> 0, chunk |-> <<>>, sheet |-> 0]

\* The collection a sink starts with: a top-N has room for all it keeps.
FirstSheet(pipeline) ==
    NewSheet(IF pipeline.max_rows > 0 THEN pipeline.max_rows
             ELSE IF Kept(pipeline) = 0 THEN InitialRows ELSE Min({InitialRows, Kept(pipeline)}))

SortInit ==
    /\ query \in Queries
    /\ pipelines = Translated(query.plan)
    /\ segment = 1
    /\ claims = 0
    /\ sorter = [w \in Sorters |-> NoSorter]
    /\ sheets = [k \in DOMAIN pipelines |-> FirstSheet(pipelines[k])]
    /\ published = [k \in DOMAIN pipelines |-> k]
    /\ sorted = [k \in DOMAIN pipelines |-> <<>>]
    /\ given = EmptyBag
    /\ sent = <<>>

Go(w, f) == sorter' = [sorter EXCEPT ![w] = f]

\* A RUN task starts: the states of source and sink are made.
Begin(w) ==
    /\ segment <= Segments /\ w \in Tasks(segment) /\ sorter[w].at = "none"
    /\ Go(w, [sorter[w] EXCEPT !.at = "read", !.sheet = published[segment]])
    /\ UNCHANGED <<query, pipelines, segment, claims, sheets, published, sorted, given, sent>>

\* PhysicalDelimScan::GetData fills a chunk, from as many partitions as it takes.
PartitionRows(w) == IF sorter[w].partition = 0 THEN <<>> ELSE query.partitions[sorter[w].partition]
ClaimPartition(w) ==
    /\ segment = 1 /\ sorter[w].at = "read"
    /\ Len(sorter[w].chunk) < SortChunk /\ sorter[w].cursor >= Len(PartitionRows(w))
    /\ claims' = claims + 1
    /\ Go(w, IF claims < Len(query.partitions)
             THEN [sorter[w] EXCEPT !.partition = claims + 1, !.cursor = 0]
             ELSE [sorter[w] EXCEPT !.at = IF sorter[w].chunk = <<>> THEN "done" ELSE "push"])
    /\ UNCHANGED <<query, pipelines, segment, sheets, published, sorted, given, sent>>
GatherRow(w) ==
    /\ segment = 1 /\ sorter[w].at = "read"
    /\ Len(sorter[w].chunk) < SortChunk /\ sorter[w].cursor < Len(PartitionRows(w))
    /\ Go(w, [sorter[w] EXCEPT !.cursor = @ + 1,
                               !.chunk = Append(@, PartitionRows(w)[sorter[w].cursor + 1])])
    /\ UNCHANGED <<query, pipelines, segment, claims, sheets, published, sorted, given, sent>>
ChunkIsFull(w) ==
    /\ segment = 1 /\ sorter[w].at = "read" /\ Len(sorter[w].chunk) = SortChunk
    /\ Go(w, [sorter[w] EXCEPT !.at = "push"])
    /\ UNCHANGED <<query, pipelines, segment, claims, sheets, published, sorted, given, sent>>

\* PhysicalTopN::GetData: the next rows of the finalized payload.
ReadTopN(w) ==
    /\ segment > 1 /\ sorter[w].at = "read"
    /\ LET rows == sorted[segment - 1]
           from == sorter[w].cursor
           to == Min({from + SortChunk, Len(rows)})
       IN  Go(w, IF from = to THEN [sorter[w] EXCEPT !.at = "done"]
                 ELSE [sorter[w] EXCEPT !.at = "push", !.cursor = to,
                                        !.chunk = SubSeq(rows, from + 1, to)])
    /\ UNCHANGED <<query, pipelines, segment, claims, sheets, published, sorted, given, sent>>

\* The operators of the pipeline, then the sink takes the chunk row by row.
Push(w) ==
    /\ sorter[w].at = "push"
    /\ LET rows == ApplyOperators(pipelines[segment].ops, sorter[w].chunk)
       IN  Go(w, [sorter[w] EXCEPT !.chunk = rows, !.at = IF rows = <<>> THEN "read" ELSE "sink"])
    /\ UNCHANGED <<query, pipelines, segment, claims, sheets, published, sorted, given, sent>>

\* Mutant of SinkSheet: the collection there was when the task began.
AsAtStart(w) == sorter[w].sheet

\* The collection a row goes to.  Another worker may have replaced it: a top-N sink takes
\* the shared pointer again for every row, under the lock of the payload.
SinkSheet(w) == IF IsOutput(segment) THEN sorter[w].sheet ELSE published[segment]

\* A row for a full collection, in the place of the row `worst', and for one that is not.
Exchanged(keys, sheet, worst, row) ==
    IF Before(keys, row, sheet.rows[worst])
    THEN [new |-> TRUE, to |-> Rebuilt(sheet, worst, row)]
    ELSE [new |-> FALSE, to |-> sheet]
Stored(pipeline, sheet, row) ==
    LET full == Kept(pipeline) > 0 /\ Len(sheet.rows) >= Kept(pipeline)
    IN  IF full THEN Exchanged(pipeline.keys, sheet, FindWorst(pipeline.keys, sheet.rows), row)
        ELSE IF HasSpaceForAppend(sheet, row)
             THEN [new |-> FALSE, to |-> [sheet EXCEPT !.rows = Append(@, row)]]
        ELSE IF pipeline.max_rows = 0 THEN [new |-> TRUE, to |-> GrowOutputTdc(sheet, row)]
        ELSE [new |-> TRUE, to |-> Rebuilt(sheet, 0, row)]

\* The collection `old' becomes what was stored, and is replaced if that is a new one.
Publish(w, old, stored, rest) ==
    LET id == IF stored.new THEN Max(DOMAIN sheets) + 1 ELSE old
    IN  /\ sheets' = [i \in (DOMAIN sheets \ {old}) \cup {id} |->
                         IF i = id THEN stored.to ELSE sheets[i]]
        /\ published' = [published EXCEPT ![segment] = IF stored.new THEN id ELSE @]
        /\ Go(w, [sorter[w] EXCEPT !.chunk = rest, !.sheet = id,
                                   !.at = IF rest = <<>> THEN "read" ELSE "sink"])

\* PhysicalTopN::SinkChunk, one row, under the spin lock; OutputSink::SinkChunk, one row.
SinkChunkRow(w) ==
    /\ sorter[w].at = "sink"
    /\ LET row == Head(sorter[w].chunk)
           old == SinkSheet(w)
       IN  /\ Publish(w, old, Stored(pipelines[segment], Sheet(old), row), Tail(sorter[w].chunk))
           /\ given' = given (+) SetToBag({row})
    /\ UNCHANGED <<query, pipelines, segment, claims, sorted, sent>>

SegmentDone == segment <= Segments /\ \A w \in Tasks(segment) : sorter[w].at = "done"

\* PhysicalTopN::Finalize in the leader, then the next pipeline.
FinalizeTopN ==
    /\ SegmentDone /\ ~IsOutput(segment)
    /\ \E order \in Sortings(SinkKeys(segment), Sheet(published[segment]).rows) :
           sorted' = [sorted EXCEPT ![segment] = order]
    /\ segment' = segment + 1
    /\ sorter' = [w \in Sorters |-> NoSorter]
    /\ given' = EmptyBag
    /\ UNCHANGED <<query, pipelines, claims, sheets, published, sent>>

\* OutputSink::EmitGlobalTdcToDest: the rows in the order of the keys, if there are any, up
\* to the limit.
Emit(order, limit) == IF limit > 0 /\ limit < Len(order) THEN SubSeq(order, 1, limit) ELSE order
EmitGlobalTdcToDest ==
    /\ SegmentDone /\ IsOutput(segment)
    /\ LET rows == Sheet(published[segment]).rows
           keys == SinkKeys(segment)
       IN  \E order \in IF keys = <<>> THEN {rows} ELSE Sortings(keys, rows) :
               sent' = Emit(order, pipelines[segment].limit)
    /\ segment' = segment + 1
    /\ UNCHANGED <<query, pipelines, claims, sorter, sheets, published, sorted, given>>

SorterStep(w) ==
    \/ Begin(w) \/ ClaimPartition(w) \/ GatherRow(w) \/ ChunkIsFull(w)
    \/ ReadTopN(w) \/ Push(w) \/ SinkChunkRow(w)
SortNext == (\E w \in Sorters : SorterStep(w)) \/ FinalizeTopN \/ EmitGlobalTdcToDest

SortSpec == SortInit /\ [][SortNext]_sortVars

------------------------------------------------------------------------------
(* Properties. *)

\* Collections never hold more rows or bytes than they have room for
\* (TupleDataCollectionAppendRow, TupleDataCollectionStoreStringBytes).
SortTypeOK ==
    /\ segment \in 1 .. Segments + 1 /\ claims \in Nat
    /\ \A w \in Sorters : Len(sorter[w].chunk) <= SortChunk
    /\ \A id \in DOMAIN sheets :
          /\ Len(sheets[id].rows) <= sheets[id].capacity
          /\ HeapUsed(sheets[id].rows) <= sheets[id].heap

Copies(bag) == MapThenSumSet(LAMBDA r : bag[r], DOMAIN bag)
KeepsBest(keys, max, kept) ==
    /\ kept \sqsubseteq given
    /\ Copies(kept) = IF max = 0 THEN Copies(given) ELSE Min({max, Copies(given)})
    /\ \A r \in BagToSet(given (-) kept), s \in BagToSet(kept) : ~Before(keys, r, s)
\* What a sink keeps of the rows it was given, whoever gave them and whatever collection
\* was replaced meanwhile: all, or as many as it counts to and none that comes after one it
\* has dropped (FindWorstStoredRowIndex, RebuildGlobalTdc, ReplaceWorstTopNRow).
BestRowsAreKept ==
    segment <= Segments =>
        KeepsBest(SinkKeys(segment), Kept(pipelines[segment]),
                  BagOf(Sheet(published[segment]).rows))

\* The meaning of a plan in SQL: the rows it may return, in some order.  ORDER BY says
\* which rows the LIMIT on it keeps, any other LIMIT keeps some.
Subsequences(rows, n, keys) ==
    {[k \in 1 .. Cardinality(S) |-> rows[SetToSortSeq(S, <)[k]]] :
        S \in {T \in SUBSET DOMAIN rows :
                 /\ Cardinality(T) = Min({n, Len(rows)})
                 /\ \A i \in DOMAIN rows \ T, j \in T : ~Before(keys, rows[i], rows[j])}}
Results(plan, input) ==
    LET After[i \in 0 .. Len(plan)] ==
            IF i = 0 THEN {input}
            ELSE CASE plan[i].op = "limit" ->
                        UNION {Subsequences(rows, plan[i].n,
                                   IF IsOrder(plan, i - 1) THEN plan[i - 1].keys ELSE <<>>) :
                               rows \in After[i - 1]}
                   [] plan[i].op = "order" -> After[i - 1]
                   [] OTHER -> {ApplyOperator(plan[i].op, rows) : rows \in After[i - 1]}
    IN  After[Len(plan)]
ResultOrder(plan) ==
    IF IsOrder(plan, Len(plan)) THEN plan[Len(plan)].keys
    ELSE IF IsTopNNode(plan, Len(plan)) THEN plan[Len(plan) - 1].keys ELSE <<>>
IsResult(q, rows) ==
    /\ InOrder(ResultOrder(q.plan), rows)
    /\ \E r \in Results(q.plan, FlattenSeq(q.partitions)) : BagOf(r) = BagOf(rows)

\* Known wrong: a LIMIT, not on an ORDER BY, below a filter or a LIMIT to more rows; and
\* a direction that is not read off the text.
LimitMoves(plan) ==
    \E i, j \in DOMAIN plan :
        /\ i < j /\ plan[i].op = "limit" /\ ~IsTopNNode(plan, i)
        /\ \/ plan[j].op = "filter"
           \/ plan[j].op = "limit" /\ plan[j].n > plan[i].n
DirectionIsMisread(plan) ==
    \E i \in DOMAIN plan : IsOrder(plan, i) /\
        \E k \in DOMAIN plan[i].keys :
            ParseOrderDirections(plan, Len(plan[i].keys))[k] # plan[i].keys[k].asc

\* The client gets a result of the query, in its order, with the exceptions above
\* (TranslateOptimizerNode, ParseOrderDirections, OutputSink::EmitGlobalTdcToDest).
ResultOfQuery ==
    segment > Segments =>
        \/ LimitMoves(query.plan) \/ DirectionIsMisread(query.plan)
        \/ IsResult(query, sent)
=============================================================================
