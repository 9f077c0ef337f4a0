------------------------------ MODULE TableScan ------------------------------
(****************************************************************************)
(* A parallel scan of a table with its filters (physical_seq_scan.cpp), the  *)
(* filter operator over such a table (physical_filter.cpp), or the residual  *)
(* filter of a hash join over pairs of rows (physical_hash_join.cpp).        *)
(*                                                                          *)
(* Readers claim runs of blocks from a cursor they share, load a page at a   *)
(* time, run the tape of FilterTape for each visible row, and decode the     *)
(* rows it accepts into a chunk.  A chunk has a slot per column and storage  *)
(* class, but one NULL flag for the slots of the same number.                *)
(****************************************************************************)
EXTENDS JoinFilter

LOCAL INSTANCE FiniteSetsExt
LOCAL INSTANCE SequencesExt

CONSTANTS
    Readers,       \* the workers, 1 .. pg_yaap_parallel_max_workers
    ScanChunk,     \* PIPELINE_DEFAULT_CHUNK_SIZE
    ClaimSize,     \* blocks claimed at once (ComputeAggressiveChunkSize)
    CheckEvery,    \* rows between two looks at the cancel flag
    Scans          \* [site, visible, filters, pages, start, cancel]: the columns put out, the
                   \* WHERE clause, for each block its rows [seen, row], the block the
                   \* scan starts at, and whether the query may be cancelled

VARIABLES
    scan,        \* the scan of this behaviour
    tape,        \* its lowered filters
    allocated,   \* phs_nallocated
    reader,      \* of each worker [pc, claimed, page, index, checks, exhausted, chunk]
    delivered,   \* for each row of the table, the tuples put out for it
    cancelled    \* the query state's cancel flag

scanVars == <<scan, tape, allocated, reader, delivered, cancelled>>

Blocks == Len(scan.pages)
RowIds == UNION {{<<b, i>> : i \in DOMAIN scan.pages[b]} : b \in 1 .. Blocks}
RowAt(id) == scan.pages[id[1]][id[2]].row

------------------------------------------------------------------------------
(* Chunks. *)

Stale == <<"stale">>

\* Slots are counted per storage class over the columns of the scan (BuildSeqScanColumns).
Class(c) == IF Kind(c) \in {"int4", "string"} THEN "narrow" ELSE "wide"
SlotOf(c) == Cardinality({d \in 1 .. c : Class(d) = Class(c)})

\* Columns are decoded in the order of their attributes, and the last one of a slot number
\* leaves the NULL flag of the row for both classes.  A column that is NULL is not written.
Flagged(row, slot) ==
    row[Max({c \in Range(scan.visible) : SlotOf(c) = slot})] = <<>>
Decode(row) ==
    [k \in DOMAIN scan.visible |->
        LET c == scan.visible[k]
        IN  IF Flagged(row, SlotOf(c)) THEN <<>>
            ELSE IF row[c] = <<>> THEN Stale ELSE row[c]]

Project(row) == [k \in DOMAIN scan.visible |-> row[scan.visible[k]]]

\* One of two columns of a slot number is NULL.
SharesNullFlag(row) ==
    \E c, d \in Range(scan.visible) :
        SlotOf(c) = SlotOf(d) /\ row[c] = <<>> /\ row[d] # <<>>

------------------------------------------------------------------------------
NoReader == [pc |-> "none", claimed |-> <<>>, page |-> 0, index |-> 0, checks |-> 0,
             exhausted |-> FALSE, chunk |-> <<>>]

Init ==
    /\ scan \in Scans
    /\ tape = IF scan.site = "join" THEN LowerJoinFilters(scan.filters)
              ELSE LowerScanFilters(scan.filters)
    /\ allocated = 0
    /\ reader = [w \in Readers |-> NoReader]
    /\ delivered = [id \in RowIds |-> <<>>]
    /\ cancelled = FALSE

\* A plan with a filter that cannot be lowered is left to PostgreSQL.
Scanning == tape.ok /\ scan.site = "scan"

\* A task per thread (ComputeMaxThreadsFromPayload).
MaxThreads == Max({1, Min({Cardinality(Readers), Blocks})})

\* A worker opens the relation; an empty one is exhausted from the start.
GetLocalSourceState(w) ==
    /\ Scanning /\ w <= MaxThreads /\ reader[w].pc = "none"
    /\ reader' = [reader EXCEPT ![w].pc = "idle", ![w].exhausted = (Blocks = 0)]
    /\ UNCHANGED <<scan, tape, allocated, delivered, cancelled>>

\* GetData is called with an empty chunk until it says FINISHED.
GetData(w) ==
    /\ reader[w].pc = "idle"
    /\ reader' = [reader EXCEPT
        ![w].pc = IF reader[w].exhausted THEN "finished" ELSE "check",
        ![w].checks = 0, ![w].chunk = <<>>]
    /\ UNCHANGED <<scan, tape, allocated, delivered, cancelled>>

\* The cancel flag is looked at before the first row and every CheckEvery rows; the page is
\* given back, but the reader is not exhausted.
CheckCancel(w) ==
    /\ reader[w].pc = "check"
    /\ reader' =
        IF reader[w].checks = 0 /\ cancelled
        THEN [reader EXCEPT ![w].pc = "return", ![w].page = 0, ![w].index = 0]
        ELSE [reader EXCEPT ![w].pc = "fetch", ![w].checks = (@ + 1) % CheckEvery]
    /\ UNCHANGED <<scan, tape, allocated, delivered, cancelled>>

\* The lines of a page the snapshot sees (PgYaapCollectPageTuples).
VisibleTuples(b) == SelectSeq([i \in 1 .. Len(scan.pages[b]) |-> i], LAMBDA i : scan.pages[b][i].seen)

rs_ntuples(r) == IF r.page = 0 THEN 0 ELSE Len(VisibleTuples(r.page))
PageUsedUp(r) == r.index = rs_ntuples(r)

\* Mutant of Claim: one block more than the cursor is moved by.
ClaimOneMore(from) ==
    [i \in 1 .. Min({ClaimSize + 1, Max({0, Blocks - from})}) |->
        1 + ((scan.start + from + i - 1) % Blocks)]

\* The blocks of a claim, from a start block on and around the end of the table.
Claim(from) ==
    [i \in 1 .. Min({ClaimSize, Max({0, Blocks - from})}) |-> 1 + ((scan.start + from + i - 1) % Blocks)]

\* LoadNextSeqScanPage: the old page is given back; no page is read for a cancelled query.
\* The cursor stops at the end of the table, where the code lets it run on.
LoadPage(w) ==
    /\ reader[w].pc = "fetch" /\ PageUsedUp(reader[w])
    /\ LET claims == ~cancelled /\ reader[w].claimed = <<>>
           blocks == IF claims THEN Claim(allocated) ELSE reader[w].claimed
       IN  /\ allocated' = IF claims THEN Min({Blocks, allocated + ClaimSize}) ELSE allocated
           /\ reader' =
                IF cancelled \/ blocks = <<>>
                THEN [reader EXCEPT ![w].page = 0, ![w].index = 0,
                                    ![w].pc = "return", ![w].exhausted = TRUE]
                ELSE [reader EXCEPT ![w].page = Head(blocks), ![w].index = 0,
                                    ![w].claimed = Tail(blocks)]
    /\ UNCHANGED <<scan, tape, delivered, cancelled>>

\* One visible row: the filter columns are decoded, the tape is run, and a row that passes
\* is decoded into the chunk.  `high' is what half-written words hold.
NextTuple(w) ==
    /\ reader[w].pc = "fetch" /\ ~PageUsedUp(reader[w])
    /\ \E high \in {0, 1} :
        LET r == reader[w]
            id == <<r.page, VisibleTuples(r.page)[r.index + 1]>>
            chunk == IF Accepts("scan", tape, RowAt(id), high)
                     THEN Append(r.chunk, [id |-> id, tuple |-> Decode(RowAt(id))]) ELSE r.chunk
        IN  reader' = [reader EXCEPT
                ![w].index = @ + 1, ![w].chunk = chunk,
                ![w].pc = IF Len(chunk) = ScanChunk THEN "return" ELSE "check"]
    /\ UNCHANGED <<scan, tape, allocated, delivered, cancelled>>

\* Mutant of Return: only an exhausted reader finishes.
ReturnUntilExhausted(w) ==
    /\ reader[w].pc = "return"
    /\ reader' = [reader EXCEPT
        ![w].page = 0, ![w].index = 0, ![w].chunk = <<>>,
        ![w].pc = IF reader[w].exhausted /\ reader[w].chunk = <<>> THEN "finished" ELSE "idle"]
    /\ UNCHANGED <<scan, tape, allocated, delivered, cancelled>>

\* The chunk goes down the pipeline.  The page is kept only if the chunk is full, and an
\* empty chunk is the end.
Return(w) ==
    /\ reader[w].pc = "return"
    /\ LET chunk == reader[w].chunk
           keeps == Len(chunk) = ScanChunk
       IN  /\ reader' = [reader EXCEPT
                ![w].page = IF keeps THEN @ ELSE 0, ![w].index = IF keeps THEN @ ELSE 0,
                ![w].pc = IF chunk = <<>> THEN "finished" ELSE "idle",
                ![w].chunk = <<>>]
           /\ delivered' = [id \in RowIds |-> delivered[id] \o
                [k \in 1 .. Cardinality({i \in DOMAIN chunk : chunk[i].id = id}) |->
                    Decode(RowAt(id))]]
    /\ UNCHANGED <<scan, tape, allocated, cancelled>>

\* The filter operator: an input chunk of rows is reduced to those that pass.
Execute ==
    /\ tape.ok /\ scan.site = "filter" /\ allocated < Blocks
    /\ allocated' = allocated + 1
    /\ LET in == scan.pages[allocated + 1]
           selected == SelectSeq([i \in 1 .. Len(in) |-> i],
                                 LAMBDA i : Accepts("filter", tape, in[i].row, 0))
       IN  delivered' = [id \in RowIds |->
                IF id[1] = allocated + 1 /\ id[2] \in Range(selected)
                THEN Append(delivered[id], Project(RowAt(id))) ELSE delivered[id]]
    /\ UNCHANGED <<scan, tape, reader, cancelled>>

\* The probe of a hash join: of the pairs with equal keys those that pass are put out.
FilterMatches ==
    /\ tape.ok /\ scan.site = "join" /\ allocated < Blocks
    /\ allocated' = allocated + 1
    /\ \E stale \in {0, 1} :
        delivered' = [id \in RowIds |->
            IF id[1] = allocated + 1 /\ JoinAccepts(tape, RowAt(id), stale)
            THEN Append(delivered[id], Project(RowAt(id))) ELSE delivered[id]]
    /\ UNCHANGED <<scan, tape, reader, cancelled>>

Cancel ==
    /\ scan.cancel /\ ~cancelled
    /\ cancelled' = TRUE
    /\ UNCHANGED <<scan, tape, allocated, reader, delivered>>

ReaderStep(w) ==
    \/ GetLocalSourceState(w) \/ GetData(w) \/ CheckCancel(w)
    \/ LoadPage(w) \/ NextTuple(w) \/ Return(w)

Next == (\E w \in Readers : ReaderStep(w)) \/ Execute \/ FilterMatches \/ Cancel

\* A worker that has a task keeps running it.
Spec ==
    /\ Init /\ [][Next]_scanVars
    /\ WF_scanVars(Execute \/ FilterMatches) /\ \A w \in Readers : WF_scanVars(ReaderStep(w))

------------------------------------------------------------------------------
TypeOK ==
    /\ scan \in Scans
    /\ allocated \in 0 .. Blocks
    /\ cancelled \in BOOLEAN
    /\ \A w \in Readers :
        LET r == reader[w]
        IN  /\ r.pc \in {"none", "idle", "check", "fetch", "return", "finished"}
            /\ r.page \in 0 .. Blocks
            /\ r.index \in 0 .. rs_ntuples(r)
            /\ Len(r.chunk) <= ScanChunk
            /\ Range(r.claimed) \subseteq 1 .. Blocks

Finished ==
    \/ ~tape.ok
    \/ IF scan.site # "scan" THEN allocated = Blocks
       ELSE \A w \in Readers : w <= MaxThreads => reader[w].pc = "finished"

\* A visible row all of whose filters are true.
Wanted(id) ==
    /\ scan.pages[id[1]][id[2]].seen
    /\ \A k \in DOMAIN scan.filters : Truth(scan.filters[k], RowAt(id)) = "true"

\* However the blocks are divided among the workers, and wherever chunks fill up, a scan
\* that was not cancelled has put out every row the WHERE clause is true for, once, with
\* the values of its columns, but for the filters of KnownWrong and rows with a shared
\* NULL flag (PhysicalSeqScan::GetData, PhysicalFilter::Execute); the same of the pairs that
\* pass the residual filter of a join (PhysicalHashJoin::Execute).
ScanOutput ==
    tape.ok => \A id \in RowIds :
        LET known_wrong == KnownWrong(scan.site, scan.filters, tape, RowAt(id))
        IN  /\ Len(delivered[id]) <= 1
            /\ delivered[id] # <<>> => Wanted(id) \/ known_wrong
            /\ Finished /\ ~cancelled /\ Wanted(id) => delivered[id] # <<>> \/ known_wrong
            /\ Range(delivered[id]) \subseteq {Project(RowAt(id))} \/ SharesNullFlag(RowAt(id))

\* Two readers never hold one page; one that has not begun or has finished, cancelled or
\* not, holds none.  Between two calls a reader keeps the page in whose middle its chunk
\* ran full (ReleaseSeqScanPage).
PagesAreHeldOnce ==
    /\ \A v, w \in Readers : v # w /\ reader[v].page # 0 => reader[v].page # reader[w].page
    /\ \A w \in Readers : reader[w].pc \in {"none", "finished"} => reader[w].page = 0

\* Every reader finishes, cancelled or not.
ScanEnds == <>Finished
=============================================================================
