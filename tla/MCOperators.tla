----------------------------- MODULE MCOperators -----------------------------
(****************************************************************************)
(* The physical operators and the slicing of a tree of them, each on inputs  *)
(* of its own: a behaviour is one of one component, the variables of the     *)
(* others stay in a first state or at Idle.                                  *)
(****************************************************************************)
EXTENDS HashJoin, PipelineDrain, HashAggregate, SortedOutput

CONSTANTS
    Components,                                         \* the components of the run
    Table, MaxRegs, MaxInputs, Word, ClaimSize, CheckEvery, Scans,    \* TableScan
    Trees                                               \* PlanSlicing

VARIABLES
    component,
    scan, tape, allocated, scanner, delivered, cancelled,
    tree, bundle, slots, memory, phase, tasks, ran, copies, made, contents, failed

Scan == INSTANCE TableScan WITH Readers <- Workers, ScanChunk <- ChunkSize, reader <- scanner
Slice == INSTANCE PlanSlicing WITH NumWorkers <- Cardinality(Workers), NumPartitions <- Partitions

scanVars == <<scan, tape, allocated, scanner, delivered, cancelled>>
sliceVars ==
    <<tree, bundle, slots, memory, phase, tasks, ran, copies, made, contents, failed>>
allVars == <<component, vars, taskVars, aggregateVars, scanVars, sortVars, sliceVars>>

------------------------------------------------------------------------------
Idle == "idle"
JoinIdle ==
    /\ join = (CHOOSE j \in Layouts : TRUE)
    /\ input = (CHOOSE i \in Inputs : TRUE)
    /\ pc = [w \in Workers |-> "start"]
    /\ Init
DrainIdle ==
    /\ ops = (CHOOSE plan \in Plans : TRUE)
    /\ source = (CHOOSE chunks \in Sources : TRUE)
    /\ TaskInit
AggregateIdle ==
    /\ agg = (CHOOSE case \in AggCases : TRUE)
    /\ AggregateInit
ScanIdle ==
    /\ scan = Idle /\ tape = Idle /\ allocated = Idle /\ scanner = Idle
    /\ delivered = Idle /\ cancelled = Idle
SortIdle ==
    /\ query = (CHOOSE q \in Queries : TRUE)
    /\ SortInit
SliceIdle ==
    /\ tree = Idle /\ bundle = Idle /\ slots = Idle /\ memory = Idle /\ phase = Idle
    /\ tasks = Idle /\ ran = Idle /\ copies = Idle /\ made = Idle /\ contents = Idle
    /\ failed = Idle

OperatorsInit ==
    /\ component \in Components
    /\ IF component = "join" THEN Init ELSE JoinIdle
    /\ IF component = "drain" THEN TaskInit ELSE DrainIdle
    /\ IF component = "aggregate" THEN AggregateInit ELSE AggregateIdle
    /\ IF component = "scan" THEN Scan!Init ELSE ScanIdle
    /\ IF component = "sort" THEN SortInit ELSE SortIdle
    /\ IF component = "slice" THEN Slice!Init ELSE SliceIdle

JoinNext ==
    /\ component = "join" /\ Next
    /\ UNCHANGED <<component, taskVars, aggregateVars, scanVars, sortVars, sliceVars>>
DrainNext ==
    /\ component = "drain" /\ TaskNext
    /\ UNCHANGED <<component, vars, aggregateVars, scanVars, sortVars, sliceVars>>
GroupNext ==
    /\ component = "aggregate" /\ AggregateNext
    /\ UNCHANGED <<component, vars, taskVars, scanVars, sortVars, sliceVars>>
ScanNext ==
    /\ component = "scan" /\ Scan!Next
    /\ UNCHANGED <<component, vars, taskVars, aggregateVars, sortVars, sliceVars>>
SheetNext ==
    /\ component = "sort" /\ SortNext
    /\ UNCHANGED <<component, vars, taskVars, aggregateVars, scanVars, sliceVars>>
SliceNext ==
    /\ component = "slice" /\ Slice!SliceNext
    /\ UNCHANGED <<component, vars, taskVars, aggregateVars, scanVars, sortVars>>

OperatorsNext == JoinNext \/ DrainNext \/ GroupNext \/ ScanNext \/ SheetNext \/ SliceNext

\* The fairness of HashJoin, PipelineDrain and TableScan.
OperatorsFairness ==
    /\ \A w \in Workers : WF_vars(component = "join" /\
           (GetLocalSinkState(w) \/ SinkRow(w) \/ CombineStep(w)))
    /\ WF_vars(component = "join" /\
           (StartCombine \/ Finalize \/ ProbeStep \/ Release))
    /\ WF_taskVars(component = "drain" /\ TaskNext)
    /\ WF_scanVars(component = "scan" /\ (Scan!Execute \/ Scan!FilterMatches))
    /\ \A w \in Workers : WF_scanVars(component = "scan" /\ Scan!ReaderStep(w))

OperatorsSpec == OperatorsInit /\ [][OperatorsNext]_allVars /\ OperatorsFairness

------------------------------------------------------------------------------
\* The states of every operator are well-formed: stores hold what they have room for,
\* cursors stay in their chunks, hash tables keep a free slot.
TypesOK ==
    /\ TypeOK
    /\ TaskTypeOK
    /\ AggregateTypeOK
    /\ component = "scan" => Scan!TypeOK
    /\ SortTypeOK

\* Every build is published, probed to the end and released, or a worker failed and every
\* other leaves Combine.  Nobody waits for ever for the preparer, or for the spin lock of
\* a holder that goes on or gives up; only behind a holder that failed (an ERROR under the
\* lock, which nothing releases) a worker stays (PhysicalHashJoin::Combine, AtLostLock).
JoinEnds == <>(component = "join" => Ended)

\* A task ends however often it yields (PipelineRunTask::Execute, the drained flags).
TaskEnds == <>[](component = "drain" => TaskDone)

\* However the blocks are divided among the workers and wherever chunks fill up, every row
\* the WHERE clause is true for is put out once, with its values, but for the filters
\* known wrong and rows with a shared NULL flag (PhysicalSeqScan::GetData).
ScanOutput == component = "scan" => Scan!ScanOutput

\* Two readers never hold one page, and one that has not begun or has finished holds
\* none, cancelled or not (ReleaseSeqScanPage).
PagesAreHeldOnce == component = "scan" => Scan!PagesAreHeldOnce

\* Every reader finishes, whatever is rejected or cancelled (PhysicalSeqScan::GetData).
ScanEnds == <>(component = "scan" => Scan!Finished)

\* However a tree is sliced, whenever the workers rebuild its operators and in whatever
\* order the pipelines run, no process meets a payload that is missing, not finished or
\* freed, no pipelines wait for each other, and the client gets the rows of the tree
\* (BuildPipelines, LeaderSerializePipelines, StoreSharedPayloadOnDescriptor).
SlicesComputePlan == component = "slice" => Slice!SlicesComputePlan

------------------------------------------------------------------------------
(* Inputs of HashJoin. *)

\* Layouts the translator makes: equal layouts agree on strings; semi and anti joins
\* have no RIGHT columns, and without a filter their payload is the first key, which
\* equals a key of one column.
MCLayouts ==
    {j \in [mode : {"INNER", "LEFT", "SEMI", "ANTI"}, equal : BOOLEAN,
            key_strings : BOOLEAN, payload_strings : BOOLEAN, refs_right : BOOLEAN,
            filtered : BOOLEAN, capacity : {1, 2}] :
        /\ j.mode \in {"SEMI", "ANTI"} => ~j.refs_right
        /\ j.mode \in {"INNER", "LEFT"} => j.refs_right
        /\ j.equal => j.key_strings = j.payload_strings
        /\ j.payload_strings /\ ~j.filtered /\ ~j.refs_right => j.key_strings}

\* Two keys that collide in hash, and one that shares their bucket.
MCInputs ==
    {<<a, b>> : a \in {<<>>, <<<<0, 0>>, <<8, 0>>>>, <<<<0, 1>>, <<0, 0>>>>},
                b \in {<<>>, <<<<0, 0>>>>, <<<<8, 0>>>>}}
MCChunks == <<<<<<0, 0>>, <<8, 0>>>>, <<<<0, 1>>>>>>

MCOuterJoins == {j \in MCLayouts : j.mode = "LEFT" /\ ~j.key_strings}

------------------------------------------------------------------------------
(* Inputs of PipelineDrain. *)

Filter == [kind |-> "filter", rows |-> 0]
Projection == [kind |-> "projection", rows |-> 0]
Cross(n) == [kind |-> "cross", rows |-> n]
Operators == {Filter, Projection} \cup {Cross(n) : n \in 0 .. 3}

\* Two chunks at most, of one or two rows.
MCSources == {<<>>, <<<<<<1>>>>>>, <<<<<<1>>, <<2>>>>, <<<<3>>>>>>, <<<<<<2>>, <<1>>>>, <<<<4>>, <<3>>>>>>}

AllPlans == UNION {[1 .. n -> Operators] : n \in 0 .. 3}
MCPlans == {plan \in AllPlans : ~InputIsOverwritten(plan)}

------------------------------------------------------------------------------
(* Inputs of HashAggregate. *)

\* a and b share slot, step and salt; c shares their slot; d is in the other partition.
MCHash == [g \in {"a", "b", "c", "d", "e", "f", "all"} |->
    CASE g = "c" -> [partition |-> 1, slot |-> 4, step |-> 3, salt |-> 1]
      [] g = "d" -> [partition |-> 2, slot |-> 1, step |-> 1, salt |-> 1]
      [] OTHER -> [partition |-> 1, slot |-> 0, step |-> 1, salt |-> 0]]

FirstInputs ==
    {<<>>} \cup {<<rows>> : rows \in [1 .. 3 -> {"a", "b", "c", "d"}]}
           \cup {<<rows, <<"b", "a", "d">>>> : rows \in [1 .. 4 -> {"a", "b", "c"}]}
SecondInputs == {<<>>, <<<<"b", "d", "c">>>>, <<<<"c", "a">>>>}

Case(kind, a, b) == [kind |-> kind, input |-> <<a, b>>]

\* More groups than the largest table has slots, for one worker and for all of them.
FullTables == {Case("hash", <<<<"a", "b", "c", "e">>, <<"f">>>>, <<>>),
               Case("hash", <<<<"a", "b", "c">>>>, <<<<"e", "f">>>>)}

AllCases == {Case(kind, a, b) : kind \in {"hash", "single", "perfect"},
                                a \in FirstInputs, b \in SecondInputs}

\* Without two cases: an aggregate without groups over no rows (no row is put out), and a
\* second worker with rows of a perfect-hash aggregate (they are not merged).
MCCases == FullTables \cup {c \in AllCases :
    /\ c.kind = "single" => c.input # <<<<>>, <<>>>>
    /\ c.kind = "perfect" => c.input[2] = <<>>}

------------------------------------------------------------------------------
(* Inputs of TableScan. *)

\* int4, numeric with one digit, string, int8, numeric with two digits, int4.  Column 1
\* shares its NULL flag with 2, and 3 with 4.
MCTable ==
    <<[kind |-> "int4", scale |-> 0, side |-> "left"],
      [kind |-> "numeric", scale |-> 1, side |-> "left"],
      [kind |-> "string", scale |-> 0, side |-> "right"],
      [kind |-> "int8", scale |-> 0, side |-> "right"],
      [kind |-> "numeric", scale |-> 2, side |-> "right"],
      [kind |-> "int4", scale |-> 0, side |-> "right"]>>

Col(c) == [is |-> "column", column |-> c]
Const(v) == [is |-> "constant", value |-> v]
Prefix(c, n) == [is |-> "prefix", column |-> c, length |-> n]
Cmp(cmp, l, r) == [op |-> "compare", cmp |-> cmp, left |-> l, right |-> r]
Bool(op, cs) == [op |-> op, children |-> cs]
AnyOf(op, cmp, l, ms) == [op |-> op, cmp |-> cmp, left |-> l, members |-> ms]

\* Strings of the letters 1 and 2.
Strings == UNION {[1 .. n -> {1, 2}] : n \in 0 .. 2}
Patterns == UNION {[1 .. n -> {1, 2, 0, -1}] : n \in 0 .. 3}
Comparisons == {"<", "<=", "=", ">=", ">", "<>"}
SimpleFilters ==
    {Cmp(cmp, Col(1), Const(<<100>>)) : cmp \in Comparisons}
    \cup {Cmp(cmp, Const(<<100>>), Col(4)) : cmp \in Comparisons}
    \cup {Cmp(cmp, Col(2), Const(v)) : cmp \in {"<", "="}, v \in {<<>>, <<110>>, <<105>>, <<-105>>}}
    \cup {Cmp(cmp, Col(c), Col(d)) : cmp \in {"<", "="}, c \in 1 .. 6, d \in 1 .. 6}
    \cup {Cmp(cmp, Col(3), Const(<<p>>)) : cmp \in {"~~", "!~~"}, p \in Patterns}
    \cup {Cmp("=", Prefix(3, 1), Const(<<p>>)) : p \in Strings}
    \cup {Cmp("~~", Const(<<<<1, 0>>>>), Col(3)), Cmp("=", Col(1), Const(<<150>>))}

Parts == {Cmp("=", Col(1), Const(<<100>>)), Cmp(">", Col(4), Const(<<100>>)),
          Cmp("~~", Col(3), Const(<<<<1, 0>>>>))}
Composite ==
    {Bool(op, <<a, b>>) : op \in {"and", "or"}, a \in Parts, b \in Parts}
    \cup {Bool("not", <<a>>) : a \in Parts}
    \cup {Bool("or", <<a, b, a>>) : a \in Parts, b \in Parts}
    \cup {Bool("or", <<Bool("not", <<a>>), Bool("and", <<b, c>>)>>) : a \in Parts, b \in Parts, c \in Parts}
    \cup {Bool("and", <<Bool("or", <<a, b>>), Bool("or", <<b, c>>)>>) : a \in Parts, b \in Parts, c \in Parts}
    \cup {AnyOf(op, "=", Col(1), ms) : op \in {"any", "all"},
            ms \in {<<>>, <<Const(<<100>>)>>, <<Const(<<100>>), Const(<<200>>)>>, <<Const(<<>>)>>}}
    \cup {AnyOf(op, "=", Prefix(3, 1), ms) : op \in {"any", "all"},
            ms \in {<<Const(<<<<1>>>>), Const(<<<<2>>>>)>>, <<Const(<<<<1, 2>>>>)>>}}

TableRow(a, b, c, d, e) == [seen |-> TRUE, row |-> <<a, b, c, d, e, <<1>>>>]
Dead(r) == [r EXCEPT !.seen = FALSE]
FullRow == TableRow(<<1>>, <<10>>, <<<<1>>>>, <<1>>, <<100>>)
OtherRow == TableRow(<<2>>, <<11>>, <<<<2, 1>>>>, <<2>>, <<110>>)
LongRow == TableRow(<<0>>, <<-11>>, <<<<1, 2, 2>>>>, <<-1>>, <<-110>>)
EmptyRow == TableRow(<<-1>>, <<1>>, <<<<>>>>, <<0>>, <<1>>)
NullRow == TableRow(<<>>, <<>>, <<>>, <<>>, <<>>)
HalfNull == TableRow(<<>>, <<10>>, <<<<1>>>>, <<>>, <<100>>)

ScanOf(site, visible, filters, pages, start, cancel) ==
    [site |-> site, visible |-> visible, filters |-> filters, pages |-> pages,
     start |-> start, cancel |-> cancel]

\* Every filter over one page of all rows; a third one that has no room for its columns.
FilterLists ==
    {<<f>> : f \in SimpleFilters \cup Composite}
    \cup {<<f, Cmp("<", Col(2), Const(<<110>>))>> : f \in Composite}
    \cup {<<f, Cmp("<", Col(2), Const(<<110>>)), Cmp("<=", Col(1), Col(2))>> : f \in Composite}
FilterScans ==
    {ScanOf(site, IF site = "join" THEN <<>> ELSE <<1, 3>>, fs,
            <<<<FullRow, OtherRow, LongRow, EmptyRow, NullRow, HalfNull>>>>, 0, FALSE) :
        site \in {"scan", "filter", "join"}, fs \in FilterLists}

\* Two filters over tables of up to four pages.
Pages == {<<>>, <<FullRow>>, <<Dead(FullRow)>>, <<OtherRow, NullRow, FullRow>>, <<FullRow, HalfNull>>}
Tables == {<<>>} \cup {<<p>> : p \in Pages} \cup {<<<<FullRow, FullRow>>, p>> : p \in Pages}
    \cup {<<<<FullRow>>, <<OtherRow, FullRow>>, <<>>, <<FullRow>>>>}
PageScans ==
    {ScanOf("scan", <<5, 1, 2>>, fs, t, start, cancel) :
        fs \in {<<>>, <<Cmp("=", Col(1), Const(<<100>>))>>}, t \in Tables,
        start \in 0 .. 1, cancel \in BOOLEAN}

MCScans == FilterScans \cup
    {s \in PageScans : /\ s.start = 0 \/ s.start < Len(s.pages)
                       /\ s.cancel = (Len(s.pages) < 3)}

------------------------------------------------------------------------------
(* Inputs of SortedOutput. *)

By(c, asc) == [col |-> c, asc |-> asc]
Order(keys) == [op |-> "order", keys |-> keys]
Limit(n) == [op |-> "limit", n |-> n]
Down == Order(<<By(1, FALSE)>>)
UpDown == Order(<<By(2, TRUE), By(1, FALSE)>>)
Nodes == {[op |-> "filter"], [op |-> "projection"], Limit(1), Limit(2),
          Order(<<By(1, TRUE)>>), Down, UpDown}

\* Plans of two nodes at most, and longer ones with a top-N below or above others.
SortPlans ==
    UNION {[1 .. n -> Nodes] : n \in 0 .. 2}
    \cup {<<o, Limit(2), n>> : o \in {Down, UpDown}, n \in Nodes}
    \cup {<<n, o, Limit(2)>> : o \in {Down, UpDown}, n \in Nodes}
    \cup {<<Down, Limit(3), [op |-> "filter"], Order(<<By(2, FALSE)>>), Limit(1)>>,
          <<UpDown, Limit(2), Limit(1), [op |-> "projection"]>>}

SortPartitions ==
    {<<<<>>>>, <<<<<<1, 3>>, <<2, 0>>, <<3, 2>>>>, <<<<1, 0>>>>>>, <<<<>>, <<<<3, 2>>, <<1, 3>>>>>>,
     <<<<<<1, 0>>, <<3, 2>>, <<3, 2>>, <<1, 3>>>>>>}
MCQueries == [plan : SortPlans, partitions : SortPartitions]

------------------------------------------------------------------------------
(* Inputs of PlanSlicing: numbered nodes, 1 the root. *)

Node(type, kids) == [type |-> type, kids |-> kids, threads |-> 1]
Leaf(threads) == [type |-> "SEQ_SCAN", kids |-> <<>>, threads |-> threads]

\* A top-N over a join with an aggregate; a top-N over a join of the values of a delim
\* aggregate with a cross product; an aggregate over two joins.
MCTrees ==
    {<<Node("OUTPUT", <<2>>), Node("TOP_N", <<3>>), Node("PROJECTION", <<4>>),
       Node("HASH_JOIN", <<5, 7>>), Node("FILTER", <<6>>), Leaf(2),
       Node("HASH_AGGREGATE", <<8>>), Leaf(2)>>,
     <<Node("OUTPUT", <<2>>), Node("TOP_N", <<3>>), Node("HASH_JOIN", <<4, 7>>),
       Node("DELIM_SCAN", <<5>>), Node("HASH_AGGREGATE", <<6>>), Leaf(2),
       Node("CROSS_PRODUCT", <<8, 9>>), Leaf(2), Node("PERFECT_HASH_AGGREGATE", <<10>>), Leaf(1)>>,
     <<Node("OUTPUT", <<2>>), Node("HASH_AGGREGATE", <<3>>), Node("HASH_JOIN", <<4, 5>>),
       Leaf(2), Node("HASH_JOIN", <<6, 7>>), Leaf(1), Leaf(2)>>}
=============================================================================
