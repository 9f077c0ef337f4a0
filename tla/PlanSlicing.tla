----------------------------- MODULE PlanSlicing -----------------------------
(****************************************************************************)
(* A tree of operators on its way to the workers: MetaPipeline slices it    *)
(* into pipelines, LeaderSerializePipelines gives every pipeline its own    *)
(* descriptor of each operator in it, the leader allocates the payload of   *)
(* an operator when the first pipeline with it is scheduled and stores it   *)
(* in the descriptors, and workers rebuild the operators from those at a    *)
(* time of their own.  Rows are abstracted to their origin: the operators   *)
(* they went through, in postfix order.                                     *)
(****************************************************************************)
LOCAL INSTANCE Integers
LOCAL INSTANCE Sequences
LOCAL INSTANCE SequencesExt
LOCAL INSTANCE FiniteSets
LOCAL INSTANCE FiniteSetsExt

CONSTANTS Trees,       \* functions from nodes, 1 the root, to [type, kids, threads]
          NumWorkers,  \* parallel_max_workers
          NumPartitions \* what HashAggChoosePartitionCount returns

VARIABLES tree,      \* the operators
          bundle,    \* the pipelines; number p is pipeline id p - 1
          slots,     \* slots[p][i]: the payload in the i-th descriptor of p
          memory,    \* memory[n]: the payload that belongs to n
          phase,     \* phase[p]: how far the events of p are
          tasks,     \* tasks[p]: the workers that have a task of the current event
          ran,       \* ran[p]: the workers that have run p
          copies,    \* copies[w][p][i]: the payload a worker's operator holds
          made,      \* made[p]: what RUN tasks of p brought to its sink
          contents,  \* contents[n]: the rows in the payload of n
          failed     \* an ERROR was raised

sliceVars == <<tree, bundle, slots, memory, phase, tasks, ran, copies, made, contents, failed>>

Nobody == 0
WorkerIds == 1 .. NumWorkers
Type(n) == tree[n].type
Kid(n, i) == tree[n].kids[i]
IsAggregate(n) == Type(n) \in {"HASH_AGGREGATE", "PERFECT_HASH_AGGREGATE"}
IsPipelineBreaker(n) == IsAggregate(n) \/ Type(n) = "TOP_N"
IsJoin(n) == Type(n) \in {"HASH_JOIN", "CROSS_PRODUCT"}

------------------------------------------------------------------------------
(* Slicing. *)

NewPipeline(sink) == [source |-> Nobody, ops |-> <<>>, sink |-> sink, depends_on |-> {}]

\* Variant: the producer waits for its consumer.
CreateChildInverted(pipelines, parent, sink) ==
    Append(pipelines, [NewPipeline(sink) EXCEPT !.depends_on = {parent}])

\* A pipeline that fills sink, for parent to read or probe.
CreateChildPipeline(pipelines, parent, sink) ==
    Append([pipelines EXCEPT ![parent].depends_on = @ \cup {Len(pipelines) + 1}],
           NewPipeline(sink))

SetSource(pipelines, p, n) ==
    IF pipelines[p].source = Nobody THEN [pipelines EXCEPT ![p].source = n] ELSE pipelines
AddOperator(pipelines, p, n) == [pipelines EXCEPT ![p].ops = Append(@, n)]

\* Operators are added on the way back up, so that they end up in the order of the rows.
RECURSIVE BuildPipelines(_, _, _)
BuildPipelines(n, p, pipelines) ==
    CASE Type(n) = "OUTPUT" ->
             BuildPipelines(Kid(n, 1), p, [pipelines EXCEPT ![p].sink = n])
      [] IsPipelineBreaker(n) ->
             LET linked == CreateChildPipeline(SetSource(pipelines, p, n), p, n)
             IN  BuildPipelines(Kid(n, 1), Len(linked), linked)
      [] IsJoin(n) ->
             LET linked == CreateChildPipeline(pipelines, p, n)
                 built  == BuildPipelines(Kid(n, 2), Len(linked), linked)
             IN  AddOperator(BuildPipelines(Kid(n, 1), p, built), p, n)
      [] Type(n) = "DELIM_SCAN" ->
             LET linked == CreateChildPipeline(SetSource(pipelines, p, n), p, Kid(n, 1))
             IN  BuildPipelines(Kid(Kid(n, 1), 1), Len(linked), linked)
      [] Type(n) = "SEQ_SCAN" -> SetSource(pipelines, p, n)
      [] OTHER -> AddOperator(BuildPipelines(Kid(n, 1), p, pipelines), p, n)

------------------------------------------------------------------------------
(* Payloads.  A payload is named by the node it belongs to; a delim scan    *)
(* has that of its producer.                                                *)

PayloadOf(n) == IF Type(n) = "DELIM_SCAN" THEN Kid(n, 1) ELSE n
IsDelimProducer(n) == \E scan \in DOMAIN tree : Type(scan) = "DELIM_SCAN" /\ Kid(scan, 1) = n

\* What the translator allocates: of a delim aggregate no more than the header.
Translated(n) ==
    CASE Type(n) \in {"OUTPUT", "TOP_N"} -> "ready"
      [] IsDelimProducer(n) -> "header"
      [] OTHER -> "none"
OwnPayload(n) == IF Translated(PayloadOf(n)) = "none" THEN Nobody ELSE PayloadOf(n)

Operators(p) == <<bundle[p].source>> \o bundle[p].ops \o <<bundle[p].sink>>

\* The descriptors AttachDescriptor has noted for n, and the last of them.
Descriptors(n) ==
    {slot \in (DOMAIN bundle) \X (1 .. Cardinality(DOMAIN tree) + 1) :
        slot[2] <= Len(Operators(slot[1])) /\ Operators(slot[1])[slot[2]] = n}
LastDescriptor(n) == CHOOSE slot \in Descriptors(n) : \A other \in Descriptors(n) : other[1] <= slot[1]

\* Variant: only the descriptor attached last is written.
StoredInLast(stored, n, payload) ==
    LET last == LastDescriptor(n)
    IN  [stored EXCEPT ![last[1]][last[2]] = payload]

StoreSharedPayloadOnDescriptor(stored, n, payload) ==
    [p \in DOMAIN stored |-> [i \in DOMAIN stored[p] |->
        IF <<p, i>> \in Descriptors(n) THEN payload ELSE stored[p][i]]]

\* The leader's operator: the pointer it was made with, or its last descriptor.
LeaderPayload(n, stored) ==
    IF OwnPayload(n) # Nobody THEN OwnPayload(n)
    ELSE stored[LastDescriptor(n)[1]][LastDescriptor(n)[2]]

\* A worker's operator: the pointer it was rebuilt with, or its own descriptor.
WorkerPayload(w, p, i) ==
    IF copies[w][p][i] # Nobody THEN copies[w][p][i] ELSE slots[p][i]

StateOf(payload) == IF payload = Nobody THEN "none" ELSE memory[payload]

------------------------------------------------------------------------------
Init ==
    /\ tree \in Trees
    /\ bundle = <<>> /\ slots = <<>>
    /\ memory = [n \in DOMAIN tree |-> Translated(n)]
    /\ phase = <<>> /\ tasks = <<>> /\ ran = <<>> /\ made = <<>>
    /\ copies = [w \in WorkerIds |-> <<>>]
    /\ contents = [n \in DOMAIN tree |-> <<>>]
    /\ failed = FALSE

\* MetaPipeline::Build and BuildEvents.
Build ==
    /\ bundle = <<>>
    /\ bundle' = BuildPipelines(1, 1, <<NewPipeline(Nobody)>>)
    /\ phase' = [p \in DOMAIN bundle' |-> "pending"]
    /\ tasks' = [p \in DOMAIN bundle' |-> {}]
    /\ ran' = [p \in DOMAIN bundle' |-> {}]
    /\ made' = [p \in DOMAIN bundle' |-> {}]
    /\ UNCHANGED <<tree, slots, memory, copies, contents, failed>>

LeaderSerializePipelines ==
    /\ bundle # <<>> /\ slots = <<>>
    /\ slots' = [p \in DOMAIN bundle |->
                    [i \in DOMAIN Operators(p) |-> OwnPayload(Operators(p)[i])]]
    /\ UNCHANGED <<tree, bundle, memory, phase, tasks, ran, copies, made, contents, failed>>

\* Pipeline after pipeline, at any time after the worker has said that it is ready.
WorkerReconstructPipelines(w) ==
    /\ slots # <<>> /\ ~failed
    /\ Len(copies[w]) < Len(bundle)
    /\ copies' = [copies EXCEPT ![w] = Append(@, slots[Len(@) + 1])]
    /\ UNCHANGED <<tree, bundle, slots, memory, phase, tasks, ran, made, contents, failed>>

\* Which payloads the first GetGlobalSourceState or GetGlobalSinkState on the leader makes.
HasNoPayload(n) == LeaderPayload(n, slots) = Nobody
IsMadeBuild(n) == IsJoin(n) /\ HasNoPayload(n)
IsMadePerfect(n) == Type(n) = "PERFECT_HASH_AGGREGATE" /\ HasNoPayload(n)
IsMadeByLeader(n) ==
    \/ Type(n) = "SEQ_SCAN" /\ HasNoPayload(n)
    \/ Type(n) = "HASH_AGGREGATE" /\ StateOf(LeaderPayload(n, slots)) \in {"none", "header"}
    \/ IsMadePerfect(n)
    \/ IsMadeBuild(n)

MaxThreads(n, stored) ==
    CASE Type(n) = "SEQ_SCAN" -> tree[n].threads
      [] Type(n) = "DELIM_SCAN" -> Min({NumWorkers, NumPartitions})
      [] IsJoin(n) -> IF LeaderPayload(n, stored) = Nobody THEN 1 ELSE NumWorkers
      [] Type(n) = "OUTPUT" -> 1
      [] OTHER -> NumWorkers

IsParallelSource(n) == Type(n) \in {"SEQ_SCAN", "DELIM_SCAN"}

DeriveRunTaskCount(p, stored) ==
    Min({NumWorkers, MaxThreads(bundle[p].sink, stored),
         IF IsParallelSource(bundle[p].source) THEN MaxThreads(bundle[p].source, stored) ELSE 1}
        \cup {MaxThreads(n, stored) : n \in ToSet(bundle[p].ops)})

IsReady(p) == phase[p] = "pending" /\ \A d \in bundle[p].depends_on : phase[d] = "finished"

\* PipelineRunEvent::Schedule and the RUN case of EnqueueTasks.
Schedule(p) ==
    LET created == {n \in {bundle[p].source, bundle[p].sink} : IsMadeByLeader(n)}
        stored  == FoldSet(LAMBDA n, so_far : StoreSharedPayloadOnDescriptor(so_far, n, PayloadOf(n)),
                           slots, created)
    IN  /\ slots # <<>> /\ ~failed /\ IsReady(p)
        /\ memory' = [n \in DOMAIN tree |-> IF n \in created THEN "ready" ELSE memory[n]]
        /\ slots' = stored
        /\ IF \A n \in {bundle[p].source, bundle[p].sink} :
                  LeaderPayload(n, stored) # Nobody /\ memory'[LeaderPayload(n, stored)] \in {"ready", "final"}
           THEN /\ phase' = [phase EXCEPT ![p] = "run"]
                /\ tasks' = [tasks EXCEPT ![p] = 1 .. DeriveRunTaskCount(p, stored)]
                /\ UNCHANGED failed
           ELSE failed' = TRUE /\ UNCHANGED <<phase, tasks>>
        /\ UNCHANGED <<tree, bundle, ran, copies, made, contents>>

\* The rows of a source; one that is not finalized has none.
SourceRows(n, payload) ==
    CASE Type(n) = "SEQ_SCAN" -> <<n>>
      [] memory[payload] # "final" -> <<>>
      [] Type(n) = "DELIM_SCAN" -> Append(contents[payload], n)
      [] OTHER -> contents[payload]

\* The rows behind an operator, from those before it.
Through(rows, n) == IF IsJoin(n) THEN rows \o contents[n] \o <<n>> ELSE Append(rows, n)

HasTask(w, p) ==
    /\ p \in DOMAIN phase /\ w \in tasks[p]
    /\ Len(copies[w]) = Len(bundle) /\ ~failed

\* A RUN task, which raises an ERROR for a payload that is not there, not finalized or
\* released.
RunTask(w, p) ==
    LET all == Operators(p)
        StateAt(i) == StateOf(WorkerPayload(w, p, i))
        found == /\ StateAt(1) \in {"ready", "final"}
                 /\ \A i \in 2 .. Len(all) - 1 : IsJoin(all[i]) => StateAt(i) = "final"
                 /\ StateAt(Len(all)) \in {"ready", "final"}
    IN  /\ HasTask(w, p) /\ phase[p] = "run"
        /\ IF found
           THEN /\ made' = [made EXCEPT ![p] = @ \cup
                        {FoldLeft(Through, SourceRows(all[1], WorkerPayload(w, p, 1)), bundle[p].ops)}]
                /\ ran' = [ran EXCEPT ![p] = @ \cup {w}]
                /\ tasks' = [tasks EXCEPT ![p] = @ \ {w}]
                /\ UNCHANGED failed
           ELSE failed' = TRUE /\ UNCHANGED <<made, ran, tasks>>
        /\ UNCHANGED <<tree, bundle, slots, memory, phase, copies, contents>>

\* The workers with a COMBINE task; the count of partitions that go round is derived
\* anew, with the joins of the pipeline released by now.
CombineTasks(p, stored) ==
    CASE Type(bundle[p].sink) \in {"TOP_N", "OUTPUT"} -> {}
      [] Type(bundle[p].sink) = "HASH_AGGREGATE" ->
             {1 + (i % DeriveRunTaskCount(p, stored)) : i \in 0 .. NumPartitions - 1}
      [] Type(bundle[p].sink) = "PERFECT_HASH_AGGREGATE" -> {1}
      [] OTHER -> 1 .. Cardinality(ran[p])

\* ReleaseBuildPayloadAfterConsumerRun of the joins that p has probed.
Released(p) == {n \in ToSet(bundle[p].ops) : IsJoin(n) /\ ~HasNoPayload(n)}

\* PipelinePostConsumerRunCleanup, FinishEvent of the RUN and Schedule of the COMBINE.
FinishRun(p) ==
    LET released == Released(p)
        cleared  == FoldSet(LAMBDA n, so_far : StoreSharedPayloadOnDescriptor(so_far, n, Nobody),
                            slots, released)
    IN  /\ phase[p] = "run" /\ tasks[p] = {} /\ ~failed
        /\ memory' = [n \in DOMAIN tree |-> IF n \in released THEN "freed" ELSE memory[n]]
        /\ slots' = cleared
        /\ phase' = [phase EXCEPT ![p] = "combine"]
        /\ tasks' = [tasks EXCEPT ![p] = CombineTasks(p, cleared)]
        /\ UNCHANGED <<tree, bundle, ran, copies, made, contents, failed>>

\* A COMBINE task works on what the RUN of the same worker has left.
CombineTask(w, p) ==
    /\ HasTask(w, p) /\ phase[p] = "combine"
    /\ IF w \in ran[p] /\ StateOf(WorkerPayload(w, p, Len(Operators(p)))) = "ready"
       THEN tasks' = [tasks EXCEPT ![p] = @ \ {w}] /\ UNCHANGED failed
       ELSE failed' = TRUE /\ UNCHANGED tasks
    /\ UNCHANGED <<tree, bundle, slots, memory, phase, ran, copies, made, contents>>

\* The FINALIZE on the leader; what waits for it is told by IsReady.
Finalize(p) ==
    LET sink == bundle[p].sink
    IN  /\ phase[p] = "combine" /\ tasks[p] = {} /\ ~failed
        /\ phase' = [phase EXCEPT ![p] = "finished"]
        /\ memory' = [memory EXCEPT ![PayloadOf(sink)] = "final"]
        /\ \E rows \in made[p] :
              contents' = [contents EXCEPT ![sink] = IF IsJoin(sink) THEN rows ELSE Append(rows, sink)]
        /\ UNCHANGED <<tree, bundle, slots, tasks, ran, copies, made, failed>>

SliceNext ==
    \/ Build
    \/ LeaderSerializePipelines
    \/ \E w \in WorkerIds : WorkerReconstructPipelines(w)
    \/ \E p \in DOMAIN phase : Schedule(p) \/ FinishRun(p) \/ Finalize(p)
    \/ \E p \in DOMAIN phase, w \in WorkerIds : RunTask(w, p) \/ CombineTask(w, p)

------------------------------------------------------------------------------
(* Properties. *)

\* The rows of a tree without slicing: every operator after what it reads.
RECURSIVE Meaning(_)
Meaning(n) == FlattenSeq([i \in DOMAIN tree[n].kids |-> Meaning(Kid(n, i))]) \o <<n>>

\* However the tree is sliced, whenever the workers rebuild their operators and in
\* whatever order the pipelines run, no process meets a payload that is missing, not
\* finished or freed, the pipelines do not wait for each other, and the client gets the
\* rows of the tree.
SlicesComputePlan ==
    /\ ~failed
    /\ slots # <<>> =>
          \/ \A p \in DOMAIN phase : phase[p] = "finished"
          \/ \E p \in DOMAIN phase : IsReady(p) \/ phase[p] \in {"run", "combine"}
    /\ phase # <<>> /\ phase[1] = "finished" => contents[1] = Meaning(1)
==============================================================================
