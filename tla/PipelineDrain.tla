---------------------------- MODULE PipelineDrain ----------------------------
(****************************************************************************)
(* A RUN task inside one worker: chunks of the source are pushed through the *)
(* operators of the pipeline into the sink.  An operator may put out several *)
(* chunks for one input chunk; it then keeps a cursor into its input and is  *)
(* called again with the same input once the operators after it have used    *)
(* the output.  All operators share two scratch chunks (task.cpp,            *)
(* physical_filter.cpp, physical_projection.cpp, physical_cross_product.cpp).*)
(*                                                                          *)
(* A row is the sequence of the choices that led to it: its source row, then *)
(* one entry per projection or cross product it has passed.                  *)
(****************************************************************************)
EXTENDS Integers, SequencesExt

CONSTANTS
    Plans,        \* sequences of operators [kind, rows]
    Sources,      \* sequences of chunks, a chunk being 1 .. OutputSize source rows
    OutputSize,   \* PIPELINE_DEFAULT_CHUNK_SIZE
    ChunkBudget   \* chunks a task takes before it yields, not 0

Operator == [kind : {"filter", "projection", "cross"}, rows : Nat]
PipelineRow == Seq(Nat) \ {<<>>}

ASSUME BudgetAssumption == OutputSize \in Nat \ {0} /\ ChunkBudget \in Nat \ {0}
ASSUME PlansAssumption == Plans \subseteq Seq(Operator)
ASSUME SourcesAssumption ==
    Sources \subseteq Seq({rows \in Seq(PipelineRow) : Len(rows) \in 1 .. OutputSize})

VARIABLES
    ops,          \* the pipeline's operators
    source,       \* the chunks of the source
    next_chunk,   \* the one GetData returns next
    chunk,        \* contents of run_src_chunk and the two scratch chunks
    cursor,       \* of each operator: [probe, build, drained]
    depth,        \* operator about to run: 0 source, Len(ops) + 1 sink
    chunks_done,  \* of this slice of the task
    sunk          \* rows the sink has taken

taskVars == <<ops, source, next_chunk, chunk, cursor, depth, chunks_done, sunk>>

Registers == {"src_chunk", "scratch_a", "scratch_b"}
Fresh == [probe |-> 1, build |-> 1, drained |-> FALSE]

\* A filter looks at the source row only: it keeps the odd ones.
Passes(row) == row[1] % 2 = 1

\* What a row becomes in an operator.
Outputs(op, row) ==
    CASE op.kind = "filter" -> IF Passes(row) THEN <<row>> ELSE <<>>
      [] op.kind = "projection" -> <<Append(row, 0)>>
      [] op.kind = "cross" -> [i \in 1 .. op.rows |-> Append(row, i)]

------------------------------------------------------------------------------
TaskInit ==
    /\ ops \in Plans
    /\ source \in Sources
    /\ next_chunk = 1
    /\ chunk = [r \in Registers |-> <<>>]
    /\ cursor = [d \in 1 .. Len(ops) |-> Fresh]
    /\ depth = 0
    /\ chunks_done = 0
    /\ sunk = <<>>

\* The output goes to the scratch chunk that is not the input.
OutputOf(input) == IF input = "scratch_a" THEN "scratch_b" ELSE "scratch_a"
OutputIsScratchA(input) == "scratch_a"
OutputRegister(input) == OutputOf(input)

\* The chunk that each nested call of DrainOperatorSuffix got as its input.
InputRegister[d \in Nat \ {0}] ==
    IF d = 1 THEN "src_chunk" ELSE OutputRegister(InputRegister[d - 1])

\* Filter and projection copy their input and work on the copy.
CopyAndApply(d, in) ==
    [rows |-> FlattenSeq([i \in 1 .. Len(in) |-> Outputs(ops[d], in[i])]), at |-> Fresh]

\* A cross product goes on where it stopped, until its output chunk is full.  A cursor
\* is the number of combinations before it.
CrossFrom(first, size, n, in) ==
    LET last == IF first + size < Len(in) * n THEN first + size ELSE Len(in) * n
    IN  [rows |-> [k \in 1 .. last - first |->
                      Append(in[((first + k - 1) \div n) + 1], ((first + k - 1) % n) + 1)],
         at |-> IF last >= Len(in) * n THEN Fresh
                ELSE [Fresh EXCEPT !.probe = (last \div n) + 1, !.build = (last % n) + 1]]
Position(d) == (cursor[d].probe - 1) * ops[d].rows + cursor[d].build - 1
CrossRows(d, in) == CrossFrom(Position(d), OutputSize, ops[d].rows, in)

\* One call of Execute: the rows put out and the cursor after it.
Call(d, in) == IF ops[d].kind = "cross" THEN CrossRows(d, in) ELSE CopyAndApply(d, in)

\* Set when the input is used up and there is output: the next call only says so.
Drained(call) == call.at = Fresh /\ call.rows # <<>>
NeverDrained(call) == FALSE
SetDrained(call) == Drained(call)

------------------------------------------------------------------------------
\* PipelineRunTask::Execute takes the next chunk of the source.
GetData ==
    /\ depth = 0 /\ next_chunk <= Len(source) /\ chunks_done < ChunkBudget
    /\ chunk' = [chunk EXCEPT !["src_chunk"] = source[next_chunk]]
    /\ next_chunk' = next_chunk + 1
    /\ depth' = 1
    /\ UNCHANGED <<ops, source, cursor, chunks_done, sunk>>

\* The budget is used up: the task goes back to the queue and is executed again.
Yield ==
    /\ depth = 0 /\ chunks_done >= ChunkBudget
    /\ chunks_done' = 0
    /\ UNCHANGED <<ops, source, next_chunk, chunk, cursor, depth, sunk>>

\* NEED_MORE_INPUT: back to the caller, which is the task or the operator before.
Back(d) ==
    /\ depth' = d - 1
    /\ chunks_done' = IF d = 1 THEN chunks_done + 1 ELSE chunks_done

\* An operator whose input is used up resets its output and asks for more.
AskForMore(d) ==
    /\ depth = d /\ cursor[d].drained
    /\ cursor' = [cursor EXCEPT ![d].drained = FALSE]
    /\ chunk' = [chunk EXCEPT ![OutputRegister(InputRegister[d])] = <<>>]
    /\ Back(d)
    /\ UNCHANGED <<ops, source, next_chunk, sunk>>

\* The output register is reset before every call and may be the input of an operator
\* two levels up that is not done with it.
ExecuteOperator(d) ==
    LET call == Call(d, chunk[InputRegister[d]])
    IN  /\ depth = d /\ ~cursor[d].drained
        /\ cursor' = [cursor EXCEPT ![d] = [call.at EXCEPT !.drained = SetDrained(call)]]
        /\ chunk' = [chunk EXCEPT ![OutputRegister(InputRegister[d])] = call.rows]
        /\ IF call.rows = <<>> THEN Back(d)
           ELSE depth' = d + 1 /\ UNCHANGED chunks_done
        /\ UNCHANGED <<ops, source, next_chunk, sunk>>

\* The sink takes the rows and the operator before it is called again.
SinkChunk ==
    /\ depth = Len(ops) + 1
    /\ sunk' = sunk \o chunk[InputRegister[depth]]
    /\ Back(depth)
    /\ UNCHANGED <<ops, source, next_chunk, chunk, cursor>>

TaskNext ==
    \/ GetData
    \/ Yield
    \/ \E d \in 1 .. Len(ops) : AskForMore(d)
    \/ \E d \in 1 .. Len(ops) : ExecuteOperator(d)
    \/ SinkChunk

TaskSpec == TaskInit /\ [][TaskNext]_taskVars /\ WF_taskVars(TaskNext)

------------------------------------------------------------------------------
\* What the pipeline is for: every operator in turn applied to all rows of the source.
Applied(rows, op) == FlattenSeq([i \in 1 .. Len(rows) |-> Outputs(op, rows[i])])
AppliedAll(rows, plan) ==
    LET after[d \in 0 .. Len(plan)] ==
            IF d = 0 THEN rows ELSE Applied(after[d - 1], plan[d])
    IN  after[Len(plan)]
Reference == AppliedAll(FlattenSeq(source), ops)

TaskDone == depth = 0 /\ next_chunk > Len(source)

\* Chunks hold what they have room for, and cursors stay in their chunks.
TaskTypeOK ==
    /\ depth \in 0 .. Len(ops) + 1
    /\ next_chunk \in 1 .. Len(source) + 1
    /\ chunks_done \in 0 .. ChunkBudget
    /\ DOMAIN chunk = Registers
    /\ \A r \in Registers : Len(chunk[r]) <= OutputSize
    /\ \A d \in 1 .. Len(ops) : cursor[d].probe \in 1 .. OutputSize

\* The plan has an operator that puts out more than one chunk for an input, with an operator
\* before it (so that its input is a scratch chunk) and one after it (which writes to that
\* chunk).
InputIsOverwritten(plan) ==
    \E d \in 2 .. Len(plan) - 1 : plan[d].kind = "cross" /\ plan[d].rows > 1

\* The sink takes the rows of the reference in its order and, once the source is empty,
\* all of them: no operator loses, repeats or mixes up rows when the operators after it
\* use the scratch chunks between two of its calls, or when the task yields
\* (task.cpp, DrainOperatorSuffix).
RowsReachTheSink == IsPrefix(sunk, Reference) /\ (TaskDone => sunk = Reference)
=============================================================================
