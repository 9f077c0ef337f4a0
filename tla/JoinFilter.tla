----------------------------- MODULE JoinFilter ------------------------------
(****************************************************************************)
(* The residual conditions of a hash join: those that are no equality of     *)
(* keys.  They become a tape as well (LowerJoinFilters), which the probe runs *)
(* for every pair of rows with equal keys (physical_hash_join.cpp); a single *)
(* comparison of a probe column with a build column is done without a tape.  *)
(*                                                                          *)
(* A row is the pair: every column is of one side.                           *)
(****************************************************************************)
EXTENDS FilterTape

LOCAL INSTANCE SequencesExt

------------------------------------------------------------------------------
(* The translator. *)

LookupOrAddJoinFilterInput(inputs, c) ==
    Added(inputs, [column |-> c, decode |-> Kind(c), scale |-> Table[c].scale])

\* A column read as a numeric; an integer has no digits behind the point.
LookupOrAddJoinFilterInputAs(inputs, c) ==
    Added(inputs, [column |-> c, decode |-> "numeric",
                   scale |-> IF Kind(c) = "numeric" THEN Table[c].scale ELSE 0])

\* Numbers of two kinds are added a second time, as numerics.
JoinColumnsStep(inputs, cmp, c, d) ==
    LET l == LookupOrAddJoinFilterInput(inputs, c)
        r == LookupOrAddJoinFilterInput(l.inputs, d)
        wide_l == LookupOrAddJoinFilterInputAs(r.inputs, c)
        wide_r == LookupOrAddJoinFilterInputAs(wide_l.inputs, d)
        step(in, at_l, at_r) ==
            [ok |-> TRUE, inputs |-> in, step |-> Step("cmp_columns", cmp, at_l, at_r, 0, 0)]
    IN  IF cmp \notin Orders \/ ~({Kind(c), Kind(d)} \subseteq NumericFamily) THEN Rejected
        ELSE IF ~(l.ok /\ r.ok) THEN Rejected
        ELSE IF Kind(c) = Kind(d) THEN step(r.inputs, l.at, r.at)
        ELSE IF wide_l.ok /\ wide_r.ok THEN step(wide_r.inputs, wide_l.at, wide_r.at)
        ELSE Rejected

LowerJoinFilterCompare(e, b) ==
    LET l == e.left
        r == e.right
    IN  Compared(e.cmp, b,
            CASE l.is = "column" /\ r.is = "constant" ->
                    WithColumn(b.inputs, l.column, ConstantStep(e.cmp, l.column, r.value))
              [] r.is = "column" /\ l.is = "constant" ->
                    WithColumn(b.inputs, r.column,
                        ConstantStep(IF e.cmp \in Orders THEN Mirror[e.cmp] ELSE e.cmp, r.column, l.value))
              [] l.is = "column" /\ r.is = "column" ->
                    JoinColumnsStep(b.inputs, e.cmp, l.column, r.column)
              [] OTHER -> Rejected)

\* Comparisons, AND, OR and NOT; ANY and ALL are refused.
RECURSIVE LowerJoinFilterBoolExpr(_, _)
LowerJoinFilterBoolExpr(e, b) ==
    CASE e.op = "compare" -> LowerJoinFilterCompare(e, b)
      [] e.op = "not" ->
            IF b.next >= MaxRegs THEN Rejected
            ELSE Negate(LowerJoinFilterBoolExpr(e.children[1], b))
      [] e.op \in {"and", "or"} ->
            FoldLeft(LAMBDA before, child :
                        IF ~before.ok \/ before.next >= MaxRegs THEN Rejected
                        ELSE Joined(e.op, before, LowerJoinFilterBoolExpr(child, before), FALSE),
                     LowerJoinFilterBoolExpr(Head(e.children), b), Tail(e.children))
      [] OTHER -> Rejected

LowerJoinFilters(residuals) ==
    FoldLeft(LAMBDA before, f :
                IF ~before.ok THEN Rejected
                ELSE IF Len(before.exprs) >= MaxInputs THEN Rejected
                ELSE Closed(before, LowerJoinFilterBoolExpr(f, before)),
             [ok |-> TRUE, next |-> 0, inputs |-> <<>>, steps |-> <<>>, reg |-> 0, exprs |-> <<>>],
             residuals)

------------------------------------------------------------------------------
(* The probe. *)

\* What is read of a pair: no NULL flags are looked at, and a slot that was not written
\* holds what it held before.
Populated(row, stale) ==
    [c \in DOMAIN row |->
        IF row[c] # <<>> THEN row[c]
        ELSE IF Kind(c) = "string" THEN <<[i \in 1 .. stale |-> 1]>> ELSE <<stale>>]

\* One comparison of a probe column with a build column, neither converted, nor of another
\* scale.
TryBuildSimpleJoinFilterSpec(tape) ==
    /\ Len(tape.exprs) = 1 /\ Len(tape.steps) = 1
    /\ tape.steps[1].op = "cmp_columns"
    /\ LET left == tape.inputs[tape.steps[1].left]
           right == tape.inputs[tape.steps[1].right]
       IN  /\ Table[left.column].side # Table[right.column].side
           /\ left.decode = Kind(left.column) /\ right.decode = Kind(right.column)
           /\ left.scale = right.scale

EvaluateSimpleJoinFilter(tape, row) ==
    LET s == tape.steps[1]
    IN  Compares(s.cmp, row[tape.inputs[s.left].column][1], row[tape.inputs[s.right].column][1])

\* A step of the tape into its register; numerics are brought to one scale.
EvalFilterStep(tape, s, bools, row) ==
    [bools EXCEPT ![s.out] = Evaluate("join", tape, s, bools, row, 0)]

\* All filters, with as many registers as they name; without one every pair is a match.
EvaluateJoinFilter(tape, row) ==
    \A k \in DOMAIN tape.exprs :
        LET cleared == [r \in 0 .. Len(tape.steps) |-> FALSE]
            bools == FoldLeft(LAMBDA before, s : EvalFilterStep(tape, s, before, row), cleared,
                              SubSeq(tape.steps, 1, tape.exprs[k].last))
        IN  bools[tape.exprs[k].out]

JoinAccepts(tape, row, stale) ==
    IF TryBuildSimpleJoinFilterSpec(tape) THEN EvaluateSimpleJoinFilter(tape, Populated(row, stale))
    ELSE EvaluateJoinFilter(tape, Populated(row, stale))
=============================================================================
