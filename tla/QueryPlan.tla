------------------------------ MODULE QueryPlan ------------------------------
(***************************************************************************)
(* Logical plans of the optimizer (optimizer/adapter/yaap_adapter.hpp) and *)
(* what they compute.  A plan is a tree of records, an expression likewise;*)
(* a column is a table index and a position, as in ColumnBinding.  Rows    *)
(* are functions from columns to values, tables and results are sequences  *)
(* of rows.  Names, types, operator OIDs and cardinality estimates are     *)
(* left out: no rewrite decides on them, except the join order, which is   *)
(* chosen freely (JoinOrder.tla).                                          *)
(***************************************************************************)
LOCAL INSTANCE Integers
LOCAL INSTANCE Sequences
LOCAL INSTANCE FiniteSets
LOCAL INSTANCE SequencesExt
LOCAL INSTANCE TLC

CONSTANT NULL

-----------------------------------------------------------------------------
(* Expressions. *)

Column(t, c)      == [kind |-> "column", table |-> t, column |-> c]
Constant(v)       == [kind |-> "constant", value |-> v]
Call(name, args)  == [kind |-> "function", name |-> name, args |-> args]
Bool(type, args)  == [kind |-> "conjunction", name |-> type, args |-> args]
Aggregate(name, args) == [kind |-> "aggregate", name |-> name, args |-> args]

IsColumn(e)   == e.kind = "column"
IsConstant(e) == e.kind = "constant"
IsAnd(e)      == e.kind = "conjunction" /\ e.name = "and"
IsOr(e)       == e.kind = "conjunction" /\ e.name = "or"
\* The subquery of a scalar subquery is not an argument of it.
Arguments(e)  == IF e.kind \in {"column", "constant", "scalar"} THEN <<>> ELSE e.args

BindingOf(e) == <<e.table, e.column>>

RECURSIVE ColumnsOf(_)
\* The columns an expression names.
ColumnsOf(e) ==
    IF IsColumn(e)
    THEN {BindingOf(e)}
    ELSE UNION {ColumnsOf(arg) : arg \in ToSet(Arguments(e))}

RECURSIVE ColumnSequence(_)
\* CollectColumnBindings: they are in the order they are met in.
ColumnSequence(e) ==
    IF IsColumn(e)
    THEN <<BindingOf(e)>>
    ELSE FlattenSeq([i \in DOMAIN Arguments(e) |-> ColumnSequence(Arguments(e)[i])])

\* CollectReferencedTables.
ReferencedTables(e) == {b[1] : b \in ColumnsOf(e)}

RECURSIVE Replaced(_, _)
\* CloneExpressionWithExpressionReplacements: columns that have a replacement
\* become it, everything else is cloned.
Replaced(e, replacements) ==
    IF IsColumn(e)
    THEN IF BindingOf(e) \in DOMAIN replacements
         THEN replacements[BindingOf(e)]
         ELSE e
    ELSE IF IsConstant(e)
    THEN e
    ELSE [e EXCEPT !.args = [i \in DOMAIN e.args |-> Replaced(e.args[i], replacements)]]

RECURSIVE Conjuncts(_)
\* AppendConjuncts: the terms of nested ANDs, from left to right.
Conjuncts(e) ==
    IF IsAnd(e)
    THEN FlattenSeq([i \in DOMAIN e.args |-> Conjuncts(e.args[i])])
    ELSE <<e>>

\* SplitConjunctionList.
SplitConjunctions(exprs) == FlattenSeq([i \in DOMAIN exprs |-> Conjuncts(exprs[i])])

\* AppendUniqueFilter: an expression that is there already is not added.
AppendUnique(filters, e) == IF e \in ToSet(filters) THEN filters ELSE Append(filters, e)

-----------------------------------------------------------------------------
(* Values: integers, booleans and NULL, with SQL's three-valued logic. *)

Applied(name, v) ==
    IF NULL \in ToSet(v)
    THEN NULL
    ELSE CASE name = "="  -> v[1] = v[2]
           [] name = "<>" -> v[1] # v[2]
           [] name = "<"  -> v[1] < v[2]
           [] name = "+"  -> v[1] + v[2]

Connected(type, v) ==
    CASE type = "and" -> IF FALSE \in ToSet(v) THEN FALSE
                         ELSE IF NULL \in ToSet(v) THEN NULL ELSE TRUE
      [] type = "or"  -> IF TRUE \in ToSet(v) THEN TRUE
                         ELSE IF NULL \in ToSet(v) THEN NULL ELSE FALSE
      [] type = "not" -> IF v[1] = NULL THEN NULL ELSE ~v[1]

RECURSIVE Value(_, _)
Value(e, row) ==
    CASE e.kind = "column"   -> row[BindingOf(e)]
      [] e.kind = "constant" -> e.value
      [] e.kind = "function" -> Applied(e.name, [i \in DOMAIN e.args |-> Value(e.args[i], row)])
      [] e.kind = "conjunction" ->
             Connected(e.name, [i \in DOMAIN e.args |-> Value(e.args[i], row)])

\* A row passes when every condition is TRUE: NULL rejects it.
Passes(exprs, row) == \A i \in DOMAIN exprs : Value(exprs[i], row) = TRUE

Summed(values) ==
    LET known == SelectSeq(values, LAMBDA v : v # NULL)
    IN  IF known = <<>> THEN NULL ELSE FoldLeft(LAMBDA x, y : x + y, 0, known)

\* count() of no argument counts rows, sum ignores NULL.
Aggregated(e, rows) ==
    CASE e.name = "count" -> Len(rows)
      [] e.name = "sum"   -> Summed([i \in DOMAIN rows |-> Value(e.args[1], rows[i])])

-----------------------------------------------------------------------------
(* Plans. *)

Get(t, relation)     == [op |-> "get", table |-> t, relation |-> relation,
                         filters |-> <<>>, kids |-> <<>>]
Filter(exprs, kid)   == [op |-> "filter", exprs |-> exprs, kids |-> <<kid>>]
Projection(t, exprs, kid) == [op |-> "projection", table |-> t, exprs |-> exprs, kids |-> <<kid>>]
Grouping(tg, ta, groups, exprs, kid) ==
    [op |-> "aggregate", group_table |-> tg, aggregate_table |-> ta,
     groups |-> groups, exprs |-> exprs, kids |-> <<kid>>]
Distinct(exprs, kid) == [op |-> "distinct", exprs |-> exprs, kids |-> <<kid>>]
Order(exprs, kid)    == [op |-> "order", exprs |-> exprs, kids |-> <<kid>>]
Limit(n, kid)        == [op |-> "limit", count |-> n, kids |-> <<kid>>]
Cross(left, right)   == [op |-> "cross", kids |-> <<left, right>>]
\* kind is comparison, dependent (evaluated for every row of the left side) or
\* delim; correlated are the outer columns of the right side.
Join(type, conditions, left, right) ==
    [op |-> "join", kind |-> "comparison", type |-> type, conditions |-> conditions,
     invert |-> FALSE, correlated |-> <<>>, kids |-> <<left, right>>]
\* The different values of the outer columns, and row_number() of each row.
DelimGet(t, width) == [op |-> "delim_get", table |-> t, width |-> width, kids |-> <<>>]
Window(t, partitions, orders, kid) ==
    [op |-> "window", table |-> t, partitions |-> partitions, exprs |-> orders, kids |-> <<kid>>]

\* A null pointer: the child has been moved elsewhere.
Moved == [op |-> "moved", kids |-> <<>>]

\* MakeFilterNode: no filter without expressions.
MakeFilter(kid, exprs) == IF exprs = <<>> THEN kid ELSE Filter(exprs, kid)

\* The expressions of a node, those of its children left out.
OwnExpressions(plan) ==
    CASE plan.op = "get"  -> plan.filters
      [] plan.op = "join" -> plan.conditions
      [] plan.op = "aggregate" -> plan.groups \o plan.exprs
      [] plan.op = "window" -> plan.partitions \o plan.exprs
      [] plan.op \in {"filter", "projection", "distinct", "order"} -> plan.exprs
      [] OTHER -> <<>>

RECURSIVE OutputTables(_)
\* CollectOutputTables: it looks through projections and aggregates, and
\* counts the tables below them, too.
OutputTables(plan) ==
    LET below == UNION {OutputTables(kid) : kid \in ToSet(plan.kids)}
    IN  CASE plan.op \in {"get", "projection", "delim_get", "window"} -> below \cup {plan.table}
          [] plan.op = "aggregate" ->
                 below \cup {plan.group_table, plan.aggregate_table}
          [] OTHER -> below

Width == 2

Outputs(table, exprs) ==
    [b \in {table} \X (0 .. Len(exprs) - 1) |-> exprs[b[2] + 1]]

RECURSIVE VisibleColumns(_)
\* The columns a node has for its parent.  A projection hands on, besides its
\* own, the columns of its input the parent asks for.
VisibleColumns(plan) ==
    CASE plan.op = "get"       -> {plan.table} \X (0 .. Width - 1)
      [] plan.op = "delim_get" -> {plan.table} \X (0 .. plan.width - 1)
      [] plan.op = "projection" ->
             DOMAIN Outputs(plan.table, plan.exprs) \cup VisibleColumns(plan.kids[1])
      [] plan.op = "aggregate" ->
             DOMAIN Outputs(plan.group_table, plan.groups)
                \cup DOMAIN Outputs(plan.aggregate_table, plan.exprs)
      [] plan.op = "join" /\ plan.type \in {"semi", "anti", "mark"} ->
             VisibleColumns(plan.kids[1])
      [] OTHER -> UNION {VisibleColumns(kid) : kid \in ToSet(plan.kids)}

Reachable(plan) ==
    IF plan.op = "get"
    THEN VisibleColumns(plan)
    ELSE UNION {VisibleColumns(kid) : kid \in ToSet(plan.kids)}

RECURSIVE IsScalarNode(_)
\* IsScalarPhysicalNode: an aggregate without groups has one row.
IsScalarNode(plan) ==
    \/ plan.op = "aggregate" /\ plan.groups = <<>>
    \/ plan.op \in {"filter", "projection", "order", "limit"} /\ IsScalarNode(plan.kids[1])

IsEquality(e) == e.kind = "function" /\ e.name = "=" /\ Len(e.args) = 2
IsColumnColumn(e) == IsEquality(e) /\ IsColumn(e.args[1]) /\ IsColumn(e.args[2])

\* CollectJoinKeys: an equality of a column of each side, to hash by.
IsJoinKey(e, left, right) ==
    /\ IsColumnColumn(e)
    /\ \E i \in {1, 2} : /\ BindingOf(e.args[i]) \in left
                         /\ BindingOf(e.args[3 - i]) \in right

\* What TranslateHashJoinNode accepts: a marker has no match mode, and a join
\* without keys needs a side of one row.
IsExecutableJoin(join) ==
    /\ \/ join.type \in {"inner", "left", "semi", "anti"}
       \/ join.type = "single" /\ join.kind # "comparison"
    /\ \/ \E e \in ToSet(SplitConjunctions(join.conditions)) :
             IsJoinKey(e, VisibleColumns(join.kids[1]), VisibleColumns(join.kids[2]))
       \/ /\ join.type \in {"inner", "single"}
          /\ \E i \in {1, 2} : IsScalarNode(join.kids[i])

RECURSIVE IsExecutable(_, _)
\* AnalyzeOptimizerPlanNode and the translators it guards: DISTINCT and
\* windows have no operator, and the columns a node names must be columns of
\* its input.  correlated are the outer columns the delim scans below are
\* bound to: those of the outermost delim join (BindDelimScansToOuter).
IsExecutable(plan, correlated) ==
    /\ plan.op \notin {"distinct", "window", "moved"}
    /\ plan.op = "join" => IsExecutableJoin(plan)
    /\ plan.op = "delim_get" => plan.width = Len(correlated)
    /\ UNION {ColumnsOf(e) : e \in ToSet(OwnExpressions(plan))} \subseteq Reachable(plan)
    /\ \A i \in DOMAIN plan.kids :
          IsExecutable(plan.kids[i],
                       IF correlated = <<>> /\ plan.op = "join" /\ plan.kind = "delim" /\ i = 2
                       THEN plan.correlated
                       ELSE correlated)

-----------------------------------------------------------------------------
(* What a plan computes over a database: a function from relations to      *)
(* sequences of rows, a row of a relation being a sequence of values.      *)
(* outer binds the columns of enclosing queries.                           *)

BaseRows(t, rows) ==
    [i \in DOMAIN rows |->
        [b \in {t} \X (0 .. Width - 1) |-> rows[i][b[2] + 1]]]

\* The first of the rows that agree on the values of exprs.
DistinctRows(exprs, rows) ==
    LET key(i) == [e \in DOMAIN exprs |-> Value(exprs[e], rows[i])]
        first == {i \in DOMAIN rows : \A j \in 1 .. i - 1 : key(j) # key(i)}
    IN  [i \in 1 .. Cardinality(first) |->
            rows[CHOOSE f \in first : Cardinality({g \in first : g <= f}) = i]]

\* NULLs come last.
Precedes(v, w) == v # w /\ v # NULL /\ (w = NULL \/ v < w)

SortedRows(exprs, rows) ==
    LET keys(row) == [e \in DOMAIN exprs |-> Value(exprs[e], row)]
        before(r, s) ==
            \E e \in DOMAIN exprs :
                /\ Precedes(keys(r)[e], keys(s)[e])
                /\ \A d \in 1 .. e - 1 : keys(r)[d] = keys(s)[d]
    IN  SortSeq(rows, before)

\* One row for every combination of group values; without groups, one row.
GroupedRows(plan, rows) ==
    LET key(row) == [g \in DOMAIN plan.groups |-> Value(plan.groups[g], row)]
        keys == SetToSeq({key(rows[i]) : i \in DOMAIN rows})
        result(k, members) ==
            [b \in {plan.group_table} \X (0 .. Len(plan.groups) - 1) |-> k[b[2] + 1]]
              @@ [b \in {plan.aggregate_table} \X (0 .. Len(plan.exprs) - 1) |->
                     Aggregated(plan.exprs[b[2] + 1], members)]
    IN  IF plan.groups = <<>>
        THEN <<result(<<>>, rows)>>
        ELSE [i \in DOMAIN keys |->
                 result(keys[i], SelectSeq(rows, LAMBDA row : key(row) = keys[i]))]

\* The rows of one left row l and the rows rights of the other side.  The hash
\* join has no mode for a scalar subquery: it is an inner join.
Combined(type, conditions, l, rights, nulls, outer) ==
    LET pairs == [i \in DOMAIN rights |-> l @@ rights[i]]
        matches == SelectSeq(pairs, LAMBDA pair : Passes(conditions, pair @@ outer))
        found == matches # <<>>
    IN  CASE type \in {"inner", "single"} -> matches
          [] type = "left"  -> IF found THEN matches ELSE <<l @@ nulls>>
          [] type = "semi"  -> IF found THEN <<l>> ELSE <<>>
          [] type = "anti"  -> IF found THEN <<>> ELSE <<l>>

\* Where outer keeps what the delim scans of the right side read.
DelimKey == <<-1, 0>>

\* The different values of the columns over the rows, bound by position.
DelimRows(columns, rows) ==
    SetToSeq({[c \in DOMAIN columns |-> rows[i][columns[c]]] : i \in DOMAIN rows})

RECURSIVE Rows(_, _, _)
JoinedRows(plan, lefts, nulls, database, outer) ==
    LET Joined(rights) ==
            FlattenSeq([i \in DOMAIN lefts |->
                Combined(plan.type, plan.conditions, lefts[i], rights, nulls, outer)])
        bound == IF plan.kind = "delim" /\ plan.correlated # <<>> /\ DelimKey \notin DOMAIN outer
                 THEN outer @@ (DelimKey :> DelimRows(plan.correlated, lefts))
                 ELSE outer
    IN  Joined(Rows(plan.kids[2], database, bound))

Projected(plan, rows, outer) ==
    [i \in DOMAIN rows |->
        [b \in DOMAIN Outputs(plan.table, plan.exprs) |->
            Value(plan.exprs[b[2] + 1], rows[i] @@ outer)] @@ rows[i]]

Product(lefts, rights) ==
    FlattenSeq([i \in DOMAIN lefts |-> [j \in DOMAIN rights |-> lefts[i] @@ rights[j]]])

Prefix(n, rows) == SubSeq(rows, 1, IF n < Len(rows) THEN n ELSE Len(rows))

Rows(plan, database, outer) ==
    CASE plan.op = "get" ->
             SelectSeq(BaseRows(plan.table, database[plan.relation]),
                       LAMBDA row : Passes(plan.filters, row @@ outer))
      [] plan.op = "delim_get" ->
             [i \in DOMAIN outer[DelimKey] |->
                 [b \in VisibleColumns(plan) |-> outer[DelimKey][i][b[2] + 1]]]
      [] plan.op = "filter" ->
             SelectSeq(Rows(plan.kids[1], database, outer),
                       LAMBDA row : Passes(plan.exprs, row @@ outer))
      [] plan.op = "projection" -> Projected(plan, Rows(plan.kids[1], database, outer), outer)
      [] plan.op = "aggregate"  -> GroupedRows(plan, Rows(plan.kids[1], database, outer))
      [] plan.op = "order"      -> SortedRows(plan.exprs, Rows(plan.kids[1], database, outer))
      [] plan.op = "limit"      -> Prefix(plan.count, Rows(plan.kids[1], database, outer))
      [] plan.op = "cross" ->
             Product(Rows(plan.kids[1], database, outer), Rows(plan.kids[2], database, outer))
      [] plan.op = "join" ->
             JoinedRows(plan, Rows(plan.kids[1], database, outer),
                        [b \in VisibleColumns(plan.kids[2]) |-> NULL], database, outer)
=============================================================================
