--------------------------- MODULE QueryTranslation ---------------------------
(***************************************************************************)
(* Queries, what SQL says their answers are, and their translation to      *)
(* logical plans (optimizer/adapter/yaap_adapter.cpp).                     *)
(*                                                                         *)
(* A query is a record: from, a sequence of relations, joins and           *)
(* subqueries; where, a sequence of conditions and subquery predicates;    *)
(* groups, having, targets, distinct, order (positions of targets), limit  *)
(* (or NULL).  In a query a column belongs to an alias, in a plan to a     *)
(* table index.                                                            *)
(***************************************************************************)
EXTENDS QueryPlan
LOCAL INSTANCE Integers
LOCAL INSTANCE Sequences
LOCAL INSTANCE SequencesExt
LOCAL INSTANCE TLC

Relation(alias, relation)   == [kind |-> "relation", alias |-> alias, relation |-> relation]
Derived(alias, query)       == [kind |-> "derived", alias |-> alias, query |-> query]
Joined(type, left, right, on) ==
    [kind |-> "joined", type |-> type, left |-> left, right |-> right, on |-> on]
Exists(query, negated)      == [kind |-> "exists", query |-> query, negated |-> negated]
InQuery(e, query)           == [kind |-> "in", left |-> e, query |-> query, negated |-> FALSE]
Scalar(query)               == [kind |-> "scalar", query |-> query]
IsSubquery(e)               == e.kind \in {"exists", "in"}

Select(from, where, targets) ==
    [from |-> from, where |-> where, groups |-> <<>>, having |-> <<>>, targets |-> targets,
     distinct |-> FALSE, order |-> <<>>, limit |-> NULL]

RECURSIVE AggregatesOf(_)
AggregatesOf(e) ==
    IF e.kind = "aggregate" THEN {e} ELSE UNION {AggregatesOf(arg) : arg \in ToSet(Arguments(e))}

\* CollectQueryAggregates: each aggregate of targets and HAVING once.
QueryAggregates(query) ==
    SetToSeq(UNION {AggregatesOf(e) : e \in ToSet(query.targets \o query.having)})

IsGrouped(query) == query.groups # <<>> \/ QueryAggregates(query) # <<>>

-----------------------------------------------------------------------------
(* The answer SQL gives: every clause is applied to the rows of the one     *)
(* before it, a subquery is evaluated for each row.                         *)

RECURSIVE Rebound(_, _)
\* RewriteToProducedBinding: an expression its input computes is a column of
\* the input.
Rebound(e, produced) ==
    IF e \in DOMAIN produced
    THEN produced[e]
    ELSE IF Arguments(e) = <<>>
    THEN e
    ELSE [e EXCEPT !.args = [i \in DOMAIN e.args |-> Rebound(e.args[i], produced)]]

\* What a grouping into tables tg and ta produces.
ProducedBy(tg, ta, groups, aggregates) ==
    [e \in ToSet(groups) |-> Column(tg, (CHOOSE i \in DOMAIN groups : groups[i] = e) - 1)]
      @@ [e \in ToSet(aggregates) |->
             Column(ta, (CHOOSE i \in DOMAIN aggregates : aggregates[i] = e) - 1)]

RECURSIVE Answer(_, _, _)
RECURSIVE FromRows(_, _, _)
RECURSIVE Resolved(_, _, _)

\* A scalar subquery is the value of its only row, NULL if there is none.
Resolved(e, database, row) ==
    CASE e.kind = "scalar" ->
             LET tuples == Answer(e.query, database, row)
             IN  Constant(IF tuples = <<>> THEN NULL ELSE tuples[1][1])
      [] Arguments(e) = <<>> -> e
      [] OTHER -> [e EXCEPT !.args = [i \in DOMAIN e.args |-> Resolved(e.args[i], database, row)]]

ValueOf(e, database, row) == Value(Resolved(e, database, row), row)

FromRows(item, database, outer) ==
    CASE item.kind = "relation" -> BaseRows(item.alias, database[item.relation])
      [] item.kind = "derived" ->
             LET rows == Answer(item.query, database, outer)
             IN  [i \in DOMAIN rows |->
                     [b \in {item.alias} \X (0 .. Len(rows[i]) - 1) |-> rows[i][b[2] + 1]]]
      [] item.kind = "joined" ->
             LET rights == FromRows(item.right, database, outer)
                 nulls == [b \in {item.right.alias} \X (0 .. Width - 1) |-> NULL]
             IN  FlattenSeq([i \in DOMAIN FromRows(item.left, database, outer) |->
                     Combined(item.type, item.on, FromRows(item.left, database, outer)[i],
                              rights, nulls, outer)])

Holds(condition, database, row) ==
    CASE condition.kind = "exists" ->
             (Answer(condition.query, database, row) # <<>>) # condition.negated
      [] condition.kind = "in" ->
             \E tuple \in ToSet(Answer(condition.query, database, row)) :
                Applied("=", <<Value(condition.left, row), tuple[1]>>) = TRUE
      [] OTHER -> ValueOf(condition, database, row) = TRUE

\* Grouped rows keep the values of the groups and aggregates under two names
\* of their own.
GroupedQueryRows(query, rows) ==
    GroupedRows([group_table |-> "groups", aggregate_table |-> "aggregates",
                 groups |-> query.groups, exprs |-> QueryAggregates(query)], rows)

Tuples(query, rows, produced, database) ==
    [i \in DOMAIN rows |->
        [t \in DOMAIN query.targets |->
            ValueOf(Rebound(query.targets[t], produced), database, rows[i])]]

BaseTuples(tuples) ==
    [i \in DOMAIN tuples |-> [b \in {"tuple"} \X (0 .. Len(tuples[i]) - 1) |-> tuples[i][b[2] + 1]]]

\* DISTINCT, ORDER BY and LIMIT on tuples.
Finished(query, tuples) ==
    LET rows == BaseTuples(tuples)
        columns == [t \in DOMAIN query.targets |-> Column("tuple", t - 1)]
        unique == IF query.distinct THEN DistinctRows(columns, rows) ELSE rows
        ordered == IF query.order = <<>> THEN unique
                   ELSE SortedRows([o \in DOMAIN query.order |-> columns[query.order[o]]], unique)
        kept == IF query.limit = NULL \/ query.limit >= Len(ordered) THEN Len(ordered)
                ELSE query.limit
    IN  [i \in 1 .. kept |-> [t \in DOMAIN query.targets |-> ordered[i][<<"tuple", t - 1>>]]]

Answer(query, database, outer) ==
    LET product == FoldLeft(LAMBDA rows, item : Product(rows, FromRows(item, database, outer)),
                            <<outer>>, query.from)
        chosen == SelectSeq(product, LAMBDA row :
                      \A i \in DOMAIN query.where : Holds(query.where[i], database, row))
        produced == IF IsGrouped(query)
                    THEN ProducedBy("groups", "aggregates", query.groups, QueryAggregates(query))
                    ELSE <<>>
        grouped == IF IsGrouped(query) THEN GroupedQueryRows(query, chosen) ELSE chosen
        groups == SelectSeq(grouped, LAMBDA row :
                      \A i \in DOMAIN query.having :
                         ValueOf(Rebound(query.having[i], produced), database, row) = TRUE)
    IN  Finished(query, Tuples(query, groups, produced, database))

-----------------------------------------------------------------------------
(* The translation.  A step yields the plan so far, the next free table     *)
(* index and names: the column of the plan behind each column of an alias.  *)

AllBound(exprs, names) == [i \in DOMAIN exprs |-> Replaced(exprs[i], names)]

RECURSIVE TranslatePGQuery(_, _, _)
RECURSIVE TranslateFromNode(_, _, _)

\* RegisterOutputBindings names the outputs of a subquery by position.  ON
\* conditions and subqueries may name columns of outer queries.
TranslateFromNode(item, next, outer_names) ==
    CASE item.kind = "relation" ->
             [plan |-> Get(next, item.relation), next |-> next + 1,
              names |-> [b \in {item.alias} \X (0 .. Width - 1) |-> Column(next, b[2])]]
      [] item.kind = "derived" ->
             LET inner == TranslatePGQuery(item.query, next, outer_names)
             IN  [plan |-> inner.plan, next |-> inner.next,
                  names |-> [b \in {item.alias} \X (0 .. Len(item.query.targets) - 1) |->
                                Column(inner.table, b[2])]]
      [] item.kind = "joined" ->
             LET left == TranslateFromNode(item.left, next, outer_names)
                 right == TranslateFromNode(item.right, left.next, outer_names)
                 names == left.names @@ right.names
             IN  [plan |-> Join(item.type, AllBound(item.on, names @@ outer_names),
                                left.plan, right.plan),
                  next |-> right.next, names |-> names]

\* TranslateFromExprList: a left-deep tree of cross products.
TranslateFromExprList(items, next, outer_names) ==
    LET first == TranslateFromNode(items[1], next, outer_names)
        Add(left, item) ==
            LET right == TranslateFromNode(item, left.next, outer_names)
            IN  [plan |-> Cross(left.plan, right.plan), next |-> right.next,
                 names |-> left.names @@ right.names]
        all == FoldLeft(Add, first, Tail(items))
    IN  [all EXCEPT !.names = @ @@ outer_names]

RECURSIVE OuterColumns(_, _)
\* CollectCorrelatedColumnsFromPlan: the columns of the tables that a subquery
\* names, a node before its children.
OuterColumns(plan, tables) ==
    FlattenSeq([i \in DOMAIN OwnExpressions(plan) |->
                   SelectSeq(ColumnSequence(OwnExpressions(plan)[i]),
                             LAMBDA b : b[1] \in tables /\ plan.op # "get")])
      \o FlattenSeq([i \in DOMAIN plan.kids |-> OuterColumns(plan.kids[i], tables)])

Unique(items) == FoldLeft(AppendUnique, <<>>, items)

DependentJoin(type, conditions, left, right) ==
    [Join(type, conditions, left, right) EXCEPT
        !.kind = "dependent", !.correlated = Unique(OuterColumns(right, OutputTables(left)))]

\* BuildDependentJoin: a subquery that names no column of the outer tables is
\* an ordinary join.
BuildDependentJoin(left, predicate) ==
    LET inner == TranslatePGQuery(predicate.query, left.next, left.names)
        conditions == IF predicate.kind = "in"
                      THEN <<Call("=", <<Replaced(predicate.left, left.names),
                                         Column(inner.table, 0)>>)>>
                      ELSE <<>>
        join == DependentJoin("mark", conditions, left.plan, inner.plan)
    IN  [left EXCEPT
            !.plan = [join EXCEPT
                         !.kind = IF join.correlated = <<>> THEN "comparison" ELSE @,
                         !.invert = predicate.negated],
            !.next = inner.next]

RECURSIVE Promoted(_, _)
\* PromoteScalarSubqueryExpression for each of the expressions: the plan gets
\* a join for every scalar subquery, whose output stands for it.
Promoted(exprs, input) ==
    LET Promote(left, e) ==
            CASE e.kind = "scalar" ->
                     LET inner == TranslatePGQuery(e.query, left.next, left.names)
                     IN  [left EXCEPT
                             !.plan = DependentJoin("single", <<>>, left.plan, inner.plan),
                             !.next = inner.next,
                             !.exprs = Append(@, Column(inner.table, 0))]
              [] Arguments(e) = <<>> -> [left EXCEPT !.exprs = Append(@, Replaced(e, left.names))]
              [] OTHER ->
                     LET args == Promoted(e.args, left)
                     IN  [args EXCEPT !.exprs = Append(left.exprs, [e EXCEPT !.args = args.exprs])]
    IN  FoldLeft(Promote, [input EXCEPT !.exprs = <<>>], exprs)

\* WHERE: a subquery predicate joins, in its turn, what there is so far; the
\* other conditions filter what comes out at the end.
TranslateWhere(query, from) ==
    LET Add(left, condition) ==
            IF IsSubquery(condition)
            THEN BuildDependentJoin(left, condition)
            ELSE LET promoted == Promoted(<<condition>>, left)
                 IN  [promoted EXCEPT !.exprs = left.exprs \o @]
        joined == FoldLeft(Add, [from EXCEPT !.exprs = <<>>], query.where)
    IN  [joined EXCEPT !.plan = MakeFilter(@, joined.exprs)]

AllRebound(exprs, produced) == [i \in DOMAIN exprs |-> Rebound(exprs[i], produced)]

\* TranslateAggregate and TranslateHaving.
TranslateGroups(query, input) ==
    LET groups == AllBound(query.groups, input.names)
        aggregates == AllBound(QueryAggregates(query), input.names)
        produced == ProducedBy(input.next, input.next + 1, groups, aggregates)
        grouping == Grouping(input.next, input.next + 1, groups, aggregates, input.plan)
        having == Promoted(query.having, [input EXCEPT !.plan = grouping, !.next = @ + 2])
    IN  IF ~IsGrouped(query)
        THEN input
        ELSE [having EXCEPT
                 !.plan = MakeFilter(@, AllRebound(having.exprs, produced)),
                 !.produced = produced]

\* TranslateProjection, TranslateDistinct, TranslateOrder, TranslateLimit.
TranslateTop(query, input) ==
    LET promoted == Promoted(query.targets, input)
        t == promoted.next
        targets == AllRebound(promoted.exprs, input.produced)
        column == [i \in DOMAIN targets |-> Column(t, i - 1)]
        projection == Projection(t, targets, promoted.plan)
        distinct == IF query.distinct THEN Distinct(column, projection) ELSE projection
        ordered == IF query.order = <<>> THEN distinct
                   ELSE Order([o \in DOMAIN query.order |-> column[query.order[o]]], distinct)
    IN  [plan |-> IF query.limit = NULL THEN ordered ELSE Limit(query.limit, ordered),
         table |-> t, next |-> t + 1]

TranslatePGQuery(query, next, outer_names) ==
    LET from == TranslateFromExprList(query.from, next, outer_names)
        input == [plan |-> from.plan, next |-> from.next, names |-> from.names,
                  exprs |-> <<>>, produced |-> <<>>]
    IN  TranslateTop(query, TranslateGroups(query, TranslateWhere(query, input)))

\* The tuples the client gets from a plan: the columns of the topmost
\* projection, whose table is t.
Delivered(plan, t, width, database) ==
    LET rows == Rows(plan, database, <<>>)
    IN  [i \in DOMAIN rows |-> [c \in 1 .. width |-> rows[i][<<t, c - 1>>]]]
=============================================================================
