----------------------------- MODULE PlanRewrites -----------------------------
(***************************************************************************)
(* The passes of the logical optimizer that move conditions (optimizer/    *)
(* optimizer/*.cpp) as functions from plans to plans: conditions of WHERE  *)
(* become join conditions, sink towards the scans, and give rise to new    *)
(* ones.                                                                   *)
(***************************************************************************)
EXTENDS QueryPlan
LOCAL INSTANCE Integers
LOCAL INSTANCE Sequences
LOCAL INSTANCE FiniteSets
LOCAL INSTANCE SequencesExt

WithKids(plan, kids) == [plan EXCEPT !.kids = kids]

ConjunctionOf(type, exprs) == IF Len(exprs) = 1 THEN exprs[1] ELSE Bool(type, exprs)

-----------------------------------------------------------------------------
(* JoinPredicateExtraction *)

\* An equality with one side on the left tables and the other on the right.
IsEquiJoinPredicate(e, left, right) ==
    /\ IsEquality(e)
    /\ LET l == ReferencedTables(e.args[1])
           r == ReferencedTables(e.args[2])
       IN  /\ l # {} /\ r # {}
           /\ \/ l \subseteq left /\ r \subseteq right
              \/ l \subseteq right /\ r \subseteq left

\* The terms all branches of a disjunction have in common go in front of it.
\* Only so many are taken from the first branch as there are different ones.
CommonFactored(branches) ==
    LET shared == {c \in ToSet(branches[1]) :
                     \A i \in DOMAIN branches : c \in ToSet(branches[i])}
        common == SelectSeq(branches[1], LAMBDA c : c \in shared)
        front == SubSeq(common, 1, Cardinality(shared))
        rest == [i \in DOMAIN branches |-> SelectSeq(branches[i], LAMBDA c : c \notin shared)]
    IN  IF <<>> \in ToSet(rest)
        THEN ConjunctionOf("and", front)
        ELSE ConjunctionOf("and", Append(front,
                 ConjunctionOf("or", [i \in DOMAIN rest |-> ConjunctionOf("and", rest[i])])))

RECURSIVE FactorCommonDisjunctConjuncts(_)
FactorCommonDisjunctConjuncts(e) ==
    IF e.kind # "conjunction"
    THEN e
    ELSE LET args == [i \in DOMAIN e.args |-> FactorCommonDisjunctConjuncts(e.args[i])]
         IN  IF IsOr(e) /\ Len(args) > 1
             THEN CommonFactored([i \in DOMAIN args |-> Conjuncts(args[i])])
             ELSE [e EXCEPT !.args = args]

ExtractFromFilter(exprs, cross) ==
    LET left == OutputTables(cross.kids[1])
        right == OutputTables(cross.kids[2])
        split == SplitConjunctions(
                     [i \in DOMAIN exprs |-> FactorCommonDisjunctConjuncts(exprs[i])])
        conditions == SelectSeq(split, LAMBDA e : IsEquiJoinPredicate(e, left, right))
        remaining == SelectSeq(split, LAMBDA e : ~IsEquiJoinPredicate(e, left, right))
    IN  IF conditions = <<>>
        THEN Filter(split, cross)
        ELSE MakeFilter(Join("inner", conditions, cross.kids[1], cross.kids[2]), remaining)

RECURSIVE JoinPredicateExtraction(_)
JoinPredicateExtraction(plan) ==
    LET kids == [i \in DOMAIN plan.kids |-> JoinPredicateExtraction(plan.kids[i])]
    IN  IF plan.op = "filter" /\ kids[1].op = "cross"
        THEN ExtractFromFilter(plan.exprs, kids[1])
        ELSE WithKids(plan, kids)

-----------------------------------------------------------------------------
(* FilterPushdown *)

\* SplitFiltersByChildTables: where a condition belongs.  Semi and anti joins
\* send everything to the right that names no table of the left.
SideOf(e, left, right, route_non_left_to_right) ==
    LET tables == ReferencedTables(e)
    IN  IF tables = {} THEN "keep"
        ELSE IF tables \subseteq left THEN "left"
        ELSE IF tables \subseteq right THEN "right"
        ELSE IF route_non_left_to_right /\ tables \cap left = {} THEN "right"
        ELSE "keep"

\* Mutant of PushesLeft: whatever the join keeps of the left side.
PushesLeftOfAnyJoin(join) == join.kind = "comparison"

\* GetJoinConditionPushPolicy: the sides conditions of a join may sink to.
PushesLeft(join)  == join.kind = "comparison" /\ join.type \in {"inner", "semi"}
PushesRight(join) == join.kind # "comparison" \/ join.type # "left"
RoutesRight(join) == PushesRight(join) /\ join.type \in {"semi", "anti"}

OnSide(exprs, join, side) ==
    LET left == OutputTables(join.kids[1])
        right == OutputTables(join.kids[2])
        routes == join.op = "join" /\ RoutesRight(join)
    IN  SelectSeq(exprs, LAMBDA e : SideOf(e, left, right, routes) = side)

\* The expressions over columns that a projection or an aggregate computes
\* from expressions that are cheap to compute below it.
CanRewriteProjectionFilter(e, replacements) ==
    \A b \in ColumnsOf(e) \cap DOMAIN replacements :
        replacements[b].kind \in {"column", "constant"}

RECURSIVE FilterPushdown(_)

\* Rewrite(MakeFilterNode(child, filters)), where there are filters.
Sunk(kid, exprs) == IF exprs = <<>> THEN kid ELSE FilterPushdown(Filter(exprs, kid))

\* PushJoinConditionFilters.
PushJoinConditionFilters(join) ==
    LET split == SplitConjunctions(join.conditions)
        lefts == OnSide(split, join, "left")
        rights == OnSide(split, join, "right")
        left == IF PushesLeft(join) THEN Sunk(join.kids[1], lefts) ELSE join.kids[1]
        right == IF PushesRight(join) THEN Sunk(join.kids[2], rights) ELSE join.kids[2]
        keep == OnSide(split, join, "keep")
                  \o (IF PushesLeft(join) THEN <<>> ELSE lefts)
                  \o (IF PushesRight(join) THEN <<>> ELSE rights)
    IN  IF join.kind = "comparison" /\ join.type = "inner" /\ keep = <<>>
        THEN Cross(left, right)
        ELSE [join EXCEPT !.conditions = keep, !.kids = <<left, right>>]

PushIntoCrossProduct(exprs, cross) ==
    MakeFilter(Cross(Sunk(cross.kids[1], OnSide(exprs, cross, "left")),
                     Sunk(cross.kids[2], OnSide(exprs, cross, "right"))),
               OnSide(exprs, cross, "keep"))

\* What stays above a join becomes a condition of it, whatever its type.
PushIntoJoin(exprs, join) ==
    LET rights == OnSide(exprs, join, "right")
    IN  [join EXCEPT
            !.kids = <<Sunk(join.kids[1], OnSide(exprs, join, "left")),
                       IF PushesRight(join) THEN Sunk(join.kids[2], rights) ELSE join.kids[2]>>,
            !.conditions = @ \o OnSide(exprs, join, "keep")
                             \o (IF PushesRight(join) THEN <<>> ELSE rights)]

PushIntoProjection(exprs, projection, Sink(_, _)) ==
    LET replacements == Outputs(projection.table, projection.exprs)
        sinks(e) == CanRewriteProjectionFilter(e, replacements)
        sunk == SelectSeq(exprs, sinks)
    IN  MakeFilter(
            WithKids(projection,
                <<Sink(projection.kids[1],
                       [i \in DOMAIN sunk |-> Replaced(sunk[i], replacements)])>>),
            SelectSeq(exprs, LAMBDA e : ~sinks(e)))

\* Conditions on group columns alone hold before grouping if they hold after.
PushIntoAggregate(exprs, aggregate) ==
    LET sinks(e) == ReferencedTables(e) = {aggregate.group_table}
        sunk == SelectSeq(exprs, sinks)
        replacements == Outputs(aggregate.group_table, aggregate.groups)
    IN  IF aggregate.groups = <<>>
        THEN Filter(exprs, aggregate)
        ELSE MakeFilter(
                WithKids(aggregate,
                    <<Sunk(aggregate.kids[1],
                           [i \in DOMAIN sunk |-> Replaced(sunk[i], replacements)])>>),
                SelectSeq(exprs, LAMBDA e : ~sinks(e)))

PushThroughWrapper(exprs, wrapper, Sink(_, _)) ==
    LET below == OutputTables(wrapper.kids[1])
        sinks(e) == ReferencedTables(e) # {} /\ ReferencedTables(e) \subseteq below
    IN  MakeFilter(WithKids(wrapper, <<Sink(wrapper.kids[1], SelectSeq(exprs, sinks))>>),
                   SelectSeq(exprs, LAMBDA e : ~sinks(e)))

\* A filter whose child has been rewritten.  ORDER BY and DISTINCT let
\* conditions through, LIMIT does not.
PushFilter(exprs, kid) ==
    CASE kid.op = "cross"      -> PushIntoCrossProduct(exprs, kid)
      [] kid.op = "join"       -> PushIntoJoin(exprs, kid)
      [] kid.op = "projection" -> PushIntoProjection(exprs, kid, Sunk)
      [] kid.op = "aggregate"  -> PushIntoAggregate(exprs, kid)
      [] kid.op \in {"order", "distinct"} -> PushThroughWrapper(exprs, kid, Sunk)
      [] OTHER -> Filter(exprs, kid)

FilterPushdown(plan) ==
    LET kids == [i \in DOMAIN plan.kids |-> FilterPushdown(plan.kids[i])]
    IN  CASE plan.op = "join"   -> PushJoinConditionFilters(WithKids(plan, kids))
          [] plan.op = "filter" -> PushFilter(SplitConjunctions(plan.exprs), kids[1])
          [] OTHER -> WithKids(plan, kids)

-----------------------------------------------------------------------------
(* PredicatePropagation *)

\* The column of an equality with a constant that is not NULL.
IsColumnConstant(e) ==
    /\ IsEquality(e)
    /\ \E i \in {1, 2} : /\ IsColumn(e.args[i])
                         /\ IsConstant(e.args[3 - i]) /\ e.args[3 - i].value # NULL
ConstantSide(e)  == IF IsConstant(e.args[1]) THEN e.args[1] ELSE e.args[2]
ColumnSide(e)    == IF IsColumn(e.args[1]) THEN e.args[1] ELSE e.args[2]

ConditionsOf(plan) ==
    CASE plan.op = "filter" -> plan.exprs
      [] plan.op = "join"   -> plan.conditions
      [] OTHER -> <<>>

RECURSIVE CollectEqualities(_)
\* The equalities of all filters and joins of a plan, whatever the joins are.
CollectEqualities(plan) ==
    SelectSeq(SplitConjunctions(ConditionsOf(plan)), IsEquality)
      \o FlattenSeq([i \in DOMAIN plan.kids |-> CollectEqualities(plan.kids[i])])

\* BuildEqualityClasses: the partition of the columns that equalities give.
Merged(classes, b, c) ==
    LET touched == {class \in classes : b \in class \/ c \in class}
    IN  (classes \ touched) \cup {{b, c} \cup UNION touched}

EqualityClasses(equalities) ==
    LET Add(classes, e) ==
            IF IsColumnColumn(e)
            THEN Merged(classes, BindingOf(e.args[1]), BindingOf(e.args[2]))
            ELSE IF IsColumnConstant(e)
            THEN Merged(classes, BindingOf(ColumnSide(e)), BindingOf(ColumnSide(e)))
            ELSE classes
    IN  FoldLeft(Add, {}, equalities)

\* The first constant an equality gives to one of the columns.
ConstantsOf(class, equalities) ==
    SelectSeq(equalities, LAMBDA e : IsColumnConstant(e) /\ BindingOf(ColumnSide(e)) \in class)

Equals(b, e) == Call("=", <<Column(b[1], b[2]), e>>)

\* BuildPropagatedFilters: every column of a class equals its constant.
PropagatedFilters(classes, equalities) ==
    LET direct == {BindingOf(ColumnSide(e)) : e \in {f \in ToSet(equalities) : IsColumnConstant(f)}}
        known == {class \in classes : ConstantsOf(class, equalities) # <<>>}
    IN  UNION {{Equals(b, ConstantSide(ConstantsOf(class, equalities)[1])) : b \in class \ direct} :
                  class \in known}

\* BuildDisjunctiveConstantFilters: a column that every branch of a disjunction
\* equates with a constant has one of these constants.
DisjunctiveFilters(e) ==
    LET branch(i) == SelectSeq(Conjuncts(e.args[i]), IsColumnConstant)
        first(i, b) == SelectSeq(branch(i), LAMBDA f : BindingOf(ColumnSide(f)) = b)[1]
        columns(i) == {BindingOf(ColumnSide(f)) : f \in ToSet(branch(i))}
        common == {b \in columns(1) : \A i \in DOMAIN e.args : b \in columns(i)}
    IN  IF e.kind = "conjunction" /\ ~IsAnd(e) /\ Len(e.args) > 1
        THEN {Bool("or", [i \in DOMAIN e.args |-> Equals(b, ConstantSide(first(i, b)))]) : b \in common}
        ELSE {}

\* BuildPropagatedEqualities: the pairs of a class of three or more columns
\* that are of different tables and not equated already.
PropagatedEqualities(classes, equalities) ==
    LET direct == {{BindingOf(e.args[1]), BindingOf(e.args[2])} :
                     e \in {f \in ToSet(equalities) : IsColumnColumn(f)}}
        before(b, c) == b[1] < c[1]
    IN  UNION {{Equals(bc[1], Column(bc[2][1], bc[2][2])) :
                  bc \in {p \in class \X class : before(p[1], p[2]) /\ {p[1], p[2]} \notin direct}} :
                  class \in {cl \in classes : Cardinality(cl) > 2}}

RECURSIVE InjectFilters(_, _)
\* Conditions on one table go to its scan; those on other outputs are dropped.
InjectFilters(plan, filters) ==
    IF plan.op = "get"
    THEN LET mine == SetToSeq({e \in filters : ReferencedTables(e) = {plan.table}})
         IN  [plan EXCEPT !.filters = FoldLeft(AppendUnique, @, mine)]
    ELSE WithKids(plan, [i \in DOMAIN plan.kids |-> InjectFilters(plan.kids[i], filters)])

Propagated(plan, equalities, classes) ==
    LET disjunctive == UNION {DisjunctiveFilters(e) : e \in ToSet(ConditionsOf(plan))}
    IN  MakeFilter(
            InjectFilters(plan, PropagatedFilters(classes, equalities) \cup disjunctive),
            SetToSeq(PropagatedEqualities(classes, equalities)))

RECURSIVE PredicatePropagation(_)
PredicatePropagation(plan) ==
    LET rewritten == WithKids(plan, [i \in DOMAIN plan.kids |-> PredicatePropagation(plan.kids[i])])
        equalities == CollectEqualities(rewritten)
    IN  IF \/ plan.op \in {"filter", "cross"}
           \/ plan.op = "join" /\ plan.kind = "comparison"
        THEN Propagated(rewritten, equalities, EqualityClasses(equalities))
        ELSE rewritten

-----------------------------------------------------------------------------
(* ScanFilterFolding *)

RECURSIVE ScanFilterFolding(_)
ScanFilterFolding(plan) ==
    LET kids == [i \in DOMAIN plan.kids |-> ScanFilterFolding(plan.kids[i])]
    IN  IF plan.op = "filter" /\ kids[1].op = "get"
        THEN [kids[1] EXCEPT !.filters = FoldLeft(AppendUnique, @, plan.exprs)]
        ELSE WithKids(plan, kids)

-----------------------------------------------------------------------------
(* Mark joins (logical/mark_join_normalization.cpp).  The marker of a       *)
(* subquery at the top of WHERE is read by nothing, so the join keeps the   *)
(* rows that have a match, or the others.                                   *)

\* SimplifyExistsStyleMarkJoin: unless a condition is about one side only.
IsMarkToSemi(join) ==
    /\ join.type = "mark"
    /\ \A e \in ToSet(join.conditions) :
          LET tables == ReferencedTables(e)
          IN  /\ tables # {}
              /\ ~(tables \subseteq OutputTables(join.kids[1]))
              /\ ~(tables \subseteq OutputTables(join.kids[2]))

RECURSIVE NormalizeMarkFilters(_)
SunkToMark(kid, exprs) ==
    IF exprs = <<>> THEN kid ELSE NormalizeMarkFilters(Filter(exprs, kid))

PushMarkFilter(exprs, kid) ==
    CASE kid.op = "projection" -> PushIntoProjection(exprs, kid, SunkToMark)
      [] kid.op \in {"order", "distinct", "limit", "window"} ->
             PushThroughWrapper(exprs, kid, SunkToMark)
      [] OTHER -> Filter(exprs, kid)

\* NormalizeExistsStyleMarkFilters: to bring filters to the mark joins they may
\* belong to, it pushes all filters through projections and whatever orders,
\* numbers or cuts off rows.
NormalizeMarkFilters(plan) ==
    LET kids == [i \in DOMAIN plan.kids |-> NormalizeMarkFilters(plan.kids[i])]
    IN  IF plan.op = "filter"
        THEN PushMarkFilter(SplitConjunctions(plan.exprs), kids[1])
        ELSE WithKids(plan, kids)

RECURSIVE SimplifyMarkJoins(_)
SimplifyMarkJoins(plan) ==
    LET rewritten == WithKids(plan, [i \in DOMAIN plan.kids |-> SimplifyMarkJoins(plan.kids[i])])
    IN  IF plan.op = "join" /\ IsMarkToSemi(rewritten)
        THEN [rewritten EXCEPT !.type = IF plan.invert THEN "anti" ELSE "semi", !.invert = FALSE]
        ELSE rewritten

MarkJoinCleanup(plan) == SimplifyMarkJoins(NormalizeMarkFilters(plan))
=============================================================================
