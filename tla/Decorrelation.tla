----------------------------- MODULE Decorrelation -----------------------------
(***************************************************************************)
(* Correlated subqueries become joins (optimizer/planner: decorrelate_     *)
(* dependent_join.cpp, decorrelate_rewrite_utils.cpp,                      *)
(* planner_normalizer.cpp).  A subquery is pushed down: from its plan, node*)
(* by node, the conditions on columns of the outer query are lifted, until *)
(* they are conditions of the join with the outer query.                   *)
(*                                                                         *)
(* local is the set of tables of the subquery, next the next table index.  *)
(* Pushing down gives a record: whether it succeeds, the plan, the lifted  *)
(* conditions, the next table index.  The code rewrites in place: a rule   *)
(* that gives up puts nothing back, and what it had lifted is lost.        *)
(***************************************************************************)
EXTENDS PlanRewrites
LOCAL INSTANCE Integers
LOCAL INSTANCE Sequences
LOCAL INSTANCE FiniteSets
LOCAL INSTANCE FiniteSetsExt
LOCAL INSTANCE SequencesExt
LOCAL INSTANCE TLC

IsLocal(e, local)      == ReferencedTables(e) \subseteq local
AreLocal(exprs, local) == \A i \in DOMAIN exprs : IsLocal(exprs[i], local)

\* SplitConjunctions of this pass: the terms of one AND.
SplitOnce(exprs) ==
    FlattenSeq([i \in DOMAIN exprs |-> IF IsAnd(exprs[i]) THEN exprs[i].args ELSE <<exprs[i]>>])

\* ExtractDecorrelatedEquality: one side is of the subquery, the other is not.
IsCorrelation(e, local) ==
    IsEquality(e) /\ IsLocal(e.args[1], local) # IsLocal(e.args[2], local)
InnerSide(e, local) == IF IsLocal(e.args[1], local) THEN e.args[1] ELSE e.args[2]
OuterSide(e, local) == IF IsLocal(e.args[1], local) THEN e.args[2] ELSE e.args[1]

\* ExtractCorrelatedExpressions.
Kept(exprs, local)   == SelectSeq(SplitOnce(exprs), LAMBDA e : IsLocal(e, local))
Lifted(exprs, local) == SelectSeq(SplitOnce(exprs), LAMBDA e : ~IsLocal(e, local))

RECURSIVE HasCorrelatedReferences(_, _)
HasCorrelatedReferences(plan, local) ==
    \/ ~AreLocal(OwnExpressions(plan), local)
    \/ \E kid \in ToSet(plan.kids) : HasCorrelatedReferences(kid, local)

Pushed(plan, lifted, next) == [ok |-> TRUE, plan |-> plan, lifted |-> lifted, next |-> next]
\* The caller is left with whatever has become of the plan.
Refused(plan, next) == [ok |-> FALSE, plan |-> plan, lifted |-> <<>>, next |-> next]

-----------------------------------------------------------------------------
(* One node at a time. *)

RECURSIVE PushDownCorrelatedNode(_, _, _)

\* The plan with child i pushed down, as far as that goes.
Below(plan, i, local, next) ==
    LET below == PushDownCorrelatedNode(plan.kids[i], local, next)
    IN  [below EXCEPT !.plan = [plan EXCEPT !.kids[i] = below.plan]]

\* The node itself, after its children; if a child refuses, so does the node.
Above(below, plan, lifted) ==
    IF below.ok THEN Pushed(plan, lifted, below.next) ELSE Refused(plan, below.next)

PushDownGet(plan, local, next) ==
    Pushed([plan EXCEPT !.filters = Kept(@, local)], Lifted(plan.filters, local), next)

PushDownFilter(plan, local, next) ==
    LET below == Below(plan, 1, local, next)
    IN  IF below.ok
        THEN Pushed(MakeFilter(below.plan.kids[1], Kept(plan.exprs, local)),
                    below.lifted \o Lifted(plan.exprs, local), below.next)
        ELSE below

\* RewriteLiftedFiltersThroughProjection and ...ThroughAggregate: the inner
\* side of a correlation becomes one of the outputs exprs of table t, if it is
\* not one already; other conditions rise as they are.
Materialized(t, exprs, lifted, local) ==
    LET Add(out, e) ==
            IF IsCorrelation(e, local)
            THEN LET inner == InnerSide(e, local)
                     grown == AppendUnique(out.exprs, inner)
                     position == SelectInSeq(grown, LAMBDA f : f = inner)
                 IN  [exprs |-> grown,
                      lifted |-> Append(out.lifted,
                                        Call("=", <<Column(t, position - 1), OuterSide(e, local)>>))]
            ELSE [out EXCEPT !.lifted = Append(@, e)]
    IN  FoldLeft(Add, [exprs |-> exprs, lifted |-> <<>>], lifted)

\* A node that rises with the lifted conditions, provided its own expressions
\* are local; at a condition that has become local it stops halfway.
PushDownThrough(plan, local, next) ==
    LET below == Below(plan, 1, local, next)
        stuck == SelectInSeq(below.lifted, LAMBDA e : IsLocal(e, local))
    IN  IF ~AreLocal(OwnExpressions(plan), local)
        THEN Refused(plan, next)
        ELSE IF stuck = 0
        THEN below
        ELSE [below EXCEPT !.ok = FALSE, !.lifted = SubSeq(@, 1, stuck - 1)]

PushDownProjection(plan, local, next) ==
    LET below == PushDownThrough(plan, local, next)
        out == Materialized(plan.table, plan.exprs, below.lifted, local)
    IN  Above(below, [below.plan EXCEPT !.exprs = out.exprs], out.lifted)

PushDownAggregate(plan, local, next) ==
    LET below == PushDownThrough(plan, local, next)
        out == Materialized(plan.group_table, plan.groups, below.lifted, local)
    IN  Above(below, [below.plan EXCEPT !.groups = out.exprs], out.lifted)

\* AddCorrelatedKeysToDistinct.
PushDownDistinct(plan, local, next) ==
    LET below == PushDownThrough(plan, local, next)
        correlations == SelectSeq(below.lifted, LAMBDA e : IsCorrelation(e, local))
        keys == [i \in DOMAIN correlations |-> InnerSide(correlations[i], local)]
    IN  Above(below, [below.plan EXCEPT !.exprs = FoldLeft(AppendUnique, @, keys)], below.lifted)

\* ORDER BY and a window that is there already; they only rise.
PushDownOrdered(plan, local, next) ==
    IF ~AreLocal(OwnExpressions(plan), local)
    THEN Refused(plan, next)
    ELSE Below(plan, 1, local, next)

\* A limit for each outer row is a limit for each value of the inner sides of
\* the correlations: number the rows of every value, keep the first ones.  The
\* input has been moved out of the plan when this is found not to be possible.
LimitPerPartition(plan, orders, local, below) ==
    LET correlations == SelectSeq(below.lifted, LAMBDA e : IsCorrelation(e, local))
        partitions == [i \in DOMAIN correlations |-> InnerSide(correlations[i], local)]
        window == Window(below.next, partitions, orders, below.plan)
        within == Call("<=", <<Column(below.next, 0), Constant(plan.count)>>)
    IN  IF \/ ~below.ok
           \/ partitions = <<>>
           \/ \E e \in ToSet(below.lifted) :
                 ~IsCorrelation(e, local) /\ ReferencedTables(e) \cap local # {}
        THEN Refused(WithKids(plan, <<Moved>>), below.next)
        ELSE Pushed(Filter(<<within>>, window), below.lifted, below.next + 1)

PushDownLimit(plan, local, next) ==
    LET ordered == plan.kids[1].op = "order"
        orders == IF ordered THEN plan.kids[1].exprs ELSE <<>>
        base == IF ordered THEN plan.kids[1].kids[1] ELSE plan.kids[1]
    IN  IF ~AreLocal(orders, local)
        THEN Refused(plan, next)
        ELSE IF HasCorrelatedReferences(base, local)
        THEN LimitPerPartition(plan, orders, local, PushDownCorrelatedNode(base, local, next))
        ELSE Below(plan, 1, local, next)

\* Both sides, or of an inner join those that name outer columns.
PushDownSides(plan, every, local, next) ==
    LET Side(join, i) ==
            LET below == Below(join.plan, i, local, join.next)
            IN  IF join.ok /\ (every \/ HasCorrelatedReferences(plan.kids[i], local))
                THEN Above(below, below.plan, join.lifted \o below.lifted)
                ELSE join
    IN  Side(Side(Pushed(plan, <<>>, next), 1), 2)

HidesRight(join) == join.type \in {"semi", "anti"}

\* BuildSemiJoinVisibleBindingReplacements: a column of the right side of a
\* semi join for which there is an equal one on the left.
VisibleReplacements(join) ==
    LET visible == OutputTables(join.kids[1])
        Add(found, e) ==
            LET hidden == SelectSeq(e.args, LAMBDA c : c.table \notin visible)
                seen == SelectSeq(e.args, LAMBDA c : c.table \in visible)
            IN  IF Len(hidden) = 1 THEN (BindingOf(hidden[1]) :> seen[1]) @@ found ELSE found
    IN  IF HidesRight(join)
        THEN FoldLeft(Add, <<>>, SelectSeq(join.conditions, IsColumnColumn))
        ELSE <<>>

AllReplaced(exprs, replacements) == [i \in DOMAIN exprs |-> Replaced(exprs[i], replacements)]
IsTautology(e) == IsColumnColumn(e) /\ e.args[1] = e.args[2]

\* KeepSemiJoinHiddenLiftedFiltersOnRight: conditions the right side can
\* decide stay there.
RECURSIVE SubtreeTables(_)
SubtreeTables(plan) ==
    OutputTables(plan)
      \cup UNION {ReferencedTables(e) : e \in ToSet(OwnExpressions(plan))}
      \cup UNION {SubtreeTables(kid) : kid \in ToSet(plan.kids)}

LiftedFromJoin(join, replacements, local, below) ==
    LET hidden == OutputTables(join.kids[2])
        all == below.lifted \o Lifted(join.conditions, local)
        tables == SubtreeTables(below.plan.kids[2])
        stays(e) == HidesRight(join) /\ ReferencedTables(e) # {} /\ ReferencedTables(e) \subseteq tables
        lifted == AllReplaced(SelectSeq(all, LAMBDA e : ~stays(e)), replacements)
        conditions == Kept(join.conditions, local)
        sides == <<below.plan.kids[1], MakeFilter(below.plan.kids[2], SelectSeq(all, stays))>>
        rest == [join EXCEPT !.conditions = conditions, !.kids = sides]
    IN  IF replacements # <<>> /\ \E e \in ToSet(lifted) : ReferencedTables(e) \cap hidden # {}
        THEN Refused(rest, below.next)
        ELSE Pushed(IF join.kind = "comparison" /\ join.type = "inner" /\ conditions = <<>>
                    THEN Cross(sides[1], sides[2])
                    ELSE rest,
                    lifted, below.next)

\* Mutant of IsUnsafeOuterJoin: every condition is lifted.
NeverUnsafe(join, local) == FALSE

\* A condition lifted from the ON clause of a LEFT join, or from its right
\* side, would reject rows that are only to be extended with NULLs.
IsUnsafeOuterJoin(join, local) ==
    /\ join.type = "left"
    /\ ~AreLocal(join.conditions, local) \/ HasCorrelatedReferences(join.kids[2], local)

\* The equalities of a semi join that define replacements are gone: with both
\* sides visible they say nothing.
PushDownJoin(plan, local, next) ==
    LET replacements == VisibleReplacements(plan)
        hidden == OutputTables(plan.kids[2])
        conditions == IF replacements = <<>>
                      THEN plan.conditions
                      ELSE SelectSeq(AllReplaced(plan.conditions, replacements),
                                     LAMBDA e : ~IsTautology(e))
        join == [plan EXCEPT !.conditions = conditions]
        pushed == PushDownSides(join, plan.type \notin {"inner", "left"}, local, next)
    IN  IF \/ plan.kind = "dependent"
           \/ replacements # <<>> /\ \E e \in ToSet(conditions) : ReferencedTables(e) \cap hidden # {}
           \/ IsUnsafeOuterJoin(join, local)
        THEN Refused(plan, next)
        ELSE IF pushed.ok THEN LiftedFromJoin(join, replacements, local, pushed) ELSE pushed

PushDownCorrelatedNode(plan, local, next) ==
    CASE plan.op = "get"        -> PushDownGet(plan, local, next)
      [] plan.op = "filter"     -> PushDownFilter(plan, local, next)
      [] plan.op = "projection" -> PushDownProjection(plan, local, next)
      [] plan.op = "aggregate"  -> PushDownAggregate(plan, local, next)
      [] plan.op = "distinct"   -> PushDownDistinct(plan, local, next)
      [] plan.op \in {"order", "window"} -> PushDownOrdered(plan, local, next)
      [] plan.op = "limit"      -> PushDownLimit(plan, local, next)
      [] plan.op = "join"       -> PushDownJoin(plan, local, next)
      [] plan.op = "cross"      -> PushDownSides(plan, FALSE, local, next)
      [] plan.op \in {"delim_get", "moved"} -> Pushed(plan, <<>>, next)

-----------------------------------------------------------------------------
(* A scalar subquery that aggregates is computed for every combination of   *)
(* outer values at once: the combinations are joined to its input (a delim  *)
(* scan) and become groups.                                                 *)

RECURSIVE ContainsBlockingOperator(_)
ContainsBlockingOperator(plan) ==
    \/ plan.op \notin {"get", "filter", "projection", "join", "cross", "delim_get", "moved"}
    \/ \E kid \in ToSet(plan.kids) : ContainsBlockingOperator(kid)

RECURSIVE Correlations(_, _)
\* The conditions that are not local, those of children first.
Correlations(plan, local) ==
    FlattenSeq([i \in DOMAIN plan.kids |-> Correlations(plan.kids[i], local)])
      \o (IF plan.op \in {"filter", "get", "join"} THEN Lifted(OwnExpressions(plan), local) ELSE <<>>)

RECURSIVE ProjectsLocally(_, _)
ProjectsLocally(plan, local) ==
    /\ plan.op = "projection" => AreLocal(plan.exprs, local)
    /\ \A kid \in ToSet(plan.kids) : ProjectsLocally(kid, local)

RECURSIVE AggregateBelow(_)
AggregateBelow(plan) == IF plan.op = "projection" THEN AggregateBelow(plan.kids[1]) ELSE plan

IsScalarAggregateJoin(join) ==
    LET aggregate == AggregateBelow(join.kids[2])
        local == OutputTables(aggregate.kids[1])
        correlations == Correlations(aggregate.kids[1], local)
    IN  /\ join.type = "single"
        /\ aggregate.op = "aggregate"
        /\ ~ContainsBlockingOperator(aggregate.kids[1])
        /\ ProjectsLocally(aggregate.kids[1], local)
        /\ correlations # <<>>
        /\ \A e \in ToSet(correlations) : IsCorrelation(e, local)
        /\ \E e \in ToSet(correlations) : ReferencedTables(InnerSide(e, local)) # {}

RECURSIVE AtDeepestCovering(_, _, _, _)
\* FindDeepestCoveringSubtree: the delim scan joins the smallest subtree with
\* all the tables, the first one if there are two.
AtDeepestCovering(plan, tables, conditions, delim_get) ==
    LET covering == {i \in DOMAIN plan.kids : tables \subseteq OutputTables(plan.kids[i])}
    IN  IF covering = {}
        THEN MakeFilter(Cross(plan, delim_get), conditions)
        ELSE [plan EXCEPT !.kids[Min(covering)] =
                 AtDeepestCovering(@, tables, conditions, delim_get)]

RECURSIVE WithAggregate(_, _)
WithAggregate(plan, aggregate) ==
    IF plan.op = "projection"
    THEN WithKids(plan, <<WithAggregate(plan.kids[1], aggregate)>>)
    ELSE aggregate

\* t is the table of the delim scan.  The first group of the grouping that is
\* new is at position Len(aggregate.groups).
JoinOverDelimScan(join, aggregate, correlations, local, below, t) ==
    LET inner == UNION {ReferencedTables(InnerSide(e, local)) : e \in ToSet(correlations)}
        outer == [i \in DOMAIN correlations |-> OuterSide(correlations[i], local)]
        Add(found, i) == IF IsColumn(outer[i]) THEN (BindingOf(outer[i]) :> Column(t, i - 1)) @@ found
                         ELSE found
        columns == FoldLeft(Add, <<>>, [i \in DOMAIN outer |-> i])
        input == AtDeepestCovering(below.plan, inner, AllReplaced(below.lifted, columns),
                                   DelimGet(t, Len(correlations)))
        grouped == [aggregate EXCEPT
                       !.groups = @ \o [i \in DOMAIN outer |-> Column(t, i - 1)],
                       !.kids = <<input>>]
        equal == [i \in DOMAIN outer |->
                     Call("=", <<outer[i], Column(aggregate.group_table, Len(aggregate.groups) + i - 1)>>)]
    IN  [join EXCEPT
            !.kind = "delim",
            !.conditions = FoldLeft(AppendUnique, @, equal),
            !.kids[2] = WithAggregate(@, grouped)]

\* The rule gives up when the input of the aggregate does; what has become of
\* it stays in the join.
OverPushedInput(join, aggregate, below) ==
    LET local == OutputTables(aggregate.kids[1])
    IN  IF below.ok
        THEN Pushed(JoinOverDelimScan(join, aggregate, Correlations(aggregate.kids[1], local),
                                      local, below, below.next),
                    <<>>, below.next + 1)
        ELSE Refused([join EXCEPT !.kids[2] = WithAggregate(@, WithKids(aggregate, <<below.plan>>))],
                     below.next)

DecorrelateScalarAggregateJoin(join, next) ==
    LET aggregate == AggregateBelow(join.kids[2])
        input == aggregate.kids[1]
    IN  IF IsScalarAggregateJoin(join)
        THEN OverPushedInput(join, aggregate,
                             PushDownCorrelatedNode(input, OutputTables(input), next))
        ELSE Refused(join, next)

-----------------------------------------------------------------------------
(* The pass. *)

\* The subqueries of WHERE and of expressions are marks or scalars, so what
\* they become is a delim join.  A join whose subquery refuses stays dependent,
\* over what is left of it.
DelimJoin(join, right) ==
    IF right.ok
    THEN Pushed([join EXCEPT !.kind = "delim",
                             !.conditions = FoldLeft(AppendUnique, @, right.lifted),
                             !.kids[2] = right.plan], <<>>, right.next)
    ELSE Refused([join EXCEPT !.kids[2] = right.plan], right.next)

\* The second rule works on what the first one has left.
SecondRule(first) ==
    LET right == first.plan.kids[2]
    IN  IF first.ok
        THEN first
        ELSE DelimJoin(first.plan, PushDownCorrelatedNode(right, OutputTables(right), first.next))

DecorrelateJoin(join, next) == SecondRule(DecorrelateScalarAggregateJoin(join, next))

Changing(join, changed) == [plan |-> join.plan, next |-> join.next, changed |-> changed \/ join.ok]

RewriteNode(plan, next, changed) ==
    IF plan.op = "join" /\ plan.kind = "dependent"
    THEN Changing(DecorrelateJoin(plan, next), changed)
    ELSE [plan |-> plan, next |-> next, changed |-> changed]

RECURSIVE RewriteDependent(_, _)
\* The joins of the children first.
RewriteDependent(plan, next) ==
    LET Add(done, kid) ==
            LET one == RewriteDependent(kid, done.next)
            IN  [kids |-> Append(done.kids, one.plan), next |-> one.next,
                 changed |-> done.changed \/ one.changed]
        done == FoldLeft(Add, [kids |-> <<>>, next |-> next, changed |-> FALSE], plan.kids)
    IN  RewriteNode(WithKids(plan, done.kids), done.next, done.changed)

DecorrelateDependentJoin(plan) ==
    RewriteDependent(plan, Max(OutputTables(plan) \cup {-1}) + 1)

RECURSIVE HasMoved(_)
\* A child has been moved away and left a null pointer.
HasMoved(plan) == plan = Moved \/ \E kid \in ToSet(plan.kids) : HasMoved(kid)

MaxRounds == 8

RECURSIVE CleanedUp(_, _)
\* RunSubqueryCleanupLoop.
CleanedUp(plan, rounds) ==
    LET cleaned == MarkJoinCleanup(plan)
    IN  IF rounds = 1 \/ cleaned = plan THEN cleaned ELSE CleanedUp(cleaned, rounds - 1)

CleanUp(decorrelated) ==
    LET cleaned == CleanedUp(decorrelated.plan, MaxRounds)
    IN  [plan |-> cleaned, changed |-> decorrelated.changed \/ cleaned # decorrelated.plan]

RECURSIVE Normalized(_, _)
\* Until a round changes nothing.  A further round, as every later pass, would
\* follow the null pointer.
NextRound(round, rounds) ==
    IF rounds = 1 \/ ~round.changed \/ HasMoved(round.plan)
    THEN round.plan
    ELSE Normalized(round.plan, rounds - 1)

Normalized(plan, rounds) == NextRound(CleanUp(DecorrelateDependentJoin(plan)), rounds)

\* PlannerNormalizer::Normalize.
Normalize(plan) == Normalized(plan, MaxRounds)
=============================================================================
