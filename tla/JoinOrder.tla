------------------------------- MODULE JoinOrder -------------------------------
(***************************************************************************)
(* The join order optimizer (optimizer/optimizer/join_order_*.cpp): a tree *)
(* of inner, semi and anti joins, cross products and filters is taken apart*)
(* into relations and conditions and put together again.  Which of the     *)
(* possible trees is cheapest depends on estimates, so the result is the   *)
(* set of all of them; it is empty where the optimizer finds none, which   *)
(* ends the statement with an ERROR.                                       *)
(***************************************************************************)
EXTENDS Decorrelation
LOCAL INSTANCE Integers
LOCAL INSTANCE Sequences
LOCAL INSTANCE FiniteSets
LOCAL INSTANCE FiniteSetsExt
LOCAL INSTANCE SequencesExt

MaxRelations == 20

IsReorderableJoinNode(plan) ==
    \/ plan.op = "cross"
    \/ plan.op = "join" /\ plan.kind = "comparison" /\ plan.type \in {"inner", "semi", "anti"}

RECURSIVE IsReorderableJoinTree(_)
IsReorderableJoinTree(plan) ==
    IF plan.op = "filter"
    THEN IsReorderableJoinTree(plan.kids[1])
    ELSE IsReorderableJoinNode(plan)

RECURSIVE IsSafeJoinOrderTree(_)
IsSafeJoinOrderTree(plan) ==
    /\ plan.op \notin {"aggregate", "distinct", "window"}
    /\ \A kid \in ToSet(plan.kids) : IsSafeJoinOrderTree(kid)

-----------------------------------------------------------------------------
(* The query graph.  A relation is the set of plans it may become; one that *)
(* becomes none is left out.                                                *)

RECURSIVE Rewritten(_)

\* The plan over everything its children may become.
OverRewritten(plan) ==
    CASE plan.kids = <<>>    -> {plan}
      [] Len(plan.kids) = 1  -> {WithKids(plan, <<kid>>) : kid \in Rewritten(plan.kids[1])}
      [] OTHER -> {WithKids(plan, kids) : kids \in Rewritten(plan.kids[1]) \X Rewritten(plan.kids[2])}

RECURSIVE JoinRelations(_)
JoinRelations(plan) ==
    IF plan.op = "filter"
    THEN JoinRelations(plan.kids[1])
    ELSE IF IsReorderableJoinNode(plan)
    THEN JoinRelations(plan.kids[1]) \o JoinRelations(plan.kids[2])
    ELSE LET opens == plan.op = "join" \/ (Len(plan.kids) = 1 /\ IsSafeJoinOrderTree(plan.kids[1]))
             choices == IF opens THEN OverRewritten(plan) ELSE {plan}
         IN  IF choices = {} THEN <<>> ELSE <<[plans |-> choices, tables |-> OutputTables(plan)]>>

Condition(e, type, invert) == [expression |-> e, type |-> type, invert |-> invert]

RECURSIVE JoinConditions(_)
JoinConditions(plan) ==
    LET below == FlattenSeq([i \in DOMAIN plan.kids |-> JoinConditions(plan.kids[i])])
        Own(exprs, type, invert) == [i \in DOMAIN exprs |-> Condition(exprs[i], type, invert)]
    IN  CASE plan.op = "filter" -> Own(SplitOnce(plan.exprs), "inner", FALSE) \o below
          [] plan.op = "cross"  -> below
          [] plan.op = "join" /\ IsReorderableJoinNode(plan) ->
                 Own(plan.conditions, plan.type, plan.invert) \o below
          [] OTHER -> <<>>

\* ReferencedRelationMask.
RelationsOf(tables, relations) ==
    {i \in DOMAIN relations : relations[i].tables \cap tables # {}}

NoSides == [ok |-> FALSE, left |-> {}, right |-> {}]

RECURSIVE JoinSides(_)
\* TryExtractJoinSides: the tables of both sides of a comparison, and of an AND
\* of comparisons that agree on them.
JoinSides(e) ==
    LET sides(f) ==
            LET left == ReferencedTables(f.args[1])
                right == ReferencedTables(f.args[2])
            IN  IF left = {} \/ right = {} \/ left \cap right # {}
                THEN NoSides
                ELSE [ok |-> TRUE, left |-> left, right |-> right]
        Merge(s, t) ==
            IF ~s.ok \/ ~t.ok
            THEN NoSides
            ELSE IF t.left \cap s.right = {} /\ t.right \cap s.left = {}
            THEN [ok |-> TRUE, left |-> s.left \cup t.left, right |-> s.right \cup t.right]
            ELSE IF t.left \cap s.left = {} /\ t.right \cap s.right = {}
            THEN [ok |-> TRUE, left |-> s.left \cup t.right, right |-> s.right \cup t.left]
            ELSE NoSides
    IN  IF e.kind = "function" /\ Len(e.args) = 2
        THEN sides(e)
        ELSE IF IsAnd(e)
        THEN FoldLeft(Merge, JoinSides(e.args[1]),
                      [i \in 1 .. Len(e.args) - 1 |-> JoinSides(e.args[i + 1])])
        ELSE NoSides

\* A condition between relations: all of its relations, those of its sides, and
\* whether the sides are known and apart (otherwise it is residual).
Located(condition, relations) ==
    LET sides == JoinSides(condition.expression)
        left == RelationsOf(sides.left, relations)
        right == RelationsOf(sides.right, relations)
    IN  [condition |-> condition,
         all |-> RelationsOf(ReferencedTables(condition.expression), relations),
         left |-> left, right |-> right,
         joins |-> left # {} /\ right # {} /\ left \cap right = {}]

RECURSIVE ComponentsOf(_, _)
\* FindJoinComponents.
ComponentsOf(groups, located) ==
    IF located = <<>>
    THEN groups
    ELSE LET touched == {g \in groups : g \cap Head(located).all # {}}
         IN  ComponentsOf((groups \ touched) \cup {UNION touched}, Tail(located))

-----------------------------------------------------------------------------
(* Putting it together. *)

\* FilterBelongsToNode.
Spans(c, left, right) ==
    /\ c.all \subseteq left \cup right
    /\ ~(c.all \subseteq left) /\ ~(c.all \subseteq right)

RECURSIVE SubtreeEqualities(_)
\* CollectSubtreeEqualities: filters and inner joins.
SubtreeEqualities(plan) ==
    (IF \/ plan.op = "filter"
        \/ plan.op = "join" /\ plan.kind # "dependent" /\ plan.type = "inner"
     THEN SelectSeq(ConditionsOf(plan), IsColumnColumn)
     ELSE <<>>)
      \o FlattenSeq([i \in DOMAIN plan.kids |-> SubtreeEqualities(plan.kids[i])])

\* PruneRedundantInnerJoinFilters: an equality that follows from others.
Pruned(exprs, known) ==
    LET Add(done, e) ==
            LET classes == EqualityClasses(done.known)
                follows == IsColumnColumn(e) /\
                           (BindingOf(e.args[1]) = BindingOf(e.args[2]) \/
                            \E class \in classes : ColumnsOf(e) \subseteq class)
            IN  IF follows THEN done
                ELSE [known |-> Append(done.known, e), exprs |-> Append(done.exprs, e)]
    IN  FoldLeft(Add, [known |-> known, exprs |-> <<>>], exprs).exprs

\* Mutant of IsInverted: the side a condition names first is taken for the left one.
AsWritten(c, left, right) == FALSE

\* IsInvertedFilter, and CloneOrientedFilter: it swaps the sides of a condition
\* that is the other way round.
IsInverted(c, left, right) == ~(c.left \subseteq left /\ c.right \subseteq right)
Oriented(c, left, right) ==
    LET e == c.condition.expression
    IN  IF IsInverted(c, left, right) /\ e.kind = "function" /\ Len(e.args) = 2
        THEN [e EXCEPT !.args = Reverse(e.args)]
        ELSE e

Expressions(located) == [i \in DOMAIN located |-> located[i].condition.expression]

\* MakeJoinNode for two sides, each a plan and its relations.  The join is an
\* inner one if any of its conditions is of an inner join (ChoosePrimaryJoinFilter);
\* a semi or anti join keeps the rows of the left side of its condition.
MakeJoinNode(one, two, located) ==
    LET here == SelectSeq(located, LAMBDA c : Spans(c, one.relations, two.relations))
        joining == SelectSeq(here, LAMBDA c : c.joins)
        residual == Expressions(SelectSeq(here, LAMBDA c : ~c.joins))
        inner == SelectSeq(joining, LAMBDA c : c.condition.type = "inner")
        primary == IF inner # <<>> THEN inner[1] ELSE joining[1]
        swap == inner = <<>> /\ IsInverted(primary, one.relations, two.relations)
        left == IF swap THEN two ELSE one
        right == IF swap THEN one ELSE two
        conditions ==
            IF inner # <<>>
            THEN Pruned(Expressions(joining), SubtreeEqualities(left.plan) \o SubtreeEqualities(right.plan))
            ELSE [i \in DOMAIN joining |-> Oriented(joining[i], left.relations, right.relations)]
        join == [Join(primary.condition.type, conditions, left.plan, right.plan) EXCEPT
                    !.invert = primary.condition.invert]
    IN  [relations |-> one.relations \cup two.relations,
         plan |-> MakeFilter(IF conditions = <<>> THEN Cross(left.plan, right.plan) ELSE join, residual)]

RECURSIVE Trees(_, _, _)
\* All trees over a set of relations in which a condition joins the sides of
\* every node.
Trees(set, relations, located) ==
    LET connected(left) == \E i \in DOMAIN located :
                              located[i].joins /\ Spans(located[i], left, set \ left)
    IN  IF Cardinality(set) = 1
        THEN {[relations |-> set, plan |-> plan] : plan \in UNION {relations[i].plans : i \in set}}
        ELSE UNION {{MakeJoinNode(one, two, located) :
                        one \in Trees(left, relations, located),
                        two \in Trees(set \ left, relations, located)} :
                       left \in {s \in (SUBSET set) \ {{}, set} : connected(s)}}

\* Components without a condition between them are multiplied, in any order.
RECURSIVE Crossed(_, _, _)
Crossed(components, relations, located) ==
    UNION {LET plans == {tree.plan : tree \in Trees(c, relations, located)}
           IN  IF components = {c}
               THEN plans
               ELSE {Cross(left, right) :
                        left \in Crossed(components \ {c}, relations, located), right \in plans} :
              c \in components}

\* Conditions on fewer than two relations filter what comes out.
Reordered(relations, conditions) ==
    LET located == [i \in DOMAIN conditions |-> Located(conditions[i], relations)]
        between == SelectSeq(located, LAMBDA c : Cardinality(c.all) > 1)
        rest == Expressions(SelectSeq(located, LAMBDA c : Cardinality(c.all) < 2))
        groups == ComponentsOf({{i} : i \in DOMAIN relations}, between)
    IN  IF relations = <<>> \/ Len(relations) > MaxRelations
        THEN {}
        ELSE {MakeFilter(plan, rest) : plan \in Crossed(groups, relations, between)}

Rewritten(plan) ==
    IF IsSafeJoinOrderTree(plan) /\ IsReorderableJoinTree(plan)
    THEN Reordered(JoinRelations(plan), JoinConditions(plan))
    ELSE OverRewritten(plan)

JoinOrders(plan) == Rewritten(plan)
=============================================================================
