------------------------------ MODULE MCOptimizer ------------------------------
(***************************************************************************)
(* Queries over three tables of two columns.                               *)
(***************************************************************************)
EXTENDS Optimizer, TLC

A == Relation("a", "A")
B == Relation("b", "B")
C == Relation("c", "C")
D == Relation("d", "C")
ax == Column("a", 0)
ay == Column("a", 1)
bx == Column("b", 0)
by == Column("b", 1)
cx == Column("c", 0)
cy == Column("c", 1)
dx == Column("d", 0)
tx == Column("t", 0)
ty == Column("t", 1)

One == Constant(1)
Two == Constant(2)
Eq(e, f)   == Call("=", <<e, f>>)
Lt(e, f)   == Call("<", <<e, f>>)
And(e, f)  == Bool("and", <<e, f>>)
Or(e, f)   == Bool("or", <<e, f>>)
Count      == Aggregate("count", <<>>)
Sum(e)     == Aggregate("sum", <<e>>)

Sorted(q, order)       == [q EXCEPT !.order = order]
First(n, q)            == [q EXCEPT !.limit = n]
Grouped(q, groups, having) == [q EXCEPT !.groups = groups, !.having = having]

\* Joins and filters.
JoinQueries ==
    { Select(<<A, B>>, <<Eq(ax, bx), Lt(ay, by)>>, <<ax, by>>),
      Select(<<A, B>>, <<Eq(ay, One)>>, <<ax, bx>>),
      Select(<<A, B, C>>, <<Eq(ax, bx), Eq(bx, cx), Eq(ax, One)>>, <<ay, by, cy>>),
      Select(<<A, B, C>>, <<Eq(ax, bx), Eq(by, cy)>>, <<ax, cx>>),
      Select(<<A, B>>, <<Or(And(Eq(ax, bx), Eq(ay, One)), And(Eq(ax, bx), Eq(by, Two)))>>, <<ax, ay, by>>),
      Select(<<A, B>>, <<Eq(ax, bx), Or(And(Eq(ay, One), Eq(by, Two)), And(Eq(ay, Two), Eq(by, One)))>>,
             <<ax, ay>>),
      Select(<<Joined("left", A, B, <<Eq(ax, bx)>>)>>, <<Eq(ay, One)>>, <<ax, by>>),
      Sorted(Select(<<A, B>>, <<Eq(ax, bx)>>, <<ax, by>>), <<2, 1>>),
      Select(<<A>>, <<Or(And(Eq(ax, One), Eq(ay, One)), And(Eq(ax, Two), Eq(ay, One)))>>, <<ax, ay>>),
      Select(<<Joined("left", A, B, <<Eq(ax, bx), Eq(ay, One)>>)>>, <<>>, <<ax, by>>),
      Select(<<Joined("left", A, B, <<Eq(ax, bx), Eq(by, One)>>)>>, <<>>, <<ax, by>>),
      Select(<<Joined("left", A, B, <<Eq(ax, bx)>>), C>>, <<Eq(bx, cx)>>, <<ax, by>>) }

\* Grouping, subqueries in FROM, LIMIT.
GroupQueries ==
    { Grouped(Select(<<A>>, <<>>, <<ax, Count, Sum(ay)>>), <<ax>>, <<Eq(ax, One)>>),
      Grouped(Select(<<A, B>>, <<Eq(ax, bx)>>, <<ay, Sum(by)>>), <<ay>>, <<Lt(One, Count)>>),
      Select(<<A>>, <<Eq(ax, One)>>, <<Count, Sum(ay)>>),
      Select(<<Derived("t", Grouped(Select(<<A>>, <<>>, <<ax, Sum(ay)>>), <<ax>>, <<>>)), B>>,
             <<Eq(tx, bx), Eq(tx, One)>>, <<ty, by>>),
      Select(<<Derived("t", Sorted(Select(<<A>>, <<Eq(ay, One)>>, <<ax, ay>>), <<1>>)), B>>,
             <<Eq(tx, bx), Lt(tx, Two)>>, <<tx, by>>),
      First(2, Sorted(Select(<<A, B>>, <<Eq(ax, bx)>>, <<ax, by>>), <<1, 2>>)),
      Select(<<Derived("t", Select(<<A, B>>, <<Eq(ax, bx)>>, <<ax, by>>)), C>>,
             <<Eq(ty, cx), Or(Eq(tx, One), Eq(tx, Two))>>, <<tx, cy>>),
      Grouped(Select(<<Derived("t", Grouped(Select(<<A>>, <<>>, <<ax, Count>>), <<ax>>, <<>>))>>,
                     <<>>, <<ty, Count>>), <<ty>>, <<>>),
      Grouped(Select(<<A, B>>, <<Eq(ax, bx)>>, <<ax, Sum(by)>>), <<ax>>,
              <<Lt(One, Sum(by)), Eq(ax, One)>>),
      Grouped(Select(<<A>>, <<>>, <<ax, Sum(ay)>>), <<ax>>,
              <<Lt(Sum(ay), Scalar(Select(<<B>>, <<>>, <<Sum(by)>>)))>>) }

\* Subqueries in WHERE.
SubqueryQueries ==
    { Select(<<A>>, <<Exists(Select(<<B>>, <<Eq(bx, ax)>>, <<One>>), FALSE)>>, <<ax, ay>>),
      Select(<<A>>, <<Exists(Select(<<B>>, <<Eq(bx, ax), Lt(by, ay)>>, <<One>>), TRUE), Eq(ax, One)>>, <<ax, ay>>),
      Select(<<A>>, <<Exists(Select(<<B, C>>, <<Eq(bx, ax), Eq(by, cy)>>, <<One>>), FALSE)>>, <<ax>>),
      Select(<<A>>, <<Exists(Select(<<B>>, <<Eq(bx, ax)>>, <<One>>), FALSE),
                      Exists(Select(<<C>>, <<Eq(cx, ay)>>, <<One>>), TRUE)>>, <<ax>>),
      Select(<<A>>, <<InQuery(ax, Select(<<B>>, <<Eq(by, One)>>, <<bx>>))>>, <<ax, ay>>),
      Select(<<A>>, <<InQuery(ax, Select(<<B>>, <<Eq(by, ay)>>, <<bx>>))>>, <<ax, ay>>),
      Select(<<A, B>>, <<Eq(ax, bx), InQuery(ay, Select(<<C>>, <<>>, <<cy>>))>>, <<ax, by>>),
      Select(<<A>>, <<Lt(ay, Scalar(Select(<<B>>, <<Eq(bx, ax)>>, <<Sum(by)>>)))>>, <<ax, ay>>),
      Select(<<A>>, <<Lt(ay, Scalar(Select(<<B, C>>, <<Eq(bx, ax), Eq(cx, ay), Eq(by, cy)>>, <<Sum(by)>>)))>>,
             <<ax>>),
      Select(<<A>>, <<Lt(ay, Scalar(Select(<<B>>, <<>>, <<Sum(by)>>)))>>, <<ax, ay>>),
      Select(<<A, B>>, <<Eq(ax, bx), Lt(ay, Scalar(Select(<<C>>, <<Eq(cx, bx)>>, <<Sum(cy)>>)))>>, <<ax, by>>),
      Select(<<A>>, <<Lt(ay, Scalar(Select(<<B>>, <<Eq(bx, ax),
                  Lt(by, Scalar(Select(<<C>>, <<Eq(cx, by)>>, <<Sum(cy)>>)))>>, <<Sum(by)>>)))>>, <<ax>>),
      Select(<<A>>, <<Exists(Select(<<B>>,
                  <<Eq(bx, ax), Exists(Select(<<C>>, <<Eq(cx, by)>>, <<One>>), FALSE)>>, <<One>>), FALSE)>>, <<ax>>),
      Select(<<A>>, <<Exists(Select(<<B>>,
                  <<Eq(bx, ax), InQuery(by, Select(<<C>>, <<>>, <<cy>>))>>, <<One>>), FALSE)>>, <<ax>>),
      Select(<<A>>, <<Exists(Select(<<B>>, <<Eq(bx, ax), Eq(ay, One)>>, <<One>>), FALSE)>>, <<ax>>),
      Select(<<A, B>>, <<Eq(ax, bx), Exists(Select(<<C>>, <<Eq(cx, ax), Eq(cy, by)>>, <<One>>), TRUE)>>, <<ax, by>>),
      Select(<<A>>, <<InQuery(ax, Select(<<B, C>>, <<Eq(bx, cx), Lt(by, ay)>>, <<cx>>))>>, <<ax, ay>>) }

\* These end in an ERROR: no hash key, no operator for DISTINCT or for numbering
\* the rows of a LIMIT per outer row, no tree for the condition.
DeclinedQueries ==
    { Select(<<A, B>>, <<Or(Eq(ax, One), Eq(by, Two))>>, <<ax, by>>),
      Select(<<A, B, C>>, <<Eq(ax, Call("+", <<bx, cx>>)), Eq(bx, cx)>>, <<ax, by>>),
      Select(<<A>>, <<Exists(First(1, Select(<<B>>, <<Eq(bx, ax)>>, <<One>>)), FALSE)>>, <<ax>>),
      [Select(<<A>>, <<>>, <<ax>>) EXCEPT !.distinct = TRUE] }

\* The condition of the subquery in FROM joins no two of its relations.
DroppedQueries ==
    { Select(<<A, Derived("t", Select(<<B, C>>, <<Or(Eq(bx, One), Eq(cy, Two))>>, <<bx>>))>>,
             <<>>, <<ax>>) }

\* Rules of decorrelation that give up when conditions have been lifted already:
\* a LEFT join with the outer query in its condition, beside a relation whose
\* condition is gone by then; below an aggregate, so that a second rule finds
\* what the first has left; a subquery in a subquery.
RefusedQueries ==
    { Select(<<A>>, <<Exists(Select(<<Joined("inner", B, C, <<Eq(bx, cx), Eq(by, ay)>>),
                                      Joined("left", D, Relation("e", "A"), <<Eq(dx, Column("e", 0)), Eq(Column("e", 1), ay)>>)>>,
                                    <<>>, <<One>>), FALSE)>>, <<ax>>),
      Select(<<A>>, <<Lt(ay, Scalar(Select(<<Derived("t", Select(<<B>>, <<Eq(bx, ax)>>, <<bx, by>>)),
                                             Joined("left", C, D, <<Eq(cx, dx), Eq(cy, ay)>>)>>,
                                           <<Eq(tx, cx)>>, <<Sum(ty)>>)))>>, <<ax>>),
      Select(<<A>>, <<Exists(Select(<<B>>, <<Eq(bx, ax),
                  Exists(Select(<<C>>, <<Eq(cx, by), Eq(cy, ay)>>, <<One>>), FALSE)>>, <<One>>), FALSE)>>, <<ax>>) }

\* A LIMIT over a condition that is not an equality: its child is moved away
\* before the rule gives up.  With another subquery, and in another subquery.
MovedQueries ==
    LET Some == Exists(First(1, Select(<<B>>, <<Lt(bx, ax)>>, <<One>>)), FALSE)
    IN  { Select(<<A>>, <<Some>>, <<ax>>),
          Select(<<A>>, <<Exists(Select(<<C>>, <<Eq(cx, ax)>>, <<One>>), FALSE), Some>>, <<ax>>),
          Select(<<A>>, <<Exists(Select(<<C>>, <<Eq(cx, ax),
                      Exists(First(1, Sorted(Select(<<B>>, <<Lt(bx, cy)>>, <<by>>), <<1>>)), FALSE)>>, <<One>>),
                  FALSE)>>, <<ax>>) }

FailingQueries == DeclinedQueries \cup RefusedQueries \cup MovedQueries

MCQueries == JoinQueries \cup GroupQueries \cup SubqueryQueries \cup FailingQueries

Database(a, b, c) == ("A" :> a) @@ ("B" :> b) @@ ("C" :> c)
MCDatabases ==
    { Database(<<<<1, 1>>, <<1, 2>>, <<2, 1>>>>, <<<<1, 2>>, <<1, 1>>, <<2, 2>>>>, <<<<1, 1>>, <<2, 2>>>>),
      Database(<<<<1, 1>>, <<1, 1>>, <<NULL, 2>>>>, <<<<1, 2>>, <<1, 2>>, <<NULL, 1>>>>, <<<<1, 2>>, <<1, NULL>>>>),
      Database(<<<<1, NULL>>, <<2, 2>>>>, <<<<2, NULL>>, <<2, 1>>, <<1, 1>>>>, <<<<2, 1>>, <<2, 1>>>>),
      Database(<<<<1, 1>>, <<2, 1>>>>, <<>>, <<<<1, 1>>>>),
      Database(<<>>, <<<<1, 1>>>>, <<>>) }
=============================================================================
