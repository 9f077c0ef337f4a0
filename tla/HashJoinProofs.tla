--------------------------- MODULE HashJoinProofs ---------------------------
(****************************************************************************)
(* What holds of the hash join at every moment, for any number of workers,   *)
(* any layouts and inputs: types, the chains of the hash table, what is      *)
(* allocated, and what the prober has put out.                               *)
(****************************************************************************)
EXTENDS HashJoin, RecursiveFunctions, FiniteSetTheorems, TLAPS

------------------------------------------------------------------------------
(* The recursive functions of HashJoin: the capacity of a hash table, the    *)
(* running sums of the workers' ranges, and the chains of rows that link to  *)
(* earlier ones.                                                             *)

\* ComputeHashTableCapacity returns a number of buckets, not 0.
LEMMA HashCapacityType ==
    ASSUME NEW rows \in Nat
    PROVE  HashCapacity(rows) \in Nat \ {0}
<1> DEFINE power == CHOOSE f : f = [k \in Nat |-> IF k = 0 THEN 1 ELSE 2 * f[k - 1]]
           Fits(k) == power[k] >= 2 * rows /\ \A j \in 0 .. k - 1 : power[j] < 2 * rows
           Sizes == Nat \ {0}
           step == [x \in Nat \X Sizes |-> 2 * x[2]]
<1>1. PICK at \in [Nat -> Sizes] : Iterates(at, 1, step)
  <2>1. step \in [Nat \X Sizes -> Sizes] /\ 1 \in Sizes
    OBVIOUS
  <2> HIDE DEF step, Sizes, power, Fits
  <2> QED
    BY <2>1, Iteration
<1>2. at[0] = 1 /\ \A n \in Nat : at[n + 1] = 2 * at[n]
  BY <1>1 DEF Iterates
<1>3. at = [k \in Nat |-> IF k = 0 THEN 1 ELSE 2 * at[k - 1]]
  <2>1. ASSUME NEW k \in Nat PROVE at[k] = IF k = 0 THEN 1 ELSE 2 * at[k - 1]
    <3>1. CASE k = 0
      BY <3>1, <1>2
    <3>2. CASE k # 0
      <4>1. k - 1 \in Nat /\ (k - 1) + 1 = k
        BY <3>2
      <4> QED
        BY <4>1, <1>2, <3>2
    <3> QED
      BY <3>1, <3>2
  <2> QED
    BY <2>1
<1>4. power = [k \in Nat |-> IF k = 0 THEN 1 ELSE 2 * power[k - 1]]
  BY <1>3
<1> HIDE DEF power
<1>5. ASSUME NEW k \in Nat PROVE power[k] \in Nat /\ power[k] > k
  <2> DEFINE T == {m \in Nat : ~(power[m] \in Nat /\ power[m] > m)}
  <2>1. SUFFICES ASSUME T # {} PROVE FALSE
    OBVIOUS
  <2>2. PICK m \in T : \A l \in T : m <= l
    BY <2>1, LeastNumber
  <2>3. m # 0
    BY <1>4
  <2>4. m - 1 \in Nat /\ m - 1 \notin T
    BY <2>2, <2>3
  <2>5. power[m - 1] \in Nat /\ power[m - 1] > m - 1
    BY <2>4
  <2>6. power[m] = 2 * power[m - 1]
    BY <1>4, <2>3
  <2>7. power[m] \in Nat /\ power[m] > m
    BY <2>4, <2>5, <2>6
  <2> QED
    BY <2>7
<1>6. \E k \in 0 .. 2 * rows : Fits(k)
  <2> DEFINE T == {k \in Nat : power[k] >= 2 * rows}
  <2>1. 2 * rows \in T
    BY <1>5
  <2>2. PICK k \in T : \A l \in T : k <= l
    BY <2>1, LeastNumber
  <2>3. k \in 0 .. 2 * rows
    BY <2>1, <2>2
  <2>4. ASSUME NEW j \in 0 .. k - 1 PROVE power[j] < 2 * rows
    <3>1. j \in Nat /\ ~(k <= j)
      OBVIOUS
    <3>2. power[j] \in Nat
      BY <3>1, <1>5
    <3> QED
      BY <3>1, <3>2, <2>2
  <2> QED
    BY <2>2, <2>3, <2>4
<1>7. (CHOOSE k \in 0 .. 2 * rows : Fits(k)) \in Nat
  BY <1>6
<1>8. power[CHOOSE k \in 0 .. 2 * rows : Fits(k)] \in Nat \ {0}
  BY <1>5, <1>7
<1>9. HashCapacity(rows) = power[CHOOSE k \in 0 .. 2 * rows : Fits(k)]
  BY DEF HashCapacity, power
<1> QED
  BY <1>8, <1>9

------------------------------------------------------------------------------
(* Chains.  What orders the rows of a chain is a rank: the time at which the *)
(* row's worker exchanged the head of the bucket.                            *)

\* x is the member of T with the greatest rank, or None.
Greatest(T, rank, x) ==
    IF x = None THEN T = {} ELSE x \in T /\ \A j \in T : rank[j] <= rank[x]

Below(T, rank, r) == {j \in T : rank[j] < r}

\* Every member of T links to the next lower one.
Linked(T, rank, links) ==
    \A i \in T : /\ Greatest(Below(T, rank, rank[i]), rank, links[i])
                 /\ \A j \in T : rank[i] = rank[j] => i = j

\* at[n] is the n-th row from h on.
Follows(at, h, links) ==
    /\ at[0] = h
    /\ \A n \in Nat : at[n + 1] = IF at[n] = None THEN None ELSE links[at[n]]

\* The members of T come in the order of their ranks, before position N.
Visits(at, T, rank, N) ==
    /\ \A n \in Nat : at[n] \in T \cup {None}
    /\ \A m, n \in Nat : m < n /\ at[n] # None => at[m] # None /\ rank[at[n]] < rank[at[m]]
    /\ \A n \in Nat : at[n] # None => n < N
    /\ \A s \in T : \E n \in 0 .. N : at[n] = s

\* The rows met by the loop of Execute.
LEMMA ChainVisits ==
    ASSUME NEW N \in Nat, NEW links, NEW rank \in [1 .. N -> Nat],
           NEW T \in SUBSET (1 .. N), NEW h, Greatest(T, rank, h), Linked(T, rank, links),
           NEW at \in [Nat -> 0 .. N], Follows(at, h, links)
    PROVE  Visits(at, T, rank, N)
<1>1. ASSUME NEW n \in Nat PROVE at[n] \in T \cup {None}
  <2> DEFINE Good == {m \in Nat : at[m] \in T \cup {None}}
  <2>1. 0 \in Good
    BY DEF Follows, Greatest
  <2>2. ASSUME NEW m \in Nat, m \in Good PROVE m + 1 \in Good
    <3>1. at[m] \in T \cup {None} /\ m + 1 \in Nat
      BY <2>2
    <3>2. at[m + 1] = IF at[m] = None THEN None ELSE links[at[m]]
      BY DEF Follows
    <3>3. CASE at[m] = None
      BY <3>1, <3>2, <3>3
    <3>4. CASE at[m] \in T /\ at[m] # None
      <4>1. Greatest(Below(T, rank, rank[at[m]]), rank, at[m + 1])
        BY <3>2, <3>4 DEF Linked
      <4> QED
        BY <3>1, <4>1 DEF Greatest, Below
    <3> QED
      BY <3>1, <3>3, <3>4
  <2>3. n \in Good
    <3> HIDE DEF Good
    <3> QED
      BY <2>1, <2>2, NumberInduction
  <2> QED
    BY <2>3
<1>2. ASSUME NEW n \in Nat, at[n + 1] # None
      PROVE  at[n] # None /\ rank[at[n + 1]] < rank[at[n]]
  <2>1. at[n] # None /\ at[n + 1] = links[at[n]]
    BY <1>2 DEF Follows
  <2>2. at[n] \in T
    BY <1>1, <2>1
  <2>3. Greatest(Below(T, rank, rank[at[n]]), rank, at[n + 1])
    BY <2>1, <2>2 DEF Linked
  <2> QED
    BY <1>2, <2>1, <2>3 DEF Greatest, Below
<1>3. ASSUME NEW n \in Nat, at[n] # None PROVE rank[at[n]] \in Nat /\ at[n] \in 1 .. N
  BY <1>1, <1>3
<1>4. ASSUME NEW m \in Nat, NEW n \in Nat, m < n, at[n] # None
      PROVE  at[m] # None /\ rank[at[n]] < rank[at[m]]
  <2> DEFINE Good == {k \in Nat : at[m + k + 1] # None =>
                         at[m] # None /\ rank[at[m + k + 1]] < rank[at[m]]}
  <2>1. 0 \in Good
    <3>1. m + 0 + 1 = m + 1
      OBVIOUS
    <3> QED
      BY <3>1, <1>2
  <2>2. ASSUME NEW k \in Nat, k \in Good PROVE k + 1 \in Good
    <3> DEFINE l == m + k + 1
    <3>1. l \in Nat /\ m + (k + 1) + 1 = l + 1 /\ k + 1 \in Nat
      OBVIOUS
    <3>2. at[l] # None => at[m] # None /\ rank[at[l]] < rank[at[m]]
      BY <2>2
    <3> HIDE DEF l
    <3>3. ASSUME at[l + 1] # None PROVE at[m] # None /\ rank[at[l + 1]] < rank[at[m]]
      <4>1. at[l] # None /\ rank[at[l + 1]] < rank[at[l]]
        BY <3>1, <3>3, <1>2
      <4>2. at[m] # None /\ rank[at[l]] < rank[at[m]]
        BY <3>2, <4>1
      <4>3. rank[at[l + 1]] \in Nat /\ rank[at[l]] \in Nat /\ rank[at[m]] \in Nat
        BY <1>3, <3>1, <3>3, <4>1, <4>2
      <4>4. \A a, b, c \in Nat : a < b /\ b < c => a < c
        OBVIOUS
      <4> QED
        BY <4>1, <4>2, <4>3, <4>4, Zenon
    <3> QED
      BY <3>1, <3>3
  <2>3. n - m - 1 \in Nat /\ m + (n - m - 1) + 1 = n
    BY <1>4
  <2>4. n - m - 1 \in Good
    <3> HIDE DEF Good
    <3> QED
      BY <2>1, <2>2, <2>3, NumberInduction
  <2> QED
    BY <1>4, <2>3, <2>4
<1>5. ASSUME NEW n \in Nat, at[n] # None PROVE n < N
  <2> DEFINE f == [m \in 0 .. n |-> at[m]]
  <2>1. f \in [0 .. n -> 1 .. N]
    <3>1. ASSUME NEW m \in 0 .. n PROVE at[m] \in 1 .. N
      <4>1. at[m] # None
        BY <1>4, <1>5
      <4> QED
        BY <4>1, <1>3
    <3> QED
      BY <3>1
  <2>2. ASSUME NEW l \in 0 .. n, NEW m \in 0 .. n, f[l] = f[m] PROVE l = m
    <3>1. at[l] = at[m] /\ at[l] \in 1 .. N /\ l \in Nat /\ m \in Nat
      BY <2>1, <2>2
    <3>4. ASSUME NEW a \in 0 .. n, NEW b \in 0 .. n, at[a] = at[b] PROVE ~(a < b)
      <4>1. at[a] \in 1 .. N /\ a \in Nat /\ b \in Nat
        <5>1. f[a] = at[a] /\ f[a] \in 1 .. N
          BY <2>1
        <5> QED
          BY <5>1
      <4>2. at[b] # None
        BY <3>4, <4>1 DEF None
      <4>3. rank[at[a]] \in Nat /\ rank[at[b]] = rank[at[a]]
        BY <3>4, <4>1
      <4>4. \A x \in Nat : ~(x < x)
        OBVIOUS
      <4> QED
        BY <1>4, <4>1, <4>2, <4>3, <4>4, Zenon
    <3>5. ~(l < m) /\ ~(m < l)
      BY <3>1, <3>4
    <3> QED
      BY <3>1, <3>5
  <2>3. IsFiniteSet(0 .. n) /\ IsFiniteSet(1 .. N)
    BY FS_Interval
  <2>4. Cardinality(0 .. n) = n + 1 /\ Cardinality(1 .. N) = N
    <3>1. Cardinality(0 .. n) = (IF 0 > n THEN 0 ELSE n - 0 + 1)
      BY FS_Interval
    <3>2. Cardinality(1 .. N) = (IF 1 > N THEN 0 ELSE N - 1 + 1)
      BY FS_Interval
    <3> QED
      BY <3>1, <3>2
  <2>5. ~(Cardinality(1 .. N) < Cardinality(0 .. n))
    <3> HIDE DEF f
    <3>1. SUFFICES ASSUME Cardinality(1 .. N) < Cardinality(0 .. n) PROVE FALSE
      OBVIOUS
    <3>2. \E x, y \in 0 .. n : x # y /\ f[x] = f[y]
      BY <2>1, <2>3, <3>1, FS_PigeonHole
    <3> QED
      BY <2>2, <3>2
  <2> QED
    BY <2>4, <2>5
<1>6. ASSUME NEW s \in T PROVE \E n \in 0 .. N : at[n] = s
  <2>1. SUFFICES ASSUME \A n \in 0 .. N : at[n] # s PROVE FALSE
    OBVIOUS
  <2>2. rank[s] \in Nat /\ s # None
    BY DEF None
  <2>3. ASSUME NEW i \in T, i # s, rank[s] <= rank[i] PROVE rank[s] < rank[i]
    <3>1. rank[i] \in Nat /\ rank[s] # rank[i]
      BY <2>3 DEF Linked
    <3> QED
      BY <2>2, <2>3, <3>1
  <2> DEFINE Good == {k \in Nat : k <= N => at[k] \in T /\ rank[s] < rank[at[k]]}
  <2>4. 0 \in Good
    <3>1. Greatest(T, rank, at[0]) /\ at[0] # s
      BY <2>1 DEF Follows
    <3>2. at[0] \in T /\ rank[s] <= rank[at[0]]
      BY <3>1 DEF Greatest
    <3> QED
      BY <3>1, <3>2, <2>3
  <2>5. ASSUME NEW k \in Nat, k \in Good, k + 1 <= N
        PROVE  at[k + 1] \in T /\ rank[s] < rank[at[k + 1]]
    <3>1. at[k] \in T /\ rank[s] < rank[at[k]] /\ at[k + 1] # s
      BY <2>1, <2>5
    <3>2. at[k] # None
      BY <3>1 DEF None
    <3>3. at[k + 1] = links[at[k]]
      BY <3>2 DEF Follows
    <3>4. Greatest(Below(T, rank, rank[at[k]]), rank, at[k + 1])
      BY <3>1, <3>3 DEF Linked
    <3>5. s \in Below(T, rank, rank[at[k]])
      BY <3>1 DEF Below
    <3>6. at[k + 1] \in T /\ rank[s] <= rank[at[k + 1]]
      BY <3>4, <3>5 DEF Greatest, Below
    <3>7. rank[s] < rank[at[k + 1]]
      BY <3>1, <3>6, <2>3
    <3> QED
      BY <3>6, <3>7
  <2>6. ASSUME NEW k \in Nat, k \in Good PROVE k + 1 \in Good
    <3>1. k + 1 <= N => at[k + 1] \in T /\ rank[s] < rank[at[k + 1]]
      <4> HIDE DEF Good
      <4> QED
        BY <2>5, <2>6
    <3> QED
      BY <3>1
  <2>7. N \in Good
    <3> HIDE DEF Good
    <3> QED
      BY <2>4, <2>6, NumberInduction
  <2>8. at[N] # None
    BY <2>7 DEF None
  <2> QED
    BY <2>8, <1>5
<1> QED
  BY <1>1, <1>4, <1>5, <1>6 DEF Visits

\* Chain starts where it is told and follows the links.
LEMMA ChainFollows ==
    ASSUME NEW N \in Nat, Len(table.rows) = N, table.links \in [1 .. N -> 0 .. N],
           NEW i \in 0 .. N
    PROVE  \E at \in [Nat -> 0 .. N] :
              Follows(at, i, table.links) /\ Chain(i) = [n \in 0 .. N |-> at[n]]
<1> DEFINE Next1(x) == IF x = None THEN None ELSE table.links[x]
           Rows == 0 .. N
           step == [x \in Nat \X Rows |-> Next1(x[2])]
           chain == CHOOSE f : f = [n \in Nat |-> IF n = 0 THEN i
                                       ELSE IF f[n - 1] = None THEN None
                                       ELSE table.links[f[n - 1]]]
<1>1. ASSUME NEW x \in Rows PROVE Next1(x) \in Rows
  BY DEF None
<1>2. PICK at \in [Nat -> Rows] : Iterates(at, i, step)
  <2>1. step \in [Nat \X Rows -> Rows] /\ i \in Rows
    <3> HIDE DEF Next1, Rows
    <3>1. i \in Rows
      BY DEF Rows
    <3> QED
      BY <1>1, <3>1
  <2> HIDE DEF step, Rows
  <2> QED
    BY <2>1, Iteration
<1>3. at[0] = i /\ \A n \in Nat : at[n + 1] = Next1(at[n])
  <2>1. \A n \in Nat : <<n, at[n]>> \in Nat \X Rows
    OBVIOUS
  <2> HIDE DEF Rows, Next1
  <2> QED
    BY <1>2, <2>1 DEF Iterates
<1>4. Follows(at, i, table.links)
  BY <1>3 DEF Follows
<1>5. at = [n \in Nat |-> IF n = 0 THEN i
               ELSE IF at[n - 1] = None THEN None ELSE table.links[at[n - 1]]]
  <2>1. ASSUME NEW n \in Nat
        PROVE  at[n] = IF n = 0 THEN i
                       ELSE IF at[n - 1] = None THEN None ELSE table.links[at[n - 1]]
    <3>1. CASE n = 0
      BY <3>1, <1>3
    <3>2. CASE n # 0
      <4>1. n - 1 \in Nat /\ (n - 1) + 1 = n
        BY <3>2
      <4> QED
        BY <4>1, <1>3, <3>2
    <3> QED
      BY <3>1, <3>2
  <2> QED
    BY <2>1
<1>6. chain = [n \in Nat |-> IF n = 0 THEN i
                  ELSE IF chain[n - 1] = None THEN None ELSE table.links[chain[n - 1]]]
  BY <1>5
<1>7. ASSUME NEW n \in Nat PROVE chain[n] = at[n]
  <2> DEFINE Same == {m \in Nat : chain[m] = at[m]}
  <2> HIDE DEF chain
  <2>1. 0 \in Same
    BY <1>3, <1>6
  <2>2. ASSUME NEW m \in Nat, m \in Same PROVE m + 1 \in Same
    <3>1. m + 1 \in Nat /\ m + 1 # 0 /\ (m + 1) - 1 = m
      OBVIOUS
    <3>3. chain[m] = at[m]
      BY <2>2
    <3>2. chain[m + 1] = IF chain[m] = None THEN None ELSE table.links[chain[m]]
      BY <1>6, <3>1
    <3> QED
      BY <3>1, <3>2, <3>3, <1>3
  <2> HIDE DEF Same
  <2>3. n \in Same
    BY <2>1, <2>2, NumberInduction
  <2> QED
    BY <2>3 DEF Same
<1>8. Chain(i) = [n \in 0 .. Len(table.rows) |-> chain[n]]
  BY DEF Chain
<1>9. Chain(i) = [n \in 0 .. N |-> at[n]]
  <2> HIDE DEF chain
  <2> QED
    BY <1>7, <1>8
<1> QED
  BY <1>4, <1>9

\* h leads a chain of the members of T, met at the positions `visits`.
Leads(N, rank, T, h, visits) ==
    /\ N \in Nat /\ Len(table.rows) = N /\ table.links \in [1 .. N -> 0 .. N]
    /\ rank \in [1 .. N -> Nat] /\ T \in SUBSET (1 .. N) /\ h \in 0 .. N
    /\ Greatest(T, rank, h) /\ Linked(T, rank, table.links)
    /\ \A n : n \in visits <=> n \in DOMAIN Chain(h) /\ Chain(h)[n] # None

\* A chain that is linked by rank visits the members of T, each once, in the order of
\* their ranks.
LEMMA ChainOfLinked ==
    ASSUME NEW N, NEW rank, NEW T, NEW h, NEW visits, Leads(N, rank, T, h, visits)
    PROVE  /\ DOMAIN Chain(h) = 0 .. N
           /\ \A n \in visits : n \in Nat /\ Chain(h)[n] \in T
           /\ \A s \in T : \E n \in visits : Chain(h)[n] = s
           /\ \A m, n \in visits : m < n => rank[Chain(h)[n]] < rank[Chain(h)[m]]
           /\ Cardinality(visits) = Cardinality(T)
<1> USE DEF Leads
<1>1. PICK at \in [Nat -> 0 .. N] :
          Follows(at, h, table.links) /\ Chain(h) = [n \in 0 .. N |-> at[n]]
  BY ChainFollows
<1>2. /\ \A n \in Nat : at[n] \in T \cup {None}
      /\ \A m, n \in Nat : m < n /\ at[n] # None =>
            at[m] # None /\ rank[at[n]] < rank[at[m]]
      /\ \A n \in Nat : at[n] # None => n < N
      /\ \A s \in T : \E n \in 0 .. N : at[n] = s
  <2>1. Visits(at, T, rank, N)
    BY <1>1, ChainVisits
  <2> QED
    BY <2>1 DEF Visits
<1>3. DOMAIN Chain(h) = 0 .. N /\ \A n \in 0 .. N : Chain(h)[n] = at[n]
  BY <1>1
<1>4. visits = {n \in 0 .. N : at[n] # None}
  BY <1>3
<1>5. \A n \in visits : n \in Nat /\ at[n] # None /\ Chain(h)[n] = at[n] /\ at[n] \in T
  BY <1>2, <1>3, <1>4
<1>6. \A s \in T : s # None
  BY DEF None
<1>7. \A s \in T : \E n \in visits : Chain(h)[n] = s
  BY <1>2, <1>3, <1>4, <1>6
<1>8. \A m, n \in visits : m < n => rank[Chain(h)[n]] < rank[Chain(h)[m]]
  <2>1. ASSUME NEW m \in visits, NEW n \in visits, m < n
        PROVE  rank[Chain(h)[n]] < rank[Chain(h)[m]]
    <3>1. m \in Nat /\ n \in Nat /\ at[n] # None
      BY <1>5
    <3>2. rank[at[n]] < rank[at[m]]
      BY <3>1, <2>1, <1>2
    <3> QED
      BY <3>2, <1>5
  <2> QED
    BY <2>1
<1>9. Cardinality(visits) = Cardinality(T)
  <2> DEFINE f == [n \in visits |-> Chain(h)[n]]
  <2>1. f \in [visits -> T]
    BY <1>5
  <2>2. ASSUME NEW m \in visits, NEW n \in visits, f[m] = f[n] PROVE m = n
    <3>1. ASSUME NEW a \in visits, NEW b \in visits, f[a] = f[b] PROVE ~(a < b)
      <4>1. Chain(h)[a] = Chain(h)[b] /\ Chain(h)[a] \in 1 .. N
        BY <3>1, <1>5
      <4>2. rank[Chain(h)[a]] \in Nat
        BY <4>1
      <4>3. \A x \in Nat : ~(x < x)
        OBVIOUS
      <4> QED
        BY <1>8, <4>1, <4>2, <4>3, Zenon
    <3>2. ~(m < n) /\ ~(n < m) /\ m \in Nat /\ n \in Nat
      BY <2>2, <3>1, <1>5
    <3> QED
      BY <3>2
  <2>3. \A s \in T : \E n \in visits : f[n] = s
    BY <1>7
  <2>4. f \in Bijection(visits, T)
    <3> HIDE DEF f
    <3> QED
      BY <2>1, <2>2, <2>3 DEF Bijection, Injection, Surjection, IsInjective
  <2>5. IsFiniteSet(visits)
    <3>1. IsFiniteSet(0 .. N)
      BY FS_Interval
    <3>2. visits \in SUBSET (0 .. N)
      BY <1>4
    <3> QED
      BY <3>1, <3>2, FS_Subset
  <2>6. ExistsBijection(visits, T)
    BY <2>4 DEF ExistsBijection
  <2> QED
    BY <2>5, <2>6, FS_Bijection
<1> QED
  BY <1>3, <1>5, <1>7, <1>8, <1>9

------------------------------------------------------------------------------
(* The operators of the model. *)

\* The bucket of a key is one of the table.
LEMMA BucketType ==
    ASSUME NEW key \in Keys, NEW capacity \in Nat \ {0}
    PROVE  Bucket(key, capacity) \in 0 .. capacity - 1
<1>1. key[1] \in Nat
  BY DEF Keys
<1>2. \A x \in Nat : x % capacity \in 0 .. capacity - 1
  OBVIOUS
<1> QED
  BY <1>1, <1>2 DEF Bucket

\* f[v] is the sum of the first v counts.
SumsUp(f, n, count) == f = [v \in 0 .. n |-> IF v = 0 THEN 0 ELSE f[v - 1] + count[v]]

\* The loop of SumUp over the registry is well-defined.
LEMMA RunningSumDefined ==
    ASSUME NEW n \in Nat, NEW count \in [1 .. n -> Nat]
    PROVE  \E f \in [0 .. n -> Nat] : SumsUp(f, n, count)
<1> DEFINE Add(v, x) == x + (IF v + 1 \in 1 .. n THEN count[v + 1] ELSE 0)
           step == [x \in Nat \X Nat |-> Add(x[1], x[2])]
<1>1. \A v, x \in Nat : Add(v, x) \in Nat
  OBVIOUS
<1>2. PICK at \in [Nat -> Nat] : Iterates(at, 0, step)
  <2>1. step \in [Nat \X Nat -> Nat]
    <3> HIDE DEF Add
    <3> QED
      BY <1>1
  <2> HIDE DEF step
  <2>2. 0 \in Nat
    OBVIOUS
  <2> QED
    BY <2>1, <2>2, Iteration
<1>3. at[0] = 0 /\ \A v \in Nat : at[v + 1] = Add(v, at[v])
  <2>1. \A v \in Nat : <<v, at[v]>> \in Nat \X Nat
    OBVIOUS
  <2> HIDE DEF Add
  <2> QED
    BY <1>2, <2>1 DEF Iterates
<1> DEFINE sums == [v \in 0 .. n |-> at[v]]
<1>4. sums = [v \in 0 .. n |-> IF v = 0 THEN 0 ELSE sums[v - 1] + count[v]]
  <2>1. ASSUME NEW v \in 0 .. n PROVE at[v] = IF v = 0 THEN 0 ELSE sums[v - 1] + count[v]
    <3>1. CASE v = 0
      BY <3>1, <1>3
    <3>2. CASE v # 0
      <4>1. v - 1 \in Nat /\ v - 1 \in 0 .. n /\ (v - 1) + 1 = v /\ v \in 1 .. n
        BY <3>2
      <4>2. at[v] = Add(v - 1, at[v - 1])
        BY <4>1, <1>3
      <4> QED
        BY <4>1, <4>2, <3>2
    <3> QED
      BY <3>1, <3>2
  <2> QED
    BY <2>1
<1>5. sums \in [0 .. n -> Nat]
  OBVIOUS
<1> HIDE DEF sums
<1> QED
  BY <1>4, <1>5 DEF SumsUp

\* Its sums.
LEMMA RunningSumType ==
    ASSUME NEW n \in Nat, NEW count \in [1 .. n -> Nat], NEW before,
           SumsUp(before, n, count)
    PROVE  /\ before \in [0 .. n -> Nat] /\ before[0] = 0
           /\ \A v \in 1 .. n : before[v] = before[v - 1] + count[v]
<1>6. before[0] = 0 /\ \A v \in 1 .. n : before[v] = before[v - 1] + count[v]
  BY DEF SumsUp
<1>7. \A v \in Nat : v <= n => before[v] \in Nat
  <2> DEFINE Good == {v \in Nat : v <= n => before[v] \in Nat}
  <2>1. 0 \in Good
    BY <1>6
  <2>2. ASSUME NEW v \in Nat, v \in Good PROVE v + 1 \in Good
    <3>1. CASE v + 1 <= n
      <4>1. v + 1 \in 1 .. n /\ (v + 1) - 1 = v /\ before[v] \in Nat
        BY <3>1, <2>2
      <4>2. before[v + 1] = before[v] + count[v + 1] /\ count[v + 1] \in Nat
        BY <4>1, <1>6
      <4> QED
        BY <4>1, <4>2
    <3>2. CASE ~(v + 1 <= n)
      BY <3>2
    <3> QED
      BY <3>1, <3>2
  <2> HIDE DEF Good
  <2>3. \A v \in Nat : v \in Good
    BY <2>1, <2>2, NumberInduction
  <2> QED
    BY <2>3 DEF Good
<1>8. before \in [0 .. n -> Nat]
  <2>1. \A v \in 0 .. n : before[v] \in Nat
    BY <1>7
  <2> QED
    BY <2>1 DEF SumsUp
<1> QED
  BY <1>6, <1>8

\* Where the rows of each worker go, and that there are no others.
LEMMA RunningSum ==
    ASSUME NEW n \in Nat, NEW count \in [1 .. n -> Nat], NEW before \in [0 .. n -> Nat],
           before[0] = 0, \A v \in 1 .. n : before[v] = before[v - 1] + count[v]
    PROVE  /\ \A u, v \in 0 .. n : u <= v => before[u] <= before[v]
           /\ \A i \in 1 .. before[n] : \E v \in 1 .. n : i - before[v - 1] \in 1 .. count[v]
<1>8. \A v \in 0 .. n : before[v] \in Nat
  OBVIOUS
<1>9. ASSUME NEW v \in 1 .. n PROVE before[v - 1] <= before[v]
  <2>1. v - 1 \in 0 .. n /\ before[v - 1] \in Nat /\ count[v] \in Nat
    BY <1>8
  <2> QED
    BY <2>1
<1>10. ASSUME NEW u \in 0 .. n, NEW v \in 0 .. n, u <= v PROVE before[u] <= before[v]
  <2> DEFINE Good == {k \in Nat : u + k <= n => before[u] <= before[u + k]}
  <2>1. 0 \in Good
    BY <1>8
  <2>2. ASSUME NEW k \in Nat, k \in Good PROVE k + 1 \in Good
    <3>1. CASE u + (k + 1) <= n
      <4>1. u + k \in 0 .. n /\ u + (k + 1) \in 1 .. n /\ (u + (k + 1)) - 1 = u + k
              /\ u + k <= n /\ u + (k + 1) \in 0 .. n
        BY <3>1
      <4>2. before[u] <= before[u + k]
        BY <4>1, <2>2
      <4>3. before[u + k] <= before[u + (k + 1)]
        BY <4>1, <1>9
      <4>4. before[u] \in Nat /\ before[u + k] \in Nat /\ before[u + (k + 1)] \in Nat
        BY <4>1, <1>8
      <4>5. before[u] <= before[u + (k + 1)]
        BY <4>2, <4>3, <4>4
      <4> QED
        BY <4>5
    <3>2. CASE ~(u + (k + 1) <= n)
      BY <3>2
    <3> QED
      BY <3>1, <3>2
  <2>3. v - u \in Nat /\ u + (v - u) = v
    BY <1>10
  <2>4. v - u \in Good
    <3> HIDE DEF Good
    <3> QED
      BY <2>1, <2>2, <2>3, NumberInduction
  <2> QED
    BY <2>3, <2>4
<1>11. ASSUME NEW i \in 1 .. before[n] PROVE \E v \in 1 .. n : i - before[v - 1] \in 1 .. count[v]
  <2> DEFINE Reach == {v \in 0 .. n : i <= before[v]}
  <2>1. n \in Reach /\ Reach \in SUBSET Nat
    BY <1>8
  <2>2. PICK v \in Reach : \A u \in Reach : v <= u
    <3> HIDE DEF Reach
    <3> QED
      BY <2>1, LeastNumber
  <2>3. v \in 1 .. n /\ i <= before[v] /\ v - 1 \in 0 .. n /\ ~(v <= v - 1)
    BY <2>2
  <2>4. ~(i <= before[v - 1])
    BY <2>2, <2>3
  <2>5. before[v - 1] \in Nat /\ count[v] \in Nat /\ before[v] = before[v - 1] + count[v]
    BY <2>3, <1>8
  <2>6. i - before[v - 1] \in 1 .. count[v]
    BY <2>3, <2>4, <2>5
  <2> QED
    BY <2>3, <2>6
<1> QED
  BY <1>10, <1>11

\* A row of the chain, or None.
LEMMA SkipToType ==
    ASSUME NEW n \in Nat, Len(table.rows) = n, table.links \in [1 .. n -> 0 .. n],
           NEW i \in 0 .. n, NEW salt
    PROVE  SkipTo(i, salt) \in 0 .. n
<1>1. PICK at \in [Nat -> 0 .. n] : Chain(i) = [k \in 0 .. n |-> at[k]]
  BY ChainFollows
<1> DEFINE hits == {k \in DOMAIN Chain(i) :
                       Chain(i)[k] # None /\ Salt(table.rows[Chain(i)[k]].key) = salt}
<1>2. hits \in SUBSET (0 .. n) /\ hits \in SUBSET Nat
  <2>1. DOMAIN Chain(i) = 0 .. n
    BY <1>1
  <2> QED
    BY <2>1
<1>3. \A k \in 0 .. n : Chain(i)[k] \in 0 .. n
  <2>1. \A k \in 0 .. n : Chain(i)[k] = at[k] /\ k \in Nat
    BY <1>1
  <2> QED
    BY <2>1
<1>4. SkipTo(i, salt) = IF hits = {} THEN None ELSE Chain(i)[Min(hits)]
  BY DEF SkipTo
<1> HIDE DEF hits
<1>5. ASSUME hits # {} PROVE Min(hits) \in 0 .. n
  <2>1. Min(hits) \in hits
    BY <1>2, <1>5, MinOfNumbers
  <2> QED
    BY <1>2, <2>1
<1> QED
  BY <1>3, <1>4, <1>5 DEF None

------------------------------------------------------------------------------
(* The inductive invariant. *)

BuildPoints == {"start", "sink"}
OwnPoints == {"prepare", "sum", "publish", "wait", "copy", "exchange", "store"}
LockPoints == {"batch", "lock", "append", "unlock", "failed", "cancelled"}
Points == {"absent", "combined"} \cup BuildPoints \cup OwnPoints \cup LockPoints

RowSet == [key : Keys, id : Nat \X Nat]
N == Len(table.rows)

LocalSet == [capacity : Nat, count : Nat]
RegistrySet == [capacity : Nat, row_count : Nat, offset : Nat]
PayloadSet ==
    [prepare : 0 .. 2, combined_rows : Nat, hash_capacity : Nat, row_capacity : Nat \ {0},
     mutex : Workers \cup {0}, finalized : BOOLEAN, release_state : {0, 2}]
LinkSet == [row : Nat \ {0}, old : Nat]
ProbeSet ==
    [pc : {"build", "call", "row", "match", "done"}, chunk : Nat \ {0}, row : Nat \ {0},
     build : Nat, have : BOOLEAN, matched : BOOLEAN, active : BOOLEAN, drained : BOOLEAN]
OutSet == Nat \X Nat \X (Nat \X Nat)

TypeInv ==
    /\ join \in Layouts /\ input \in Inputs
    /\ pc \in [Workers -> Points]
    /\ local \in [Workers -> LocalSet]
    /\ registry \in [Workers -> RegistrySet]
    /\ payload \in PayloadSet
    /\ table = [rows |-> table.rows, built |-> table.built, heads |-> table.heads,
                links |-> table.links]
    /\ table.rows \in Seq(RowSet) /\ table.built \in BOOLEAN
    /\ link \in [Workers -> LinkSet]
    /\ probe \in ProbeSet
    /\ out \in Seq(OutSet)

\* What a worker has sunk, and where it can be.
WorkerOK(w) ==
    /\ pc[w] = "absent" => input[w] = <<>>
    /\ local[w].count <= local[w].capacity /\ local[w].count <= Len(input[w])
    /\ pc[w] \notin BuildPoints => local[w].count = Len(input[w])
    /\ registry[w].capacity = local[w].capacity
    /\ local[w].capacity = 0 <=> pc[w] \in {"absent", "start"}
    /\ IF Locked THEN pc[w] \notin OwnPoints ELSE pc[w] \notin LockPoints
    /\ pc[w] \in {"lock", "append"} => link[w].row <= local[w].count
WorkerInv == \A w \in Workers : WorkerOK(w)

\* The phases of the build, and that of the probe.
PhaseInv ==
    /\ (\E w \in Workers : pc[w] \in BuildPoints) =>
          \A w \in Workers : pc[w] \in BuildPoints \cup {"absent"}
    /\ probe.pc # "build" => \A w \in Workers : pc[w] \in {"absent", "combined"}
    /\ payload.finalized <=> probe.pc # "build"
    /\ payload.release_state = 2 => probe.pc = "done"

\* Who prepares the table.
PrepareInv ==
    /\ payload.prepare = 0 =>
          \A w \in Workers : pc[w] \notin OwnPoints \ {"prepare"}
                             /\ (~Locked => pc[w] # "combined")
    /\ payload.prepare = 1 =>
          \E w \in Workers : /\ pc[w] \in {"sum", "publish"}
                             /\ \A v \in Workers \ {w} : pc[v] \in {"absent", "prepare", "wait"}
    /\ payload.prepare = 2 => \A w \in Workers : pc[w] \notin {"sum", "publish"}
    /\ payload.prepare # 0 =>
          ~Locked /\ \A w \in Workers : pc[w] \in OwnPoints \cup {"absent", "combined"}

Summed == payload.prepare = 2 \/ \E w \in Workers : pc[w] = "publish"

\* Nothing is in the table before it is prepared or locked.
EmptyInv ==
    ~Summed => /\ \A w \in Workers : registry[w].row_count = 0
               /\ ~Locked => table.rows = <<>> /\ \A w \in Workers : link[w].row = 1
               /\ table.built => probe.pc # "build"

\* The ranges of the workers, and what they have copied and linked.
RangeOK(v) ==
    /\ pc[v] \in {"exchange", "store", "combined"} =>
          \A k \in 1 .. registry[v].row_count :
              table.rows[registry[v].offset + k] = Row(v, k)
    /\ pc[v] \in {"exchange", "store"} => link[v].row <= registry[v].row_count
    /\ pc[v] = "combined" => link[v].row = registry[v].row_count + 1
    /\ pc[v] \in {"absent", "prepare", "wait", "publish", "copy"} => link[v].row = 1
RangeInv ==
    Summed =>
        /\ \A v \in Workers :
              /\ registry[v].row_count = Len(input[v])
              /\ registry[v].offset + registry[v].row_count <= N
              /\ \A u \in Workers : u < v =>
                    registry[u].offset + registry[u].row_count <= registry[v].offset
        /\ \A i \in 1 .. N : \E v \in Workers :
              i - registry[v].offset \in 1 .. registry[v].row_count
        /\ table.built <=> N > 0
        /\ \A v \in Workers : RangeOK(v)

TableInv ==
    /\ N <= payload.row_capacity
    /\ table.built =>
          /\ payload.hash_capacity = HashCapacity(N) /\ N > 0
          /\ table.heads \in [0 .. payload.hash_capacity - 1 -> 0 .. N]
          /\ table.links \in [1 .. N -> 0 .. N]
    /\ ~table.built => DOMAIN table.links = {}
    /\ probe.pc # "build" => (table.built <=> N > 0)
    /\ probe.build \in 0 .. N

\* Rows that hang in a bucket, or will when their worker has stored the link.
Hung == {i \in 1 .. N :
    \/ probe.pc # "build"
    \/ \E v \in Workers :
          i - registry[v].offset \in 1 .. link[v].row - (IF pc[v] = "store" THEN 0 ELSE 1)}
BucketOf(i) == Bucket(table.rows[i].key, payload.hash_capacity)
HungIn(b) == {i \in Hung : BucketOf(i) = b}
Storing(i) == \E v \in Workers : pc[v] = "store" /\ GlobalIndex(v) = i

\* rank is the time at which the head of a row's bucket was set to it.
Ordered(rank, clock) ==
    /\ \A i \in Hung : rank[i] < clock /\ \A j \in Hung : rank[i] = rank[j] => i = j
    /\ \A b \in DOMAIN table.heads : Greatest(HungIn(b), rank, table.heads[b])
    /\ \A v \in Workers : pc[v] = "store" =>
          LET g == GlobalIndex(v)
          IN  Greatest(Below(HungIn(BucketOf(g)), rank, rank[g]), rank, link[v].old)
    /\ \A i \in Hung : ~Storing(i) =>
          Greatest(Below(HungIn(BucketOf(i)), rank, rank[i]), rank, table.links[i])

ChainInv == table.built => \E rank \in [1 .. N -> Nat], clock \in Nat : Ordered(rank, clock)

\* What is allocated: the stores, and what there is one of.
Singles ==
    Single({"registry", "payload"})
        \cup (IF Summed /\ build_rows_shared_local THEN Single({"slots", "local_idxs"}) ELSE {})
        \cup (IF table.built THEN Single({"table", "links", "salts"}) ELSE {})
        \cup (IF table.built /\ Summed THEN Single({"buckets"}) ELSE {})
Allocated ==
    Stores(0, payload.row_capacity) \cup (UNION {LocalStores(w) : w \in Workers}) \cup Singles

LiveInv == live = IF payload.release_state = 0 THEN Allocated ELSE {}

ProbeInv ==
    /\ Len(out) <= ChunkSize
    /\ probe.pc = "match" /\ ~probe.matched => Len(out) < ChunkSize
    /\ probe.pc \in {"row", "match"} => table.built /\ probe.chunk <= Len(Chunks)
    /\ probe.pc = "match" => probe.row <= Len(in)

JoinInv ==
    /\ TypeInv /\ WorkerInv /\ PhaseInv /\ PrepareInv /\ EmptyInv /\ RangeInv /\ TableInv
    /\ ChainInv /\ LiveInv /\ ProbeInv

------------------------------------------------------------------------------
(* What the definitions of the model return. *)

\* Workers are numbered from 1, and their rows are of the type of rows.
LEMMA WorkerFacts ==
    ASSUME TypeInv, NEW w \in Workers
    PROVE  /\ w \in Nat \ {0} /\ input[w] \in Seq(Keys) /\ Len(input[w]) \in Nat
           /\ \A i \in 1 .. Len(input[w]) : Row(w, i) \in RowSet /\ input[w][i] \in Keys
           /\ pc[w] \in Points /\ local[w].count \in Nat /\ local[w].capacity \in Nat
           /\ registry[w].row_count \in Nat /\ registry[w].offset \in Nat
           /\ registry[w].capacity \in Nat
           /\ link[w].row \in Nat \ {0} /\ link[w].old \in Nat
<1>1. Cardinality(Workers) \in Nat
  BY WorkersAssumption, FS_CardinalityType
<1>2. w \in Nat \ {0}
  BY <1>1, WorkersAssumption
<1>3. input[w] \in Seq(Keys)
  BY RowsAssumption DEF TypeInv
<1>4. \A i \in 1 .. Len(input[w]) : input[w][i] \in Keys
  BY <1>3
<1>5. \A i \in 1 .. Len(input[w]) : Row(w, i) \in RowSet
  BY <1>2, <1>4 DEF Row, RowSet
<1>6. Len(input[w]) \in Nat
  BY <1>3
<1>7. pc[w] \in Points /\ link[w] \in LinkSet /\ local[w] \in LocalSet
        /\ registry[w] \in RegistrySet
  BY DEF TypeInv
<1> QED
  BY <1>2, <1>3, <1>4, <1>5, <1>6, <1>7 DEF LinkSet, LocalSet, RegistrySet

\* The sizes, and the rows and cursor of the table.
LEMMA TableFacts ==
    ASSUME TypeInv
    PROVE  /\ N \in Nat /\ DOMAIN table.rows = 1 .. N
           /\ \A i \in 1 .. N : table.rows[i] \in RowSet /\ table.rows[i].key \in Keys
           /\ ChunkSize \in Nat \ {0} /\ BatchSize \in Nat \ {0}
           /\ payload.row_capacity \in Nat \ {0} /\ payload.hash_capacity \in Nat
           /\ join.capacity \in Nat \ {0} /\ join \in Layouts
           /\ probe.build \in Nat /\ Len(out) \in Nat
           /\ Cardinality(Workers) \in Nat /\ Workers = 1 .. Cardinality(Workers)
<1>1. table.rows \in Seq(RowSet)
  BY DEF TypeInv
<1>2. N \in Nat /\ DOMAIN table.rows = 1 .. N /\ \A i \in 1 .. N : table.rows[i] \in RowSet
  BY <1>1 DEF N
<1>3. \A i \in 1 .. N : table.rows[i].key \in Keys
  BY <1>2 DEF RowSet
<1>4. join.capacity \in Nat \ {0} /\ join \in Layouts
  BY LayoutsAssumption DEF TypeInv
<1>5. Cardinality(Workers) \in Nat /\ Workers = 1 .. Cardinality(Workers)
  BY WorkersAssumption, FS_CardinalityType
<1>6. payload.row_capacity \in Nat \ {0} /\ payload.hash_capacity \in Nat /\ probe.build \in Nat
        /\ Len(out) \in Nat
  BY DEF TypeInv, PayloadSet, ProbeSet
<1> QED
  BY <1>2, <1>3, <1>4, <1>5, <1>6, SizesAssumption

\* What SumUp computes.
Summary(w, total, hash) ==
    /\ total \in Nat /\ hash \in Nat
    /\ hash = IF total > 0 THEN HashCapacity(total) ELSE 0
    /\ table' = [rows |-> [i \in 1 .. total |-> NoRow], links |-> [i \in 1 .. total |-> None],
                 heads |-> [b \in 0 .. hash - 1 |-> None], built |-> total > 0]
    /\ payload' = [payload EXCEPT
                      !.combined_rows = total,
                      !.row_capacity = IF total > payload.row_capacity THEN total
                                       ELSE payload.row_capacity,
                      !.hash_capacity = hash]
    /\ registry' = [v \in Workers |-> [registry[v] EXCEPT !.row_count = local[v].count,
                                                          !.offset = registry'[v].offset]]
    /\ \A v \in Workers :
          /\ registry'[v].offset \in Nat
          /\ registry'[v].offset + local[v].count <= total
          /\ \A u \in Workers : u < v =>
                registry'[u].offset + local[u].count <= registry'[v].offset
    /\ \A i \in 1 .. total : \E v \in Workers : i - registry'[v].offset \in 1 .. local[v].count
    /\ live' = Replaced(0, payload.row_capacity, payload'.row_capacity)
           \cup (IF build_rows_shared_local THEN Single({"slots", "local_idxs"}) ELSE {})
           \cup (IF total > 0 THEN Single({"table", "buckets", "links", "salts"}) ELSE {})
    /\ pc' = [pc EXCEPT ![w] = "publish"]
    /\ UNCHANGED <<join, input, local, link, probeVars>>

\* The worker that prepares gives every worker a range of its own, and the ranges fill the table.
LEMMA SumUpComputes ==
    ASSUME TypeInv, NEW w \in Workers, SumUp(w)
    PROVE  \E total, hash : Summary(w, total, hash)
<1> DEFINE n == Cardinality(Workers)
           before == RowsBefore
           count == [v \in 1 .. n |-> local[v].count]
           total == before[n]
           hash == IF total > 0 THEN HashCapacity(total) ELSE 0
<1>1. n \in Nat /\ Workers = 1 .. n
  BY TableFacts
<1>2. count \in [1 .. n -> Nat]
  <2>1. \A v \in 1 .. n : local[v].count \in Nat
    BY <1>1, WorkerFacts
  <2> HIDE DEF n
  <2> QED
    BY <2>1
<1> HIDE DEF n
<1>3. \A f : [v \in 0 .. n |-> IF v = 0 THEN 0 ELSE f[v - 1] + local[v].count]
           = [v \in 0 .. n |-> IF v = 0 THEN 0 ELSE f[v - 1] + count[v]]
  BY <1>1
<1>4. before = [v \in 0 .. n |-> IF v = 0 THEN 0 ELSE before[v - 1] + local[v].count]
  <2> HIDE DEF count
  <2>1. \E f \in [0 .. n -> Nat] : SumsUp(f, n, count)
    BY <1>1, <1>2, RunningSumDefined
  <2>2. \E f : f = [v \in 0 .. n |-> IF v = 0 THEN 0 ELSE f[v - 1] + local[v].count]
    <3>1. PICK f \in [0 .. n -> Nat] : SumsUp(f, n, count)
      BY <2>1
    <3>2. f = [v \in 0 .. n |-> IF v = 0 THEN 0 ELSE f[v - 1] + count[v]]
      BY <3>1 DEF SumsUp
    <3>3. f = [v \in 0 .. n |-> IF v = 0 THEN 0 ELSE f[v - 1] + local[v].count]
      BY <3>2, <1>3
    <3> QED
      BY <3>3
  <2> QED
    BY <2>2 DEF RowsBefore, n
<1>5. SumsUp(before, n, count)
  BY <1>3, <1>4 DEF SumsUp
<1>6. /\ before \in [0 .. n -> Nat] /\ before[0] = 0
      /\ \A v \in 1 .. n : before[v] = before[v - 1] + count[v]
  <2> HIDE DEF before, count
  <2> QED
    BY <1>1, <1>2, <1>5, RunningSumType
<1>7. /\ \A u, v \in 0 .. n : u <= v => before[u] <= before[v]
      /\ \A i \in 1 .. before[n] : \E v \in 1 .. n : i - before[v - 1] \in 1 .. count[v]
  <2> HIDE DEF before, count
  <2> QED
    BY <1>1, <1>2, <1>6, RunningSum
<1>8. total \in Nat /\ hash \in Nat
  <2> HIDE DEF before
  <2>1. total \in Nat
    BY <1>1, <1>6
  <2> QED
    BY <2>1, HashCapacityType
<1>9. /\ registry' = [v \in Workers |->
             [registry[v] EXCEPT !.row_count = local[v].count, !.offset = before[v - 1]]]
      /\ payload' = [payload EXCEPT
             !.combined_rows = total,
             !.row_capacity = IF total > payload.row_capacity THEN total ELSE payload.row_capacity,
             !.hash_capacity = hash]
      /\ table' = [rows |-> [i \in 1 .. total |-> NoRow], links |-> [i \in 1 .. total |-> None],
                   heads |-> [b \in 0 .. hash - 1 |-> None], built |-> total > 0]
      /\ live' = Replaced(0, payload.row_capacity,
                    IF total > payload.row_capacity THEN total ELSE payload.row_capacity)
             \cup (IF build_rows_shared_local THEN Single({"slots", "local_idxs"}) ELSE {})
             \cup (IF total > 0 THEN Single({"table", "buckets", "links", "salts"}) ELSE {})
      /\ pc' = [pc EXCEPT ![w] = "publish"]
      /\ UNCHANGED <<join, input, local, link, probeVars>>
  BY DEF SumUp, Goto, n
<1> HIDE DEF before
<1>10. ASSUME NEW v \in Workers
       PROVE  /\ registry[v] \in RegistrySet
              /\ registry'[v] = [registry[v] EXCEPT !.row_count = local[v].count,
                                                    !.offset = before[v - 1]]
              /\ registry'[v].offset = before[v - 1] /\ before[v - 1] \in Nat
              /\ before[v] = before[v - 1] + local[v].count /\ v - 1 \in 0 .. n /\ v \in 0 .. n
              /\ local[v].count \in Nat /\ before[v] \in Nat
  <2>1. v \in 1 .. n /\ v - 1 \in 0 .. n /\ v \in 0 .. n /\ count[v] = local[v].count
    BY <1>1
  <2>2. registry[v] \in RegistrySet
    BY DEF TypeInv
  <2>3. registry'[v] = [registry[v] EXCEPT !.row_count = local[v].count, !.offset = before[v - 1]]
    BY <1>9
  <2> HIDE DEF count
  <2>4. registry'[v].offset = before[v - 1]
    BY <2>2, <2>3 DEF RegistrySet
  <2> QED
    BY <1>6, <2>1, <2>2, <2>3, <2>4, WorkerFacts
<1>11. registry' = [v \in Workers |-> [registry[v] EXCEPT !.row_count = local[v].count,
                                                          !.offset = registry'[v].offset]]
  BY <1>9, <1>10
<1>12. ASSUME NEW v \in Workers
       PROVE  /\ registry'[v].offset \in Nat
              /\ registry'[v].offset + local[v].count <= total
              /\ \A u \in Workers : u < v =>
                    registry'[u].offset + local[u].count <= registry'[v].offset
  <2>1. n \in 0 .. n /\ v <= n
    BY <1>1
  <2>2. before[v] <= total
    BY <1>7, <1>10, <2>1
  <2>3. ASSUME NEW u \in Workers, u < v
        PROVE  registry'[u].offset + local[u].count <= registry'[v].offset
    <3>1. u <= v - 1
      BY <1>1, <2>3
    <3>2. before[u] <= before[v - 1]
      BY <1>7, <1>10, <3>1
    <3> QED
      BY <3>2, <1>10
  <2>4. registry'[v].offset \in Nat /\ registry'[v].offset + local[v].count <= total
    BY <1>10, <2>2
  <2> QED
    BY <2>3, <2>4
<1>13. ASSUME NEW i \in 1 .. total
       PROVE  \E v \in Workers : i - registry'[v].offset \in 1 .. local[v].count
  <2>1. PICK v \in 1 .. n : i - before[v - 1] \in 1 .. count[v]
    BY <1>7
  <2>2. v \in Workers /\ count[v] = local[v].count
    BY <1>1
  <2>3. i - registry'[v].offset \in 1 .. local[v].count
    BY <2>1, <2>2, <1>10
  <2> QED
    BY <2>2, <2>3
<1>14. payload'.row_capacity = IF total > payload.row_capacity THEN total ELSE payload.row_capacity
  BY <1>9 DEF TypeInv, PayloadSet
<1> HIDE DEF total, hash, count
<1>15. hash = IF total > 0 THEN HashCapacity(total) ELSE 0
  BY DEF hash
<1>16. Summary(w, total, hash)
  BY <1>8, <1>9, <1>11, <1>12, <1>13, <1>14, <1>15 DEF Summary
<1> QED
  BY <1>16

------------------------------------------------------------------------------
(* Types. *)

\* The start.
LEMMA InitTypeInv ==
    ASSUME Init
    PROVE  TypeInv
<1>1. join \in Layouts /\ input \in Inputs /\ join.capacity \in Nat \ {0}
  BY LayoutsAssumption DEF Init
<1>2. pc \in [Workers -> Points]
  BY DEF Init, Points, BuildPoints
<1>3. /\ local \in [Workers -> LocalSet] /\ registry \in [Workers -> RegistrySet]
      /\ link \in [Workers -> LinkSet]
  BY DEF Init, None, LocalSet, RegistrySet, LinkSet
<1>4. payload \in PayloadSet
  BY <1>1 DEF Init, PayloadSet
<1>5. /\ table = [rows |-> table.rows, built |-> table.built, heads |-> table.heads,
                  links |-> table.links]
      /\ table.rows \in Seq(RowSet) /\ table.built \in BOOLEAN
  BY DEF Init
<1>6. probe \in ProbeSet
  BY DEF Init, None, ProbeSet
<1>7. out \in Seq(OutSet)
  BY DEF Init
<1> QED
  BY <1>1, <1>2, <1>3, <1>4, <1>5, <1>6, <1>7 DEF TypeInv

\* What EXCEPT makes of the records of the state.
LEMMA RecordFacts ==
    /\ \A p \in PayloadSet :
          /\ \A x \in 0 .. 2 : [p EXCEPT !.prepare = x] \in PayloadSet
          /\ \A x \in Workers \cup {0} : [p EXCEPT !.mutex = x] \in PayloadSet
          /\ \A x \in Nat \ {0} : [p EXCEPT !.row_capacity = x] \in PayloadSet
          /\ \A x \in Nat : [p EXCEPT !.finalized = TRUE, !.hash_capacity = x] \in PayloadSet
          /\ [p EXCEPT !.release_state = 2] \in PayloadSet
    /\ \A k \in LinkSet :
          /\ \A x \in Nat : [k EXCEPT !.old = x] \in LinkSet
          /\ [k EXCEPT !.row = k.row + 1] \in LinkSet
<1>1. ASSUME NEW p \in PayloadSet
      PROVE  /\ \A x \in 0 .. 2 : [p EXCEPT !.prepare = x] \in PayloadSet
             /\ \A x \in Workers \cup {0} : [p EXCEPT !.mutex = x] \in PayloadSet
             /\ \A x \in Nat \ {0} : [p EXCEPT !.row_capacity = x] \in PayloadSet
             /\ \A x \in Nat : [p EXCEPT !.finalized = TRUE, !.hash_capacity = x] \in PayloadSet
             /\ [p EXCEPT !.release_state = 2] \in PayloadSet
  BY DEF PayloadSet
<1>2. ASSUME NEW k \in LinkSet
      PROVE  /\ \A x \in Nat : [k EXCEPT !.old = x] \in LinkSet
             /\ [k EXCEPT !.row = k.row + 1] \in LinkSet
  BY DEF LinkSet
<1> QED
  BY <1>1, <1>2

\* The build.
LEMMA BuildTypeInv ==
    ASSUME TypeInv, NEW w \in Workers,
           GetLocalSinkState(w) \/ SinkRow(w) \/ StartCombine
    PROVE  TypeInv'
<1>1. /\ local \in [Workers -> LocalSet] /\ registry \in [Workers -> RegistrySet]
      /\ pc \in [Workers -> Points]
  BY DEF TypeInv
<1>2. /\ \A x \in LocalSet, c \in Nat : [x EXCEPT !.capacity = c] \in LocalSet
      /\ \A x \in RegistrySet, c \in Nat : [x EXCEPT !.capacity = c] \in RegistrySet
  BY DEF LocalSet, RegistrySet
<1>3. 1 \in Nat /\ Grown(w) \in Nat /\ local[w].count \in Nat
  BY WorkerFacts DEF Grown
<1>4. CASE GetLocalSinkState(w)
  <2>1. pc' \in [Workers -> Points]
    BY <1>1, <1>4 DEF GetLocalSinkState, Goto, Points, BuildPoints
  <2>2. /\ local' = [local EXCEPT ![w].capacity = 1]
        /\ registry' = [registry EXCEPT ![w].capacity = 1]
    BY <1>4 DEF GetLocalSinkState
  <2>3. local' \in [Workers -> LocalSet] /\ registry' \in [Workers -> RegistrySet]
    BY <1>1, <1>2, <1>3, <2>2
  <2> QED
    BY <1>4, <2>1, <2>3 DEF TypeInv, GetLocalSinkState, probeVars
<1>5. CASE SinkRow(w)
  <2>1. local' = [local EXCEPT ![w] = [capacity |-> Grown(w), count |-> local[w].count + 1]]
    BY <1>5 DEF SinkRow
  <2>2. registry' = [registry EXCEPT ![w].capacity = Grown(w)]
    BY <1>5 DEF SinkRow
  <2>3. [capacity |-> Grown(w), count |-> local[w].count + 1] \in LocalSet
    BY <1>3 DEF LocalSet
  <2>4. local' \in [Workers -> LocalSet] /\ registry' \in [Workers -> RegistrySet]
    BY <1>1, <1>2, <1>3, <2>1, <2>2, <2>3
  <2> QED
    BY <1>5, <2>4 DEF TypeInv, SinkRow, probeVars
<1>6. CASE StartCombine
  <2>1. pc' \in [Workers -> Points]
    BY <1>6 DEF StartCombine, Points, OwnPoints, LockPoints
  <2> QED
    BY <1>6, <2>1 DEF TypeInv, StartCombine, probeVars
<1> QED
  BY <1>4, <1>5, <1>6

\* A head of a bucket is the index of a row.
LEMMA HeadType ==
    ASSUME TypeInv, TableInv, table.built, NEW key \in Keys
    PROVE  /\ payload.hash_capacity \in Nat \ {0}
           /\ Bucket(key, payload.hash_capacity) \in DOMAIN table.heads
           /\ table.heads[Bucket(key, payload.hash_capacity)] \in 0 .. N
           /\ table.links \in [1 .. N -> 0 .. N]
<1>1. N \in Nat
  BY TableFacts
<1>2. payload.hash_capacity \in Nat \ {0}
  BY <1>1, HashCapacityType DEF TableInv
<1>3. Bucket(key, payload.hash_capacity) \in 0 .. payload.hash_capacity - 1
  BY <1>2, BucketType
<1> QED
  BY <1>2, <1>3 DEF TableInv

\* What a worker that is past its copy finds in the table.
LEMMA OwnRange ==
    ASSUME TypeInv, PrepareInv, RangeInv, TableInv, NEW w \in Workers,
           pc[w] \in {"copy", "exchange", "store"}
    PROVE  /\ Summed /\ payload.prepare = 2 /\ ~Locked
           /\ registry[w].row_count = Len(input[w])
           /\ registry[w].offset + registry[w].row_count <= N
           /\ pc[w] # "copy" =>
                 /\ table.built
                 /\ link[w].row \in 1 .. Len(input[w])
                 /\ GlobalIndex(w) \in 1 .. N
                 /\ table.rows[GlobalIndex(w)] = Row(w, link[w].row)
                 /\ LinkBucket(w) = BucketOf(GlobalIndex(w))
                 /\ LinkBucket(w) \in DOMAIN table.heads
<1>1. payload.prepare \in 0 .. 2
  BY DEF TypeInv, PayloadSet
<1>2. payload.prepare # 0
  BY DEF PrepareInv, OwnPoints
<1>3. payload.prepare # 1
  BY DEF PrepareInv
<1>4. payload.prepare = 2 /\ Summed /\ ~Locked
  BY <1>1, <1>2, <1>3 DEF Summed, PrepareInv
<1>5. /\ registry[w].row_count = Len(input[w])
      /\ registry[w].offset + registry[w].row_count <= N
  BY <1>4 DEF RangeInv
<1>6. ASSUME pc[w] # "copy"
      PROVE  /\ table.built
             /\ link[w].row \in 1 .. Len(input[w])
             /\ GlobalIndex(w) \in 1 .. N
             /\ table.rows[GlobalIndex(w)] = Row(w, link[w].row)
             /\ LinkBucket(w) = BucketOf(GlobalIndex(w))
             /\ LinkBucket(w) \in DOMAIN table.heads
  <2>1. link[w].row <= registry[w].row_count
    BY <1>4, <1>6 DEF RangeInv, RangeOK
  <2>2. link[w].row \in 1 .. Len(input[w])
    BY <1>5, <2>1, WorkerFacts
  <2>3. GlobalIndex(w) \in 1 .. N
    <3>1. N \in Nat /\ registry[w].offset \in Nat /\ registry[w].row_count \in Nat
      BY WorkerFacts, TableFacts
    <3> QED
      BY <1>5, <2>2, <3>1 DEF GlobalIndex
  <2>4. table.rows[GlobalIndex(w)] = Row(w, link[w].row)
    BY <1>4, <1>5, <1>6, <2>2 DEF RangeInv, RangeOK, GlobalIndex
  <2>5. table.built
    <3>1. N > 0
      BY <2>3, TableFacts
    <3> QED
      BY <1>4, <3>1 DEF RangeInv
  <2>6. Row(w, link[w].row).key \in Keys
    BY <2>2, WorkerFacts DEF RowSet
  <2>7. LinkBucket(w) = BucketOf(GlobalIndex(w))
    BY <2>4 DEF LinkBucket, BucketOf
  <2>8. LinkBucket(w) \in DOMAIN table.heads
    BY <2>5, <2>6, HeadType DEF LinkBucket
  <2> QED
    BY <2>2, <2>3, <2>4, <2>5, <2>7, <2>8
<1> QED
  BY <1>4, <1>5, <1>6

\* The steps of COMBINE without locks.
LEMMA OwnTypeInv ==
    ASSUME TypeInv, PrepareInv, RangeInv, TableInv, NEW w \in Workers,
           \/ Prepare(w) \/ SumUp(w) \/ PublishPrepared(w) \/ AwaitPrepared(w)
           \/ CopyLocal(w) \/ ExchangeHead(w) \/ StoreLink(w)
    PROVE  TypeInv'
<1>1. /\ pc \in [Workers -> Points] /\ payload \in PayloadSet
      /\ link \in [Workers -> LinkSet] /\ link[w] \in LinkSet
      /\ table = [rows |-> table.rows, built |-> table.built, heads |-> table.heads,
                  links |-> table.links]
  BY DEF TypeInv
<1>2. \A point \in Points : [pc EXCEPT ![w] = point] \in [Workers -> Points]
  BY <1>1
<1>3. OwnPoints \subseteq Points /\ "combined" \in Points
  BY DEF Points
<1>4. CASE Prepare(w)
  <2>1. pc' \in [Workers -> Points]
    BY <1>2, <1>3, <1>4 DEF Prepare, Goto, OwnPoints
  <2>2. payload' \in PayloadSet
    <3>1. payload' = [payload EXCEPT !.prepare = 1] \/ payload' = payload
      BY <1>4 DEF Prepare
    <3>2. 1 \in 0 .. 2
      OBVIOUS
    <3>3. [payload EXCEPT !.prepare = 1] \in PayloadSet
      BY <1>1, <3>2, RecordFacts
    <3> QED
      BY <1>1, <3>1, <3>3
  <2> QED
    BY <1>4, <2>1, <2>2 DEF TypeInv, Prepare, probeVars
<1>5. CASE SumUp(w)
  <2>1. PICK total, hash : Summary(w, total, hash)
    BY <1>5, SumUpComputes
  <2>2. total \in Nat /\ hash \in Nat /\ payload.row_capacity \in Nat \ {0}
    BY <2>1, TableFacts DEF Summary
  <2>3. payload' \in PayloadSet
    <3> DEFINE rows == IF total > payload.row_capacity THEN total ELSE payload.row_capacity
    <3>1. payload' = [payload EXCEPT !.combined_rows = total, !.row_capacity = rows,
                                     !.hash_capacity = hash]
      BY <2>1 DEF Summary
    <3>2. rows \in Nat \ {0}
      BY <2>2
    <3> HIDE DEF rows
    <3> QED
      BY <1>1, <2>2, <3>1, <3>2 DEF PayloadSet
  <2>4. pc' \in [Workers -> Points]
    BY <1>2, <1>3, <2>1 DEF Summary, OwnPoints
  <2>5. registry' \in [Workers -> RegistrySet]
    <3>1. \A v \in Workers : /\ registry[v] \in RegistrySet
                             /\ local[v].count \in Nat /\ registry'[v].offset \in Nat
      BY <2>1, WorkerFacts DEF Summary, TypeInv
    <3>2. \A x \in RegistrySet, c, o \in Nat :
              [x EXCEPT !.row_count = c, !.offset = o] \in RegistrySet
      BY DEF RegistrySet
    <3>3. registry' = [v \in Workers |-> [registry[v] EXCEPT !.row_count = local[v].count,
                                                            !.offset = registry'[v].offset]]
      BY <2>1 DEF Summary
    <3>4. \A v \in Workers : [registry[v] EXCEPT !.row_count = local[v].count,
                                                 !.offset = registry'[v].offset] \in RegistrySet
      BY <3>1, <3>2
    <3> QED
      BY <3>3, <3>4, Zenon
  <2>6. table' = [rows |-> [i \in 1 .. total |-> NoRow], links |-> [i \in 1 .. total |-> None],
                  heads |-> [b \in 0 .. hash - 1 |-> None], built |-> total > 0]
    BY <2>1 DEF Summary
  <2>7. [i \in 1 .. total |-> NoRow] \in Seq(RowSet)
    BY <2>2 DEF NoRow, RowSet, Keys
  <2>8. /\ table' = [rows |-> table'.rows, built |-> table'.built, heads |-> table'.heads,
                     links |-> table'.links]
        /\ table'.rows \in Seq(RowSet) /\ table'.built \in BOOLEAN
    BY <2>6, <2>7
  <2>9. UNCHANGED <<join, input, local, link, probeVars>>
    BY <2>1 DEF Summary
  <2> QED
    BY <2>3, <2>4, <2>5, <2>8, <2>9 DEF TypeInv, probeVars
<1>6. CASE PublishPrepared(w)
  <2>1. pc' \in [Workers -> Points]
    BY <1>2, <1>3, <1>6 DEF PublishPrepared, Goto, OwnPoints
  <2>2. payload' = [payload EXCEPT !.prepare = 2] /\ 2 \in 0 .. 2
    BY <1>6 DEF PublishPrepared
  <2>3. payload' \in PayloadSet
    BY <1>1, <2>2, RecordFacts
  <2> QED
    BY <1>6, <2>1, <2>3 DEF TypeInv, PublishPrepared, probeVars
<1>7. CASE AwaitPrepared(w)
  <2>1. pc' \in [Workers -> Points]
    BY <1>2, <1>3, <1>7 DEF AwaitPrepared, Goto, OwnPoints
  <2> QED
    BY <1>7, <2>1 DEF TypeInv, AwaitPrepared, probeVars
<1>8. CASE CopyLocal(w)
  <2>1. pc' \in [Workers -> Points]
    BY <1>2, <1>3, <1>8 DEF CopyLocal, Goto, OwnPoints
  <2>2. registry[w].row_count = Len(input[w])
    BY <1>8, OwnRange DEF CopyLocal, At
  <2> DEFINE rows == [i \in DOMAIN table.rows |->
                          IF i - registry[w].offset \in 1 .. registry[w].row_count
                          THEN Row(w, i - registry[w].offset) ELSE table.rows[i]]
  <2>3. table' = [table EXCEPT !.rows = rows]
    BY <1>8 DEF CopyLocal
  <2>4. DOMAIN table.rows = 1 .. N /\ N \in Nat
    BY TableFacts
  <2>5. \A i \in 1 .. N : rows[i] \in RowSet
    BY <2>2, <2>4, WorkerFacts, TableFacts
  <2>6. rows \in Seq(RowSet)
    <3>1. rows = [i \in 1 .. N |-> rows[i]]
      BY <2>4
    <3> HIDE DEF rows
    <3> QED
      BY <2>4, <2>5, <3>1
  <2> HIDE DEF rows
  <2>7. /\ table' = [rows |-> table'.rows, built |-> table'.built, heads |-> table'.heads,
                     links |-> table'.links]
        /\ table'.rows = rows /\ table'.built = table.built
    BY <1>1, <2>3
  <2> QED
    BY <1>8, <2>1, <2>6, <2>7 DEF TypeInv, CopyLocal, probeVars
<1>9. CASE ExchangeHead(w)
  <2>1. pc' \in [Workers -> Points]
    BY <1>2, <1>3, <1>9 DEF ExchangeHead, Goto, OwnPoints
  <2>2. pc[w] = "exchange"
    BY <1>9 DEF ExchangeHead, At
  <2>3. table.heads[LinkBucket(w)] \in Nat
    <3>1. table.built /\ LinkBucket(w) \in DOMAIN table.heads
      BY <2>2, OwnRange
    <3> QED
      <4>1. N \in Nat /\ table.heads \in [0 .. payload.hash_capacity - 1 -> 0 .. N]
        BY <3>1, TableFacts DEF TableInv
      <4>2. table.heads[LinkBucket(w)] \in 0 .. N
        BY <3>1, <4>1
      <4> QED
        BY <4>1, <4>2
  <2>4. link' = [link EXCEPT ![w].old = table.heads[LinkBucket(w)]]
    BY <1>9 DEF ExchangeHead
  <2>5. link' \in [Workers -> LinkSet]
    BY <1>1, <2>3, <2>4, RecordFacts
  <2>6. table' = [table EXCEPT !.heads[LinkBucket(w)] = GlobalIndex(w)]
    BY <1>9 DEF ExchangeHead
  <2>7. /\ table' = [rows |-> table'.rows, built |-> table'.built, heads |-> table'.heads,
                     links |-> table'.links]
        /\ table'.rows = table.rows /\ table'.built = table.built
    BY <1>1, <2>6
  <2> QED
    BY <1>9, <2>1, <2>5, <2>7 DEF TypeInv, ExchangeHead, probeVars
<1>10. CASE StoreLink(w)
  <2>1. pc' \in [Workers -> Points]
    BY <1>2, <1>3, <1>10 DEF StoreLink, Goto, OwnPoints
  <2>2. link' = [link EXCEPT ![w].row = @ + 1]
    BY <1>10 DEF StoreLink
  <2>3. link' \in [Workers -> LinkSet]
    BY <1>1, <2>2, RecordFacts
  <2>4. table' = [table EXCEPT !.links[GlobalIndex(w)] = link[w].old]
    BY <1>10 DEF StoreLink
  <2>5. /\ table' = [rows |-> table'.rows, built |-> table'.built, heads |-> table'.heads,
                     links |-> table'.links]
        /\ table'.rows = table.rows /\ table'.built = table.built
    BY <1>1, <2>4
  <2> QED
    BY <1>10, <2>1, <2>3, <2>5 DEF TypeInv, StoreLink, probeVars
<1> QED
  BY <1>4, <1>5, <1>6, <1>7, <1>8, <1>9, <1>10

\* The rows that are appended are rows.
LEMMA AppendedType ==
    ASSUME NEW row \in RowSet
    PROVE  AppendedRows(row) \in Seq(RowSet) /\ Len(AppendedRows(row)) \in {1, 2}
<1>1. row.key \in Keys /\ row.key[1] \in Nat
  BY DEF RowSet, Keys
<1> DEFINE phantom == [NoRow EXCEPT !.key[1] = row.key[1]]
<1>2. phantom = [key |-> <<row.key[1], 0>>, id |-> <<0, 0>>]
  BY DEF NoRow
<1>3. phantom \in RowSet
  BY <1>1, <1>2 DEF RowSet, Keys
<1> HIDE DEF phantom
<1>4. AppendedRows(row) = IF ~build_rows_use_keys THEN <<row>>
                          ELSE <<row, IF join.equal THEN row ELSE phantom>>
  BY DEF AppendedRows, phantom
<1> QED
  BY <1>3, <1>4

\* The steps of COMBINE under the lock.
LEMMA LockTypeInv ==
    ASSUME TypeInv, WorkerInv, NEW w \in Workers,
           \/ BeginBatch(w) \/ LockBatch(w) \/ AppendRow(w)
           \/ AppendFails(w) \/ UnlockBatch(w) \/ EndBatches(w)
    PROVE  TypeInv'
<1>1. /\ pc \in [Workers -> Points] /\ payload \in PayloadSet
      /\ link \in [Workers -> LinkSet] /\ link[w] \in LinkSet
      /\ table = [rows |-> table.rows, built |-> table.built, heads |-> table.heads,
                  links |-> table.links]
      /\ table.rows \in Seq(RowSet)
  BY DEF TypeInv
<1>2. \A point \in Points : [pc EXCEPT ![w] = point] \in [Workers -> Points]
  BY <1>1
<1>3. LockPoints \subseteq Points /\ "combined" \in Points
  BY DEF Points
<1>4. ASSUME BeginBatch(w) \/ LockBatch(w) \/ UnlockBatch(w) \/ EndBatches(w)
      PROVE  TypeInv'
  <2>1. pc' \in [Workers -> Points]
    BY <1>2, <1>3, <1>4 DEF BeginBatch, LockBatch, UnlockBatch, EndBatches, Goto, LockPoints
  <2>2. payload' \in PayloadSet
    <3>1. \/ payload' = [payload EXCEPT !.mutex = w] \/ payload' = [payload EXCEPT !.mutex = 0]
          \/ payload' = payload
      BY <1>4 DEF BeginBatch, LockBatch, UnlockBatch, EndBatches
    <3>2. w \in Workers \cup {0} /\ 0 \in Workers \cup {0}
      OBVIOUS
    <3> QED
      BY <1>1, <3>1, <3>2, RecordFacts
  <2> QED
    BY <1>4, <2>1, <2>2 DEF TypeInv, BeginBatch, LockBatch, UnlockBatch, EndBatches, probeVars
<1>5. ASSUME AppendRow(w) \/ AppendFails(w)
      PROVE  TypeInv'
  <2>1. pc[w] = "append"
    BY <1>5 DEF AppendRow, AppendFails, At
  <2>2. Row(w, link[w].row) \in RowSet
    <3>1. link[w].row \in 1 .. Len(input[w])
      BY <2>1, WorkerFacts DEF WorkerInv, WorkerOK, BuildPoints
    <3> QED
      BY <3>1, WorkerFacts
  <2>3. pc' \in [Workers -> Points]
    BY <1>2, <1>3, <1>5 DEF AppendRow, AppendFails, Goto, LockPoints
  <2>4. payload' \in PayloadSet
    <3>1. payload' = [payload EXCEPT !.row_capacity = GlobalGrown]
      BY <1>5 DEF AppendRow, AppendFails
    <3>2. GlobalGrown \in Nat \ {0}
      BY TableFacts DEF GlobalGrown
    <3> QED
      BY <1>1, <3>1, <3>2, RecordFacts
  <2>5. link' \in [Workers -> LinkSet]
    <3>1. link' = link \/ link' = [link EXCEPT ![w].row = link[w].row + 1]
      BY <1>5 DEF AppendRow, AppendFails
    <3> QED
      BY <1>1, <3>1, RecordFacts
  <2>6. PICK rows \in Seq(RowSet) : table' = [table EXCEPT !.rows = rows]
    <3>1. CASE AppendRow(w)
      <4>1. table' = [table EXCEPT !.rows = table.rows \o AppendedRows(Row(w, link[w].row))]
        BY <3>1 DEF AppendRow
      <4>2. table.rows \o AppendedRows(Row(w, link[w].row)) \in Seq(RowSet)
        BY <1>1, <2>2, AppendedType
      <4> QED
        BY <4>1, <4>2
    <3>2. CASE AppendFails(w)
      <4>1. table' = [table EXCEPT !.rows = Append(table.rows, Row(w, link[w].row))]
        BY <3>2 DEF AppendFails
      <4>2. Append(table.rows, Row(w, link[w].row)) \in Seq(RowSet)
        BY <1>1, <2>2
      <4> QED
        BY <4>1, <4>2
    <3> QED
      BY <1>5, <3>1, <3>2
  <2>7. /\ table' = [rows |-> table'.rows, built |-> table'.built, heads |-> table'.heads,
                     links |-> table'.links]
        /\ table'.rows = rows /\ table'.built = table.built
    BY <1>1, <2>6
  <2> QED
    BY <1>5, <2>3, <2>4, <2>5, <2>7 DEF TypeInv, AppendRow, AppendFails, probeVars
<1> QED
  BY <1>4, <1>5

\* Finalize and Release.
LEMMA EndTypeInv ==
    ASSUME TypeInv, Finalize \/ Release
    PROVE  TypeInv'
<1>1. /\ payload \in PayloadSet /\ probe \in ProbeSet
      /\ table = [rows |-> table.rows, built |-> table.built, heads |-> table.heads,
                  links |-> table.links]
      /\ table.rows \in Seq(RowSet) /\ table.built \in BOOLEAN
  BY DEF TypeInv
<1>2. CASE Finalize
  <2>1. payload' \in PayloadSet
    <3> DEFINE size == IF Len(table.rows) > 0 THEN HashCapacity(Len(table.rows)) ELSE 0
    <3>1. size \in Nat
      BY TableFacts, HashCapacityType DEF N
    <3>2. payload' = [payload EXCEPT !.finalized = TRUE, !.hash_capacity = size]
      BY <1>2 DEF Finalize
    <3> HIDE DEF size
    <3> QED
      BY <1>1, <3>1, <3>2, RecordFacts
  <2>2. /\ table' = [rows |-> table'.rows, built |-> table'.built, heads |-> table'.heads,
                     links |-> table'.links]
        /\ table'.rows = table.rows /\ table'.built \in BOOLEAN
    <3>1. table' = table \/ \E heads, links :
              table' = [table EXCEPT !.built = TRUE, !.heads = heads, !.links = links]
      BY <1>2 DEF Finalize
    <3> QED
      BY <1>1, <3>1
  <2>3. probe' \in ProbeSet
    <3>1. probe' = [probe EXCEPT !.pc = "call"]
      BY <1>2 DEF Finalize
    <3> QED
      BY <1>1, <3>1 DEF ProbeSet
  <2> QED
    BY <1>1, <1>2, <2>1, <2>2, <2>3 DEF TypeInv, Finalize
<1>3. CASE Release
  <2>1. payload' \in PayloadSet
    BY <1>1, <1>3, RecordFacts DEF Release
  <2> QED
    BY <1>3, <2>1 DEF TypeInv, Release, probeVars
<1> QED
  BY <1>2, <1>3

\* The input chunk and the row that is probed.
LEMMA InputFacts ==
    ASSUME TypeInv, ProbeInv
    PROVE  /\ probe.pc \in {"row", "match"} => in \in Seq(Keys) /\ Len(in) \in Nat
           /\ probe.pc \in {"row", "match"} /\ probe.row <= Len(in) => ProbeKey \in Keys
           /\ probe.row \in Nat \ {0} /\ probe.chunk \in Nat \ {0} /\ Len(Chunks) \in Nat
<1>1. probe.row \in Nat \ {0} /\ probe.chunk \in Nat \ {0} /\ Chunks \in Seq(Seq(Keys))
        /\ Len(Chunks) \in Nat
  BY RowsAssumption DEF TypeInv, ProbeSet
<1>2. ASSUME probe.pc \in {"row", "match"} PROVE in \in Seq(Keys) /\ Len(in) \in Nat
  <2>1. probe.chunk \in 1 .. Len(Chunks)
    BY <1>1, <1>2 DEF ProbeInv
  <2>2. Chunks[probe.chunk] \in Seq(Keys)
    BY <1>1, <2>1
  <2> QED
    BY <2>2 DEF in
<1>3. ASSUME probe.pc \in {"row", "match"}, probe.row <= Len(in) PROVE ProbeKey \in Keys
  <2>1. in \in Seq(Keys) /\ probe.row \in 1 .. Len(in)
    BY <1>1, <1>2, <1>3
  <2> QED
    BY <2>1 DEF ProbeKey
<1> QED
  BY <1>1, <1>2, <1>3

\* The cursors that the probe makes of a cursor.
LEMMA CursorType ==
    ASSUME NEW p \in ProbeSet, NEW row \in Nat \ {0}, NEW chunk \in Nat \ {0}, NEW build \in Nat,
           NEW matched \in BOOLEAN, NEW active \in BOOLEAN, NEW drained \in BOOLEAN
    PROVE  /\ [p EXCEPT !.drained = FALSE, !.chunk = chunk] \in ProbeSet
           /\ [p EXCEPT !.chunk = chunk] \in ProbeSet
           /\ [p EXCEPT !.pc = "row"] \in ProbeSet
           /\ [p EXCEPT !.pc = "row", !.active = TRUE, !.row = 1, !.build = None,
                           !.have = FALSE, !.matched = FALSE] \in ProbeSet
           /\ [p EXCEPT !.pc = "match"] \in ProbeSet
           /\ [p EXCEPT !.pc = "match", !.have = TRUE, !.matched = FALSE, !.build = build] \in ProbeSet
           /\ [p EXCEPT !.matched = matched, !.build = build] \in ProbeSet
           /\ [p EXCEPT !.pc = "row", !.row = row, !.have = FALSE, !.matched = FALSE] \in ProbeSet
           /\ [p EXCEPT !.pc = "call", !.active = active, !.drained = drained, !.chunk = chunk] \in ProbeSet
           /\ [p EXCEPT !.pc = "done"] \in ProbeSet
<1>1. [p EXCEPT !.drained = FALSE, !.chunk = chunk] \in ProbeSet
  BY DEF ProbeSet
<1>2. [p EXCEPT !.chunk = chunk] \in ProbeSet
  BY DEF ProbeSet
<1>3. [p EXCEPT !.pc = "row"] \in ProbeSet
  BY DEF ProbeSet
<1>4. [p EXCEPT !.pc = "row", !.active = TRUE, !.row = 1, !.build = None,
              !.have = FALSE, !.matched = FALSE] \in ProbeSet
  <2>1. None \in Nat /\ 1 \in Nat \ {0}
    BY DEF None
  <2> QED
    BY <2>1 DEF ProbeSet
<1>5. [p EXCEPT !.pc = "match"] \in ProbeSet
  BY DEF ProbeSet
<1>6. [p EXCEPT !.pc = "match", !.have = TRUE, !.matched = FALSE, !.build = build] \in ProbeSet
  BY DEF ProbeSet
<1>7. [p EXCEPT !.matched = matched, !.build = build] \in ProbeSet
  BY DEF ProbeSet
<1>8. [p EXCEPT !.pc = "row", !.row = row, !.have = FALSE, !.matched = FALSE] \in ProbeSet
  BY DEF ProbeSet
<1>9. [p EXCEPT !.pc = "call", !.active = active, !.drained = drained, !.chunk = chunk] \in ProbeSet
  BY DEF ProbeSet
<1>10. [p EXCEPT !.pc = "done"] \in ProbeSet
  BY DEF ProbeSet
<1> QED
  BY <1>1, <1>2, <1>3, <1>4, <1>5, <1>6, <1>7, <1>8, <1>9, <1>10

\* The steps of the probe, and what its cursor keeps to.
LEMMA ProbeTypeInv ==
    ASSUME TypeInv, TableInv, ProbeInv, ProbeStep
    PROVE  TypeInv' /\ ProbeInv' /\ probe'.build \in 0 .. N
<1>1. /\ probe \in ProbeSet /\ probe.build \in 0 .. N /\ N \in Nat /\ out \in Seq(OutSet)
      /\ Len(out) \in Nat /\ ChunkSize \in Nat \ {0} /\ Len(out) <= ChunkSize
      /\ probe.row \in Nat \ {0} /\ probe.chunk \in Nat \ {0} /\ Len(Chunks) \in Nat
  BY TableFacts, InputFacts DEF TypeInv, TableInv, ProbeInv
<1>2. UNCHANGED <<buildVars, live>>
  BY DEF ProbeStep, Execute, ProbeRow, MatchRow, EndRow, Return, EndProbe
<1>3. N' = N /\ UNCHANGED table
  BY <1>2 DEF N, buildVars
<1>4. SUFFICES ASSUME TRUE
               PROVE  /\ probe' \in ProbeSet /\ probe'.build \in 0 .. N /\ out' \in Seq(OutSet)
                      /\ ProbeInv'
  BY <1>2, <1>4 DEF TypeInv, buildVars
<1>5. CASE Execute
  <2>1. out' = <<>> /\ out' \in Seq(OutSet) /\ Len(out') = 0 /\ probe.chunk <= Len(Chunks)
    BY <1>5 DEF Execute
  <2>2. /\ probe' \in ProbeSet /\ probe'.build \in 0 .. N
        /\ probe'.pc \in {"call", "row"}
        /\ probe'.pc = "row" => table.built /\ probe'.chunk = probe.chunk
    <3>1. CASE probe' = [probe EXCEPT !.drained = FALSE, !.chunk = probe.chunk + 1]
      <4>0. probe.chunk + 1 \in Nat \ {0}
        BY <1>1
      <4>1. probe' \in ProbeSet
        BY <1>1, <3>1, <4>0, CursorType
      <4>2. probe'.pc = "call" /\ probe'.build = probe.build
        BY <1>1, <1>5, <3>1 DEF ProbeSet, Execute
      <4> QED
        BY <1>1, <4>1, <4>2
    <3>2. CASE probe' = [probe EXCEPT !.chunk = probe.chunk + 1]
      <4>0. probe.chunk + 1 \in Nat \ {0}
        BY <1>1
      <4>1. probe' \in ProbeSet
        BY <1>1, <3>2, <4>0, CursorType
      <4>2. probe'.pc = "call" /\ probe'.build = probe.build
        BY <1>1, <1>5, <3>2 DEF ProbeSet, Execute
      <4> QED
        BY <1>1, <4>1, <4>2
    <3>3. CASE table.built /\ probe' = [probe EXCEPT !.pc = "row"]
      <4>1. probe' \in ProbeSet
        BY <1>1, <3>3, CursorType
      <4>2. probe'.pc = "row" /\ probe'.build = probe.build /\ probe'.chunk = probe.chunk
        BY <1>1, <3>3 DEF ProbeSet
      <4> QED
        BY <1>1, <3>3, <4>1, <4>2
    <3>4. CASE table.built /\ probe' = [probe EXCEPT !.pc = "row", !.active = TRUE, !.row = 1,
                                            !.build = None, !.have = FALSE, !.matched = FALSE]
      <4>1. probe' \in ProbeSet
        BY <1>1, <3>4, CursorType
      <4>2. probe'.pc = "row" /\ probe'.build = None /\ probe'.chunk = probe.chunk
        BY <1>1, <3>4 DEF ProbeSet
      <4> QED
        BY <1>1, <3>4, <4>1, <4>2 DEF None
    <3> QED
      BY <1>5, <3>1, <3>2, <3>3, <3>4 DEF Execute
  <2> QED
    BY <1>1, <1>3, <2>1, <2>2 DEF ProbeInv
<1>6. CASE ProbeRow
  <2>1. probe.pc = "row" /\ probe.row <= Len(in) /\ Len(out) < ChunkSize /\ UNCHANGED out
    BY <1>6 DEF ProbeRow
  <2> DEFINE first == SkipTo(table.heads[Bucket(ProbeKey, payload.hash_capacity)], Salt(ProbeKey))
  <2>2. table.built /\ ProbeKey \in Keys /\ probe.chunk <= Len(Chunks)
    BY <2>1, InputFacts DEF ProbeInv
  <2>3. first \in 0 .. N
    <3>1. table.heads[Bucket(ProbeKey, payload.hash_capacity)] \in 0 .. N
            /\ table.links \in [1 .. N -> 0 .. N] /\ Len(table.rows) = N
      BY <2>2, HeadType DEF N
    <3> QED
      BY <1>1, <3>1, SkipToType
  <2>4. \/ probe' = [probe EXCEPT !.pc = "match"]
        \/ probe' = [probe EXCEPT !.pc = "match", !.have = TRUE, !.matched = FALSE,
                                  !.build = first]
    BY <1>6 DEF ProbeRow
  <2> HIDE DEF first
  <2>5. /\ probe' \in ProbeSet /\ probe'.build \in 0 .. N /\ probe'.pc = "match"
        /\ probe'.chunk = probe.chunk /\ probe'.row = probe.row
    <3>1. first \in Nat
      BY <1>1, <2>3
    <3>2. CASE probe' = [probe EXCEPT !.pc = "match"]
      <4>1. probe' \in ProbeSet
        BY <1>1, <3>2, CursorType
      <4> QED
        BY <1>1, <3>2, <4>1 DEF ProbeSet
    <3>3. CASE probe' = [probe EXCEPT !.pc = "match", !.have = TRUE, !.matched = FALSE,
                                      !.build = first]
      <4>1. probe' \in ProbeSet
        BY <1>1, <3>1, <3>3, CursorType
      <4>2. probe'.pc = "match" /\ probe'.chunk = probe.chunk /\ probe'.row = probe.row
              /\ probe'.build = first
        BY <1>1, <3>3 DEF ProbeSet
      <4> QED
        BY <2>3, <4>1, <4>2
    <3> QED
      BY <2>4, <3>2, <3>3
  <2>6. in' = in
    BY <2>5 DEF in
  <2> QED
    BY <1>1, <1>3, <2>1, <2>2, <2>5, <2>6 DEF ProbeInv
<1>7. CASE MatchRow
  <2> DEFINE row == table.rows[probe.build]
             matches == row.key = ProbeKey /\ (join.filtered => Accepts(row))
             next == IF matches /\ join.mode \in {"SEMI", "ANTI"} THEN None
                     ELSE SkipTo(table.links[probe.build], Salt(ProbeKey))
  <2>1. probe.pc = "match" /\ probe.build # None /\ Len(out) < ChunkSize
    BY <1>7 DEF MatchRow
  <2>2. table.built /\ probe.chunk <= Len(Chunks) /\ probe.row <= Len(in)
          /\ probe.build \in 1 .. N
    BY <1>1, <2>1 DEF ProbeInv, None
  <2>3. next \in 0 .. N
    <3>1. table.links[probe.build] \in 0 .. N
            /\ table.links \in [1 .. N -> 0 .. N] /\ Len(table.rows) = N
      BY <2>2 DEF N, TableInv
    <3> HIDE DEF matches
    <3> QED
      BY <1>1, <3>1, SkipToType DEF None
  <2>4. /\ probe' = [probe EXCEPT !.matched = probe.matched \/ matches, !.build = next]
        /\ out' = IF matches /\ join.mode # "ANTI" THEN Append(out, Output(row.id)) ELSE out
    BY <1>7 DEF MatchRow
  <2>5. Output(row.id) \in OutSet
    <3>1. row.id \in Nat \X Nat
      BY <2>2, TableFacts DEF RowSet
    <3> QED
      BY <1>1, <3>1 DEF Output, OutSet, NoRow
  <2> HIDE DEF next, matches, row
  <2>6. /\ probe' \in ProbeSet /\ probe'.build \in 0 .. N /\ probe'.pc = "match"
        /\ probe'.chunk = probe.chunk /\ probe'.row = probe.row
        /\ (matches => probe'.matched)
    <3>1. (probe.matched \/ matches) \in BOOLEAN
      OBVIOUS
    <3> QED
      <4>1. next \in Nat /\ probe' = [probe EXCEPT !.matched = probe.matched \/ matches,
                                                   !.build = next]
        BY <1>1, <2>3, <2>4
      <4>2. probe' \in ProbeSet
        BY <1>1, <3>1, <4>1, CursorType
      <4>3. probe'.pc = "match" /\ probe'.chunk = probe.chunk /\ probe'.row = probe.row
              /\ probe'.build = next
        BY <1>1, <2>1, <4>1 DEF ProbeSet
      <4>4. probe'.matched = (probe.matched \/ matches)
        BY <1>1, <4>1 DEF ProbeSet
      <4> QED
        BY <2>3, <4>2, <4>3, <4>4
  <2>7. /\ out' \in Seq(OutSet) /\ Len(out') <= ChunkSize
        /\ ~matches => Len(out') < ChunkSize
    BY <1>1, <2>1, <2>4, <2>5
  <2>8. in' = in
    BY <2>6 DEF in
  <2> QED
    BY <1>1, <1>3, <2>1, <2>2, <2>6, <2>7, <2>8 DEF ProbeInv
<1>8. CASE EndRow
  <2>1. probe.pc = "match" /\ (~probe.matched => Len(out) < ChunkSize) /\ table.built
          /\ probe.chunk <= Len(Chunks)
    BY <1>8 DEF EndRow, ProbeInv
  <2>2. probe' = [probe EXCEPT !.pc = "row", !.row = probe.row + 1, !.have = FALSE,
                               !.matched = FALSE]
    BY <1>8 DEF EndRow
  <2>3. /\ probe' \in ProbeSet /\ probe'.build \in 0 .. N /\ probe'.pc = "row"
        /\ probe'.chunk = probe.chunk
    <3>1. probe.row + 1 \in Nat \ {0}
      BY <1>1
    <3>2. probe' \in ProbeSet
      BY <1>1, <2>2, <3>1, CursorType
    <3>3. probe'.build = probe.build /\ probe'.pc = "row" /\ probe'.chunk = probe.chunk
      BY <1>1, <2>2 DEF ProbeSet
    <3> QED
      BY <1>1, <3>2, <3>3
  <2>4. Output(NoRow.id) \in OutSet
    BY <1>1 DEF Output, OutSet, NoRow
  <2>5. out' \in Seq(OutSet) /\ Len(out') <= ChunkSize
    BY <1>1, <1>8, <2>1, <2>4 DEF EndRow
  <2> QED
    BY <1>1, <1>3, <2>1, <2>3, <2>5 DEF ProbeInv
<1>9. CASE Return
  <2>1. UNCHANGED out
    BY <1>9 DEF Return
  <2>2. PICK active \in BOOLEAN, drained \in BOOLEAN, chunk \in {probe.chunk, probe.chunk + 1} :
            probe' = [probe EXCEPT !.pc = "call", !.active = active, !.drained = drained,
                                   !.chunk = chunk]
    <3>1. probe' = [probe EXCEPT !.pc = "call", !.active = ~(probe.row > Len(in)),
                                 !.drained = probe.row > Len(in) /\ out # <<>>,
                                 !.chunk = IF out = <<>> THEN probe.chunk + 1 ELSE probe.chunk]
      BY <1>9 DEF Return
    <3>2. (~(probe.row > Len(in))) \in BOOLEAN /\ (probe.row > Len(in) /\ out # <<>>) \in BOOLEAN
      OBVIOUS
    <3>3. (IF out = <<>> THEN probe.chunk + 1 ELSE probe.chunk) \in {probe.chunk, probe.chunk + 1}
      OBVIOUS
    <3> QED
      BY <3>1, <3>2, <3>3
  <2>3. probe' \in ProbeSet /\ probe'.build \in 0 .. N /\ probe'.pc = "call"
    <3>1. chunk \in Nat \ {0}
      BY <1>1
    <3> QED
      BY <1>1, <2>2, <3>1 DEF ProbeSet
  <2> QED
    BY <1>1, <1>3, <2>1, <2>3 DEF ProbeInv
<1>10. CASE EndProbe
  <2>1. UNCHANGED out /\ probe' = [probe EXCEPT !.pc = "done"]
    BY <1>10 DEF EndProbe
  <2>2. probe' \in ProbeSet /\ probe'.build \in 0 .. N /\ probe'.pc = "done"
    BY <1>1, <2>1 DEF ProbeSet
  <2> QED
    BY <1>1, <2>1, <2>2 DEF ProbeInv
<1> QED
  BY <1>5, <1>6, <1>7, <1>8, <1>9, <1>10 DEF ProbeStep

------------------------------------------------------------------------------
(* Where the workers are. *)

\* A step of COMBINE moves its worker and leaves the others alone.
Moves(w, point) ==
    /\ pc[w] \in OwnPoints \cup LockPoints
    /\ pc' = [pc EXCEPT ![w] = point]
    /\ point \in {"lock", "append"} => link'[w].row <= local[w].count
    /\ UNCHANGED <<join, input, local, probeVars>>
    /\ \A v \in Workers : registry'[v].capacity = registry[v].capacity
    /\ \A v \in Workers \ {w} : link'[v] = link[v]
    /\ payload'.finalized = payload.finalized /\ payload'.release_state = payload.release_state

\* A step of the combine moves its own worker only.
LEMMA OwnMoves ==
    ASSUME TypeInv, NEW w \in Workers,
           \/ Prepare(w) \/ SumUp(w) \/ PublishPrepared(w) \/ AwaitPrepared(w)
           \/ CopyLocal(w) \/ ExchangeHead(w) \/ StoreLink(w)
    PROVE  \E point \in OwnPoints \cup {"combined"} : pc[w] \in OwnPoints /\ Moves(w, point)
<1>1. payload \in PayloadSet /\ link \in [Workers -> LinkSet] /\ registry \in [Workers -> RegistrySet]
  BY DEF TypeInv
<1>2. PICK point \in OwnPoints \cup {"combined"} : pc' = [pc EXCEPT ![w] = point]
  BY DEF Prepare, SumUp, PublishPrepared, AwaitPrepared, CopyLocal, ExchangeHead, StoreLink,
         Goto, OwnPoints
<1>3. pc[w] \in OwnPoints /\ point \notin {"lock", "append"}
  BY DEF Prepare, SumUp, PublishPrepared, AwaitPrepared, CopyLocal, ExchangeHead, StoreLink,
         At, OwnPoints
<1>4. UNCHANGED <<join, input, local, probeVars>>
  BY DEF Prepare, SumUp, PublishPrepared, AwaitPrepared, CopyLocal, ExchangeHead, StoreLink
<1>5. \A v \in Workers : registry'[v].capacity = registry[v].capacity
  <2>1. CASE SumUp(w)
    <3>1. PICK total, hash : Summary(w, total, hash)
      BY <2>1, SumUpComputes
    <3>2. registry' = [v \in Workers |-> [registry[v] EXCEPT !.row_count = local[v].count,
                                                            !.offset = registry'[v].offset]]
      BY <3>1 DEF Summary
    <3>3. ASSUME NEW v \in Workers PROVE registry'[v].capacity = registry[v].capacity
      <4>1. registry'[v] = [registry[v] EXCEPT !.row_count = local[v].count,
                                               !.offset = registry'[v].offset]
        BY <3>2, Zenon
      <4>2. registry[v] \in RegistrySet
        BY <1>1
      <4> QED
        BY <4>1, <4>2 DEF RegistrySet
    <3> QED
      BY <3>3
  <2>2. CASE ~SumUp(w)
    <3>1. UNCHANGED registry
      BY <2>2 DEF Prepare, PublishPrepared, AwaitPrepared, CopyLocal, ExchangeHead, StoreLink
    <3> QED
      BY <3>1
  <2> QED
    BY <2>1, <2>2
<1>6. \A v \in Workers \ {w} : link'[v] = link[v]
  <2>1. \/ link' = link \/ link' = [link EXCEPT ![w].old = table.heads[LinkBucket(w)]]
        \/ link' = [link EXCEPT ![w].row = link[w].row + 1]
    BY DEF Prepare, SumUp, PublishPrepared, AwaitPrepared, CopyLocal, ExchangeHead, StoreLink
  <2> QED
    BY <1>1, <2>1
<1>7. payload'.finalized = payload.finalized /\ payload'.release_state = payload.release_state
  <2>1. \/ \E x : payload' = [payload EXCEPT !.prepare = x]
        \/ payload' = payload
        \/ \E x, y, z : payload' = [payload EXCEPT !.combined_rows = x, !.row_capacity = y,
                                                   !.hash_capacity = z]
    BY DEF Prepare, SumUp, PublishPrepared, AwaitPrepared, CopyLocal, ExchangeHead, StoreLink
  <2> QED
    BY <1>1, <2>1 DEF PayloadSet
<1> QED
  BY <1>2, <1>3, <1>4, <1>5, <1>6, <1>7 DEF Moves

\* So does one under the spin lock.
LEMMA LockMoves ==
    ASSUME TypeInv, WorkerInv, NEW w \in Workers,
           \/ BeginBatch(w) \/ LockBatch(w) \/ AppendRow(w)
           \/ AppendFails(w) \/ UnlockBatch(w) \/ EndBatches(w)
    PROVE  \E point \in LockPoints \cup {"combined"} : pc[w] \in LockPoints /\ Moves(w, point)
<1>1. payload \in PayloadSet /\ link \in [Workers -> LinkSet] /\ link[w].row \in Nat
        /\ local[w].count \in Nat
  BY WorkerFacts DEF TypeInv
<1>2. PICK point \in LockPoints \cup {"combined"} : pc' = [pc EXCEPT ![w] = point]
  BY DEF BeginBatch, LockBatch, AppendRow, AppendFails, UnlockBatch, EndBatches, Goto, LockPoints
<1>3. pc[w] \in LockPoints
  BY DEF BeginBatch, LockBatch, AppendRow, AppendFails, UnlockBatch, EndBatches, At, LockPoints
<1>4. UNCHANGED <<join, input, local, registry, probeVars>>
  BY DEF BeginBatch, LockBatch, AppendRow, AppendFails, UnlockBatch, EndBatches
<1>5. link' = link \/ link' = [link EXCEPT ![w].row = link[w].row + 1]
  BY DEF BeginBatch, LockBatch, AppendRow, AppendFails, UnlockBatch, EndBatches
<1>6. \A v \in Workers \ {w} : link'[v] = link[v]
  BY <1>1, <1>5
<1>7. point \in {"lock", "append"} => link'[w].row <= local[w].count
  <2>1. SUFFICES ASSUME point \in {"lock", "append"} PROVE link'[w].row <= local[w].count
    OBVIOUS
  <2>2. pc'[w] \in {"lock", "append"}
    BY <1>2, <2>1 DEF TypeInv
  <2>3. CASE BeginBatch(w)
    BY <2>3 DEF BeginBatch
  <2>4. CASE LockBatch(w)
    <3>1. pc[w] = "lock" /\ link' = link
      BY <2>4 DEF LockBatch, At
    <3> QED
      BY <3>1 DEF WorkerInv, WorkerOK
  <2>5. CASE AppendRow(w)
    <3>1. link' = [link EXCEPT ![w].row = link[w].row + 1]
      BY <2>5 DEF AppendRow
    <3>2. ~(link[w].row + 1 > local[w].count)
      <4>1. pc' = [pc EXCEPT ![w] = "unlock"] \/ ~(link[w].row + 1 > local[w].count)
        BY <2>5 DEF AppendRow, Goto
      <4> QED
        BY <2>2, <4>1 DEF TypeInv
    <3>3. link'[w].row = link[w].row + 1
      BY <1>1, <3>1 DEF LinkSet
    <3> QED
      BY <1>1, <3>2, <3>3
  <2>6. ~AppendFails(w) /\ ~UnlockBatch(w) /\ ~EndBatches(w)
    BY <2>2 DEF AppendFails, UnlockBatch, EndBatches, Goto, TypeInv
  <2> QED
    BY <2>3, <2>4, <2>5, <2>6
<1>8. payload'.finalized = payload.finalized /\ payload'.release_state = payload.release_state
  <2>1. \/ \E x : payload' = [payload EXCEPT !.mutex = x]
        \/ \E x : payload' = [payload EXCEPT !.row_capacity = x]
        \/ payload' = payload
    BY DEF BeginBatch, LockBatch, AppendRow, AppendFails, UnlockBatch, EndBatches
  <2> QED
    BY <1>1, <2>1 DEF PayloadSet
<1> QED
  BY <1>2, <1>3, <1>4, <1>6, <1>7, <1>8 DEF Moves, probeVars

\* What FINALIZE, the probe and the release leave alone.
LEMMA EndFrame ==
    ASSUME Finalize \/ ProbeStep \/ Release
    PROVE  /\ UNCHANGED <<join, input, pc, local, registry, link>>
           /\ ProbeStep => UNCHANGED <<buildVars, live>>
<1>1. ProbeStep => UNCHANGED <<buildVars, live>>
  BY DEF ProbeStep, Execute, ProbeRow, MatchRow, EndRow, Return, EndProbe
<1> QED
  BY <1>1 DEF buildVars, Finalize, Release

\* The decisions of GetGlobalSinkState are those of the plan.
LEMMA ModeFrame ==
    ASSUME UNCHANGED join
    PROVE  /\ Locked' = Locked /\ build_rows_shared_local' = build_rows_shared_local
           /\ build_rows_use_keys' = build_rows_use_keys
  BY DEF Locked, build_rows_shared_local, build_rows_use_keys, payload_rows_unused,
         can_share_local_payload

\* WorkerInv: the build.
LEMMA BuildWorkerInv ==
    ASSUME TypeInv, WorkerInv, PhaseInv, NEW w \in Workers,
           GetLocalSinkState(w) \/ SinkRow(w) \/ StartCombine
    PROVE  WorkerInv'
<1>1. SUFFICES ASSUME NEW v \in Workers PROVE WorkerOK(v)'
  BY DEF WorkerInv
<1>2. WorkerOK(v) /\ WorkerOK(w) /\ Locked' = Locked
  BY ModeFrame DEF WorkerInv, GetLocalSinkState, SinkRow, StartCombine
<1>3. /\ pc \in [Workers -> Points] /\ local \in [Workers -> LocalSet]
      /\ registry \in [Workers -> RegistrySet]
      /\ registry[v] \in RegistrySet /\ local[v] \in LocalSet
      /\ local[w].count \in Nat /\ local[w].capacity \in Nat /\ Len(input[w]) \in Nat
  BY WorkerFacts DEF TypeInv
<1>4. CASE GetLocalSinkState(w)
  <2>1. /\ UNCHANGED <<input, link>> /\ pc[w] = "start" /\ pc' = [pc EXCEPT ![w] = "sink"]
        /\ local' = [local EXCEPT ![w].capacity = 1]
        /\ registry' = [registry EXCEPT ![w].capacity = 1]
    BY <1>4 DEF GetLocalSinkState, At, Goto
  <2>2. CASE v = w
    <3>1. local'[v].count = local[v].count /\ local'[v].capacity = 1 /\ registry'[v].capacity = 1
            /\ pc'[v] = "sink"
      BY <1>3, <2>1, <2>2 DEF LocalSet, RegistrySet
    <3>2. local[v].count <= 1 /\ local[v].count <= Len(input[v])
      BY <1>2, <1>3, <2>1, <2>2 DEF WorkerOK
    <3> QED
      BY <2>1, <3>1, <3>2 DEF WorkerOK, BuildPoints, OwnPoints, LockPoints
  <2>3. CASE v # w
    <3>1. local'[v] = local[v] /\ registry'[v] = registry[v] /\ pc'[v] = pc[v]
      BY <1>3, <2>1, <2>3
    <3> QED
      BY <1>2, <2>1, <3>1 DEF WorkerOK
  <2> QED
    BY <2>2, <2>3
<1>5. CASE SinkRow(w)
  <2>1. /\ UNCHANGED <<input, link, pc>> /\ pc[w] = "sink" /\ local[w].count < Len(input[w])
    BY <1>5 DEF SinkRow, At
  <2>2. local' = [local EXCEPT ![w] = [capacity |-> Grown(w), count |-> local[w].count + 1]]
    BY <1>5 DEF SinkRow
  <2>3. registry' = [registry EXCEPT ![w].capacity = Grown(w)]
    BY <1>5 DEF SinkRow
  <2>4. CASE v = w
    <3>1. local'[v].count = local[v].count + 1 /\ local'[v].capacity = Grown(w)
            /\ registry'[v].capacity = Grown(w) /\ pc'[v] = "sink"
      BY <1>3, <2>1, <2>2, <2>3, <2>4 DEF LocalSet, RegistrySet
    <3>2. local[v].capacity # 0 /\ local[v].count <= local[v].capacity
      BY <1>2, <2>1, <2>4 DEF WorkerOK
    <3>3. local[v].count + 1 <= Grown(w) /\ Grown(w) # 0 /\ local[v].count + 1 <= Len(input[v])
      BY <1>3, <2>1, <2>4, <3>2 DEF Grown
    <3> QED
      BY <2>1, <3>1, <3>3 DEF WorkerOK, BuildPoints, OwnPoints, LockPoints
  <2>5. CASE v # w
    <3>1. local'[v] = local[v]
      BY <1>3, <2>2, <2>5
    <3>2. registry'[v] = registry[v]
      BY <1>3, <2>3, <2>5
    <3> QED
      BY <1>2, <2>1, <3>1, <3>2 DEF WorkerOK
  <2> QED
    BY <2>4, <2>5
<1>6. CASE StartCombine
  <2>1. /\ UNCHANGED <<input, local, registry, link>>
        /\ \A u \in Participants : pc[u] = "sink" /\ local[u].count = Len(input[u])
        /\ pc' = [u \in Workers |-> IF u \notin Participants THEN "absent"
                                    ELSE IF Locked THEN "batch" ELSE "prepare"]
    BY <1>6 DEF StartCombine, At
  <2>2. CASE v \in Participants
    <3>1. pc'[v] = (IF Locked THEN "batch" ELSE "prepare") /\ pc[v] = "sink"
            /\ local[v].count = Len(input[v])
      BY <2>1, <2>2
    <3> QED
      BY <1>2, <2>1, <3>1 DEF WorkerOK, BuildPoints, OwnPoints, LockPoints
  <2>3. CASE v \notin Participants
    <3>1. pc'[v] = "absent" /\ pc[v] = "absent"
      BY <2>1, <2>3 DEF Participants
    <3> QED
      BY <1>2, <2>1, <3>1 DEF WorkerOK, BuildPoints, OwnPoints, LockPoints
  <2> QED
    BY <2>2, <2>3
<1> QED
  BY <1>4, <1>5, <1>6

\* The combine.
LEMMA CombineWorkerInv ==
    ASSUME TypeInv, WorkerInv, NEW w \in Workers, CombineStep(w)
    PROVE  WorkerInv'
<1>1. SUFFICES ASSUME NEW v \in Workers PROVE WorkerOK(v)'
  BY DEF WorkerInv
<1>2. PICK point \in Points : /\ Moves(w, point)
                              /\ point \in (IF Locked THEN LockPoints ELSE OwnPoints) \cup {"combined"}
  <2>1. pc[w] \in OwnPoints => ~Locked
    BY DEF WorkerInv, WorkerOK
  <2>2. pc[w] \in LockPoints => Locked
    BY DEF WorkerInv, WorkerOK
  <2>3. OwnPoints \cup LockPoints \cup {"combined"} \subseteq Points
    BY DEF Points
  <2> QED
    BY <2>1, <2>2, <2>3, OwnMoves, LockMoves DEF CombineStep
<1>3. WorkerOK(v) /\ WorkerOK(w) /\ Locked' = Locked
  BY <1>2, ModeFrame DEF WorkerInv, Moves
<1>4. /\ UNCHANGED <<input, local>> /\ registry'[v].capacity = registry[v].capacity
      /\ pc' = [pc EXCEPT ![w] = point] /\ pc[w] \in OwnPoints \cup LockPoints
      /\ pc \in [Workers -> Points]
  BY <1>2 DEF Moves, TypeInv
<1>5. CASE v = w
  <2>1. pc'[v] = point
    BY <1>4, <1>5
  <2>2. /\ pc[v] \notin BuildPoints /\ pc[v] \notin {"absent", "start"}
        /\ point \notin BuildPoints /\ point \notin {"absent", "start"}
    BY <1>2, <1>4, <1>5 DEF BuildPoints, OwnPoints, LockPoints
  <2>3. IF Locked THEN point \notin OwnPoints ELSE point \notin LockPoints
    BY <1>2 DEF OwnPoints, LockPoints
  <2>4. point \in {"lock", "append"} => link'[v].row <= local[v].count
    BY <1>2, <1>5 DEF Moves
  <2> QED
    BY <1>3, <1>4, <2>1, <2>2, <2>3, <2>4 DEF WorkerOK
<1>6. CASE v # w
  <2>1. pc'[v] = pc[v] /\ link'[v] = link[v]
    BY <1>2, <1>4, <1>6 DEF Moves
  <2> QED
    BY <1>3, <1>4, <2>1 DEF WorkerOK
<1> QED
  BY <1>5, <1>6

\* Finalize, probe and release.
LEMMA EndWorkerInv ==
    ASSUME WorkerInv, Finalize \/ ProbeStep \/ Release
    PROVE  WorkerInv'
<1>1. UNCHANGED <<join, input, pc, local, registry, link>> /\ Locked' = Locked
  BY EndFrame, ModeFrame
<1> QED
  BY <1>1 DEF WorkerInv, WorkerOK

\* The phases.
LEMMA BuildPhaseInv ==
    ASSUME TypeInv, PhaseInv, NEW w \in Workers,
           GetLocalSinkState(w) \/ SinkRow(w) \/ StartCombine
    PROVE  PhaseInv'
<1>1. UNCHANGED <<probe, payload>> /\ pc \in [Workers -> Points]
  BY DEF GetLocalSinkState, SinkRow, StartCombine, probeVars, TypeInv
<1>2. CASE GetLocalSinkState(w) \/ SinkRow(w)
  <2>1. pc[w] \in BuildPoints
    BY <1>2 DEF GetLocalSinkState, SinkRow, At, BuildPoints
  <2>2. pc' = pc \/ pc' = [pc EXCEPT ![w] = "sink"]
    BY <1>2 DEF GetLocalSinkState, SinkRow, Goto
  <2>3. probe.pc = "build" /\ \A v \in Workers : pc[v] \in BuildPoints \cup {"absent"}
    BY <2>1 DEF PhaseInv, BuildPoints
  <2>4. \A v \in Workers : pc'[v] \in BuildPoints \cup {"absent"}
    BY <1>1, <2>2, <2>3 DEF BuildPoints
  <2> QED
    BY <1>1, <2>3, <2>4 DEF PhaseInv
<1>3. CASE StartCombine
  <2>1. PICK u \in Workers : pc[u] = "sink"
    BY <1>3 DEF StartCombine, Participants, At
  <2>2. probe.pc = "build"
    BY <2>1 DEF PhaseInv
  <2>3. \A v \in Workers : pc'[v] \notin BuildPoints
    BY <1>3 DEF StartCombine, BuildPoints
  <2> QED
    BY <1>1, <2>2, <2>3 DEF PhaseInv
<1> QED
  BY <1>2, <1>3

\* The combine runs before FINALIZE.
LEMMA CombinePhaseInv ==
    ASSUME TypeInv, WorkerInv, PhaseInv, NEW w \in Workers, CombineStep(w)
    PROVE  PhaseInv' /\ probe.pc = "build"
<1>1. PICK point \in OwnPoints \cup LockPoints \cup {"combined"} : Moves(w, point)
  BY OwnMoves, LockMoves DEF CombineStep
<1>2. /\ pc[w] \in OwnPoints \cup LockPoints /\ pc' = [pc EXCEPT ![w] = point] /\ UNCHANGED probe
      /\ payload'.finalized = payload.finalized /\ payload'.release_state = payload.release_state
      /\ pc \in [Workers -> Points]
  BY <1>1 DEF Moves, TypeInv, probeVars
<1>3. probe.pc = "build" /\ \A v \in Workers : pc[v] \notin BuildPoints
  <2>1. pc[w] \notin {"absent", "combined"} \cup BuildPoints
    BY <1>2 DEF OwnPoints, LockPoints, BuildPoints
  <2> QED
    BY <2>1 DEF PhaseInv
<1>4. \A v \in Workers : pc'[v] \notin BuildPoints
  BY <1>2, <1>3 DEF OwnPoints, LockPoints, BuildPoints
<1> QED
  BY <1>2, <1>3, <1>4 DEF PhaseInv

\* FINALIZE ends the build, and nothing returns to it.
LEMMA EndPhaseInv ==
    ASSUME TypeInv, TableInv, ProbeInv, PhaseInv, Finalize \/ ProbeStep \/ Release
    PROVE  PhaseInv' /\ probe'.pc # "build" /\ (probe.pc = "build" <=> Finalize)
<1>1. UNCHANGED pc /\ payload \in PayloadSet /\ probe \in ProbeSet
  BY EndFrame DEF TypeInv
<1>2. CASE Finalize
  <2>1. probe.pc = "build" /\ probe'.pc = "call"
    BY <1>1, <1>2 DEF Finalize, ProbeSet
  <2>2. payload'.finalized = TRUE /\ payload'.release_state = payload.release_state
    BY <1>1, <1>2 DEF Finalize, PayloadSet
  <2>3. \A v \in Workers : pc[v] \in {"absent", "combined"}
    BY <1>2 DEF Finalize, Participants, At
  <2>4. payload.release_state # 2
    BY <2>1 DEF PhaseInv
  <2> QED
    BY <1>1, <1>2, <2>1, <2>2, <2>3, <2>4 DEF PhaseInv
<1>3. CASE ProbeStep
  <2>1. UNCHANGED payload
    BY <1>3, EndFrame DEF buildVars
  <2>2. probe.pc \in {"call", "row", "match"}
    BY <1>3 DEF ProbeStep, Execute, ProbeRow, MatchRow, EndRow, Return, EndProbe
  <2>3. probe'.pc # "build"
    <3>1. CASE Execute
      BY <1>1, <3>1 DEF Execute, ProbeSet
    <3>2. CASE ProbeRow \/ EndRow \/ EndProbe
      BY <1>1, <3>2 DEF ProbeRow, EndRow, EndProbe, ProbeSet
    <3>3. CASE MatchRow
      BY <1>1, <3>3 DEF MatchRow, ProbeSet
    <3>4. CASE Return
      BY <1>1, <3>4 DEF Return, ProbeSet
    <3> QED
      BY <1>3, <3>1, <3>2, <3>3, <3>4 DEF ProbeStep
  <2>4. ~Finalize
    BY <2>2 DEF Finalize
  <2> QED
    BY <1>1, <2>1, <2>2, <2>3, <2>4 DEF PhaseInv
<1>4. CASE Release
  <2>1. UNCHANGED probe /\ probe.pc = "done" /\ ~Finalize
    BY <1>4 DEF Release, probeVars, Finalize
  <2>2. payload'.finalized = payload.finalized
    BY <1>1, <1>4 DEF Release, PayloadSet
  <2> QED
    BY <1>1, <2>1, <2>2 DEF PhaseInv
<1> QED
  BY <1>2, <1>3, <1>4

------------------------------------------------------------------------------
(* The worker that prepares, and what it finds. *)

\* How far the preparation is, from where a worker is.
LEMMA Stage ==
    ASSUME TypeInv, WorkerInv, PrepareInv, NEW w \in Workers
    PROVE  /\ payload.prepare \in {0, 1, 2}
           /\ pc[w] \in OwnPoints => ~Locked
           /\ pc[w] \in LockPoints \cup BuildPoints => payload.prepare = 0
           /\ pc[w] \in LockPoints => Locked
           /\ pc[w] \in {"sum", "publish"} =>
                 /\ payload.prepare = 1
                 /\ \A v \in Workers \ {w} : pc[v] \in {"absent", "prepare", "wait"}
           /\ pc[w] \in {"copy", "exchange", "store"} => payload.prepare = 2
           /\ pc[w] \in OwnPoints \ {"prepare"} => payload.prepare # 0
<1>1. payload.prepare \in {0, 1, 2}
  BY DEF TypeInv, PayloadSet
<1>2. pc[w] \in OwnPoints => ~Locked
  BY DEF WorkerInv, WorkerOK
<1>3. pc[w] \in LockPoints \cup BuildPoints => payload.prepare = 0
  BY DEF PrepareInv, LockPoints, BuildPoints, OwnPoints
<1>4. pc[w] \in LockPoints => Locked
  BY DEF WorkerInv, WorkerOK
<1>5. pc[w] \in OwnPoints \ {"prepare"} => payload.prepare # 0
  BY DEF PrepareInv
<1>6. ASSUME payload.prepare = 1
      PROVE  /\ pc[w] \notin {"copy", "exchange", "store"}
             /\ pc[w] \in {"sum", "publish"} =>
                   \A v \in Workers \ {w} : pc[v] \in {"absent", "prepare", "wait"}
  <2>1. PICK u \in Workers : /\ pc[u] \in {"sum", "publish"}
                             /\ \A v \in Workers \ {u} : pc[v] \in {"absent", "prepare", "wait"}
    BY <1>6 DEF PrepareInv
  <2> QED
    BY <2>1
<1>7. payload.prepare = 2 => pc[w] \notin {"sum", "publish"}
  BY DEF PrepareInv
<1> QED
  BY <1>1, <1>2, <1>3, <1>4, <1>5, <1>6, <1>7 DEF OwnPoints

\* Nothing is prepared in the build.
LEMMA BuildPrepareInv ==
    ASSUME TypeInv, WorkerInv, PhaseInv, PrepareInv, EmptyInv, NEW w \in Workers,
           GetLocalSinkState(w) \/ SinkRow(w) \/ StartCombine
    PROVE  PrepareInv' /\ EmptyInv' /\ ~Summed /\ ~Summed'
<1>1. /\ UNCHANGED <<payload, probe, table, link, join>> /\ pc \in [Workers -> Points]
      /\ Locked' = Locked
  BY ModeFrame DEF GetLocalSinkState, SinkRow, StartCombine, probeVars, TypeInv
<1>2. payload.prepare = 0 /\ \A v \in Workers : pc[v] \in BuildPoints \cup {"absent"}
  <2>1. PICK u \in Workers : pc[u] \in BuildPoints
    BY DEF GetLocalSinkState, SinkRow, StartCombine, Participants, At, BuildPoints
  <2> QED
    BY <2>1, Stage DEF PhaseInv
<1>3. \A v \in Workers : pc'[v] \in BuildPoints \cup {"absent", "prepare", "batch"}
  <2>1. CASE GetLocalSinkState(w) \/ SinkRow(w)
    <3>1. pc' = pc \/ pc' = [pc EXCEPT ![w] = "sink"]
      BY <2>1 DEF GetLocalSinkState, SinkRow, Goto
    <3> QED
      BY <1>1, <1>2, <3>1 DEF BuildPoints
  <2>2. CASE StartCombine
    BY <2>2 DEF StartCombine
  <2> QED
    BY <2>1, <2>2
<1>4. \A v \in Workers : pc'[v] \notin (OwnPoints \ {"prepare"}) \cup {"combined", "publish"}
  BY <1>3 DEF BuildPoints, OwnPoints
<1>5. \A v \in Workers : registry'[v].row_count = registry[v].row_count
  <2>1. registry \in [Workers -> RegistrySet]
    BY DEF TypeInv
  <2>2. registry' = registry \/ \E x : registry' = [registry EXCEPT ![w].capacity = x]
    BY DEF GetLocalSinkState, SinkRow, StartCombine
  <2> QED
    BY <2>1, <2>2 DEF RegistrySet
<1>6. ~Summed /\ ~Summed'
  BY <1>1, <1>2, <1>4 DEF Summed, BuildPoints
<1>7. PrepareInv'
  BY <1>1, <1>2, <1>4 DEF PrepareInv
<1>8. EmptyInv'
  BY <1>1, <1>5, <1>6 DEF EmptyInv
<1> QED
  BY <1>6, <1>7, <1>8

\* One worker prepares, and the sums are there from its SumUp on.
LEMMA CombinePrepareInv ==
    ASSUME TypeInv, WorkerInv, PhaseInv, PrepareInv, EmptyInv, NEW w \in Workers, CombineStep(w)
    PROVE  /\ PrepareInv' /\ EmptyInv'
           /\ ~SumUp(w) => (Summed' <=> Summed)
           /\ SumUp(w) => ~Summed /\ Summed'
<1>1. pc \in [Workers -> Points] /\ payload \in PayloadSet /\ payload.prepare \in {0, 1, 2}
  BY Stage DEF TypeInv
<1>2. PICK point \in OwnPoints \cup LockPoints \cup {"combined"} : Moves(w, point)
  BY OwnMoves, LockMoves DEF CombineStep
<1>3. pc' = [pc EXCEPT ![w] = point] /\ UNCHANGED <<join, probe>> /\ Locked' = Locked
  BY <1>2, ModeFrame DEF Moves, probeVars
<1>4. \A v \in Workers : pc[v] \notin BuildPoints
  <2>1. pc[w] \notin {"absent"} \cup BuildPoints
    BY <1>2 DEF Moves, OwnPoints, LockPoints, BuildPoints
  <2> QED
    BY <2>1 DEF PhaseInv
<1>5. CASE Prepare(w)
  <2>1. pc[w] = "prepare" /\ ~Locked /\ UNCHANGED <<registry, table, link>>
    BY <1>5, Stage DEF Prepare, At, OwnPoints
  <2>2. CASE payload.prepare = 0
    <3>1. payload'.prepare = 1 /\ pc' = [pc EXCEPT ![w] = "sum"]
      BY <1>1, <1>5, <2>2 DEF Prepare, Goto, PayloadSet
    <3>2. \A v \in Workers : pc[v] \in {"absent", "prepare"}
      <4>1. \A v \in Workers : /\ pc[v] \notin OwnPoints \ {"prepare"} /\ pc[v] # "combined"
                               /\ pc[v] \notin LockPoints /\ pc[v] \notin BuildPoints
        BY <1>4, <2>1, <2>2, Stage DEF PrepareInv
      <4> QED
        BY <1>1, <4>1 DEF Points
    <3>3. \A v \in Workers \ {w} : pc'[v] \in {"absent", "prepare"}
      BY <1>1, <3>1, <3>2
    <3>4. pc'[w] = "sum"
      BY <1>1, <3>1
    <3>5. PrepareInv'
      BY <1>3, <2>1, <3>1, <3>3, <3>4 DEF PrepareInv, OwnPoints
    <3>6. ~Summed /\ ~Summed'
      BY <2>2, <3>1, <3>2, <3>3, <3>4 DEF Summed
    <3>7. EmptyInv'
      BY <1>3, <2>1, <3>6 DEF EmptyInv
    <3>8. ~SumUp(w)
      BY <2>1 DEF SumUp, At
    <3> QED
      BY <3>5, <3>6, <3>7, <3>8
  <2>3. CASE payload.prepare # 0
    <3>1. UNCHANGED payload /\ pc' = [pc EXCEPT ![w] = "wait"]
      BY <1>5, <2>3 DEF Prepare, Goto
    <3>2. \A v \in Workers \ {w} : pc'[v] = pc[v]
      BY <1>1, <3>1
    <3>3. pc'[w] = "wait"
      BY <1>1, <3>1
    <3>4. PrepareInv'
      <4>1. ASSUME payload.prepare = 1
            PROVE  \E u \in Workers :
                      /\ pc'[u] \in {"sum", "publish"}
                      /\ \A v \in Workers \ {u} : pc'[v] \in {"absent", "prepare", "wait"}
        <5>1. PICK u \in Workers : /\ pc[u] \in {"sum", "publish"}
                                   /\ \A v \in Workers \ {u} : pc[v] \in {"absent", "prepare", "wait"}
          BY <4>1 DEF PrepareInv
        <5>2. u # w
          BY <2>1, <5>1
        <5> QED
          BY <3>2, <3>3, <5>1, <5>2
      <4>2. \A v \in Workers : /\ pc'[v] \in OwnPoints \cup {"absent", "combined"}
                               /\ payload.prepare = 2 => pc'[v] \notin {"sum", "publish"}
        BY <2>3, <3>2, <3>3 DEF PrepareInv, OwnPoints
      <4> QED
        BY <1>3, <2>1, <2>3, <3>1, <4>1, <4>2 DEF PrepareInv
    <3>5. Summed' <=> Summed
      BY <2>1, <3>1, <3>2, <3>3 DEF Summed
    <3>6. EmptyInv'
      BY <1>3, <2>1, <3>5 DEF EmptyInv
    <3>7. ~SumUp(w)
      BY <2>1 DEF SumUp, At
    <3> QED
      BY <3>4, <3>5, <3>6, <3>7
  <2> QED
    BY <2>2, <2>3
<1>6. CASE SumUp(w)
  <2>1. PICK total, hash : Summary(w, total, hash)
    BY <1>6, SumUpComputes
  <2>2. payload'.prepare = payload.prepare
    BY <1>1, <2>1 DEF Summary, PayloadSet
  <2>3. pc[w] = "sum" /\ pc' = [pc EXCEPT ![w] = "publish"]
    BY <1>6 DEF SumUp, At, Goto
  <2>4. payload.prepare = 1 /\ ~Locked
        /\ \A v \in Workers \ {w} : pc[v] \in {"absent", "prepare", "wait"}
    BY <2>3, Stage DEF OwnPoints
  <2>5. pc'[w] = "publish" /\ \A v \in Workers \ {w} : pc'[v] \in {"absent", "prepare", "wait"}
    BY <1>1, <2>3, <2>4
  <2>6. PrepareInv'
    BY <1>3, <2>2, <2>4, <2>5 DEF PrepareInv, OwnPoints
  <2>7. Summed' /\ ~Summed
    BY <2>3, <2>4, <2>5 DEF Summed
  <2> QED
    BY <1>6, <2>6, <2>7 DEF EmptyInv
<1>7. CASE PublishPrepared(w)
  <2>1. payload'.prepare = 2 /\ pc[w] = "publish" /\ pc' = [pc EXCEPT ![w] = "copy"]
    BY <1>1, <1>7 DEF PublishPrepared, At, Goto, PayloadSet
  <2>2. ~Locked /\ \A v \in Workers \ {w} : pc[v] \in {"absent", "prepare", "wait"}
    BY <2>1, Stage DEF OwnPoints
  <2>3. pc'[w] = "copy" /\ \A v \in Workers \ {w} : pc'[v] \in {"absent", "prepare", "wait"}
    BY <1>1, <2>1, <2>2
  <2>4. PrepareInv'
    BY <1>3, <2>1, <2>2, <2>3 DEF PrepareInv, OwnPoints
  <2>5. Summed' /\ Summed
    BY <2>1 DEF Summed
  <2>6. ~SumUp(w)
    BY <2>1 DEF SumUp, At
  <2> QED
    BY <2>4, <2>5, <2>6 DEF EmptyInv
<1>8. CASE AwaitPrepared(w) \/ CopyLocal(w) \/ ExchangeHead(w) \/ StoreLink(w)
  <2>1. /\ UNCHANGED payload /\ pc[w] \in {"wait", "copy", "exchange", "store"}
        /\ point \in {"copy", "exchange", "store", "combined"}
    <3>1. \E p \in {"copy", "exchange", "store", "combined"} : pc' = [pc EXCEPT ![w] = p]
      BY <1>8 DEF AwaitPrepared, CopyLocal, ExchangeHead, StoreLink, Goto
    <3>2. pc'[w] = point
      BY <1>1, <1>3
    <3>3. point \in {"copy", "exchange", "store", "combined"}
      BY <1>1, <3>1, <3>2
    <3>4. UNCHANGED payload /\ pc[w] \in {"wait", "copy", "exchange", "store"}
      BY <1>8 DEF AwaitPrepared, CopyLocal, ExchangeHead, StoreLink, At
    <3> QED
      BY <3>3, <3>4
  <2>2. payload.prepare = 2 /\ ~Locked
    <3>1. pc[w] = "wait" => payload.prepare = 2
      BY <1>8 DEF AwaitPrepared, CopyLocal, ExchangeHead, StoreLink, At
    <3> QED
      BY <2>1, <3>1, Stage DEF OwnPoints
  <2>3. \A v \in Workers \ {w} : pc'[v] = pc[v]
    BY <1>1, <1>3
  <2>4. pc'[w] = point
    BY <1>1, <1>3
  <2>5. PrepareInv'
    <3>1. \A v \in Workers : pc'[v] \in OwnPoints \cup {"absent", "combined"}
                             /\ pc'[v] \notin {"sum", "publish"}
      BY <2>1, <2>2, <2>3, <2>4 DEF PrepareInv, OwnPoints
    <3> QED
      BY <1>3, <2>1, <2>2, <3>1 DEF PrepareInv
  <2>6. Summed /\ Summed'
    BY <2>1, <2>2 DEF Summed
  <2>7. ~SumUp(w)
    BY <2>1 DEF SumUp, At
  <2> QED
    BY <2>5, <2>6, <2>7 DEF EmptyInv
<1>9. CASE \/ BeginBatch(w) \/ LockBatch(w) \/ AppendRow(w)
           \/ AppendFails(w) \/ UnlockBatch(w) \/ EndBatches(w)
  <2>1. PICK p \in LockPoints \cup {"combined"} : pc[w] \in LockPoints /\ Moves(w, p)
    BY <1>9, LockMoves
  <2>2. pc' = [pc EXCEPT ![w] = p] /\ Locked /\ payload.prepare = 0
    BY <2>1, Stage DEF Moves
  <2>3. payload'.prepare = 0
    <3>1. \/ \E x : payload' = [payload EXCEPT !.mutex = x]
          \/ \E x : payload' = [payload EXCEPT !.row_capacity = x]
          \/ payload' = payload
      BY <1>9 DEF BeginBatch, LockBatch, AppendRow, AppendFails, UnlockBatch, EndBatches
    <3> QED
      BY <1>1, <2>2, <3>1 DEF PayloadSet
  <2>4. \A v \in Workers : pc'[v] \notin OwnPoints \ {"prepare"}
                           /\ pc'[v] # "publish" /\ pc[v] # "publish"
    BY <1>1, <2>2 DEF PrepareInv, OwnPoints, LockPoints
  <2>5. PrepareInv'
    BY <1>3, <2>2, <2>3, <2>4 DEF PrepareInv
  <2>6. ~Summed /\ ~Summed'
    BY <2>2, <2>3, <2>4 DEF Summed
  <2>7. UNCHANGED registry /\ (table.built => table'.built) /\ (table'.built => table.built)
    <3>1. \/ table' = table
          \/ \E x : table' = [table EXCEPT !.rows = x]
      BY <1>9 DEF BeginBatch, LockBatch, AppendRow, AppendFails, UnlockBatch, EndBatches
    <3>2. table = [rows |-> table.rows, built |-> table.built, heads |-> table.heads,
                   links |-> table.links]
      BY DEF TypeInv
    <3>3. UNCHANGED registry
      BY <1>9 DEF BeginBatch, LockBatch, AppendRow, AppendFails, UnlockBatch, EndBatches
    <3> QED
      BY <3>1, <3>2, <3>3
  <2>8. EmptyInv'
    BY <1>3, <2>2, <2>6, <2>7 DEF EmptyInv
  <2>9. ~SumUp(w)
    BY <2>1 DEF SumUp, At, LockPoints
  <2> QED
    BY <2>5, <2>6, <2>8, <2>9
<1> QED
  BY <1>5, <1>6, <1>7, <1>8, <1>9 DEF CombineStep

\* Later steps leave the preparation alone.
LEMMA EndPrepareInv ==
    ASSUME TypeInv, TableInv, ProbeInv, PhaseInv, PrepareInv, EmptyInv,
           Finalize \/ ProbeStep \/ Release
    PROVE  PrepareInv' /\ EmptyInv' /\ (Summed' <=> Summed)
<1>1. UNCHANGED <<join, pc, registry, link>> /\ Locked' = Locked /\ probe'.pc # "build"
        /\ payload \in PayloadSet
  BY EndFrame, ModeFrame, EndPhaseInv DEF TypeInv
<1>2. payload'.prepare = payload.prepare
  <2>1. \/ payload' = payload
        \/ \E x : payload' = [payload EXCEPT !.finalized = TRUE, !.hash_capacity = x]
        \/ payload' = [payload EXCEPT !.release_state = 2]
    BY EndFrame DEF Finalize, Release, buildVars
  <2> QED
    BY <1>1, <2>1 DEF PayloadSet
<1>3. table'.rows = table.rows
  <2>1. table' = table \/ \E heads, links :
            table' = [table EXCEPT !.built = TRUE, !.heads = heads, !.links = links]
    BY EndFrame DEF Finalize, Release, buildVars
  <2>2. table = [rows |-> table.rows, built |-> table.built, heads |-> table.heads,
                 links |-> table.links]
    BY DEF TypeInv
  <2> QED
    BY <2>1, <2>2
<1>4. Summed' <=> Summed
  BY <1>1, <1>2 DEF Summed
<1> QED
  BY <1>1, <1>2, <1>3, <1>4 DEF PrepareInv, EmptyInv

------------------------------------------------------------------------------
(* The table. *)

\* The ranges of two workers share no row.
LEMMA OwnRows ==
    ASSUME TypeInv, RangeInv, Summed, NEW u \in Workers, NEW v \in Workers, NEW i \in Nat,
           i - registry[u].offset \in 1 .. registry[u].row_count,
           i - registry[v].offset \in 1 .. registry[v].row_count
    PROVE  u = v
<1>1. /\ u \in Nat /\ v \in Nat
      /\ registry[u].offset \in Nat /\ registry[u].row_count \in Nat
      /\ registry[v].offset \in Nat /\ registry[v].row_count \in Nat
  BY WorkerFacts
<1>2. u < v => registry[u].offset + registry[u].row_count <= registry[v].offset
  BY DEF RangeInv
<1>3. v < u => registry[v].offset + registry[v].row_count <= registry[u].offset
  BY DEF RangeInv
<1> QED
  BY <1>1, <1>2, <1>3

\* What a step of COMBINE without locks does to the table, once it is prepared.
LEMMA OwnTable ==
    ASSUME TypeInv, WorkerInv, PrepareInv, RangeInv, TableInv, NEW w \in Workers,
           \/ Prepare(w) \/ PublishPrepared(w) \/ AwaitPrepared(w)
           \/ CopyLocal(w) \/ ExchangeHead(w) \/ StoreLink(w)
    PROVE  /\ UNCHANGED <<input, registry, local, join, probe>>
           /\ N' = N /\ table'.built = table.built
           /\ payload'.hash_capacity = payload.hash_capacity
           /\ payload'.row_capacity = payload.row_capacity
           /\ payload'.combined_rows = payload.combined_rows
           /\ ~CopyLocal(w) => table'.rows = table.rows
           /\ ~ExchangeHead(w) => table'.heads = table.heads
           /\ ~StoreLink(w) => table'.links = table.links
           /\ ~CopyLocal(w) /\ ~ExchangeHead(w) /\ ~StoreLink(w) => UNCHANGED <<table, link>>
<1>1. table = [rows |-> table.rows, built |-> table.built, heads |-> table.heads,
               links |-> table.links] /\ payload \in PayloadSet
  BY DEF TypeInv
<1>2. UNCHANGED <<input, registry, local, join, probe>>
  BY DEF Prepare, PublishPrepared, AwaitPrepared, CopyLocal, ExchangeHead, StoreLink, probeVars
<1>3. /\ payload'.hash_capacity = payload.hash_capacity
      /\ payload'.row_capacity = payload.row_capacity
      /\ payload'.combined_rows = payload.combined_rows
  <2>1. payload' = payload \/ \E x : payload' = [payload EXCEPT !.prepare = x]
    BY DEF Prepare, PublishPrepared, AwaitPrepared, CopyLocal, ExchangeHead, StoreLink
  <2> QED
    BY <1>1, <2>1 DEF PayloadSet
<1>4. CASE CopyLocal(w)
  <2> DEFINE rows == [i \in DOMAIN table.rows |->
                          IF i - registry[w].offset \in 1 .. registry[w].row_count
                          THEN Row(w, i - registry[w].offset) ELSE table.rows[i]]
  <2>1. table' = [table EXCEPT !.rows = rows]
    BY <1>4 DEF CopyLocal
  <2>2. DOMAIN table.rows = 1 .. N /\ N \in Nat
    BY TableFacts
  <2>3. Len(rows) = N
    BY <2>2
  <2> HIDE DEF rows
  <2>4. /\ table'.rows = rows /\ table'.built = table.built
        /\ table'.heads = table.heads /\ table'.links = table.links
    BY <1>1, <2>1
  <2>5. N' = N
    BY <2>3, <2>4 DEF N
  <2> QED
    BY <1>2, <1>3, <1>4, <2>4, <2>5
<1>5. CASE ExchangeHead(w)
  <2>1. table' = [table EXCEPT !.heads[LinkBucket(w)] = GlobalIndex(w)]
    BY <1>5 DEF ExchangeHead
  <2>2. /\ table'.rows = table.rows /\ table'.built = table.built /\ table'.links = table.links
    BY <1>1, <2>1
  <2> QED
    BY <1>2, <1>3, <1>5, <2>2 DEF N
<1>6. CASE StoreLink(w)
  <2>1. table' = [table EXCEPT !.links[GlobalIndex(w)] = link[w].old]
    BY <1>6 DEF StoreLink
  <2>2. /\ table'.rows = table.rows /\ table'.built = table.built /\ table'.heads = table.heads
    BY <1>1, <2>1
  <2> QED
    BY <1>2, <1>3, <1>6, <2>2 DEF N
<1>7. CASE ~CopyLocal(w) /\ ~ExchangeHead(w) /\ ~StoreLink(w)
  <2>1. UNCHANGED <<table, link>>
    BY <1>7 DEF Prepare, PublishPrepared, AwaitPrepared
  <2> QED
    BY <1>2, <1>3, <1>7, <2>1 DEF N
<1> QED
  BY <1>4, <1>5, <1>6, <1>7

\* The ranges after SumUp.
LEMMA SumUpRange ==
    ASSUME TypeInv, WorkerInv, PhaseInv, PrepareInv, EmptyInv, NEW w \in Workers, SumUp(w)
    PROVE  RangeInv'
<1>1. PICK total, hash : Summary(w, total, hash)
  BY SumUpComputes
<1>2. /\ pc[w] = "sum" /\ pc' = [pc EXCEPT ![w] = "publish"] /\ pc \in [Workers -> Points]
      /\ UNCHANGED <<input, local, link>>
  BY DEF SumUp, At, Goto, TypeInv
<1>3. ~Locked /\ \A v \in Workers \ {w} : pc[v] \in {"absent", "prepare", "wait"}
  BY <1>2, Stage DEF OwnPoints
<1>4. \A v \in Workers : pc'[v] \in {"absent", "prepare", "wait", "publish"}
  BY <1>2, <1>3
<1>5. ~Summed
  BY CombinePrepareInv DEF CombineStep
<1>6. \A v \in Workers : link'[v].row = 1
  BY <1>2, <1>3, <1>5 DEF EmptyInv
<1>7. \A v \in Workers : local[v].count = Len(input[v])
  BY <1>2, <1>3 DEF WorkerInv, WorkerOK, BuildPoints
<1>8. total \in Nat /\ table'.rows = [i \in 1 .. total |-> NoRow] /\ table'.built = (total > 0)
  BY <1>1 DEF Summary
<1>9. N' = total
  BY <1>8 DEF N
<1>10. ASSUME NEW v \in Workers PROVE registry'[v].row_count = local[v].count
  <2>1. registry[v] \in RegistrySet
    BY DEF TypeInv
  <2>2. registry' = [u \in Workers |-> [registry[u] EXCEPT !.row_count = local[u].count,
                                                          !.offset = registry'[u].offset]]
    BY <1>1 DEF Summary
  <2>3. registry'[v] = [registry[v] EXCEPT !.row_count = local[v].count,
                                           !.offset = registry'[v].offset]
    BY <2>2, Zenon
  <2> QED
    BY <2>1, <2>3 DEF RegistrySet
<1>11. \A v \in Workers :
           /\ registry'[v].offset + local[v].count <= total
           /\ \A u \in Workers : u < v =>
                 registry'[u].offset + local[u].count <= registry'[v].offset
  BY <1>1 DEF Summary
<1>12. \A i \in 1 .. total : \E v \in Workers : i - registry'[v].offset \in 1 .. local[v].count
  BY <1>1 DEF Summary
<1>13. \A v \in Workers : RangeOK(v)'
  BY <1>4, <1>6 DEF RangeOK
<1>14. \A v \in Workers :
           /\ registry'[v].row_count = Len(input'[v])
           /\ registry'[v].offset + registry'[v].row_count <= N'
           /\ \A u \in Workers : u < v =>
                 registry'[u].offset + registry'[u].row_count <= registry'[v].offset
  BY <1>2, <1>7, <1>9, <1>10, <1>11
<1>15. \A i \in 1 .. N' : \E v \in Workers :
           i - registry'[v].offset \in 1 .. registry'[v].row_count
  BY <1>9, <1>10, <1>12
<1>16. table'.built <=> N' > 0
  BY <1>8, <1>9
<1> QED
  BY <1>13, <1>14, <1>15, <1>16 DEF RangeInv

\* Each worker copies to its own range and links its own rows.
LEMMA OwnRangeInv ==
    ASSUME TypeInv, WorkerInv, PhaseInv, PrepareInv, EmptyInv, RangeInv, TableInv, NEW w \in Workers,
           \/ Prepare(w) \/ PublishPrepared(w) \/ AwaitPrepared(w)
           \/ CopyLocal(w) \/ ExchangeHead(w) \/ StoreLink(w)
    PROVE  RangeInv'
<1>1. SUFFICES ASSUME Summed' PROVE RangeInv'
  BY DEF RangeInv
<1>2. ~SumUp(w)
  BY DEF Prepare, PublishPrepared, AwaitPrepared, CopyLocal, ExchangeHead, StoreLink, SumUp, At
<1>3. Summed
  BY <1>1, <1>2, CombinePrepareInv DEF CombineStep
<1>4. /\ UNCHANGED <<input, registry>> /\ N' = N /\ table'.built = table.built
      /\ ~CopyLocal(w) => table'.rows = table.rows
      /\ ~CopyLocal(w) /\ ~ExchangeHead(w) /\ ~StoreLink(w) => UNCHANGED link
  BY OwnTable
<1>5. /\ pc \in [Workers -> Points] /\ link \in [Workers -> LinkSet] /\ link[w].row \in Nat
      /\ registry[w].row_count \in Nat /\ registry[w].offset \in Nat /\ N \in Nat
      /\ DOMAIN table.rows = 1 .. N
  BY WorkerFacts, TableFacts DEF TypeInv
<1>6. ASSUME NEW v \in Workers, NEW k \in 1 .. registry[v].row_count
      PROVE  /\ registry[v].offset + k \in 1 .. N
             /\ (registry[v].offset + k) - registry[v].offset = k
             /\ v # w => (registry[v].offset + k) - registry[w].offset \notin 1 .. registry[w].row_count
  <2>1. registry[v].offset \in Nat /\ registry[v].row_count \in Nat
          /\ registry[v].offset + registry[v].row_count <= N /\ N \in Nat
    BY <1>3, <1>5, WorkerFacts DEF RangeInv
  <2>2. registry[v].offset + k \in 1 .. N /\ (registry[v].offset + k) - registry[v].offset = k
          /\ registry[v].offset + k \in Nat
    BY <2>1
  <2>3. v # w => (registry[v].offset + k) - registry[w].offset \notin 1 .. registry[w].row_count
    BY <1>3, <2>2, OwnRows
  <2> QED
    BY <2>2, <2>3
<1>7. CASE Prepare(w) \/ PublishPrepared(w) \/ AwaitPrepared(w)
  <2>1. ~CopyLocal(w) /\ ~ExchangeHead(w) /\ ~StoreLink(w)
    BY <1>7 DEF Prepare, PublishPrepared, AwaitPrepared, CopyLocal, ExchangeHead, StoreLink, At
  <2>2. /\ pc[w] \in {"prepare", "publish", "wait"} /\ \A v \in Workers \ {w} : pc'[v] = pc[v]
        /\ pc'[w] \in {"sum", "wait", "copy"}
    BY <1>5, <1>7 DEF Prepare, PublishPrepared, AwaitPrepared, At, Goto
  <2>3. \A v \in Workers : RangeOK(v)
    BY <1>3 DEF RangeInv
  <2>4. ASSUME NEW v \in Workers PROVE RangeOK(v)'
    <3>1. RangeOK(v) /\ table'.rows = table.rows /\ link'[v] = link[v]
            /\ UNCHANGED <<registry, input>>
      BY <1>4, <2>1, <2>3
    <3>2. \A k : Row(v, k)' = Row(v, k)
      BY <1>4 DEF Row
    <3>3. CASE v = w
      BY <2>2, <3>1, <3>3 DEF RangeOK
    <3>4. CASE v # w
      <4>1. pc'[v] = pc[v]
        BY <2>2, <3>4
      <4> QED
        BY <3>1, <3>2, <4>1 DEF RangeOK
    <3> QED
      BY <3>3, <3>4
  <2> QED
    BY <1>3, <1>4, <2>4 DEF RangeInv
<1>8. CASE CopyLocal(w)
  <2>1. pc[w] = "copy" /\ UNCHANGED link /\ \A v \in Workers \ {w} : pc'[v] = pc[v]
    BY <1>5, <1>8 DEF CopyLocal, At, Goto
  <2>2. pc'[w] = IF registry[w].row_count = 0 THEN "combined" ELSE "exchange"
    BY <1>5, <1>8 DEF CopyLocal, Goto
  <2> DEFINE rows == [i \in DOMAIN table.rows |->
                          IF i - registry[w].offset \in 1 .. registry[w].row_count
                          THEN Row(w, i - registry[w].offset) ELSE table.rows[i]]
  <2>3. table' = [table EXCEPT !.rows = rows]
    BY <1>8 DEF CopyLocal
  <2>4. \A i \in 1 .. N : rows[i] = IF i - registry[w].offset \in 1 .. registry[w].row_count
                                    THEN Row(w, i - registry[w].offset) ELSE table.rows[i]
    BY <1>5
  <2> HIDE DEF rows
  <2>5. table'.rows = rows
    BY <2>3 DEF TypeInv
  <2>6. ASSUME NEW v \in Workers PROVE RangeOK(v)'
    <3>1. RangeOK(v) /\ link'[v] = link[v]
      BY <1>3, <2>1 DEF RangeInv
    <3>2. \A k : Row(v, k)' = Row(v, k)
      BY <1>4 DEF Row
    <3>3. CASE v = w
      <4>1. \A k \in 1 .. registry[v].row_count : table'.rows[registry[v].offset + k] = Row(v, k)
        BY <1>6, <2>4, <2>5, <3>3
      <4>2. link'[v].row = 1
        BY <2>1, <3>1, <3>3 DEF RangeOK
      <4> QED
        BY <1>4, <1>5, <2>2, <3>2, <3>3, <4>1, <4>2 DEF RangeOK
    <3>4. CASE v # w
      <4>1. pc'[v] = pc[v]
        BY <2>1, <3>4
      <4>2. \A k \in 1 .. registry[v].row_count :
                table'.rows[registry[v].offset + k] = table.rows[registry[v].offset + k]
        BY <1>6, <2>4, <2>5, <3>4
      <4> QED
        BY <1>4, <3>1, <3>2, <4>1, <4>2 DEF RangeOK
    <3> QED
      BY <3>3, <3>4
  <2> QED
    BY <1>3, <1>4, <2>6 DEF RangeInv
<1>9. CASE ExchangeHead(w) \/ StoreLink(w)
  <2>1. /\ pc[w] \in {"exchange", "store"} /\ \A v \in Workers \ {w} : pc'[v] = pc[v]
        /\ \A v \in Workers \ {w} : link'[v] = link[v]
    BY <1>5, <1>9 DEF ExchangeHead, StoreLink, At, Goto
  <2>2. ~CopyLocal(w) /\ table'.rows = table.rows
    BY <1>4, <2>1 DEF CopyLocal, At
  <2>3. /\ pc'[w] \in {"exchange", "store", "combined"}
        /\ pc'[w] \in {"exchange", "store"} => link'[w].row <= registry[w].row_count
        /\ pc'[w] = "combined" => link'[w].row = registry[w].row_count + 1
    <3>1. link[w].row <= registry[w].row_count /\ link[w] \in LinkSet
      BY <1>3, <1>5, <2>1 DEF RangeInv, RangeOK
    <3>2. CASE ExchangeHead(w)
      <4>1. link' = [link EXCEPT ![w].old = table.heads[LinkBucket(w)]]
        BY <3>2 DEF ExchangeHead
      <4>2. link'[w].row = link[w].row
        BY <1>5, <3>1, <4>1 DEF LinkSet
      <4>3. pc'[w] = "store"
        BY <1>5, <3>2 DEF ExchangeHead, Goto
      <4> QED
        BY <3>1, <4>2, <4>3
    <3>3. CASE StoreLink(w)
      <4>1. link' = [link EXCEPT ![w].row = link[w].row + 1]
        BY <3>3 DEF StoreLink
      <4>2. link'[w].row = link[w].row + 1
        BY <1>5, <3>1, <4>1 DEF LinkSet
      <4>3. pc'[w] = IF link[w].row < registry[w].row_count THEN "exchange" ELSE "combined"
        BY <1>5, <3>3 DEF StoreLink, Goto
      <4> QED
        BY <1>5, <3>1, <4>2, <4>3
    <3> QED
      BY <1>9, <3>2, <3>3
  <2>4. ASSUME NEW v \in Workers PROVE RangeOK(v)'
    <3>1. RangeOK(v)
      BY <1>3 DEF RangeInv
    <3>2. \A k : Row(v, k)' = Row(v, k)
      BY <1>4 DEF Row
    <3>3. CASE v = w
      BY <1>4, <2>1, <2>2, <2>3, <3>1, <3>2, <3>3 DEF RangeOK
    <3>4. CASE v # w
      <4>1. pc'[v] = pc[v] /\ link'[v] = link[v]
        BY <2>1, <3>4
      <4> QED
        BY <1>4, <2>2, <3>1, <3>2, <4>1 DEF RangeOK
    <3> QED
      BY <3>3, <3>4
  <2> QED
    BY <1>3, <1>4, <2>4 DEF RangeInv
<1> QED
  BY <1>7, <1>8, <1>9

\* FINALIZE finds the table built where it was prepared.
LEMMA EndTable ==
    ASSUME TypeInv, RangeInv, TableInv, Finalize \/ ProbeStep \/ Release
    PROVE  /\ table'.rows = table.rows /\ N' = N
           /\ table.built => UNCHANGED table
           /\ Summed => UNCHANGED table
           /\ payload'.row_capacity = payload.row_capacity /\ payload'.prepare = payload.prepare
           /\ ~Finalize => /\ UNCHANGED table
                           /\ payload'.hash_capacity = payload.hash_capacity
<1>1. table = [rows |-> table.rows, built |-> table.built, heads |-> table.heads,
               links |-> table.links] /\ payload \in PayloadSet
  BY DEF TypeInv
<1>2. CASE Finalize
  <2>1. table' = table \/ \E heads, links :
            table' = [table EXCEPT !.built = TRUE, !.heads = heads, !.links = links]
    BY <1>2 DEF Finalize
  <2>2. table'.rows = table.rows
    BY <1>1, <2>1
  <2>3. ~(N > 0 /\ ~table.built) => UNCHANGED table
    BY <1>2 DEF Finalize, N
  <2>4. Summed => (table.built <=> N > 0)
    BY DEF RangeInv
  <2>5. \E x : payload' = [payload EXCEPT !.finalized = TRUE, !.hash_capacity = x]
    BY <1>2 DEF Finalize
  <2>6. payload'.row_capacity = payload.row_capacity /\ payload'.prepare = payload.prepare
    BY <1>1, <2>5 DEF PayloadSet
  <2> QED
    BY <1>2, <2>2, <2>3, <2>4, <2>6 DEF N
<1>3. CASE ProbeStep
  <2>1. UNCHANGED <<payload, table>>
    BY <1>3, EndFrame DEF buildVars
  <2>2. ~Finalize
    BY <1>3 DEF Finalize, ProbeStep, Execute, ProbeRow, MatchRow, EndRow, Return, EndProbe
  <2> QED
    BY <2>1, <2>2 DEF N
<1>4. CASE Release
  <2>1. UNCHANGED table /\ payload' = [payload EXCEPT !.release_state = 2]
    BY <1>4 DEF Release
  <2>2. ~Finalize
    BY <1>4 DEF Finalize, Release
  <2> QED
    BY <1>1, <2>1, <2>2 DEF N, PayloadSet
<1> QED
  BY <1>2, <1>3, <1>4

\* Later steps leave prepared rows alone.
LEMMA EndRangeInv ==
    ASSUME TypeInv, PhaseInv, PrepareInv, EmptyInv, RangeInv, TableInv, ProbeInv,
           Finalize \/ ProbeStep \/ Release
    PROVE  RangeInv'
<1>1. SUFFICES ASSUME Summed' PROVE RangeInv'
  BY DEF RangeInv
<1>2. Summed
  BY <1>1, EndPrepareInv
<1>3. UNCHANGED <<input, pc, registry, link, table>> /\ N' = N
  BY <1>2, EndFrame, EndTable
<1>4. \A v \in Workers : RangeOK(v)' <=> RangeOK(v)
  BY <1>3 DEF RangeOK, Row
<1> QED
  BY <1>2, <1>3, <1>4 DEF RangeInv

\* The table's functions, without the rows it holds.
LEMMA InitTableInv ==
    ASSUME Init, TypeInv
    PROVE  TableInv
<1>1. /\ table = [rows |-> <<>>, built |-> FALSE, heads |-> <<>>, links |-> <<>>]
      /\ probe.pc = "build" /\ probe.build = 0 /\ payload.row_capacity \in Nat
  BY TableFacts DEF Init, None
<1>2. N = 0 /\ ~table.built /\ DOMAIN table.links = {}
  BY <1>1 DEF N
<1> QED
  BY <1>1, <1>2 DEF TableInv

\* The build leaves the table alone.
LEMMA BuildTableInv ==
    ASSUME TableInv, NEW w \in Workers, GetLocalSinkState(w) \/ SinkRow(w) \/ StartCombine
    PROVE  TableInv' /\ N' = N
<1>1. UNCHANGED <<payload, table, probe>>
  BY DEF GetLocalSinkState, SinkRow, StartCombine, probeVars
<1> QED
  BY <1>1 DEF TableInv, N

\* The combine without locks: heads and links are rows of the table.
LEMMA OwnTableInv ==
    ASSUME TypeInv, WorkerInv, PhaseInv, PrepareInv, EmptyInv, RangeInv, TableInv, ChainInv,
           NEW w \in Workers,
           \/ Prepare(w) \/ SumUp(w) \/ PublishPrepared(w) \/ AwaitPrepared(w)
           \/ CopyLocal(w) \/ ExchangeHead(w) \/ StoreLink(w)
    PROVE  TableInv'
<1>1. probe.pc = "build" /\ N \in Nat
  BY CombinePhaseInv, TableFacts DEF CombineStep
<1>2. CASE SumUp(w)
  <2>1. PICK total, hash : Summary(w, total, hash)
    BY <1>2, SumUpComputes
  <2>2. /\ total \in Nat /\ hash = IF total > 0 THEN HashCapacity(total) ELSE 0
        /\ table' = [rows |-> [i \in 1 .. total |-> NoRow], links |-> [i \in 1 .. total |-> None],
                     heads |-> [b \in 0 .. hash - 1 |-> None], built |-> total > 0]
        /\ UNCHANGED probe
    BY <2>1 DEF Summary, probeVars
  <2>3. N' = total /\ table'.built = (total > 0)
    BY <2>2 DEF N
  <2>4. payload'.hash_capacity = hash /\ total <= payload'.row_capacity
    <3>1. payload' = [payload EXCEPT
                         !.combined_rows = total,
                         !.row_capacity = IF total > payload.row_capacity THEN total
                                          ELSE payload.row_capacity,
                         !.hash_capacity = hash]
      BY <2>1 DEF Summary
    <3>2. payload'.hash_capacity = hash
            /\ payload'.row_capacity = IF total > payload.row_capacity THEN total
                                       ELSE payload.row_capacity
      BY <3>1 DEF TypeInv, PayloadSet
    <3> QED
      BY <2>2, <3>2, TableFacts
  <2>5. table'.heads \in [0 .. hash - 1 -> 0 .. total] /\ table'.links \in [1 .. total -> 0 .. total]
    BY <2>2 DEF None
  <2>6. total = 0 => DOMAIN table'.links = {}
    BY <2>5
  <2>7. probe'.build \in 0 .. total
    <3>1. ~Summed /\ ~Locked
      BY <1>2, CombinePrepareInv, Stage DEF CombineStep, SumUp, At, OwnPoints
    <3>2. N = 0
      BY <3>1 DEF EmptyInv, N
    <3> QED
      BY <2>2, <3>2 DEF TableInv
  <2>8. table'.built => /\ payload'.hash_capacity = HashCapacity(N') /\ N' > 0
                        /\ table'.heads \in [0 .. payload'.hash_capacity - 1 -> 0 .. N']
                        /\ table'.links \in [1 .. N' -> 0 .. N']
    BY <2>2, <2>3, <2>4, <2>5
  <2>9. ~table'.built => DOMAIN table'.links = {}
    <3>1. total \in Nat /\ (~table'.built => ~(total > 0))
      BY <2>2, <2>3, Zenon
    <3>2. ~table'.built => total = 0
      BY <3>1
    <3> QED
      BY <2>6, <3>2
  <2>10. N' <= payload'.row_capacity /\ probe'.pc = "build" /\ probe'.build \in 0 .. N'
    BY <1>1, <2>2, <2>3, <2>4, <2>7
  <2> QED
    BY <2>8, <2>9, <2>10 DEF TableInv
<1>3. CASE ~SumUp(w)
  <2>1. /\ N' = N /\ table'.built = table.built /\ UNCHANGED probe
        /\ payload'.hash_capacity = payload.hash_capacity
        /\ payload'.row_capacity = payload.row_capacity
        /\ ~ExchangeHead(w) => table'.heads = table.heads
        /\ ~StoreLink(w) => table'.links = table.links
    BY <1>3, OwnTable
  <2>2. ExchangeHead(w) \/ StoreLink(w) =>
            pc[w] \in {"exchange", "store"} /\ table.built /\ GlobalIndex(w) \in 1 .. N
    BY OwnRange DEF ExchangeHead, StoreLink, At
  <2>3. table.built => table'.heads \in [0 .. payload.hash_capacity - 1 -> 0 .. N]
    <3>1. SUFFICES ASSUME table.built, ExchangeHead(w)
                   PROVE  table'.heads \in [0 .. payload.hash_capacity - 1 -> 0 .. N]
      BY <2>1 DEF TableInv
    <3>2. table' = [table EXCEPT !.heads[LinkBucket(w)] = GlobalIndex(w)]
      BY <3>1 DEF ExchangeHead
    <3>3. table'.heads = [table.heads EXCEPT ![LinkBucket(w)] = GlobalIndex(w)]
      BY <3>2 DEF TypeInv
    <3>4. GlobalIndex(w) \in 0 .. N
      BY <1>1, <2>2, <3>1
    <3> QED
      BY <3>1, <3>3, <3>4 DEF TableInv
  <2>4. table.built => table'.links \in [1 .. N -> 0 .. N]
    <3>1. SUFFICES ASSUME table.built, StoreLink(w)
                   PROVE  table'.links \in [1 .. N -> 0 .. N]
      BY <2>1 DEF TableInv
    <3>2. table' = [table EXCEPT !.links[GlobalIndex(w)] = link[w].old]
      BY <3>1 DEF StoreLink
    <3>3. table'.links = [table.links EXCEPT ![GlobalIndex(w)] = link[w].old]
      BY <3>2 DEF TypeInv
    <3>4. link[w].old \in 0 .. N
      <4>1. PICK rank \in [1 .. N -> Nat], clock \in Nat : Ordered(rank, clock)
        BY <3>1 DEF ChainInv
      <4>2. pc[w] = "store"
        BY <3>1 DEF StoreLink, At
      <4> DEFINE T == Below(HungIn(BucketOf(GlobalIndex(w))), rank, rank[GlobalIndex(w)])
      <4>3. Greatest(T, rank, link[w].old)
        BY <4>1, <4>2 DEF Ordered
      <4>4. T \subseteq 1 .. N
        BY DEF Below, HungIn, Hung
      <4> HIDE DEF T
      <4>5. link[w].old = None \/ link[w].old \in 1 .. N
        BY <4>3, <4>4 DEF Greatest
      <4> QED
        BY <1>1, <4>5 DEF None
    <3> QED
      BY <3>1, <3>3, <3>4 DEF TableInv
  <2>5. ~table.built => DOMAIN table'.links = {}
    BY <2>1, <2>2 DEF TableInv
  <2> QED
    BY <1>1, <2>1, <2>3, <2>4, <2>5 DEF TableInv
<1> QED
  BY <1>2, <1>3

\* The combine under the lock appends within the capacity.
LEMMA LockTableInv ==
    ASSUME TypeInv, WorkerInv, PhaseInv, PrepareInv, EmptyInv, TableInv, NEW w \in Workers,
           \/ BeginBatch(w) \/ LockBatch(w) \/ AppendRow(w)
           \/ AppendFails(w) \/ UnlockBatch(w) \/ EndBatches(w)
    PROVE  TableInv' /\ ~table'.built /\ N <= N'
<1>1. probe.pc = "build" /\ N \in Nat /\ UNCHANGED probe
  BY CombinePhaseInv, TableFacts
     DEF CombineStep, BeginBatch, LockBatch, AppendRow, AppendFails,
         UnlockBatch, EndBatches, probeVars
<1>2. ~table.built
  <2>1. ~Summed
    <3>1. payload.prepare = 0 /\ \A v \in Workers : pc[v] \notin OwnPoints \ {"prepare"}
      <4>1. pc[w] \in LockPoints
        BY LockMoves
      <4> QED
        BY <4>1, Stage DEF PrepareInv
    <3> QED
      BY <3>1 DEF Summed, OwnPoints
  <2> QED
    BY <1>1, <2>1 DEF EmptyInv
<1>3. table = [rows |-> table.rows, built |-> table.built, heads |-> table.heads,
               links |-> table.links] /\ payload \in PayloadSet /\ table.rows \in Seq(RowSet)
  BY DEF TypeInv
<1>4. CASE BeginBatch(w) \/ LockBatch(w) \/ UnlockBatch(w) \/ EndBatches(w)
  <2>1. UNCHANGED table
    BY <1>4 DEF BeginBatch, LockBatch, UnlockBatch, EndBatches
  <2>2. payload' = payload \/ \E x : payload' = [payload EXCEPT !.mutex = x]
    BY <1>4 DEF BeginBatch, LockBatch, UnlockBatch, EndBatches
  <2>3. payload'.row_capacity = payload.row_capacity
    BY <1>3, <2>2 DEF PayloadSet
  <2> QED
    BY <1>1, <1>2, <2>1, <2>3 DEF TableInv, N
<1>5. CASE AppendRow(w) \/ AppendFails(w)
  <2>1. payload' = [payload EXCEPT !.row_capacity = GlobalGrown]
    BY <1>5 DEF AppendRow, AppendFails
  <2>2. payload'.row_capacity = GlobalGrown
    BY <1>3, <2>1 DEF PayloadSet
  <2>3. N + 1 <= GlobalGrown
    <3>1. payload.row_capacity \in Nat \ {0} /\ N <= payload.row_capacity
      BY TableFacts DEF TableInv
    <3>2. GlobalGrown = IF N = payload.row_capacity THEN 2 * payload.row_capacity
                        ELSE payload.row_capacity
      BY DEF GlobalGrown, N
    <3> QED
      BY <1>1, <3>1, <3>2
  <2>4. Row(w, link[w].row) \in RowSet
    <3>1. pc[w] = "append"
      BY <1>5 DEF AppendRow, AppendFails, At
    <3>2. link[w].row \in 1 .. Len(input[w])
      BY <3>1, WorkerFacts DEF WorkerInv, WorkerOK, BuildPoints
    <3> QED
      BY <3>2, WorkerFacts
  <2>5. PICK rows \in Seq(RowSet) : /\ table' = [table EXCEPT !.rows = rows]
                                    /\ Len(rows) <= GlobalGrown /\ N <= Len(rows)
    <3>1. CASE AppendRow(w)
      <4> DEFINE more == AppendedRows(Row(w, link[w].row))
      <4>1. table' = [table EXCEPT !.rows = table.rows \o more]
              /\ Len(table.rows) + Len(more) <= GlobalGrown
        BY <3>1 DEF AppendRow
      <4>2. more \in Seq(RowSet) /\ Len(more) \in Nat
        BY <2>4, AppendedType
      <4> HIDE DEF more
      <4>3. table.rows \o more \in Seq(RowSet) /\ Len(table.rows \o more) = Len(table.rows) + Len(more)
        BY <1>3, <4>2
      <4>4. Len(table.rows \o more) <= GlobalGrown /\ N <= Len(table.rows \o more)
        BY <1>1, <4>1, <4>2, <4>3 DEF N
      <4> QED
        BY <4>1, <4>3, <4>4
    <3>2. CASE AppendFails(w)
      <4>1. table' = [table EXCEPT !.rows = Append(table.rows, Row(w, link[w].row))]
        BY <3>2 DEF AppendFails
      <4>2. /\ Append(table.rows, Row(w, link[w].row)) \in Seq(RowSet)
            /\ Len(Append(table.rows, Row(w, link[w].row))) = N + 1
        BY <1>3, <2>4 DEF N
      <4>3. /\ Len(Append(table.rows, Row(w, link[w].row))) <= GlobalGrown
            /\ N <= Len(Append(table.rows, Row(w, link[w].row)))
        BY <1>1, <2>3, <4>2
      <4> QED
        BY <4>1, <4>2, <4>3
    <3> QED
      BY <1>5, <3>1, <3>2
  <2>6. table'.rows = rows /\ table'.built = table.built /\ table'.links = table.links
    BY <1>3, <2>5
  <2>7. N' = Len(rows) /\ Len(rows) \in Nat
    BY <2>5, <2>6 DEF N
  <2>8. probe'.build \in 0 .. N'
    BY <1>1, <2>5, <2>7 DEF TableInv
  <2> QED
    BY <1>1, <1>2, <2>2, <2>5, <2>6, <2>7, <2>8 DEF TableInv
<1> QED
  BY <1>4, <1>5

------------------------------------------------------------------------------
(* The chains. *)

\* Steps that leave the table and what hangs in it alone.
LEMMA SameChains ==
    ASSUME TypeInv, ChainInv, UNCHANGED table, payload'.hash_capacity = payload.hash_capacity,
           \A v \in Workers : /\ registry'[v].offset = registry[v].offset
                              /\ link'[v] = link[v]
                              /\ pc'[v] = "store" <=> pc[v] = "store",
           probe'.pc = "build" <=> probe.pc = "build"
    PROVE  ChainInv'
<1>1. SUFFICES ASSUME table.built PROVE ChainInv'
  BY DEF ChainInv
<1>2. PICK rank \in [1 .. N -> Nat], clock \in Nat : Ordered(rank, clock)
  BY <1>1 DEF ChainInv
<1>3. N' = N
  BY DEF N
<1>4. Hung' = Hung
  <2>1. ASSUME NEW v \in Workers, NEW i
        PROVE  (i - registry[v].offset \in 1 .. link[v].row - (IF pc[v] = "store" THEN 0 ELSE 1))'
                  <=> i - registry[v].offset \in 1 .. link[v].row - (IF pc[v] = "store" THEN 0 ELSE 1)
    OBVIOUS
  <2> QED
    BY <1>3, <2>1 DEF Hung
<1>5. \A i : BucketOf(i)' = BucketOf(i)
  BY DEF BucketOf
<1>6. \A b : HungIn(b)' = HungIn(b)
  BY <1>4, <1>5 DEF HungIn
<1>7. \A v \in Workers : GlobalIndex(v)' = GlobalIndex(v)
  BY DEF GlobalIndex
<1>8. \A i : Storing(i)' <=> Storing(i)
  BY <1>7 DEF Storing
<1>9. Ordered(rank, clock)'
  BY <1>2, <1>4, <1>5, <1>6, <1>7, <1>8 DEF Ordered
<1> QED
  BY <1>3, <1>9 DEF ChainInv

\* There are no chains at the start.
LEMMA InitChainInv ==
    ASSUME Init
    PROVE  ChainInv
  BY DEF Init, ChainInv

\* Nor in the build.
LEMMA BuildChainInv ==
    ASSUME TypeInv, PhaseInv, ChainInv, NEW w \in Workers,
           GetLocalSinkState(w) \/ SinkRow(w) \/ StartCombine
    PROVE  ChainInv'
<1>1. /\ UNCHANGED <<table, payload, link, probe>> /\ pc \in [Workers -> Points]
      /\ registry \in [Workers -> RegistrySet]
  BY DEF GetLocalSinkState, SinkRow, StartCombine, probeVars, TypeInv
<1>2. \A v \in Workers : registry'[v].offset = registry[v].offset
  <2>1. registry' = registry \/ \E x : registry' = [registry EXCEPT ![w].capacity = x]
    BY DEF GetLocalSinkState, SinkRow, StartCombine
  <2> QED
    BY <1>1, <2>1 DEF RegistrySet
<1>3. \A v \in Workers : pc'[v] # "store" /\ pc[v] # "store"
  <2>1. \E u \in Workers : pc[u] \in BuildPoints
    BY DEF GetLocalSinkState, SinkRow, StartCombine, Participants, At, BuildPoints
  <2>2. \A v \in Workers : pc[v] \in BuildPoints \cup {"absent"}
    BY <2>1 DEF PhaseInv
  <2>3. \/ pc' = pc \/ pc' = [pc EXCEPT ![w] = "sink"]
        \/ \A v \in Workers : pc'[v] \in {"absent", "batch", "prepare"}
    BY DEF GetLocalSinkState, SinkRow, StartCombine, Goto
  <2> QED
    BY <1>1, <2>2, <2>3 DEF BuildPoints
<1> QED
  BY <1>1, <1>2, <1>3, SameChains

\* Rows hang in the ranges of the workers only, after the preparation.
LEMMA HungRange ==
    ASSUME TypeInv, WorkerInv, PrepareInv, RangeInv, Summed, NEW v \in Workers, NEW i \in Nat,
           i - registry[v].offset \in 1 .. link[v].row - (IF pc[v] = "store" THEN 0 ELSE 1)
    PROVE  /\ i - registry[v].offset \in 1 .. registry[v].row_count
           /\ pc[v] \in {"exchange", "store", "combined"}
           /\ i \in 1 .. N
<1>1. /\ link[v].row \in Nat \ {0} /\ registry[v].row_count \in Nat /\ registry[v].offset \in Nat
      /\ pc[v] \in Points /\ N \in Nat
  BY WorkerFacts, TableFacts
<1>2. payload.prepare # 0 /\ pc[v] # "sum"
  <2>1. CASE payload.prepare = 2
    BY <2>1 DEF PrepareInv
  <2>2. CASE payload.prepare # 2
    <3>1. PICK u \in Workers : pc[u] = "publish"
      BY <2>2 DEF Summed
    <3>2. payload.prepare = 1 /\ \A x \in Workers \ {u} : pc[x] \in {"absent", "prepare", "wait"}
      BY <3>1, Stage
    <3> QED
      BY <3>1, <3>2
  <2> QED
    BY <2>1, <2>2
<1>3. pc[v] \in OwnPoints \cup {"absent", "combined"} /\ pc[v] # "sum"
  BY <1>2, Stage DEF PrepareInv
<1>4. RangeOK(v) /\ registry[v].offset + registry[v].row_count <= N
  BY DEF RangeInv
<1>5. CASE pc[v] \in {"exchange", "store"}
  <2>1. link[v].row <= registry[v].row_count
    BY <1>4, <1>5 DEF RangeOK
  <2> QED
    BY <1>1, <1>4, <1>5, <2>1
<1>6. CASE pc[v] = "combined"
  <2>1. link[v].row = registry[v].row_count + 1
    BY <1>4, <1>6 DEF RangeOK
  <2> QED
    BY <1>1, <1>4, <1>6, <2>1
<1>7. CASE pc[v] \in {"absent", "prepare", "wait", "publish", "copy"}
  <2>1. link[v].row = 1 /\ pc[v] # "store"
    BY <1>4, <1>7 DEF RangeOK
  <2> QED
    BY <1>1, <2>1
<1> QED
  BY <1>3, <1>5, <1>6, <1>7 DEF OwnPoints

\* SumUp hangs no row.
LEMMA SumUpChainInv ==
    ASSUME TypeInv, WorkerInv, PhaseInv, PrepareInv, EmptyInv, RangeInv, TableInv, NEW w \in Workers,
           SumUp(w), TypeInv', PhaseInv', PrepareInv', RangeInv', WorkerInv'
    PROVE  ChainInv'
<1>1. PICK total, hash : Summary(w, total, hash)
  BY SumUpComputes
<1>2. table' = [rows |-> [i \in 1 .. total |-> NoRow], links |-> [i \in 1 .. total |-> None],
                heads |-> [b \in 0 .. hash - 1 |-> None], built |-> total > 0]
      /\ total \in Nat
  BY <1>1 DEF Summary
<1>3. Summed' /\ probe.pc = "build" /\ UNCHANGED probe
  BY CombinePrepareInv, CombinePhaseInv DEF CombineStep, SumUp, probeVars
<1>4. \A v \in Workers : pc'[v] \in {"absent", "prepare", "wait", "publish"}
  <2>1. pc[w] = "sum" /\ pc' = [pc EXCEPT ![w] = "publish"] /\ pc \in [Workers -> Points]
    BY DEF SumUp, At, Goto, TypeInv
  <2>2. \A v \in Workers \ {w} : pc[v] \in {"absent", "prepare", "wait"}
    BY <2>1, Stage
  <2> QED
    BY <2>1, <2>2
<1>5. \A v \in Workers : link'[v].row = 1
  BY <1>3, <1>4 DEF RangeInv, RangeOK
<1>6. Hung' = {}
  BY <1>3, <1>4, <1>5 DEF Hung
<1>7. \A b : HungIn(b)' = {}
  BY <1>6 DEF HungIn
<1>8. \A b \in DOMAIN table'.heads : table'.heads[b] = None
  BY <1>2
<1>9. PICK rank \in [1 .. N' -> Nat] : TRUE
  <2>1. [i \in 1 .. N' |-> 0] \in [1 .. N' -> Nat]
    OBVIOUS
  <2> QED
    BY <2>1
<1>10. Ordered(rank, 0)'
  BY <1>4, <1>6, <1>7, <1>8 DEF Ordered, Greatest
<1> QED
  BY <1>10 DEF ChainInv

\* A row whose link is due hangs.
LEMMA StoringHangs ==
    ASSUME TypeInv, PrepareInv, RangeInv, TableInv, NEW v \in Workers, pc[v] = "store"
    PROVE  GlobalIndex(v) \in Hung
<1>1. GlobalIndex(v) \in 1 .. N /\ link[v].row \in Nat \ {0} /\ registry[v].offset \in Nat
  BY OwnRange, WorkerFacts
<1>2. GlobalIndex(v) - registry[v].offset \in 1 .. link[v].row - 0
  <2>1. \A a \in Nat, b \in Nat \ {0} : (a + b) - a \in 1 .. b - 0
    OBVIOUS
  <2> QED
    BY <1>1, <2>1 DEF GlobalIndex
<1> QED
  BY <1>1, <1>2 DEF Hung

\* CopyLocal writes rows that do not hang yet.
LEMMA CopyChainInv ==
    ASSUME TypeInv, WorkerInv, PhaseInv, PrepareInv, EmptyInv, RangeInv, TableInv, ChainInv,
           NEW w \in Workers, CopyLocal(w)
    PROVE  ChainInv'
<1>1. SUFFICES ASSUME table'.built PROVE ChainInv'
  BY DEF ChainInv
<1>2. pc[w] = "copy" /\ pc \in [Workers -> Points] /\ UNCHANGED <<link, probe>>
  BY DEF CopyLocal, At, TypeInv, probeVars
<1>3. Summed /\ link[w].row = 1
  <2>1. Summed
    BY <1>2, OwnRange
  <2> QED
    BY <1>2, <2>1 DEF RangeInv, RangeOK
<1>4. /\ UNCHANGED registry /\ N' = N /\ table'.built = table.built
      /\ payload'.hash_capacity = payload.hash_capacity
      /\ table'.heads = table.heads /\ table'.links = table.links
  <2>1. ~ExchangeHead(w) /\ ~StoreLink(w)
    BY <1>2 DEF ExchangeHead, StoreLink, At
  <2> QED
    BY <2>1, OwnTable
<1>5. PICK rank \in [1 .. N -> Nat], clock \in Nat : Ordered(rank, clock)
  BY <1>1, <1>4 DEF ChainInv
<1>6. \A v \in Workers : pc'[v] = "store" <=> pc[v] = "store"
  <2>1. \E p \in {"exchange", "combined"} : pc' = [pc EXCEPT ![w] = p]
    BY DEF CopyLocal, Goto
  <2> QED
    BY <1>2, <2>1
<1>7. Hung' = Hung
  <2>1. ASSUME NEW v \in Workers, NEW i
        PROVE  (i - registry[v].offset \in 1 .. link[v].row - (IF pc[v] = "store" THEN 0 ELSE 1))'
                  <=> i - registry[v].offset \in 1 .. link[v].row - (IF pc[v] = "store" THEN 0 ELSE 1)
    BY <1>2, <1>4, <1>6
  <2> QED
    BY <1>2, <1>4, <2>1 DEF Hung
<1>8. probe.pc = "build"
  BY CombinePhaseInv DEF CombineStep
<1>9. \A i \in 1 .. N : i - registry[w].offset \notin 1 .. registry[w].row_count =>
          table'.rows[i] = table.rows[i]
  <2> DEFINE rows == [i \in DOMAIN table.rows |->
                          IF i - registry[w].offset \in 1 .. registry[w].row_count
                          THEN Row(w, i - registry[w].offset) ELSE table.rows[i]]
  <2>1. table' = [table EXCEPT !.rows = rows]
    BY DEF CopyLocal
  <2>2. \A i \in 1 .. N : i - registry[w].offset \notin 1 .. registry[w].row_count =>
            rows[i] = table.rows[i]
    BY TableFacts
  <2> HIDE DEF rows
  <2>3. table'.rows = rows
    BY <2>1 DEF TypeInv
  <2> QED
    BY <2>2, <2>3
<1>10. ASSUME NEW i \in Hung PROVE BucketOf(i)' = BucketOf(i)
  <2>1. i \in 1 .. N /\ i \in Nat
    BY TableFacts DEF Hung
  <2>2. PICK v \in Workers :
            i - registry[v].offset \in 1 .. link[v].row - (IF pc[v] = "store" THEN 0 ELSE 1)
    BY <1>8, <1>10 DEF Hung
  <2>3. v # w
    BY <1>2, <1>3, <2>2
  <2>4. i - registry[v].offset \in 1 .. registry[v].row_count
    BY <1>3, <2>1, <2>2, HungRange
  <2>5. i - registry[w].offset \notin 1 .. registry[w].row_count
    BY <1>3, <2>1, <2>3, <2>4, OwnRows
  <2> QED
    BY <1>4, <1>9, <2>1, <2>5 DEF BucketOf
<1>11. \A b : HungIn(b)' = HungIn(b)
  BY <1>7, <1>10 DEF HungIn
<1>12. \A v \in Workers : GlobalIndex(v)' = GlobalIndex(v)
  BY <1>2, <1>4 DEF GlobalIndex
<1>13. \A i : Storing(i)' <=> Storing(i)
  BY <1>6, <1>12 DEF Storing
<1>14. \A v \in Workers : pc[v] = "store" => GlobalIndex(v) \in Hung
  BY StoringHangs
<1>15. Ordered(rank, clock)'
  <2>1. \A i \in Hung : rank[i] < clock /\ \A j \in Hung : rank[i] = rank[j] => i = j
    BY <1>5 DEF Ordered
  <2>2. \A b \in DOMAIN table.heads : Greatest(HungIn(b), rank, table.heads[b])
    BY <1>5 DEF Ordered
  <2>3. \A v \in Workers : pc'[v] = "store" =>
            /\ Greatest(Below(HungIn(BucketOf(GlobalIndex(v))), rank, rank[GlobalIndex(v)]),
                        rank, link[v].old)
            /\ BucketOf(GlobalIndex(v))' = BucketOf(GlobalIndex(v))
    BY <1>5, <1>6, <1>10, <1>12, <1>14 DEF Ordered
  <2>4. \A i \in Hung : ~Storing(i) =>
            /\ Greatest(Below(HungIn(BucketOf(i)), rank, rank[i]), rank, table.links[i])
            /\ BucketOf(i)' = BucketOf(i)
    BY <1>5, <1>10 DEF Ordered
  <2> QED
    BY <1>2, <1>4, <1>7, <1>11, <1>12, <1>13, <2>1, <2>2, <2>3, <2>4 DEF Ordered
<1> QED
  BY <1>4, <1>15 DEF ChainInv

\* StoreLink gives the row the link that it was due.
LEMMA StoreChainInv ==
    ASSUME TypeInv, WorkerInv, PhaseInv, PrepareInv, EmptyInv, RangeInv, TableInv, ChainInv,
           NEW w \in Workers, StoreLink(w)
    PROVE  ChainInv'
<1>1. pc[w] = "store" /\ pc \in [Workers -> Points] /\ UNCHANGED probe
        /\ link \in [Workers -> LinkSet]
  BY DEF StoreLink, At, TypeInv, probeVars
<1>2. Summed /\ table.built /\ GlobalIndex(w) \in 1 .. N
  BY <1>1, OwnRange
<1>3. /\ UNCHANGED registry /\ N' = N /\ table'.built = table.built
      /\ payload'.hash_capacity = payload.hash_capacity
      /\ table'.heads = table.heads /\ table'.rows = table.rows
  <2>1. ~ExchangeHead(w) /\ ~CopyLocal(w)
    BY <1>1 DEF ExchangeHead, CopyLocal, At
  <2> QED
    BY <2>1, OwnTable
<1>4. PICK rank \in [1 .. N -> Nat], clock \in Nat : Ordered(rank, clock)
  BY <1>2 DEF ChainInv
<1>5. pc'[w] # "store" /\ \A v \in Workers \ {w} : pc'[v] = pc[v] /\ link'[v] = link[v]
  <2>1. \E p \in {"exchange", "combined"} : pc' = [pc EXCEPT ![w] = p]
    BY DEF StoreLink, Goto
  <2>2. link' = [link EXCEPT ![w].row = link[w].row + 1]
    BY DEF StoreLink
  <2> QED
    BY <1>1, <2>1, <2>2
<1>6. link'[w].row = link[w].row + 1
  <2>1. link' = [link EXCEPT ![w].row = link[w].row + 1]
    BY DEF StoreLink
  <2> QED
    BY <1>1, <2>1 DEF LinkSet
<1>7. table'.links = [table.links EXCEPT ![GlobalIndex(w)] = link[w].old]
  <2>1. table' = [table EXCEPT !.links[GlobalIndex(w)] = link[w].old]
    BY DEF StoreLink
  <2> QED
    BY <2>1 DEF TypeInv
<1>8. Hung' = Hung
  <2>1. ASSUME NEW v \in Workers, NEW i
        PROVE  (i - registry[v].offset \in 1 .. link[v].row - (IF pc[v] = "store" THEN 0 ELSE 1))'
                  <=> i - registry[v].offset \in 1 .. link[v].row - (IF pc[v] = "store" THEN 0 ELSE 1)
    <3>1. CASE v = w
      <4>1. link'[w].row - 1 = link[w].row - 0
        <5>1. link[w].row \in Nat
          BY WorkerFacts
        <5> QED
          BY <1>6, <5>1
      <4> QED
        BY <1>1, <1>3, <1>5, <3>1, <4>1
    <3>2. CASE v # w
      BY <1>3, <1>5, <3>2
    <3> QED
      BY <3>1, <3>2
  <2> QED
    BY <1>1, <1>3, <2>1 DEF Hung
<1>9. \A i : BucketOf(i)' = BucketOf(i)
  BY <1>3 DEF BucketOf
<1>10. \A b : HungIn(b)' = HungIn(b)
  BY <1>8, <1>9 DEF HungIn
<1>11. \A v \in Workers \ {w} : GlobalIndex(v)' = GlobalIndex(v)
  BY <1>3, <1>5 DEF GlobalIndex
<1>12. \A i : i # GlobalIndex(w) /\ ~Storing(i)' => ~Storing(i)
  BY <1>1, <1>5, <1>11 DEF Storing
<1>13. \A i \in Hung : ~Storing(i)' =>
           Greatest(Below(HungIn(BucketOf(i)), rank, rank[i]), rank, table'.links[i])
  <2>1. ASSUME NEW i \in Hung, ~Storing(i)'
        PROVE  Greatest(Below(HungIn(BucketOf(i)), rank, rank[i]), rank, table'.links[i])
    <3>1. i \in 1 .. N /\ table.links \in [1 .. N -> 0 .. N]
      BY <1>2 DEF Hung, TableInv
    <3>2. CASE i = GlobalIndex(w)
      <4>1. table'.links[i] = link[w].old
        BY <1>7, <3>1, <3>2
      <4> QED
        BY <1>1, <1>4, <3>2, <4>1 DEF Ordered
    <3>3. CASE i # GlobalIndex(w)
      <4>1. table'.links[i] = table.links[i] /\ ~Storing(i)
        BY <1>7, <1>12, <2>1, <3>1, <3>3
      <4> QED
        BY <1>4, <4>1 DEF Ordered
    <3> QED
      BY <3>2, <3>3
  <2> QED
    BY <2>1
<1>14. \A v \in Workers : pc'[v] = "store" =>
           Greatest(Below(HungIn(BucketOf(GlobalIndex(v))), rank, rank[GlobalIndex(v)]),
                    rank, link[v].old)
         /\ GlobalIndex(v)' = GlobalIndex(v) /\ link'[v] = link[v]
  BY <1>4, <1>5, <1>11 DEF Ordered
<1>15. Ordered(rank, clock)'
  <2>1. \A i \in Hung : rank[i] < clock /\ \A j \in Hung : rank[i] = rank[j] => i = j
    BY <1>4 DEF Ordered
  <2>2. \A b \in DOMAIN table.heads : Greatest(HungIn(b), rank, table.heads[b])
    BY <1>4 DEF Ordered
  <2> QED
    BY <1>3, <1>8, <1>9, <1>10, <1>13, <1>14, <2>1, <2>2 DEF Ordered
<1> QED
  BY <1>3, <1>15 DEF ChainInv

\* ExchangeHead hangs its row before all others of the bucket.
LEMMA ExchangeChainInv ==
    ASSUME TypeInv, WorkerInv, PhaseInv, PrepareInv, EmptyInv, RangeInv, TableInv, ChainInv,
           NEW w \in Workers, ExchangeHead(w)
    PROVE  ChainInv'
<1> DEFINE g == GlobalIndex(w)
<1>1. pc[w] = "exchange" /\ pc \in [Workers -> Points] /\ UNCHANGED probe
        /\ link \in [Workers -> LinkSet] /\ N \in Nat
  BY TableFacts DEF ExchangeHead, At, TypeInv, probeVars
<1>2. Summed /\ table.built /\ g \in 1 .. N /\ LinkBucket(w) = BucketOf(g)
        /\ LinkBucket(w) \in DOMAIN table.heads
  BY <1>1, OwnRange
<1>3. /\ UNCHANGED registry /\ N' = N /\ table'.built = table.built
      /\ payload'.hash_capacity = payload.hash_capacity
      /\ table'.links = table.links /\ table'.rows = table.rows
  <2>1. ~StoreLink(w) /\ ~CopyLocal(w)
    BY <1>1 DEF StoreLink, CopyLocal, At
  <2> QED
    BY <2>1, OwnTable
<1>4. PICK rank \in [1 .. N -> Nat], clock \in Nat : Ordered(rank, clock)
  BY <1>2 DEF ChainInv
<1>5. /\ \A i \in Hung : rank[i] < clock /\ \A j \in Hung : rank[i] = rank[j] => i = j
      /\ \A b \in DOMAIN table.heads : Greatest(HungIn(b), rank, table.heads[b])
      /\ \A v \in Workers : pc[v] = "store" =>
            Greatest(Below(HungIn(BucketOf(GlobalIndex(v))), rank, rank[GlobalIndex(v)]),
                     rank, link[v].old)
      /\ \A i \in Hung : ~Storing(i) =>
            Greatest(Below(HungIn(BucketOf(i)), rank, rank[i]), rank, table.links[i])
  BY <1>4 DEF Ordered
<1>6. pc'[w] = "store" /\ \A v \in Workers \ {w} : pc'[v] = pc[v] /\ link'[v] = link[v]
  <2>1. pc' = [pc EXCEPT ![w] = "store"]
    BY DEF ExchangeHead, Goto
  <2>2. link' = [link EXCEPT ![w].old = table.heads[LinkBucket(w)]]
    BY DEF ExchangeHead
  <2> QED
    BY <1>1, <2>1, <2>2
<1>7. link'[w].row = link[w].row /\ link'[w].old = table.heads[BucketOf(g)]
  <2>1. link' = [link EXCEPT ![w].old = table.heads[LinkBucket(w)]]
    BY DEF ExchangeHead
  <2> QED
    BY <1>1, <1>2, <2>1 DEF LinkSet
<1>8. table'.heads = [table.heads EXCEPT ![BucketOf(g)] = g]
  <2>1. table' = [table EXCEPT !.heads[LinkBucket(w)] = g]
    BY DEF ExchangeHead
  <2> QED
    BY <1>2, <2>1 DEF TypeInv
<1>9. probe.pc = "build"
  BY CombinePhaseInv DEF CombineStep
<1>10. Hung' = Hung \cup {g} /\ g \notin Hung
  <2>1. link[w].row \in Nat \ {0} /\ registry[w].offset \in Nat
          /\ g = registry[w].offset + link[w].row
    BY WorkerFacts DEF GlobalIndex
  <2>2. ASSUME NEW i \in 1 .. N
        PROVE  (i - registry[w].offset \in 1 .. link[w].row - (IF pc[w] = "store" THEN 0 ELSE 1))'
                  <=> \/ i - registry[w].offset \in
                             1 .. link[w].row - (IF pc[w] = "store" THEN 0 ELSE 1)
                      \/ i = g
    <3>1. (i - registry[w].offset \in 1 .. link[w].row - (IF pc[w] = "store" THEN 0 ELSE 1))'
             <=> i - registry[w].offset \in 1 .. link[w].row - 0
      BY <1>3, <1>6, <1>7
    <3>2. i - registry[w].offset \in 1 .. link[w].row - (IF pc[w] = "store" THEN 0 ELSE 1)
             <=> i - registry[w].offset \in 1 .. link[w].row - 1
      BY <1>1
    <3>3. i - registry[w].offset \in 1 .. link[w].row - 0
             <=> i - registry[w].offset \in 1 .. link[w].row - 1 \/ i = g
      <4>1. \A a, c \in Nat, b \in Nat \ {0} :
                c - a \in 1 .. b - 0 <=> c - a \in 1 .. b - 1 \/ c = a + b
        OBVIOUS
      <4>2. i \in Nat
        BY <1>1
      <4> HIDE DEF g
      <4> QED
        BY <2>1, <4>1, <4>2
    <3> QED
      BY <3>1, <3>2, <3>3
  <2>3. ASSUME NEW i \in 1 .. N, NEW v \in Workers \ {w}
        PROVE  (i - registry[v].offset \in 1 .. link[v].row - (IF pc[v] = "store" THEN 0 ELSE 1))'
                  <=> i - registry[v].offset \in 1 .. link[v].row - (IF pc[v] = "store" THEN 0 ELSE 1)
    BY <1>3, <1>6
  <2>4. Hung' = {i \in 1 .. N : \/ i = g
                                \/ \E v \in Workers : i - registry[v].offset \in
                                      1 .. link[v].row - (IF pc[v] = "store" THEN 0 ELSE 1)}
    BY <1>1, <1>3, <1>9, <2>2, <2>3 DEF Hung
  <2>5. g \notin Hung
    <3>1. SUFFICES ASSUME g \in Hung PROVE FALSE
      OBVIOUS
    <3>2. PICK v \in Workers :
              g - registry[v].offset \in 1 .. link[v].row - (IF pc[v] = "store" THEN 0 ELSE 1)
      BY <1>9, <3>1 DEF Hung
    <3>3. g \in Nat
      BY <1>1, <1>2
    <3>4. g - registry[v].offset \in 1 .. registry[v].row_count
      BY <1>2, <3>2, <3>3, HungRange
    <3>5. g - registry[w].offset \in 1 .. registry[w].row_count
      <4>1. link[w].row <= registry[w].row_count
        BY <1>1, <1>2 DEF RangeInv, RangeOK
      <4> QED
        BY <2>1, <4>1, WorkerFacts
    <3>6. v = w
      BY <1>2, <3>3, <3>4, <3>5, OwnRows
    <3> QED
      BY <1>1, <2>1, <3>2, <3>6
  <2> QED
    BY <1>2, <1>9, <2>4, <2>5 DEF Hung
<1>11. \A i : BucketOf(i)' = BucketOf(i)
  BY <1>3 DEF BucketOf
<1>12. \A b : HungIn(b)' = IF b = BucketOf(g) THEN HungIn(b) \cup {g} ELSE HungIn(b)
  BY <1>10, <1>11 DEF HungIn
<1>13. \A v \in Workers : GlobalIndex(v)' = GlobalIndex(v)
  BY <1>3, <1>6, <1>7 DEF GlobalIndex
<1>14. \A i : Storing(i)' <=> Storing(i) \/ i = g
  BY <1>1, <1>6, <1>13 DEF Storing
<1>15. \A v \in Workers : pc[v] = "store" => GlobalIndex(v) \in Hung
  BY StoringHangs
<1>16. Hung \subseteq 1 .. N /\ \A b : HungIn(b) \subseteq Hung
  BY DEF Hung, HungIn
<1> DEFINE T1(b) == IF b = BucketOf(g) THEN HungIn(b) \cup {g} ELSE HungIn(b)
<1>17. PICK rank1 \in [1 .. N -> Nat], later \in Nat :
           later = clock + 1 /\ \A i \in 1 .. N : rank1[i] = IF i = g THEN clock ELSE rank[i]
  <2>1. [i \in 1 .. N |-> IF i = g THEN clock ELSE rank[i]] \in [1 .. N -> Nat] /\ clock + 1 \in Nat
    OBVIOUS
  <2> QED
    BY <2>1
<1>18. rank1[g] = clock /\ \A i \in Hung : i # g /\ rank1[i] = rank[i] /\ rank[i] \in Nat
                                           /\ rank[i] < clock
  BY <1>2, <1>5, <1>10, <1>16, <1>17
<1> HIDE DEF g
<1>19. \A b, x : Greatest(HungIn(b), rank, x) => Greatest(HungIn(b), rank1, x)
  BY <1>16, <1>18 DEF Greatest
<1>20. \A b, i, x : i \in Hung /\ Greatest(Below(HungIn(b), rank, rank[i]), rank, x) =>
                    Greatest(Below(T1(b), rank1, rank1[i]), rank1, x)
  <2>1. ASSUME NEW b, NEW i \in Hung, NEW x, Greatest(Below(HungIn(b), rank, rank[i]), rank, x)
        PROVE  Greatest(Below(T1(b), rank1, rank1[i]), rank1, x)
    <3>1. ~(rank1[g] < rank1[i])
      BY <1>18
    <3>2. Below(T1(b), rank1, rank1[i]) = Below(HungIn(b), rank, rank[i])
      BY <1>16, <1>18, <3>1 DEF Below
    <3>3. Below(HungIn(b), rank, rank[i]) \subseteq Hung
      BY <1>16 DEF Below
    <3> HIDE DEF T1
    <3> QED
      BY <1>18, <2>1, <3>2, <3>3 DEF Greatest
  <2> QED
    BY <2>1
<1>21. \A b \in DOMAIN table'.heads : Greatest(T1(b), rank1, table'.heads[b])
  <2>1. ASSUME NEW b \in DOMAIN table'.heads PROVE Greatest(T1(b), rank1, table'.heads[b])
    <3>1. b \in DOMAIN table.heads
      BY <1>8
    <3>2. CASE b = BucketOf(g)
      <4>1. table'.heads[b] = g /\ g # None
        BY <1>2, <1>8, <3>1, <3>2 DEF None
      <4>2. ASSUME NEW j \in HungIn(b) PROVE rank1[j] <= rank1[g]
        <5>1. j \in Hung
          BY <1>16
        <5>2. rank1[j] \in Nat /\ rank1[j] < clock /\ rank1[g] = clock
          BY <1>18, <5>1
        <5> QED
          BY <5>2
      <4>3. rank1[g] <= rank1[g]
        BY <1>18
      <4> QED
        BY <3>2, <4>1, <4>2, <4>3 DEF Greatest
    <3>3. CASE b # BucketOf(g)
      <4>1. table'.heads[b] = table.heads[b]
        BY <1>8, <3>1, <3>3
      <4> QED
        BY <1>5, <1>19, <3>1, <3>3, <4>1
    <3> QED
      BY <3>2, <3>3
  <2> QED
    BY <2>1
<1>22. \A v \in Workers : pc'[v] = "store" =>
           Greatest(Below(T1(BucketOf(GlobalIndex(v))), rank1, rank1[GlobalIndex(v)]),
                    rank1, link'[v].old)
  <2>1. ASSUME NEW v \in Workers, pc'[v] = "store"
        PROVE  Greatest(Below(T1(BucketOf(GlobalIndex(v))), rank1, rank1[GlobalIndex(v)]),
                        rank1, link'[v].old)
    <3>1. CASE v = w
      <4>1. GlobalIndex(v) = g /\ link'[v].old = table.heads[BucketOf(g)]
        BY <1>7, <3>1 DEF g
      <4>2. Below(T1(BucketOf(g)), rank1, rank1[g]) = HungIn(BucketOf(g))
        <5>1. \A j \in HungIn(BucketOf(g)) : rank1[j] < rank1[g]
          BY <1>16, <1>18
        <5>2. ~(rank1[g] < rank1[g])
          BY <1>18
        <5> QED
          BY <5>1, <5>2 DEF Below
      <4>3. Greatest(HungIn(BucketOf(g)), rank1, table.heads[BucketOf(g)])
        BY <1>2, <1>5, <1>19
      <4> HIDE DEF T1
      <4> QED
        BY <4>1, <4>2, <4>3
    <3>2. CASE v # w
      <4>1. pc[v] = "store" /\ link'[v] = link[v] /\ GlobalIndex(v) \in Hung
        BY <1>6, <1>15, <2>1, <3>2
      <4> HIDE DEF T1
      <4> QED
        BY <1>5, <1>20, <4>1
    <3> QED
      BY <3>1, <3>2
  <2> QED
    BY <2>1
<1>23. \A i \in Hung \cup {g} : i # g /\ ~Storing(i) =>
           Greatest(Below(T1(BucketOf(i)), rank1, rank1[i]), rank1, table.links[i])
  <2> HIDE DEF T1
  <2> QED
    BY <1>5, <1>20
<1>24. \A i \in Hung \cup {g} : /\ rank1[i] < later
                                /\ \A j \in Hung \cup {g} : rank1[i] = rank1[j] => i = j
  <2>1. \A i \in Hung : rank1[i] < later /\ rank1[i] # clock
    BY <1>17, <1>18
  <2>2. \A i, j \in Hung : rank1[i] = rank1[j] => i = j
    BY <1>5, <1>18
  <2>3. rank1[g] < later
    BY <1>17, <1>18
  <2> QED
    BY <1>18, <2>1, <2>2, <2>3
<1>25. Ordered(rank1, later)'
  <2>1. \A b : HungIn(b)' = T1(b)
    BY <1>12
  <2>2. \A i \in Hung' : ~Storing(i)' => i # g /\ ~Storing(i)
    BY <1>14
  <2> HIDE DEF T1
  <2> QED
    BY <1>3, <1>10, <1>11, <1>13, <1>21, <1>22, <1>23, <1>24, <2>1, <2>2 DEF Ordered
<1> QED
  BY <1>3, <1>25 DEF ChainInv

\* The chains are kept by every step of the combine.
LEMMA CombineChainInv ==
    ASSUME TypeInv, WorkerInv, PhaseInv, PrepareInv, EmptyInv, RangeInv, TableInv, ChainInv,
           NEW w \in Workers, CombineStep(w), TypeInv', PhaseInv', PrepareInv', RangeInv', WorkerInv'
    PROVE  ChainInv'
<1>1. pc \in [Workers -> Points]
  BY DEF TypeInv
<1>2. CASE SumUp(w)
  BY <1>2, SumUpChainInv
<1>3. CASE CopyLocal(w)
  BY <1>3, CopyChainInv
<1>4. CASE ExchangeHead(w)
  BY <1>4, ExchangeChainInv
<1>5. CASE StoreLink(w)
  BY <1>5, StoreChainInv
<1>6. CASE Prepare(w) \/ PublishPrepared(w) \/ AwaitPrepared(w)
  <2>1. UNCHANGED <<table, link, registry, probe>> /\ payload'.hash_capacity = payload.hash_capacity
    <3>1. ~CopyLocal(w) /\ ~ExchangeHead(w) /\ ~StoreLink(w)
      BY <1>6 DEF Prepare, PublishPrepared, AwaitPrepared, CopyLocal, ExchangeHead, StoreLink, At
    <3> QED
      BY <1>6, <3>1, OwnTable
  <2>2. \A v \in Workers : pc'[v] = "store" <=> pc[v] = "store"
    <3>1. /\ pc[w] \in {"prepare", "publish", "wait"}
          /\ \E p \in {"sum", "wait", "copy"} : pc' = [pc EXCEPT ![w] = p]
      BY <1>6 DEF Prepare, PublishPrepared, AwaitPrepared, At, Goto
    <3> QED
      BY <1>1, <3>1
  <2> QED
    BY <2>1, <2>2, SameChains
<1>7. CASE \/ BeginBatch(w) \/ LockBatch(w) \/ AppendRow(w)
           \/ AppendFails(w) \/ UnlockBatch(w) \/ EndBatches(w)
  BY <1>7, LockTableInv DEF ChainInv
<1> QED
  BY <1>2, <1>3, <1>4, <1>5, <1>6, <1>7 DEF CombineStep

\* When every worker is done, all rows hang.
LEMMA AllHang ==
    ASSUME TypeInv, WorkerInv, PhaseInv, PrepareInv, EmptyInv, RangeInv, TableInv, table.built,
           \A w \in Participants : At(w, "combined")
    PROVE  Hung = 1 .. N
<1>1. CASE probe.pc # "build"
  BY <1>1 DEF Hung
<1>2. CASE probe.pc = "build"
  <2>1. Summed
    BY <1>2 DEF EmptyInv
  <2>2. ASSUME NEW i \in 1 .. N PROVE i \in Hung
    <3>1. PICK v \in Workers : i - registry[v].offset \in 1 .. registry[v].row_count
      BY <2>1 DEF RangeInv
    <3>2. registry[v].row_count = Len(input[v]) /\ RangeOK(v)
      BY <2>1 DEF RangeInv
    <3>3. pc[v] = "combined"
      <4>1. SUFFICES ASSUME pc[v] = "absent" PROVE FALSE
        BY DEF Participants, At
      <4>2. input[v] = <<>>
        BY <4>1 DEF WorkerInv, WorkerOK
      <4> QED
        BY <3>1, <3>2, <4>2
    <3>4. link[v].row = registry[v].row_count + 1
      BY <3>2, <3>3 DEF RangeOK
    <3>5. link[v].row - 1 = registry[v].row_count
      BY <3>4, WorkerFacts
    <3> QED
      BY <3>1, <3>3, <3>5 DEF Hung
  <2> QED
    BY <2>2 DEF Hung
<1> QED
  BY <1>1, <1>2

\* The first row of a bucket that the sequential loop of FINALIZE finds before row i.
LEMMA EarlierType ==
    ASSUME TypeInv, NEW i \in 1 .. N + 1, NEW b, NEW capacity
    PROVE  /\ Max(Earlier(i, b, capacity) \cup {None}) \in Earlier(i, b, capacity) \cup {None}
           /\ Max(Earlier(i, b, capacity) \cup {None}) \in 0 .. N
           /\ \A j \in Earlier(i, b, capacity) :
                 j <= Max(Earlier(i, b, capacity) \cup {None})
<1> DEFINE T == Earlier(i, b, capacity) \cup {None}
<1>1. N \in Nat
  BY TableFacts
<1>2. T \in SUBSET (0 .. N) /\ T # {}
  BY <1>1 DEF Earlier, None
<1> HIDE DEF T
<1>3. Max(T) \in T /\ \A m \in T : m <= Max(T)
  BY <1>1, <1>2, MaxOfBounded
<1>4. Max(T) \in 0 .. N
  BY <1>2, <1>3
<1> QED
  BY <1>3, <1>4 DEF T

\* FINALIZE without a table links the rows in their order.
LEMMA SequentialTable ==
    ASSUME TypeInv, TableInv, Finalize, N > 0, ~table.built
    PROVE  TableInv' /\ ChainInv'
<1> DEFINE size == HashCapacity(N)
           heads == [b \in 0 .. size - 1 |-> Max(Earlier(N + 1, b, size) \cup {None})]
           Of(i) == Bucket(table.rows[i].key, size)
           links == [i \in 1 .. N |-> Max(Earlier(i, Of(i), size) \cup {None})]
<1>1. N \in Nat /\ size \in Nat \ {0} /\ N <= payload.row_capacity /\ probe.build \in 0 .. N
  BY TableFacts, HashCapacityType DEF TableInv
<1>2. table' = [table EXCEPT !.built = TRUE, !.heads = heads, !.links = links]
  BY DEF Finalize, N
<1>3. payload' = [payload EXCEPT !.finalized = TRUE, !.hash_capacity = size]
  BY DEF Finalize, N
<1>4. heads \in [0 .. size - 1 -> 0 .. N] /\ links \in [1 .. N -> 0 .. N]
  <2>1. N + 1 \in 1 .. N + 1 /\ \A i \in 1 .. N : i \in 1 .. N + 1
    BY <1>1
  <2>2. \A b : Max(Earlier(N + 1, b, size) \cup {None}) \in 0 .. N
    BY <2>1, EarlierType
  <2>3. \A i \in 1 .. N : Max(Earlier(i, Of(i), size) \cup {None}) \in 0 .. N
    BY <2>1, EarlierType
  <2> HIDE DEF size, Of
  <2> QED
    BY <2>2, <2>3
<1>5. \A b \in 0 .. size - 1 : heads[b] = Max(Earlier(N + 1, b, size) \cup {None})
  OBVIOUS
<1>6. \A i \in 1 .. N : links[i] = Max(Earlier(i, Of(i), size) \cup {None})
  OBVIOUS
<1>7. /\ table'.rows = table.rows /\ table'.built = TRUE
      /\ table'.heads = heads /\ table'.links = links /\ N' = N
  <2> HIDE DEF heads, links
  <2>1. /\ table'.rows = table.rows /\ table'.built = TRUE
        /\ table'.heads = heads /\ table'.links = links
    BY <1>2 DEF TypeInv
  <2> QED
    BY <2>1 DEF N
<1>8. payload'.hash_capacity = size /\ payload'.row_capacity = payload.row_capacity
  <2> HIDE DEF size
  <2> QED
    BY <1>3 DEF TypeInv, PayloadSet
<1>9. probe'.pc = "call" /\ probe'.build = probe.build
  BY DEF Finalize, TypeInv, ProbeSet
<1>10. TableInv'
  <2>1. payload'.hash_capacity = HashCapacity(N')
    BY <1>7, <1>8
  <2> HIDE DEF heads, links, size
  <2> QED
    BY <1>1, <1>4, <1>7, <1>8, <1>9, <2>1 DEF TableInv
<1> HIDE DEF heads, links, size
<1>11. Hung' = 1 .. N /\ \A i : BucketOf(i)' = Of(i)
  BY <1>7, <1>8, <1>9 DEF Hung, BucketOf
<1>12. \A b : HungIn(b)' = {i \in 1 .. N : Of(i) = b}
  BY <1>11 DEF HungIn
<1>13. PICK rank \in [1 .. N -> Nat], clock \in Nat :
           clock = N + 1 /\ \A i \in 1 .. N : rank[i] = i
  <2>1. [i \in 1 .. N |-> i] \in [1 .. N -> Nat] /\ N + 1 \in Nat
    BY <1>1
  <2> QED
    BY <2>1
<1>14. ASSUME NEW i \in 1 .. N + 1, NEW b
       PROVE  Greatest({j \in 1 .. N : Of(j) = b /\ j < i}, rank,
                       Max(Earlier(i, b, size) \cup {None}))
  <2> DEFINE T == {j \in 1 .. N : Of(j) = b /\ j < i}
             x == Max(Earlier(i, b, size) \cup {None})
  <2>1. T = Earlier(i, b, size)
    BY <1>1 DEF Earlier
  <2>2. x \in T \cup {None} /\ \A j \in T : j <= x
    BY <2>1, EarlierType
  <2>3. T \subseteq 1 .. N
    OBVIOUS
  <2> HIDE DEF T, x, Of
  <2>4. CASE x = None
    <3>1. T = {}
      BY <1>1, <2>2, <2>3, <2>4 DEF None
    <3> QED
      BY <2>4, <3>1 DEF Greatest, T, x
  <2>5. CASE x # None
    <3>1. x \in T /\ \A j \in T : rank[j] <= rank[x]
      BY <1>13, <2>2, <2>3, <2>5
    <3>2. Greatest(T, rank, x)
      BY <2>5, <3>1 DEF Greatest
    <3> QED
      BY <3>2 DEF T, x
  <2> QED
    BY <2>4, <2>5
<1>15. \A b \in DOMAIN table'.heads : Greatest({j \in 1 .. N : Of(j) = b}, rank, table'.heads[b])
  <2>1. ASSUME NEW b \in 0 .. size - 1 PROVE Greatest({j \in 1 .. N : Of(j) = b}, rank, heads[b])
    <3>1. N + 1 \in 1 .. N + 1 /\ \A j \in 1 .. N : j < N + 1
      BY <1>1
    <3>2. {j \in 1 .. N : Of(j) = b /\ j < N + 1} = {j \in 1 .. N : Of(j) = b}
      BY <3>1
    <3> QED
      BY <1>5, <1>14, <3>1, <3>2
  <2>2. DOMAIN table'.heads = 0 .. size - 1
    BY <1>4, <1>7
  <2> QED
    BY <1>7, <2>1, <2>2
<1>16. \A i \in 1 .. N :
           Greatest(Below({j \in 1 .. N : Of(j) = Of(i)}, rank, rank[i]), rank, table'.links[i])
  <2>1. ASSUME NEW i \in 1 .. N
        PROVE  Greatest(Below({j \in 1 .. N : Of(j) = Of(i)}, rank, rank[i]), rank, links[i])
    <3>1. i \in 1 .. N + 1
      BY <1>1
    <3>2. Below({j \in 1 .. N : Of(j) = Of(i)}, rank, rank[i])
              = {j \in 1 .. N : Of(j) = Of(i) /\ j < i}
      BY <1>13 DEF Below
    <3>3. links[i] = Max(Earlier(i, Of(i), size) \cup {None})
      BY <1>6
    <3> HIDE DEF Of
    <3> QED
      BY <1>14, <3>1, <3>2, <3>3
  <2> QED
    BY <1>7, <2>1
<1>17. \A v \in Workers : pc'[v] # "store"
  BY DEF Finalize, Participants, At
<1>18. Ordered(rank, clock)'
  <2>1. \A i \in 1 .. N : rank[i] < clock /\ \A j \in 1 .. N : rank[i] = rank[j] => i = j
    BY <1>1, <1>13
  <2> HIDE DEF Of
  <2> QED
    BY <1>11, <1>12, <1>15, <1>16, <1>17, <2>1 DEF Ordered
<1> QED
  BY <1>7, <1>10, <1>18 DEF ChainInv

\* The table and its chains after the combine.
LEMMA EndTableInv ==
    ASSUME TypeInv, WorkerInv, PhaseInv, PrepareInv, EmptyInv, RangeInv, TableInv, ChainInv,
           ProbeInv, Finalize \/ ProbeStep \/ Release
    PROVE  TableInv' /\ ChainInv'
<1>1. UNCHANGED <<registry, link, pc>> /\ N' = N /\ N \in Nat
      /\ payload'.row_capacity = payload.row_capacity
  BY EndFrame, EndTable, TableFacts
<1>2. CASE Finalize /\ N > 0 /\ ~table.built
  BY <1>2, SequentialTable
<1>3. CASE Finalize /\ ~(N > 0 /\ ~table.built)
  <2>1. UNCHANGED table
    BY <1>3 DEF Finalize, N
  <2>2. probe.pc = "build" /\ probe'.pc = "call" /\ probe'.build = probe.build
    BY <1>3 DEF Finalize, TypeInv, ProbeSet
  <2>3. payload'.hash_capacity = IF N > 0 THEN HashCapacity(N) ELSE 0
    <3> DEFINE size == IF N > 0 THEN HashCapacity(N) ELSE 0
    <3>1. payload' = [payload EXCEPT !.finalized = TRUE, !.hash_capacity = size]
      BY <1>3 DEF Finalize, N
    <3> HIDE DEF size
    <3>2. payload'.hash_capacity = size
      BY <3>1 DEF TypeInv, PayloadSet
    <3> QED
      BY <3>2 DEF size
  <2>4. table.built => payload'.hash_capacity = payload.hash_capacity /\ N > 0
    BY <2>3 DEF TableInv
  <2>5. table.built <=> N > 0
    BY <1>3, <2>4
  <2>6. TableInv'
    BY <1>1, <2>1, <2>2, <2>4, <2>5 DEF TableInv
  <2>7. ChainInv'
    <3>1. SUFFICES ASSUME table.built PROVE ChainInv'
      BY <2>1 DEF ChainInv
    <3>2. PICK rank \in [1 .. N -> Nat], clock \in Nat : Ordered(rank, clock)
      BY <3>1 DEF ChainInv
    <3>3. Hung = 1 .. N /\ Hung' = 1 .. N
      <4>1. \A w \in Participants : At(w, "combined")
        BY <1>3 DEF Finalize
      <4> QED
        BY <1>1, <2>2, <3>1, <4>1, AllHang DEF Hung
    <3>4. \A i : BucketOf(i)' = BucketOf(i)
      BY <2>1, <2>4, <3>1 DEF BucketOf
    <3>5. \A b : HungIn(b)' = HungIn(b)
      BY <3>3, <3>4 DEF HungIn
    <3>6. \A v \in Workers : GlobalIndex(v)' = GlobalIndex(v)
      BY <1>1 DEF GlobalIndex
    <3>7. \A i : Storing(i)' <=> Storing(i)
      BY <1>1, <3>6 DEF Storing
    <3>8. Ordered(rank, clock)'
      BY <1>1, <2>1, <3>2, <3>3, <3>4, <3>5, <3>6, <3>7 DEF Ordered
    <3> QED
      BY <1>1, <3>8 DEF ChainInv
  <2> QED
    BY <2>6, <2>7
<1>4. CASE ProbeStep \/ Release
  <2>1. ~Finalize
    BY <1>4 DEF Finalize, Release, ProbeStep, Execute, ProbeRow, MatchRow, EndRow, Return, EndProbe
  <2>2. UNCHANGED table /\ payload'.hash_capacity = payload.hash_capacity
    BY <2>1, EndTable
  <2>3. probe.pc # "build" /\ probe'.pc # "build"
    BY <2>1, EndPhaseInv
  <2>4. probe'.build \in 0 .. N
    <3>1. CASE ProbeStep
      BY <3>1, ProbeTypeInv
    <3>2. CASE Release
      BY <3>2 DEF Release, probeVars, TableInv
    <3> QED
      BY <1>4, <3>1, <3>2
  <2>5. TableInv'
    BY <1>1, <2>2, <2>3, <2>4 DEF TableInv
  <2>6. ChainInv'
    BY <1>1, <2>2, <2>3, SameChains
  <2> QED
    BY <2>5, <2>6
<1> QED
  BY <1>2, <1>3, <1>4

------------------------------------------------------------------------------
(* What is allocated. *)

\* A store bears the number of its owner, the leader's is 0; what there is one of bears
\* another name.
LEMMA StoreOwner ==
    /\ \A owner, capacity, s : s \in Stores(owner, capacity) =>
           s[2] = owner /\ s[1] \in {"keys", "rows"}
    /\ \A names, s : s \in Single(names) => s[1] \in names
<1>1. ASSUME NEW owner, NEW capacity, NEW s \in Stores(owner, capacity)
      PROVE  s[2] = owner /\ s[1] \in {"keys", "rows"}
  <2> DEFINE kept == IF owner = 0 /\ build_rows_shared_local THEN join.capacity ELSE capacity
  <2>1. s = <<"keys", owner, capacity>> \/ s = <<"rows", owner, kept>>
    BY <1>1 DEF Stores
  <2> HIDE DEF kept
  <2> QED
    BY <2>1
<1>2. ASSUME NEW names, NEW s \in Single(names)
      PROVE  s[1] \in names
  BY <1>2 DEF Single
<1> QED
  BY <1>1, <1>2

\* One of the parts of a set gives way to another.
LEMMA PartReplaced ==
    ASSUME NEW own, NEW others, NEW rest, NEW grown,
           own \cap others = {}, own \cap rest = {}
    PROVE  (((own \cup others) \cup rest) \ own) \cup grown = ((others \cup rest) \cup grown)
OBVIOUS

\* What there is one of is no store.
LEMMA SinglesNames ==
    \A s \in Singles : s[1] \notin {"keys", "rows"}
<1>1. ASSUME NEW s \in Singles
      PROVE  s[1] \in {"registry", "payload", "slots", "local_idxs", "table", "links", "salts",
                       "buckets"}
  BY StoreOwner DEF Singles
<1> QED
  BY <1>1

\* The names of the stores are those of the plan.
LEMMA StoresKept ==
    ASSUME UNCHANGED join
    PROVE  /\ \A owner, capacity : Stores(owner, capacity)' = Stores(owner, capacity)
           /\ UNCHANGED registry => \A v \in Workers : LocalStores(v)' = LocalStores(v)
<1>1. \A owner, capacity : Stores(owner, capacity)' = Stores(owner, capacity)
  BY ModeFrame DEF Stores
<1> QED
  BY <1>1 DEF LocalStores

\* The stores of one worker are replaced.
LEMMA LocalReplaced ==
    ASSUME TypeInv, NEW w \in Workers, NEW new \in Nat \ {0}, live = Allocated,
           live' = (live \ LocalStores(w)) \cup Stores(w, new), UNCHANGED join,
           registry'[w].capacity = new,
           \A v \in Workers \ {w} : registry'[v].capacity = registry[v].capacity,
           payload'.row_capacity = payload.row_capacity, Singles' = Singles
    PROVE  live' = Allocated'
<1>1. \A v \in Workers : v # 0
  BY WorkerFacts
<1>2. \A owner, capacity : Stores(owner, capacity)' = Stores(owner, capacity)
  BY ModeFrame DEF Stores
<1>3. \A v \in Workers \ {w} : LocalStores(v)' = LocalStores(v)
  BY <1>2 DEF LocalStores
<1>4. LocalStores(w)' = Stores(w, new)
  BY <1>2 DEF LocalStores
<1>5. Stores(0, payload.row_capacity)' = Stores(0, payload.row_capacity)
  BY <1>2
<1>6. \A v \in Workers : LocalStores(v) \subseteq Stores(v, registry[v].capacity)
  BY DEF LocalStores
<1>7. \A v \in Workers \ {w}, s \in LocalStores(w) : s \notin LocalStores(v)
  BY <1>6, StoreOwner
<1>8. \A s \in LocalStores(w) : s \notin Stores(0, payload.row_capacity) /\ s \notin Singles
  BY <1>1, <1>6, StoreOwner, SinglesNames
<1>9. live' = Stores(0, payload.row_capacity) \cup (UNION {LocalStores(v) : v \in Workers \ {w}})
                \cup Stores(w, new) \cup Singles
  <2> DEFINE others == UNION {LocalStores(v) : v \in Workers \ {w}}
             shared == Stores(0, payload.row_capacity)
             own == LocalStores(w)
  <2>1. UNION {LocalStores(v) : v \in Workers} = own \cup others
    OBVIOUS
  <2>2. own \cap others = {} /\ own \cap (shared \cup Singles) = {}
    BY <1>7, <1>8
  <2>3. live = (own \cup others) \cup (shared \cup Singles)
    BY <2>1 DEF Allocated
  <2> HIDE DEF others, shared, own
  <2>4. live' = (others \cup (shared \cup Singles)) \cup Stores(w, new)
    BY <2>2, <2>3, PartReplaced DEF own
  <2>5. live' = ((shared \cup others) \cup Stores(w, new)) \cup Singles
    BY <2>4
  <2> QED
    BY <2>5 DEF others, shared
<1> QED
  BY <1>3, <1>4, <1>5, <1>9 DEF Allocated

\* The global stores are replaced, and more may be allocated.
LEMMA GlobalReplaced ==
    ASSUME TypeInv, NEW more, live = Allocated,
           live' = Replaced(0, payload.row_capacity, payload'.row_capacity) \cup more,
           UNCHANGED join,
           \A v \in Workers : registry'[v].capacity = registry[v].capacity,
           Singles' = Singles \cup more
    PROVE  live' = Allocated'
<1>1. \A v \in Workers : v # 0
  BY WorkerFacts
<1>2. \A owner, capacity : Stores(owner, capacity)' = Stores(owner, capacity)
  BY ModeFrame DEF Stores
<1>3. \A v \in Workers : LocalStores(v)' = LocalStores(v)
  BY <1>2 DEF LocalStores
<1>4. Stores(0, payload.row_capacity)' = Stores(0, payload'.row_capacity)
  BY <1>2
<1>5. \A v \in Workers : LocalStores(v) \subseteq Stores(v, registry[v].capacity)
  BY DEF LocalStores
<1>6. \A v \in Workers, s \in Stores(0, payload.row_capacity) : s \notin LocalStores(v)
  BY <1>1, <1>5, StoreOwner
<1>7. \A s \in Stores(0, payload.row_capacity) : s \notin Singles
  BY StoreOwner, SinglesNames
<1>8. live' = Stores(0, payload'.row_capacity) \cup (UNION {LocalStores(v) : v \in Workers})
                \cup Singles \cup more
  <2> DEFINE locals == UNION {LocalStores(v) : v \in Workers}
             shared == Stores(0, payload.row_capacity)
             grown == Stores(0, payload'.row_capacity)
  <2>1. shared \cap locals = {} /\ shared \cap Singles = {}
    BY <1>6, <1>7
  <2>2. live = (shared \cup locals) \cup Singles
    BY DEF Allocated
  <2>3. live' = (((shared \cup locals) \cup Singles) \ shared) \cup (grown \cup more)
    BY <2>2 DEF Replaced
  <2> HIDE DEF locals, shared, grown
  <2>4. live' = (locals \cup Singles) \cup (grown \cup more)
    BY <2>1, <2>3, PartReplaced
  <2>5. live' = ((grown \cup locals) \cup Singles) \cup more
    BY <2>4
  <2> QED
    BY <2>5 DEF locals, grown
<1> QED
  BY <1>3, <1>4, <1>8 DEF Allocated

\* Grown local stores are replaced in the registry too.
LEMMA BuildLiveInv ==
    ASSUME TypeInv, WorkerInv, PhaseInv, PrepareInv, EmptyInv, LiveInv, NEW w \in Workers,
           GetLocalSinkState(w) \/ SinkRow(w) \/ StartCombine
    PROVE  LiveInv'
<1>1. UNCHANGED <<join, payload, table>>
  BY DEF GetLocalSinkState, SinkRow, StartCombine
<1>2. ~Summed /\ ~Summed'
  BY BuildPrepareInv
<1>3. Singles' = Singles
  BY <1>1, <1>2 DEF Singles
<1>4. payload.release_state = 0
  <2>1. \E v \in Workers : pc[v] \in {"start", "sink"}
    BY DEF GetLocalSinkState, SinkRow, StartCombine, At, Participants
  <2>2. payload.release_state \in {0, 2}
    BY DEF TypeInv, PayloadSet
  <2> QED
    BY <2>1, <2>2 DEF PhaseInv
<1>5. live = Allocated
  BY <1>4 DEF LiveInv
<1>6. SUFFICES live' = Allocated'
  BY <1>1, <1>4 DEF LiveInv
<1>7. WorkerOK(w) /\ local[w].capacity \in Nat /\ local[w].count \in Nat /\ w # 0
  BY WorkerFacts DEF WorkerInv
<1>8. registry \in [Workers -> RegistrySet] /\ local \in [Workers -> LocalSet]
  BY DEF TypeInv
<1>9. \A c \in Nat :
          LET new == [registry EXCEPT ![w].capacity = c]
          IN  new[w].capacity = c /\ \A v \in Workers \ {w} : new[v].capacity = registry[v].capacity
  BY <1>8 DEF RegistrySet
<1>10. CASE GetLocalSinkState(w)
  <2>1. registry' = [registry EXCEPT ![w].capacity = 1] /\ live' = live \cup Stores(w, 1)
    BY <1>10 DEF GetLocalSinkState
  <2>2. registry[w].capacity = 0
    BY <1>7, <1>10 DEF GetLocalSinkState, At, WorkerOK
  <2>3. live' = (live \ LocalStores(w)) \cup Stores(w, 1)
    BY <2>1, <2>2 DEF LocalStores
  <2>4. /\ registry'[w].capacity = 1
        /\ \A v \in Workers \ {w} : registry'[v].capacity = registry[v].capacity
    BY <1>9, <2>1
  <2> QED
    BY <1>1, <1>3, <1>5, <2>3, <2>4, LocalReplaced
<1>11. CASE SinkRow(w)
  <2>1. /\ registry' = [registry EXCEPT ![w].capacity = Grown(w)]
        /\ live' = (live \ Stores(w, local[w].capacity)) \cup Stores(w, Grown(w))
    BY <1>11 DEF SinkRow, Replaced
  <2>2. local[w].capacity # 0 /\ registry[w].capacity = local[w].capacity
    BY <1>7, <1>11 DEF SinkRow, At, WorkerOK
  <2>3. Grown(w) \in Nat \ {0}
    BY <1>7, <2>2 DEF Grown
  <2>4. live' = (live \ LocalStores(w)) \cup Stores(w, Grown(w))
    BY <2>1, <2>2 DEF LocalStores
  <2>5. /\ registry'[w].capacity = Grown(w)
        /\ \A v \in Workers \ {w} : registry'[v].capacity = registry[v].capacity
    BY <1>9, <2>1, <2>3
  <2> QED
    BY <1>1, <1>3, <1>5, <2>3, <2>4, <2>5, LocalReplaced
<1>12. CASE StartCombine
  <2>1. UNCHANGED <<registry, live, join, payload>>
    BY <1>12 DEF StartCombine
  <2> QED
    BY <1>3, <1>5, <2>1, StoresKept DEF Allocated
<1> QED
  BY <1>10, <1>11, <1>12

\* The combine replaces the global stores, and allocates the slots and the table.
LEMMA CombineLiveInv ==
    ASSUME TypeInv, WorkerInv, PhaseInv, PrepareInv, EmptyInv, RangeInv, TableInv, LiveInv,
           NEW w \in Workers, CombineStep(w)
    PROVE  LiveInv'
<1>1. payload.release_state = 0 /\ ~(table.built /\ ~Summed)
  <2>1. probe.pc = "build"
    BY CombinePhaseInv
  <2>2. payload.release_state \in {0, 2}
    BY DEF TypeInv, PayloadSet
  <2> QED
    BY <2>1, <2>2 DEF PhaseInv, EmptyInv
<1>2. live = Allocated
  BY <1>1 DEF LiveInv
<1>3. payload \in PayloadSet /\ \A v \in Workers : registry[v] \in RegistrySet
  BY DEF TypeInv
<1>4. CASE SumUp(w)
  <2>1. PICK total, hash : Summary(w, total, hash)
    BY <1>4, SumUpComputes
  <2>2. ~Summed /\ Summed' /\ ~table.built
    BY <1>1, <1>4, CombinePrepareInv DEF CombineStep
  <2>3. UNCHANGED join /\ table'.built = (total > 0) /\ total \in Nat
    BY <2>1 DEF Summary
  <2>4. build_rows_shared_local' = build_rows_shared_local
    BY <2>3, ModeFrame
  <2> DEFINE more ==
        (IF build_rows_shared_local THEN Single({"slots", "local_idxs"}) ELSE {})
        \cup (IF total > 0 THEN Single({"table", "buckets", "links", "salts"}) ELSE {})
  <2>5. Singles = Single({"registry", "payload"})
    BY <2>2 DEF Singles
  <2>6. Single({"table", "buckets", "links", "salts"})
            = Single({"table", "links", "salts"}) \cup Single({"buckets"})
    BY DEF Single
  <2>7. Singles' = Single({"registry", "payload"})
            \cup (IF build_rows_shared_local THEN Single({"slots", "local_idxs"}) ELSE {})
            \cup (IF total > 0 THEN Single({"table", "links", "salts"}) ELSE {})
            \cup (IF total > 0 THEN Single({"buckets"}) ELSE {})
    BY <2>2, <2>3, <2>4 DEF Singles, Single
  <2>8. Singles' = Singles \cup more
    BY <2>5, <2>6, <2>7
  <2>9. live' = Replaced(0, payload.row_capacity, payload'.row_capacity) \cup more
    BY <2>1 DEF Summary
  <2>10. \A v \in Workers : registry'[v].capacity = registry[v].capacity
    BY <1>3, <2>1 DEF Summary, RegistrySet
  <2>11. payload'.release_state = 0
    BY <1>1, <1>3, <2>1 DEF Summary, PayloadSet
  <2> HIDE DEF more
  <2>12. live' = Allocated'
    BY <1>2, <2>3, <2>8, <2>9, <2>10, GlobalReplaced
  <2> QED
    BY <2>11, <2>12 DEF LiveInv
<1>5. CASE AppendRow(w) \/ AppendFails(w)
  <2>1. /\ UNCHANGED <<join, registry>>
        /\ payload' = [payload EXCEPT !.row_capacity = GlobalGrown]
        /\ live' = Replaced(0, payload.row_capacity, GlobalGrown)
    BY <1>5 DEF AppendRow, AppendFails
  <2>2. payload'.row_capacity = GlobalGrown /\ payload'.release_state = 0
    BY <1>1, <1>3, <2>1 DEF PayloadSet
  <2>3. pc[w] = "append"
    BY <1>5 DEF AppendRow, AppendFails, At
  <2>4. ~Summed
    <3>1. payload.prepare = 0
      BY <2>3, Stage DEF LockPoints
    <3>2. \A v \in Workers : pc[v] # "publish"
      BY <3>1 DEF PrepareInv, OwnPoints
    <3> QED
      BY <3>1, <3>2 DEF Summed
  <2>5. ~Summed' /\ ~table'.built /\ ~table.built
    <3>1. (Summed' <=> Summed) /\ EmptyInv'
      BY <1>5, <2>3, CombinePrepareInv DEF CombineStep, SumUp, At
    <3>2. probe' = probe /\ probe.pc = "build"
      BY <1>5, CombinePhaseInv DEF AppendRow, AppendFails, probeVars
    <3> QED
      BY <1>1, <2>4, <3>1, <3>2 DEF EmptyInv
  <2>6. Singles' = Singles \cup {}
    BY <2>4, <2>5 DEF Singles, Single
  <2>7. live' = Replaced(0, payload.row_capacity, payload'.row_capacity) \cup {}
    BY <2>1, <2>2
  <2>8. live' = Allocated'
    BY <1>2, <2>1, <2>6, <2>7, GlobalReplaced
  <2> QED
    BY <2>2, <2>8 DEF LiveInv
<1>6. CASE ~SumUp(w) /\ ~AppendRow(w) /\ ~AppendFails(w)
  <2>1. UNCHANGED <<join, registry, live>>
    BY <1>6 DEF CombineStep, Prepare, PublishPrepared, AwaitPrepared, CopyLocal, ExchangeHead,
               StoreLink, BeginBatch, LockBatch, UnlockBatch, EndBatches
  <2>2. /\ payload'.row_capacity = payload.row_capacity
        /\ payload'.release_state = payload.release_state
    BY <1>3, <1>6 DEF CombineStep, Prepare, PublishPrepared, AwaitPrepared, CopyLocal, ExchangeHead,
               StoreLink, BeginBatch, LockBatch, UnlockBatch, EndBatches, PayloadSet
  <2>3. table'.built = table.built
    BY <1>6 DEF CombineStep, Prepare, PublishPrepared, AwaitPrepared, CopyLocal, ExchangeHead,
               StoreLink, BeginBatch, LockBatch, UnlockBatch, EndBatches, TypeInv
  <2>4. Summed' = Summed
    BY <1>6, CombinePrepareInv DEF Summed
  <2>5. Singles' = Singles
    BY <2>1, <2>3, <2>4, ModeFrame DEF Singles, Single
  <2> QED
    BY <1>1, <1>2, <2>1, <2>2, <2>5, StoresKept DEF Allocated, LiveInv
<1> QED
  BY <1>4, <1>5, <1>6

\* FINALIZE allocates a missing table; the release frees everything.
LEMMA EndLiveInv ==
    ASSUME TypeInv, WorkerInv, PhaseInv, PrepareInv, EmptyInv, RangeInv, TableInv, LiveInv, ProbeInv,
           Finalize \/ ProbeStep \/ Release
    PROVE  LiveInv'
<1>1. UNCHANGED <<join, registry>> /\ (ProbeStep => UNCHANGED <<payload, table, live>>)
  BY EndFrame DEF buildVars
<1>2. payload \in PayloadSet /\ payload.release_state \in {0, 2}
  BY DEF TypeInv, PayloadSet
<1>3. /\ Summed' <=> Summed
      /\ payload'.row_capacity = payload.row_capacity
  BY EndPrepareInv, EndTable
<1>4. Stores(0, payload.row_capacity)' = Stores(0, payload.row_capacity)
        /\ \A v \in Workers : LocalStores(v)' = LocalStores(v)
  BY <1>1, <1>3, StoresKept
<1>5. CASE ProbeStep
  <2>1. Singles' = Singles
    BY <1>1, <1>3, <1>5, ModeFrame DEF Singles, Single
  <2>2. Allocated' = Allocated
    BY <1>4, <2>1 DEF Allocated
  <2> QED
    BY <1>1, <1>5, <2>2 DEF LiveInv
<1>6. CASE Finalize
  <2>1. probe.pc = "build" /\ payload.release_state = 0 /\ payload'.release_state = 0
    <3>1. probe.pc = "build"
      BY <1>6 DEF Finalize
    <3>2. payload.release_state = 0
      BY <1>2, <3>1 DEF PhaseInv
    <3>3. payload'.release_state = 0
      BY <1>2, <1>6, <3>2 DEF Finalize, PayloadSet
    <3> QED
      BY <3>1, <3>2, <3>3
  <2>2. live = Allocated
    BY <2>1 DEF LiveInv
  <2>3. CASE N > 0 /\ ~table.built
    <3>1. table'.built /\ live' = live \cup Single({"table", "links", "salts"})
      BY <1>6, <2>3 DEF Finalize, N, TypeInv
    <3>2. ~Summed
      BY <2>3, <3>1, EndTable
    <3>3. Singles' = Singles \cup Single({"table", "links", "salts"})
      BY <1>1, <1>3, <2>3, <3>1, <3>2, ModeFrame DEF Singles, Single
    <3> QED
      BY <1>4, <2>1, <2>2, <3>1, <3>3 DEF Allocated, LiveInv
  <2>4. CASE ~(N > 0 /\ ~table.built)
    <3>1. UNCHANGED <<table, live>>
      BY <1>6, <2>4 DEF Finalize, N
    <3>2. Singles' = Singles
      BY <1>1, <1>3, <3>1, ModeFrame DEF Singles, Single
    <3> QED
      BY <1>4, <2>1, <2>2, <3>1, <3>2 DEF Allocated, LiveInv
  <2> QED
    BY <2>3, <2>4
<1>7. CASE Release
  <2>1. /\ payload.release_state = 0 /\ payload'.release_state = 2 /\ probe.pc = "done"
        /\ live' = live \ Pointers
    BY <1>2, <1>7 DEF Release, PayloadSet
  <2>2. live = Pointers
    <3>1. \A w \in Workers : pc[w] # "publish"
      BY <2>1 DEF PhaseInv
    <3>2. Summed <=> payload.prepare = 2
      BY <3>1 DEF Summed
    <3> QED
      BY <2>1, <3>2 DEF LiveInv, Allocated, Singles, Pointers
  <2> QED
    BY <2>1, <2>2 DEF LiveInv
<1> QED
  BY <1>5, <1>6, <1>7

------------------------------------------------------------------------------
(* The states the join starts in. *)

\* The invariants but those on the table hold at the start.
LEMMA InitInv ==
    ASSUME Init, TypeInv
    PROVE  /\ WorkerInv /\ PhaseInv /\ PrepareInv /\ EmptyInv /\ RangeInv /\ LiveInv /\ ProbeInv
           /\ ~Summed
<1>1. \A w \in Workers : /\ pc[w] \in {"absent", "start"} /\ (pc[w] = "absent" => input[w] = <<>>)
                         /\ local[w] = [capacity |-> 0, count |-> 0]
                         /\ registry[w] = [capacity |-> 0, row_count |-> 0, offset |-> 0]
                         /\ link[w] = [row |-> 1, old |-> None]
  BY DEF Init
<1>2. /\ payload = [prepare |-> 0, combined_rows |-> 0, hash_capacity |-> 0,
                    row_capacity |-> join.capacity, mutex |-> 0,
                    finalized |-> FALSE, release_state |-> 0]
      /\ table = [rows |-> <<>>, built |-> FALSE, heads |-> <<>>, links |-> <<>>]
      /\ probe.pc = "build" /\ out = <<>>
      /\ live = Stores(0, join.capacity) \cup Single({"registry", "payload"})
  BY DEF Init
<1>3. WorkerInv
  <2>1. ASSUME NEW w \in Workers
        PROVE  WorkerOK(w)
    <3>1. Len(input[w]) \in Nat /\ (input[w] = <<>> => Len(input[w]) = 0)
      BY WorkerFacts
    <3> QED
      BY <1>1, <3>1 DEF WorkerOK, BuildPoints, OwnPoints, LockPoints
  <2> QED
    BY <2>1 DEF WorkerInv
<1>4. PhaseInv /\ PrepareInv /\ ~Summed
  BY <1>1, <1>2 DEF PhaseInv, PrepareInv, Summed, BuildPoints, OwnPoints
<1>5. EmptyInv /\ RangeInv
  BY <1>1, <1>2, <1>4 DEF EmptyInv, RangeInv
<1>6. LiveInv
  <2>1. Singles = Single({"registry", "payload"})
    BY <1>2, <1>4 DEF Singles
  <2>2. \A w \in Workers : LocalStores(w) = {}
    BY <1>1 DEF LocalStores
  <2>3. UNION {LocalStores(w) : w \in Workers} = {}
    BY <2>2
  <2> QED
    BY <1>2, <2>1, <2>3 DEF LiveInv, Allocated
<1>7. ProbeInv
  BY <1>2, SizesAssumption DEF ProbeInv
<1> QED
  BY <1>3, <1>4, <1>5, <1>6, <1>7

\* The prober is not at a row.
LEMMA FrameProbeInv ==
    ASSUME TypeInv, ProbeInv, UNCHANGED out, probe'.pc \notin {"row", "match"}
    PROVE  ProbeInv'
  BY DEF ProbeInv

------------------------------------------------------------------------------
(* Every step keeps the invariant. *)

\* The build keeps the invariant.
LEMMA BuildStep ==
    ASSUME JoinInv, NEW w \in Workers, GetLocalSinkState(w) \/ SinkRow(w) \/ StartCombine
    PROVE  JoinInv'
<1>1. /\ TypeInv /\ WorkerInv /\ PhaseInv /\ PrepareInv /\ EmptyInv /\ RangeInv /\ TableInv
      /\ ChainInv /\ LiveInv /\ ProbeInv
  BY DEF JoinInv
<1>2. TypeInv'
  BY <1>1, BuildTypeInv
<1>3. WorkerInv' /\ PhaseInv'
  BY <1>1, BuildWorkerInv, BuildPhaseInv
<1>4. PrepareInv' /\ EmptyInv' /\ ~Summed'
  BY <1>1, BuildPrepareInv
<1>5. RangeInv'
  BY <1>4 DEF RangeInv
<1>6. TableInv' /\ ChainInv'
  BY <1>1, BuildTableInv, BuildChainInv
<1>7. LiveInv'
  BY <1>1, BuildLiveInv
<1>8. ProbeInv'
  <2>1. \E v \in Workers : pc[v] \in BuildPoints
    BY DEF GetLocalSinkState, SinkRow, StartCombine, At, Participants, BuildPoints
  <2>2. probe.pc = "build"
    BY <1>1, <2>1 DEF PhaseInv, BuildPoints
  <2>3. UNCHANGED <<probe, out>>
    BY DEF GetLocalSinkState, SinkRow, StartCombine, probeVars
  <2> QED
    BY <1>1, <2>2, <2>3, FrameProbeInv
<1> QED
  BY <1>2, <1>3, <1>4, <1>5, <1>6, <1>7, <1>8 DEF JoinInv

\* The combine keeps the invariant.
LEMMA CombineInv ==
    ASSUME JoinInv, NEW w \in Workers, CombineStep(w)
    PROVE  JoinInv'
<1>1. /\ TypeInv /\ WorkerInv /\ PhaseInv /\ PrepareInv /\ EmptyInv /\ RangeInv /\ TableInv
      /\ ChainInv /\ LiveInv /\ ProbeInv
  BY DEF JoinInv
<1> DEFINE own == \/ Prepare(w) \/ SumUp(w) \/ PublishPrepared(w) \/ AwaitPrepared(w)
                  \/ CopyLocal(w) \/ ExchangeHead(w) \/ StoreLink(w)
           lock == \/ BeginBatch(w) \/ LockBatch(w) \/ AppendRow(w)
                   \/ AppendFails(w) \/ UnlockBatch(w) \/ EndBatches(w)
<1>2. own \/ lock
  BY DEF CombineStep
<1>3. TypeInv'
  <2>1. CASE own
    BY <1>1, <2>1, OwnTypeInv
  <2>2. CASE lock
    BY <1>1, <2>2, LockTypeInv
  <2> QED
    BY <1>2, <2>1, <2>2
<1>4. WorkerInv' /\ PhaseInv' /\ probe.pc = "build"
  BY <1>1, CombineWorkerInv, CombinePhaseInv
<1>5. /\ PrepareInv' /\ EmptyInv' /\ (~SumUp(w) => (Summed' <=> Summed))
  BY <1>1, CombinePrepareInv
<1>6. RangeInv'
  <2>1. CASE SumUp(w)
    BY <1>1, <2>1, SumUpRange
  <2>2. CASE own /\ ~SumUp(w)
    BY <1>1, <2>2, OwnRangeInv
  <2>3. CASE lock
    <3>1. pc[w] \in LockPoints
      BY <2>3 DEF BeginBatch, LockBatch, AppendRow, AppendFails,
                  UnlockBatch, EndBatches, At, LockPoints
    <3>2. ~SumUp(w)
      BY <3>1 DEF SumUp, At, LockPoints
    <3>3. payload.prepare = 0
      BY <1>1, <3>1, Stage
    <3>4. ~Summed
      BY <1>1, <3>3 DEF PrepareInv, OwnPoints, Summed
    <3>5. ~Summed'
      BY <1>5, <3>2, <3>4
    <3> QED
      BY <3>5 DEF RangeInv
  <2> QED
    BY <1>2, <2>1, <2>2, <2>3
<1>7. TableInv'
  <2>1. CASE own
    BY <1>1, <2>1, OwnTableInv
  <2>2. CASE lock
    BY <1>1, <2>2, LockTableInv
  <2> QED
    BY <1>2, <2>1, <2>2
<1>8. ChainInv'
  BY <1>1, <1>3, <1>4, <1>5, <1>6, CombineChainInv
<1>9. LiveInv'
  BY <1>1, CombineLiveInv
<1>10. ProbeInv'
  <2>1. UNCHANGED <<probe, out>>
    BY DEF CombineStep, Prepare, SumUp, PublishPrepared, AwaitPrepared, CopyLocal, ExchangeHead,
           StoreLink, BeginBatch, LockBatch, AppendRow, AppendFails,
           UnlockBatch, EndBatches, probeVars
  <2> QED
    BY <1>1, <1>4, <2>1, FrameProbeInv
<1> QED
  BY <1>3, <1>4, <1>5, <1>6, <1>7, <1>8, <1>9, <1>10 DEF JoinInv

\* FINALIZE, the probe and the release keep the invariant.
LEMMA EndStep ==
    ASSUME JoinInv, Finalize \/ ProbeStep \/ Release
    PROVE  JoinInv'
<1>1. /\ TypeInv /\ WorkerInv /\ PhaseInv /\ PrepareInv /\ EmptyInv /\ RangeInv /\ TableInv
      /\ ChainInv /\ LiveInv /\ ProbeInv
  BY DEF JoinInv
<1>2. TypeInv'
  BY <1>1, EndTypeInv, ProbeTypeInv
<1>3. WorkerInv' /\ PhaseInv'
  BY <1>1, EndWorkerInv, EndPhaseInv
<1>4. PrepareInv' /\ EmptyInv' /\ RangeInv'
  BY <1>1, EndPrepareInv, EndRangeInv
<1>5. TableInv' /\ ChainInv'
  BY <1>1, EndTableInv
<1>6. LiveInv'
  BY <1>1, EndLiveInv
<1>7. ProbeInv'
  <2>1. CASE ProbeStep
    BY <1>1, <2>1, ProbeTypeInv
  <2>2. CASE Finalize
    <3>1. probe'.pc = "call" /\ UNCHANGED out
      BY <1>1, <2>2 DEF Finalize, TypeInv, ProbeSet
    <3> QED
      BY <1>1, <3>1, FrameProbeInv
  <2>3. CASE Release
    <3>1. probe.pc = "done" /\ UNCHANGED <<probe, out>>
      BY <2>3 DEF Release, probeVars
    <3> QED
      BY <1>1, <3>1, FrameProbeInv
  <2> QED
    BY <2>1, <2>2, <2>3
<1> QED
  BY <1>2, <1>3, <1>4, <1>5, <1>6, <1>7 DEF JoinInv

\* The invariant holds at the start.
LEMMA InitJoinInv ==
    ASSUME Init
    PROVE  JoinInv
<1>1. TypeInv
  BY InitTypeInv
<1>2. /\ WorkerInv /\ PhaseInv /\ PrepareInv /\ EmptyInv /\ RangeInv /\ LiveInv /\ ProbeInv
  BY <1>1, InitInv
<1>3. TableInv /\ ChainInv
  BY <1>1, InitTableInv, InitChainInv
<1> QED
  BY <1>1, <1>2, <1>3 DEF JoinInv

\* No step breaks the invariant.
LEMMA NextJoinInv ==
    ASSUME JoinInv, [Next]_vars
    PROVE  JoinInv'
<1>1. ASSUME NEW w \in Workers, GetLocalSinkState(w) \/ SinkRow(w)
      PROVE  JoinInv'
  BY <1>1, BuildStep
<1>2. ASSUME NEW w \in Workers, CombineStep(w)
      PROVE  JoinInv'
  BY <1>2, CombineInv
<1>3. CASE StartCombine
  <2>1. \E w \in Workers : TRUE
    BY <1>3 DEF StartCombine, Participants
  <2> QED
    BY <1>3, <2>1, BuildStep
<1>4. CASE Finalize \/ ProbeStep \/ Release
  BY <1>4, EndStep
<1>5. CASE UNCHANGED vars
  <2>1. UNCHANGED <<join, input, pc, local, registry, payload, table, link, live, probe, out>>
    BY <1>5 DEF vars
  <2>2. Locked' = Locked /\ N' = N /\ Summed' = Summed /\ in' = in
    BY <2>1, ModeFrame DEF N, Summed, in
  <2>3. TypeInv' /\ PhaseInv' /\ PrepareInv' /\ ProbeInv'
    BY <2>1, <2>2 DEF JoinInv, TypeInv, PhaseInv, PrepareInv, ProbeInv
  <2>4. WorkerInv' /\ EmptyInv' /\ TableInv'
    BY <2>1, <2>2 DEF JoinInv, WorkerInv, WorkerOK, EmptyInv, TableInv
  <2>5. RangeInv'
    <3>1. \A v \in Workers, k \in Nat : Row(v, k)' = Row(v, k)
      BY <2>1 DEF Row
    <3>2. \A v \in Workers : RangeOK(v)' = RangeOK(v)
      BY <2>1 DEF RangeOK, Row
    <3> QED
      BY <2>1, <2>2, <3>2 DEF JoinInv, RangeInv
  <2>6. ChainInv'
    BY <2>1, SameChains DEF JoinInv
  <2>7. LiveInv'
    <3>1. Singles' = Singles
      BY <2>1, <2>2, ModeFrame DEF Singles, Single
    <3> QED
      BY <2>1, <3>1, StoresKept DEF JoinInv, LiveInv, Allocated
  <2> QED
    BY <2>3, <2>4, <2>5, <2>6, <2>7 DEF JoinInv
<1> QED
  BY <1>1, <1>2, <1>3, <1>4, <1>5 DEF Next

\* The invariant holds of every execution.
THEOREM Invariance == Spec => []JoinInv
<1>1. Init => JoinInv
  BY InitJoinInv
<1>2. JoinInv /\ [Next]_vars => JoinInv'
  BY NextJoinInv
<1> QED
  BY <1>1, <1>2, PTL DEF Spec

------------------------------------------------------------------------------
(* What the invariant says of the properties of the model. *)

\* The types, and that stores and chunks are never overfull.
THEOREM TypesAreKept == Spec => []TypeOK
<1>1. ASSUME JoinInv
      PROVE  TypeOK
  <2>1. TypeInv /\ WorkerInv /\ EmptyInv /\ RangeInv /\ TableInv /\ ProbeInv
    BY <1>1 DEF JoinInv
  <2>2. ASSUME NEW w \in Workers
        PROVE  /\ pc[w] \in Points
               /\ local[w].count \in 0 .. local[w].capacity /\ local[w].count <= Len(input[w])
               /\ registry[w].row_count \in 0 .. Len(input[w])
    <3>1. registry[w].row_count \in {0, Len(input[w])}
      BY <2>1 DEF EmptyInv, RangeInv
    <3>2. WorkerOK(w)
      BY <2>1 DEF WorkerInv
    <3> QED
      BY <2>1, <3>1, <3>2, WorkerFacts DEF WorkerOK
  <2>3. payload.mutex \in Workers \cup {0}
    BY <2>1 DEF TypeInv, PayloadSet
  <2>4. \A i \in DOMAIN table.links : table.links[i] \in 0 .. Len(table.rows)
    BY <2>1 DEF TableInv, N
  <2>5. Len(table.rows) <= payload.row_capacity /\ Len(out) <= ChunkSize
    BY <2>1 DEF TableInv, ProbeInv, N
  <2> QED
    BY <2>2, <2>3, <2>4, <2>5 DEF TypeOK, Points, BuildPoints, OwnPoints, LockPoints
<1> QED
  BY <1>1, Invariance, PTL

\* What the payload and the registry point to is allocated until ReleaseBuildPayload, and
\* nothing is allocated after it.
THEOREM StoresAreLive == Spec => []StoresLiveUntilRelease
<1>1. ASSUME JoinInv
      PROVE  StoresLiveUntilRelease
  <2>1. CASE payload.release_state = 0
    <3>1. live = Allocated
      BY <1>1, <2>1 DEF JoinInv, LiveInv
    <3>2. payload.prepare = 2 => Summed
      BY DEF Summed
    <3>3. Pointers \subseteq Allocated
      BY <3>2 DEF Pointers, Allocated, Singles
    <3> QED
      BY <2>1, <3>1, <3>3 DEF StoresLiveUntilRelease
  <2>2. CASE payload.release_state # 0
    BY <1>1, <2>2 DEF JoinInv, LiveInv, StoresLiveUntilRelease
  <2> QED
    BY <2>1, <2>2
<1> QED
  BY <1>1, Invariance, PTL

\* The chain of every bucket, once the build is final.
LEMMA FinalChains ==
    ASSUME JoinInv, probe.pc # "build", table.built
    PROVE  /\ payload.hash_capacity \in Nat \ {0} /\ DOMAIN table.heads = 0 .. payload.hash_capacity - 1
           /\ table.heads \in [DOMAIN table.heads -> 0 .. N] /\ table.links \in [1 .. N -> 0 .. N]
           /\ \E rank \in [1 .. N -> Nat] : \A b \in DOMAIN table.heads :
                 LET T == {i \in 1 .. N : BucketOf(i) = b}
                 IN  Greatest(T, rank, table.heads[b]) /\ Linked(T, rank, table.links)
<1>1. /\ TypeInv /\ WorkerInv /\ PhaseInv /\ PrepareInv /\ EmptyInv /\ RangeInv /\ TableInv
      /\ ChainInv
  BY DEF JoinInv
<1>2. \A w \in Workers : pc[w] \in {"absent", "combined"}
  BY <1>1 DEF PhaseInv
<1>3. Hung = 1 .. N
  BY <1>1, <1>2, AllHang DEF Participants, At
<1>4. /\ table.heads \in [0 .. payload.hash_capacity - 1 -> 0 .. N]
      /\ table.links \in [1 .. N -> 0 .. N] /\ payload.hash_capacity = HashCapacity(N)
  BY <1>1 DEF TableInv
<1>5. payload.hash_capacity \in Nat \ {0} /\ N \in Nat
  BY <1>1, <1>4, TableFacts, HashCapacityType
<1>6. PICK rank \in [1 .. N -> Nat], clock \in Nat : Ordered(rank, clock)
  BY <1>1 DEF ChainInv
<1>7. \A i \in 1 .. N : ~Storing(i)
  BY <1>2 DEF Storing
<1>8. ASSUME NEW b \in DOMAIN table.heads, NEW T, T = {i \in 1 .. N : BucketOf(i) = b}
      PROVE  Greatest(T, rank, table.heads[b]) /\ Linked(T, rank, table.links)
  <2>1. HungIn(b) = T
    BY <1>3, <1>8 DEF HungIn
  <2>2. Greatest(T, rank, table.heads[b])
    BY <1>6, <2>1 DEF Ordered
  <2>3. ASSUME NEW i \in T
        PROVE  /\ Greatest(Below(T, rank, rank[i]), rank, table.links[i])
               /\ \A j \in T : rank[i] = rank[j] => i = j
    <3>1. i \in Hung /\ i \in 1 .. N /\ BucketOf(i) = b /\ \A j \in T : j \in Hung
      BY <1>3, <1>8, <2>3
    <3>2. Greatest(Below(HungIn(BucketOf(i)), rank, rank[i]), rank, table.links[i])
      BY <1>6, <1>7, <3>1 DEF Ordered
    <3>3. \A j \in Hung : rank[i] = rank[j] => i = j
      BY <1>6, <3>1 DEF Ordered
    <3> QED
      BY <2>1, <3>1, <3>2, <3>3
  <2> QED
    BY <2>2, <2>3 DEF Linked
<1> QED
  BY <1>4, <1>5, <1>8

\* Once the build is final every chain ends and visits exactly the rows of its bucket,
\* each once, in whatever order the workers exchanged heads and stored links
\* (LinkPrecomputedJoinHashes), and after the sequential loop of Finalize alike.
THEOREM ChainsAreComplete == Spec => []ChainsComplete
<1>1. ASSUME JoinInv
      PROVE  ChainsComplete
  <2>1. SUFFICES ASSUME payload.finalized, table.built, NEW b \in DOMAIN table.heads,
                        NEW visits, visits = {n \in DOMAIN Chain(table.heads[b]) :
                                                 Chain(table.heads[b])[n] # None},
                        NEW rows, rows = {i \in DOMAIN table.rows :
                                     Bucket(table.rows[i].key, payload.hash_capacity) = b}
                 PROVE  /\ {Chain(table.heads[b])[n] : n \in visits} = rows
                        /\ Cardinality(visits) = Cardinality(rows)
    BY DEF ChainsComplete
  <2>2. TypeInv /\ PhaseInv
    BY <1>1 DEF JoinInv
  <2>3. probe.pc # "build"
    BY <2>1, <2>2 DEF PhaseInv
  <2>4. N \in Nat /\ DOMAIN table.rows = 1 .. N
    BY <2>2, TableFacts
  <2>5. rows = {i \in 1 .. N : BucketOf(i) = b} /\ rows \subseteq 1 .. N
    BY <2>1, <2>4 DEF BucketOf
  <2>6. /\ table.heads \in [DOMAIN table.heads -> 0 .. N] /\ table.links \in [1 .. N -> 0 .. N]
        /\ \E rank \in [1 .. N -> Nat] :
              Greatest(rows, rank, table.heads[b]) /\ Linked(rows, rank, table.links)
    BY <1>1, <2>1, <2>3, <2>5, FinalChains
  <2>7. PICK rank \in [1 .. N -> Nat] :
            Greatest(rows, rank, table.heads[b]) /\ Linked(rows, rank, table.links)
    BY <2>6
  <2>8. PICK h : h = table.heads[b]
    OBVIOUS
  <2>9. PICK n : n = N
    OBVIOUS
  <2>10. h \in 0 .. n /\ Len(table.rows) = n /\ n \in Nat
    BY <2>4, <2>6, <2>8, <2>9 DEF N
  <2>11. rank \in [1 .. n -> Nat] /\ table.links \in [1 .. n -> 0 .. n] /\ rows \subseteq 1 .. n
    BY <2>5, <2>6, <2>7, <2>9
  <2>12. Greatest(rows, rank, h) /\ Linked(rows, rank, table.links)
    BY <2>7, <2>8
  <2>13. \A k : k \in visits <=> k \in DOMAIN Chain(h) /\ Chain(h)[k] # None
    BY <2>1, <2>8
  <2>14. /\ \A k \in visits : Chain(h)[k] \in rows
         /\ \A s \in rows : \E k \in visits : Chain(h)[k] = s
         /\ Cardinality(visits) = Cardinality(rows)
    <3>1. Leads(n, rank, rows, h, visits)
      BY <2>10, <2>11, <2>12, <2>13 DEF Leads
    <3> QED
      BY <3>1, ChainOfLinked
  <2> QED
    BY <2>8, <2>14
<1> QED
  BY <1>1, Invariance, PTL

------------------------------------------------------------------------------
(* The prober puts out the join that SQL defines, for any number of workers,  *)
(* any inputs, any sizes of chunks and batches.  The argument keeps an        *)
(* account: what is in `emitted` and in the output chunk is what SQL asks for *)
(* of the probe rows that are closed, and, of the row the cursor is at, the   *)
(* matches it has passed in the chain of the row's bucket.                    *)

(* Bags and chains. *)

\* A chunk without duplicates is put out.
LEMMA BagOfChunk ==
    ASSUME NEW S, NEW s \in Seq(S), \A i, j \in DOMAIN s : s[i] = s[j] => i = j,
           NEW E, Range(s) \cap E = {}
    PROVE  SetToBag(E) (+) ToBag(s) = SetToBag(E \cup Range(s))
<1>1. ASSUME NEW e \in Range(s)
      PROVE  Cardinality({i \in DOMAIN s : s[i] = e}) = 1
  <2>1. PICK k \in DOMAIN s : s[k] = e
    BY DEF Range
  <2>2. {i \in DOMAIN s : s[i] = e} = {k}
    BY <2>1
  <2> QED
    BY <2>2, FS_Singleton
<1>2. ToBag(s) = [e \in Range(s) |-> 1]
  BY <1>1 DEF ToBag
<1> QED
  BY <1>2 DEF (+), SetToBag

\* The row a chain is followed to: of the rows that follow, the first with the salt.
Found(T, rank, salt, x) ==
    IF x = None THEN \A i \in T : Salt(table.rows[i].key) # salt
    ELSE /\ x \in T /\ Salt(table.rows[x].key) = salt
         /\ \A i \in T : rank[i] > rank[x] => Salt(table.rows[i].key) # salt

LEMMA SkipToFinds ==
    ASSUME NEW n \in Nat, Len(table.rows) = n, table.links \in [1 .. n -> 0 .. n],
           NEW rank \in [1 .. n -> Nat], NEW T \in SUBSET (1 .. n), NEW h \in 0 .. n,
           Greatest(T, rank, h), Linked(T, rank, table.links), NEW salt
    PROVE  Found(T, rank, salt, SkipTo(h, salt))
<1> DEFINE at == Chain(h)
           visits == {k \in DOMAIN at : at[k] # None}
           hits == {k \in DOMAIN at : at[k] # None /\ Salt(table.rows[at[k]].key) = salt}
<1>1. Leads(n, rank, T, h, visits)
  BY DEF Leads
<1> HIDE DEF visits
<1>2. /\ DOMAIN at = 0 .. n
      /\ \A k \in visits : k \in Nat /\ at[k] \in T
      /\ \A s \in T : \E k \in visits : at[k] = s
      /\ \A j, k \in visits : j < k => rank[at[k]] < rank[at[j]]
  <2> HIDE DEF at
  <2>1. DOMAIN Chain(h) = 0 .. n
    BY <1>1, ChainOfLinked
  <2>2. \A k \in visits : k \in Nat /\ Chain(h)[k] \in T
    BY <1>1, ChainOfLinked
  <2>3. \A s \in T : \E k \in visits : Chain(h)[k] = s
    BY <1>1, ChainOfLinked
  <2>4. \A j, k \in visits : j < k => rank[Chain(h)[k]] < rank[Chain(h)[j]]
    BY <1>1, ChainOfLinked
  <2> QED
    BY <2>1, <2>2, <2>3, <2>4 DEF at
<1>3. SkipTo(h, salt) = IF hits = {} THEN None ELSE at[Min(hits)]
  BY DEF SkipTo
<1> HIDE DEF at
<1>4. hits = {k \in visits : Salt(table.rows[at[k]].key) = salt}
  BY DEF visits
<1>5. CASE hits = {}
  <2>1. \A i \in T : Salt(table.rows[i].key) # salt
    BY <1>2, <1>4, <1>5
  <2> QED
    BY <1>3, <1>5, <2>1 DEF Found
<1>6. CASE hits # {}
  <2>1. hits \in SUBSET Nat
    BY <1>2
  <2>2. Min(hits) \in hits /\ \A k \in hits : Min(hits) <= k
    BY <1>6, <2>1, MinOfNumbers
  <2>3. PICK m : m = Min(hits)
    OBVIOUS
  <2>4. m \in visits /\ Salt(table.rows[at[m]].key) = salt /\ at[m] \in T /\ at[m] # None
    BY <1>2, <1>4, <2>2, <2>3 DEF visits
  <2>5. ASSUME NEW i \in T, rank[i] > rank[at[m]]
        PROVE  Salt(table.rows[i].key) # salt
    <3>1. PICK k \in visits : at[k] = i
      BY <1>2
    <3>2. rank[i] \in Nat /\ rank[at[m]] \in Nat
      BY <2>4
    <3>3. m \in Nat /\ k \in Nat
      BY <1>2, <2>4
    <3>4. k < m
      <4>1. m < k => rank[at[k]] < rank[at[m]]
        BY <1>2, <2>4
      <4>2. ~(rank[i] < rank[at[m]])
        BY <2>5, <3>2
      <4>3. ~(m < k)
        BY <3>1, <4>1, <4>2
      <4>4. m # k
        BY <2>5, <3>1, <3>2
      <4> QED
        BY <3>3, <4>3, <4>4
    <3>5. k \notin hits
      <4>1. k \in hits => m <= k
        BY <2>2, <2>3
      <4> QED
        BY <3>3, <3>4, <4>1
    <3> QED
      BY <1>4, <3>1, <3>5
  <2> QED
    BY <1>3, <1>6, <2>3, <2>4, <2>5 DEF Found
<1> QED
  BY <1>5, <1>6

------------------------------------------------------------------------------
(* The rows of the final table are the rows of the build input. *)

\* The locked branch appends the rows of each worker in their order.  (Rows that share
\* one store for keys and payload are there twice: SEMI and ANTI joins do not mind.)
Appended ==
    /\ \A w \in Workers :
          /\ link[w].row <= Len(input[w]) + 1
          /\ pc[w] = "combined" => link[w].row = Len(input[w]) + 1
          /\ \A k \in 1 .. link[w].row - 1 : \E i \in 1 .. N : table.rows[i] = Row(w, k)
    /\ \A i \in 1 .. N : \E w \in Workers : \E k \in 1 .. link[w].row - 1 : table.rows[i] = Row(w, k)
    /\ ~build_rows_use_keys => \A i, j \in 1 .. N : table.rows[i].id = table.rows[j].id => i = j

AppendInv == Locked /\ ~PhantomRows /\ (\A w \in Workers : pc[w] # "failed") => Appended

FinalRows ==
    /\ \A i \in 1 .. N : \E w \in Workers : \E k \in 1 .. Len(input[w]) : table.rows[i] = Row(w, k)
    /\ \A w \in Workers : \A k \in 1 .. Len(input[w]) : \E i \in 1 .. N : table.rows[i] = Row(w, k)
    /\ join.mode \in {"INNER", "LEFT"} =>
          \A i, j \in 1 .. N : table.rows[i].id = table.rows[j].id => i = j

\* A store that holds keys and payload is under the lock only where no payload is read.
LEMMA LockedModes ==
    ASSUME TypeInv, Locked, build_rows_use_keys, ~PhantomRows
    PROVE  join.mode \in {"SEMI", "ANTI"} /\ join.equal
<1>1. join.equal => join.key_strings = join.payload_strings
  BY LayoutsAssumption DEF TypeInv
<1>2. join.equal
  BY DEF PhantomRows
<1> QED
  BY <1>1, <1>2 DEF Locked, build_rows_shared_local, payload_rows_unused, can_share_local_payload

\* Nothing is appended at the start.
LEMMA InitAppendInv ==
    ASSUME Init, TypeInv
    PROVE  AppendInv
<1>1. \A w \in Workers : link[w].row = 1 /\ pc[w] # "combined" /\ Len(input[w]) \in Nat
  BY WorkerFacts DEF Init
<1>2. N = 0
  BY DEF Init, N
<1>3. (1 .. 0) = {} /\ 1 - 1 = 0
  OBVIOUS
<1> QED
  BY <1>1, <1>2, <1>3 DEF AppendInv, Appended

\* Steps that leave rows and positions alone, and finish no worker.
LEMMA FrameAppendInv ==
    ASSUME AppendInv, UNCHANGED <<join, input>>, table'.rows = table.rows,
           \A w \in Workers : /\ link'[w].row = link[w].row
                              /\ pc[w] = "failed" => pc'[w] = "failed"
                              /\ pc'[w] = "combined" => \/ pc[w] = "combined"
                                                        \/ link[w].row = Len(input[w]) + 1
    PROVE  AppendInv'
<1>1. /\ Locked' = Locked /\ PhantomRows' = PhantomRows
      /\ build_rows_use_keys' = build_rows_use_keys /\ N' = N
  BY ModeFrame DEF PhantomRows, N
<1>2. \A w, k : Row(w, k)' = Row(w, k)
  BY DEF Row
<1>3. SUFFICES ASSUME Locked, ~PhantomRows, \A w \in Workers : pc'[w] # "failed"
               PROVE  Appended'
  BY <1>1 DEF AppendInv
<1>4. Appended
  BY <1>3 DEF AppendInv
<1>5. ASSUME NEW w \in Workers
      PROVE  /\ link'[w].row <= Len(input'[w]) + 1
             /\ pc'[w] = "combined" => link'[w].row = Len(input'[w]) + 1
             /\ \A k \in 1 .. link'[w].row - 1 : \E i \in 1 .. N : table'.rows[i] = Row(w, k)
  BY <1>4 DEF Appended
<1>6. \A i \in 1 .. N : \E w \in Workers : \E k \in 1 .. link'[w].row - 1 :
          table'.rows[i] = Row(w, k)
  BY <1>4 DEF Appended
<1>7. ASSUME NEW w \in Workers
      PROVE  /\ link'[w].row <= Len(input'[w]) + 1
             /\ pc'[w] = "combined" => link'[w].row = Len(input'[w]) + 1
             /\ \A k \in 1 .. link'[w].row - 1 : \E i \in 1 .. N' : table'.rows[i] = Row(w, k)'
  BY <1>1, <1>2, <1>5
<1>8. \A i \in 1 .. N' : \E w \in Workers : \E k \in 1 .. link'[w].row - 1 :
          table'.rows[i] = Row(w, k)'
  BY <1>1, <1>2, <1>6
<1>9. build_rows_use_keys' \/ \A i, j \in 1 .. N' : table'.rows[i].id = table'.rows[j].id => i = j
  BY <1>1, <1>4 DEF Appended
<1> QED
  BY <1>7, <1>8, <1>9 DEF Appended

\* A row is appended: twice where the store holds keys and payload.
LEMMA AppendRowInv ==
    ASSUME TypeInv, WorkerInv, AppendInv, NEW w \in Workers, AppendRow(w)
    PROVE  AppendInv'
<1> DEFINE k0 == link[w].row
           row == Row(w, k0)
<1>1. UNCHANGED <<join, input, local>> /\ pc[w] = "append"
  BY DEF AppendRow, At
<1>2. /\ Locked' = Locked /\ PhantomRows' = PhantomRows
      /\ build_rows_use_keys' = build_rows_use_keys
  BY <1>1, ModeFrame DEF PhantomRows
<1>3. \A v, k : Row(v, k)' = Row(v, k)
  BY <1>1 DEF Row
<1>4. /\ WorkerOK(w) /\ k0 \in Nat \ {0} /\ Len(input[w]) \in Nat /\ k0 <= Len(input[w])
      /\ row \in RowSet /\ N \in Nat
  <2>1. WorkerOK(w) /\ k0 \in Nat \ {0} /\ Len(input[w]) \in Nat
    BY WorkerFacts DEF WorkerInv
  <2>2. local[w].count = Len(input[w]) /\ k0 <= local[w].count
    BY <1>1, <2>1 DEF WorkerOK, BuildPoints
  <2>3. k0 \in 1 .. Len(input[w])
    BY <2>1, <2>2
  <2>4. row \in RowSet
    BY <2>3, WorkerFacts
  <2> HIDE DEF k0, row
  <2> QED
    BY <2>1, <2>2, <2>4, TableFacts
<1>5. /\ link' = [link EXCEPT ![w].row = k0 + 1]
      /\ \E p \in {"unlock", "append"} : pc' = [pc EXCEPT ![w] = p]
      /\ table' = [table EXCEPT !.rows = @ \o AppendedRows(row)]
  <2>1. link' = [link EXCEPT ![w].row = k0 + 1]
    BY DEF AppendRow
  <2>2. \E p \in {"unlock", "append"} : pc' = [pc EXCEPT ![w] = p]
    <3> DEFINE last == LET next == link[w].row + 1
                       IN  next > local[w].count \/ (next - 1) % BatchSize = 0
    <3>1. pc' = [pc EXCEPT ![w] = IF last THEN "unlock" ELSE "append"]
      BY DEF AppendRow, Goto
    <3> HIDE DEF last
    <3> QED
      BY <3>1
  <2>3. table' = [table EXCEPT !.rows = @ \o AppendedRows(row)]
    BY DEF AppendRow
  <2> QED
    BY <2>1, <2>2, <2>3
<1>6. /\ link'[w].row = k0 + 1 /\ \A v \in Workers \ {w} : link'[v].row = link[v].row
      /\ pc'[w] \in {"unlock", "append"} /\ \A v \in Workers \ {w} : pc'[v] = pc[v]
  <2>1. link \in [Workers -> LinkSet] /\ pc \in [Workers -> Points]
    BY DEF TypeInv
  <2> QED
    BY <1>5, <2>1 DEF LinkSet
<1>7. table'.rows = table.rows \o AppendedRows(row)
  BY <1>5 DEF TypeInv
<1>8. SUFFICES ASSUME Locked, ~PhantomRows, \A v \in Workers : pc'[v] # "failed"
               PROVE  Appended'
  BY <1>2 DEF AppendInv
<1>9. Appended
  BY <1>1, <1>6, <1>8 DEF AppendInv
<1>10. PICK more : /\ more \in {1, 2} /\ N' = N + more
                   /\ \A i \in 1 .. N : table'.rows[i] = table.rows[i]
                   /\ \A i \in N + 1 .. N' : table'.rows[i] = row
                   /\ ~build_rows_use_keys => more = 1
  <2>1. AppendedRows(row) = IF build_rows_use_keys THEN <<row, row>> ELSE <<row>>
    BY <1>8, LockedModes DEF AppendedRows
  <2>2. table.rows \in Seq(RowSet)
    BY DEF TypeInv
  <2> HIDE DEF row
  <2>3. CASE build_rows_use_keys
    <3>1. table'.rows = table.rows \o <<row, row>>
      BY <1>7, <2>1, <2>3
    <3>2. N' = N + 2 /\ \A i \in 1 .. N : table'.rows[i] = table.rows[i]
      BY <1>4, <2>2, <3>1 DEF N
    <3>3. table'.rows[N + 1] = row /\ table'.rows[N + 2] = row
      BY <1>4, <2>2, <3>1 DEF N
    <3>4. \A i \in N + 1 .. N + 2 : i = N + 1 \/ i = N + 2
      BY <1>4
    <3> QED
      BY <2>3, <3>2, <3>3, <3>4
  <2>4. CASE ~build_rows_use_keys
    <3>1. table'.rows = table.rows \o <<row>>
      BY <1>7, <2>1, <2>4
    <3>2. N' = N + 1 /\ \A i \in 1 .. N : table'.rows[i] = table.rows[i]
      BY <1>4, <2>2, <3>1 DEF N
    <3>3. table'.rows[N + 1] = row
      BY <1>4, <2>2, <3>1 DEF N
    <3>4. \A i \in N + 1 .. N + 1 : i = N + 1
      BY <1>4
    <3> QED
      BY <2>4, <3>2, <3>3, <3>4
  <2> QED
    BY <2>3, <2>4
<1>11. PICK n \in Nat : n = N /\ N' = n + more
  BY <1>4, <1>10
<1> HIDE DEF N
<1>12. ASSUME NEW v \in Workers
       PROVE  /\ link'[v].row <= Len(input'[v]) + 1
              /\ pc'[v] = "combined" => link'[v].row = Len(input'[v]) + 1
              /\ \A k \in 1 .. link'[v].row - 1 : \E i \in 1 .. N' : table'.rows[i] = Row(v, k)'
  <2>1. \A k \in 1 .. link[v].row - 1 : \E i \in 1 .. N' : table'.rows[i] = Row(v, k)
    <3>1. \A i \in 1 .. n : i \in 1 .. N' /\ table'.rows[i] = table.rows[i]
      BY <1>10, <1>11
    <3>2. \A k \in 1 .. link[v].row - 1 : \E i \in 1 .. n : table.rows[i] = Row(v, k)
      BY <1>9, <1>11 DEF Appended
    <3> QED
      BY <3>1, <3>2
  <2>2. CASE v # w
    BY <1>1, <1>3, <1>6, <1>9, <2>1, <2>2 DEF Appended
  <2>3. CASE v = w
    <3>1. \A k \in 1 .. k0 : k \in 1 .. k0 - 1 \/ k = k0
      BY <1>4
    <3>2. n + 1 \in 1 .. N' /\ table'.rows[n + 1] = row
      BY <1>10, <1>11
    <3>3. \A k \in 1 .. k0 : \E i \in 1 .. N' : table'.rows[i] = Row(v, k)
      BY <2>1, <2>3, <3>1, <3>2
    <3>4. link'[v].row - 1 = k0 /\ link'[v].row <= Len(input[v]) + 1
      BY <1>4, <1>6, <2>3
    <3> QED
      BY <1>1, <1>3, <1>6, <2>3, <3>3, <3>4
  <2> QED
    BY <2>2, <2>3
<1>13. \A i \in 1 .. N' : i \in 1 .. n \/ i \in n + 1 .. N'
  BY <1>10, <1>11
<1>14. ASSUME NEW i \in 1 .. N'
       PROVE  \E v \in Workers : \E k \in 1 .. link'[v].row - 1 : table'.rows[i] = Row(v, k)'
  <2>1. CASE i \in 1 .. n
    <3>1. PICK v \in Workers : \E k \in 1 .. link[v].row - 1 : table.rows[i] = Row(v, k)
      BY <1>9, <1>11, <2>1 DEF Appended
    <3>2. PICK k \in 1 .. link[v].row - 1 : table.rows[i] = Row(v, k)
      BY <3>1
    <3>3. k \in 1 .. link'[v].row - 1
      <4>1. link[v].row \in Nat
        BY WorkerFacts
      <4> QED
        BY <1>6, <3>2, <4>1
    <3> QED
      BY <1>3, <1>10, <1>11, <2>1, <3>2, <3>3
  <2>2. CASE i \in n + 1 .. N'
    <3>1. PICK k : k = k0
      OBVIOUS
    <3>2. table'.rows[i] = Row(w, k)
      BY <1>10, <1>11, <2>2, <3>1
    <3>3. k \in 1 .. link'[w].row - 1
      BY <1>4, <1>6, <3>1
    <3> QED
      BY <1>3, <3>2, <3>3
  <2> QED
    BY <1>13, <2>1, <2>2
<1>15. build_rows_use_keys' \/ \A i, j \in 1 .. N' : table'.rows[i].id = table'.rows[j].id => i = j
  <2>1. SUFFICES ASSUME ~build_rows_use_keys, NEW i \in 1 .. N', NEW j \in 1 .. N',
                        table'.rows[i].id = table'.rows[j].id
                 PROVE  i = j
    BY <1>2
  <2>2. N' = n + 1 /\ table'.rows[n + 1] = row
    BY <1>10, <1>11, <2>1
  <2>3. ASSUME NEW l \in 1 .. n
        PROVE  table'.rows[l].id # row.id /\ table'.rows[l] = table.rows[l]
    <3>1. PICK v \in Workers : \E k \in 1 .. link[v].row - 1 : table.rows[l] = Row(v, k)
      BY <1>9, <1>11 DEF Appended
    <3>2. PICK k \in 1 .. link[v].row - 1 : table.rows[l] = Row(v, k)
      BY <3>1
    <3>3. <<v, k>> # <<w, k0>>
      BY <1>4, <3>2
    <3>4. table'.rows[l] = table.rows[l]
      BY <1>10, <1>11
    <3> QED
      BY <3>2, <3>3, <3>4 DEF Row
  <2>4. \A l \in 1 .. N' : l \in 1 .. n \/ l = n + 1
    BY <1>11, <2>2
  <2>5. CASE i \in 1 .. n /\ j \in 1 .. n
    BY <1>9, <1>11, <2>1, <2>3, <2>5 DEF Appended
  <2> QED
    BY <2>1, <2>2, <2>3, <2>4, <2>5
<1> QED
  BY <1>12, <1>14, <1>15 DEF Appended

\* Every step keeps the appended rows.
LEMMA NextAppendInv ==
    ASSUME JoinInv, AppendInv, [Next]_vars
    PROVE  AppendInv'
<1>1. TypeInv /\ WorkerInv /\ RangeInv /\ TableInv /\ link \in [Workers -> LinkSet]
        /\ pc \in [Workers -> Points]
  BY DEF JoinInv, TypeInv
<1>2. ASSUME NEW w \in Workers, GetLocalSinkState(w) \/ SinkRow(w)
      PROVE  AppendInv'
  <2>1. UNCHANGED <<join, input, table, link>>
    BY <1>2 DEF GetLocalSinkState, SinkRow
  <2>2. pc' = pc \/ (pc' = [pc EXCEPT ![w] = "sink"] /\ pc[w] = "start")
    <3>1. CASE GetLocalSinkState(w)
      BY <3>1 DEF GetLocalSinkState, Goto, At
    <3>2. CASE SinkRow(w)
      BY <3>2 DEF SinkRow
    <3> QED
      BY <1>2, <3>1, <3>2
  <2>3. \A v \in Workers : /\ pc[v] = "failed" => pc'[v] = "failed"
                           /\ pc'[v] = "combined" => pc[v] = "combined"
    BY <1>1, <2>2
  <2> QED
    BY <2>1, <2>3, FrameAppendInv
<1>3. CASE StartCombine
  <2>1. UNCHANGED <<join, input, table, link>>
    BY <1>3 DEF StartCombine
  <2>2. \A v \in Workers : /\ pc[v] \in {"absent", "sink"}
                           /\ pc'[v] \in {"absent", "batch", "prepare"}
    BY <1>3 DEF StartCombine, Participants, At
  <2>3. \A v \in Workers : pc[v] # "failed" /\ pc'[v] # "combined"
    BY <2>2
  <2> QED
    BY <2>1, <2>3, FrameAppendInv
<1>4. ASSUME NEW w \in Workers, CombineStep(w)
      PROVE  AppendInv'
  <2>1. CASE AppendRow(w)
    BY <1>1, <2>1, AppendRowInv
  <2>2. CASE AppendFails(w)
    <3>1. pc'[w] = "failed"
      BY <1>1, <2>2 DEF AppendFails, Goto
    <3> QED
      BY <3>1 DEF AppendInv
  <2>3. CASE BeginBatch(w) \/ LockBatch(w) \/ UnlockBatch(w) \/ EndBatches(w)
    <3>1. UNCHANGED <<join, input, table, link>>
      BY <2>3 DEF BeginBatch, LockBatch, UnlockBatch, EndBatches
    <3>2. \/ \E p \in {"lock", "cancelled"} : pc' = [pc EXCEPT ![w] = p] /\ pc[w] = "batch"
          \/ pc' = [pc EXCEPT ![w] = "append"] /\ pc[w] = "lock"
          \/ pc' = [pc EXCEPT ![w] = "batch"] /\ pc[w] = "unlock"
          \/ /\ pc' = [pc EXCEPT ![w] = "combined"] /\ pc[w] = "batch"
             /\ link[w].row > local[w].count
      BY <2>3 DEF BeginBatch, LockBatch, UnlockBatch, EndBatches, Goto, At
    <3>3. pc[w] \in LockPoints /\ Locked
      <4>1. pc[w] \in LockPoints
        BY <3>2 DEF LockPoints
      <4> QED
        BY <1>1, <4>1 DEF WorkerInv, WorkerOK
    <3>4. CASE ~PhantomRows /\ \A v \in Workers : pc[v] # "failed"
      <4>1. pc'[w] = "combined" => link[w].row = Len(input[w]) + 1
        <5>1. pc'[w] = "combined" => link[w].row > local[w].count
          BY <1>1, <3>2
        <5>2. local[w].count = Len(input[w])
          BY <1>1, <3>3 DEF WorkerInv, WorkerOK, BuildPoints, LockPoints
        <5>3. link[w].row <= Len(input[w]) + 1
          BY <3>3, <3>4 DEF AppendInv, Appended
        <5> QED
          BY <1>1, <5>1, <5>2, <5>3, WorkerFacts
      <4>2. \A v \in Workers : /\ link'[v].row = link[v].row
                               /\ pc[v] = "failed" => pc'[v] = "failed"
                               /\ pc'[v] = "combined" => \/ pc[v] = "combined"
                                                         \/ link[v].row = Len(input[v]) + 1
        BY <1>1, <3>1, <3>2, <3>4, <4>1
      <4> QED
        BY <3>1, <4>2, FrameAppendInv
    <3>5. CASE PhantomRows \/ \E v \in Workers : pc[v] = "failed"
      <4>1. PhantomRows' = PhantomRows
        BY <3>1, ModeFrame DEF PhantomRows
      <4>2. \A v \in Workers : pc[v] = "failed" => pc'[v] = "failed"
        BY <1>1, <3>2
      <4> QED
        BY <3>5, <4>1, <4>2 DEF AppendInv
    <3> QED
      BY <3>4, <3>5
  <2>4. CASE \/ Prepare(w) \/ SumUp(w) \/ PublishPrepared(w) \/ AwaitPrepared(w)
             \/ CopyLocal(w) \/ ExchangeHead(w) \/ StoreLink(w)
    <3>1. UNCHANGED join /\ pc[w] \in OwnPoints
      BY <2>4 DEF Prepare, SumUp, PublishPrepared, AwaitPrepared, CopyLocal, ExchangeHead, StoreLink,
                  At, OwnPoints
    <3>2. ~Locked
      BY <1>1, <3>1 DEF WorkerInv, WorkerOK
    <3> QED
      BY <3>1, <3>2, ModeFrame DEF AppendInv
  <2> QED
    BY <1>4, <2>1, <2>2, <2>3, <2>4 DEF CombineStep
<1>5. CASE Finalize \/ ProbeStep \/ Release
  <2>1. UNCHANGED <<join, input, pc, link>> /\ table'.rows = table.rows
    BY <1>1, <1>5, EndFrame, EndTable
  <2> QED
    BY <2>1, FrameAppendInv
<1>6. CASE UNCHANGED vars
  <2>1. UNCHANGED <<join, input, pc, link, table>>
    BY <1>6 DEF vars
  <2> QED
    BY <2>1, FrameAppendInv
<1> QED
  BY <1>2, <1>3, <1>4, <1>5, <1>6 DEF Next

\* After FINALIZE the rows of the table are those of the input.
LEMMA RowsAreFinal ==
    ASSUME JoinInv, AppendInv, probe.pc # "build", ~PhantomRows
    PROVE  FinalRows
<1>1. /\ TypeInv /\ WorkerInv /\ PhaseInv /\ PrepareInv /\ EmptyInv /\ RangeInv
  BY DEF JoinInv
<1>2. \A w \in Workers : pc[w] \in {"absent", "combined"}
  BY <1>1 DEF PhaseInv
<1>3. \A w \in Workers : pc[w] = "absent" => Len(input[w]) = 0
  BY <1>1 DEF WorkerInv, WorkerOK
<1>4. \A w \in Workers : Len(input[w]) \in Nat /\ link[w].row \in Nat
  BY <1>1, WorkerFacts
<1>5. CASE Locked
  <2>1. Appended
    BY <1>2, <1>5 DEF AppendInv
  <2>2. \A w \in Workers : link[w].row - 1 <= Len(input[w])
            /\ (pc[w] = "combined" => link[w].row - 1 = Len(input[w]))
    <3>1. ASSUME NEW w \in Workers
          PROVE  link[w].row - 1 <= Len(input[w])
                 /\ (pc[w] = "combined" => link[w].row - 1 = Len(input[w]))
      <4>1. link[w].row <= Len(input[w]) + 1
            /\ (pc[w] = "combined" => link[w].row = Len(input[w]) + 1)
        BY <2>1 DEF Appended
      <4>2. link[w].row \in Nat /\ Len(input[w]) \in Nat
        BY <1>4
      <4> QED
        BY <4>1, <4>2
    <3> QED
      BY <3>1
  <2>3. ASSUME NEW i \in 1 .. N
        PROVE  \E w \in Workers : \E k \in 1 .. Len(input[w]) : table.rows[i] = Row(w, k)
    <3>1. PICK w \in Workers : \E k \in 1 .. link[w].row - 1 : table.rows[i] = Row(w, k)
      BY <2>1 DEF Appended
    <3>2. \A k \in 1 .. link[w].row - 1 : k \in 1 .. Len(input[w])
      BY <1>4, <2>2
    <3> QED
      BY <3>1, <3>2
  <2>4. ASSUME NEW w \in Workers, NEW k \in 1 .. Len(input[w])
        PROVE  \E i \in 1 .. N : table.rows[i] = Row(w, k)
    <3>1. Len(input[w]) # 0
      BY <1>4
    <3>2. pc[w] = "combined"
      BY <1>2, <1>3, <3>1
    <3>3. k \in 1 .. link[w].row - 1
      BY <2>2, <3>2
    <3> QED
      BY <2>1, <3>3 DEF Appended
  <2>5. join.mode \in {"INNER", "LEFT"} =>
            \A i, j \in 1 .. N : table.rows[i].id = table.rows[j].id => i = j
    BY <1>1, <1>5, <2>1, LockedModes DEF Appended
  <2> QED
    BY <2>3, <2>4, <2>5 DEF FinalRows
<1>6. CASE ~Locked /\ ~Summed
  <2>1. payload.prepare = 0
    <3>1. payload.prepare \in {0, 1, 2}
      BY <1>1 DEF TypeInv, PayloadSet
    <3> QED
      BY <1>1, <1>2, <1>6, <3>1 DEF PrepareInv, Summed
  <2>2. \A w \in Workers : pc[w] # "combined"
    BY <1>1, <1>6, <2>1 DEF PrepareInv
  <2>3. \A w \in Workers : Len(input[w]) = 0
    BY <1>2, <1>3, <2>2
  <2>4. N = 0
    BY <1>1, <1>6 DEF EmptyInv, N
  <2>5. 1 .. 0 = {}
    OBVIOUS
  <2> QED
    BY <2>3, <2>4, <2>5 DEF FinalRows
<1>7. CASE Summed
  <2>1. ASSUME NEW v \in Workers
        PROVE  /\ registry[v].row_count = Len(input[v]) /\ registry[v].offset \in Nat
               /\ registry[v].offset + Len(input[v]) <= N
               /\ \A k \in 1 .. Len(input[v]) : table.rows[registry[v].offset + k] = Row(v, k)
    <3>1. registry[v].row_count = Len(input[v]) /\ registry[v].offset + Len(input[v]) <= N
            /\ RangeOK(v)
      BY <1>1, <1>7 DEF RangeInv
    <3>2. registry[v].offset \in Nat
      BY <1>1, WorkerFacts
    <3>3. Len(input[v]) # 0 => pc[v] = "combined"
      BY <1>2, <1>3
    <3>4. ASSUME NEW k \in 1 .. Len(input[v])
          PROVE  table.rows[registry[v].offset + k] = Row(v, k)
      <4>1. pc[v] = "combined"
        BY <1>4, <3>3
      <4> QED
        BY <3>1, <4>1 DEF RangeOK
    <3> QED
      BY <3>1, <3>2, <3>4
  <2>2. ASSUME NEW i \in 1 .. N
        PROVE  \E v \in Workers : \E k \in 1 .. Len(input[v]) :
                   table.rows[i] = Row(v, k) /\ i = registry[v].offset + k
    <3>1. PICK v \in Workers : i - registry[v].offset \in 1 .. registry[v].row_count
      BY <1>1, <1>7 DEF RangeInv
    <3>2. PICK k : k = i - registry[v].offset
      OBVIOUS
    <3>3. k \in 1 .. Len(input[v]) /\ i \in Nat
      BY <2>1, <3>1, <3>2, TableFacts, <1>1
    <3>4. i = registry[v].offset + k
      BY <2>1, <3>2, <3>3
    <3> QED
      BY <2>1, <3>3, <3>4
  <2>3. ASSUME NEW v \in Workers, NEW k \in 1 .. Len(input[v])
        PROVE  \E i \in 1 .. N : table.rows[i] = Row(v, k)
    <3>1. registry[v].offset + k \in 1 .. N
      <4>1. N \in Nat /\ Len(input[v]) \in Nat
        BY <1>1, <1>4, TableFacts
      <4>2. registry[v].offset \in Nat /\ registry[v].offset + Len(input[v]) <= N
        BY <2>1
      <4> QED
        BY <4>1, <4>2
    <3> QED
      BY <2>1, <3>1
  <2>4. ASSUME NEW i \in 1 .. N, NEW j \in 1 .. N, table.rows[i].id = table.rows[j].id
        PROVE  i = j
    <3>1. PICK v \in Workers : \E k \in 1 .. Len(input[v]) :
                   table.rows[i] = Row(v, k) /\ i = registry[v].offset + k
      BY <2>2
    <3>2. PICK k \in 1 .. Len(input[v]) : table.rows[i] = Row(v, k) /\ i = registry[v].offset + k
      BY <3>1
    <3>3. PICK u \in Workers : \E l \in 1 .. Len(input[u]) :
                   table.rows[j] = Row(u, l) /\ j = registry[u].offset + l
      BY <2>2
    <3>4. PICK l \in 1 .. Len(input[u]) : table.rows[j] = Row(u, l) /\ j = registry[u].offset + l
      BY <3>3
    <3>5. v = u /\ k = l
      BY <2>4, <3>2, <3>4 DEF Row
    <3> QED
      BY <3>2, <3>4, <3>5
  <2> QED
    BY <2>2, <2>3, <2>4 DEF FinalRows
<1> QED
  BY <1>5, <1>6, <1>7

------------------------------------------------------------------------------
(* What the prober has put out when it stands where it stands. *)

\* The rows of the bucket the cursor is in, and those of them that lie behind it.
Bucketful == {i \in 1 .. N : BucketOf(i) = Bucket(ProbeKey, payload.hash_capacity)}
Passed(rank) == {i \in Bucketful : probe.build = None \/ rank[i] > rank[probe.build]}
Hits(rank) == {i \in Passed(rank) : table.rows[i].id \in Matches(ProbeKey)}

\* What has been put out for the current row, and for earlier rows.
Seen(rank) ==
    IF join.mode \in {"INNER", "LEFT"} THEN {table.rows[i].id : i \in Hits(rank)}
    ELSE IF join.mode = "SEMI" /\ probe.matched THEN {NoRow.id} ELSE {}
Current(rank) ==
    IF probe.active /\ probe.have
    THEN {<<probe.chunk, probe.row, id>> : id \in Seen(rank)} ELSE {}
Closed(c, r) ==
    c < probe.chunk \/ (c = probe.chunk /\ (probe.drained \/ (probe.active /\ r < probe.row)))
Past == {e \in SqlJoin : Closed(e[1], e[2])}
Pending == IF probe.pc \in {"row", "match"} THEN Range(out) ELSE {}

CursorOK(rank) ==
    probe.active /\ probe.have =>
        /\ probe.build # None => probe.build \in Bucketful
        /\ probe.matched <=> Hits(rank) # {}
        /\ join.mode \in {"SEMI", "ANTI"} /\ probe.matched => probe.build = None

Progress(rank) == CursorOK(rank) /\ DOMAIN emitted \cup Pending = Past \cup Current(rank)

\* Nothing is put out twice, and a row is not left before its end.
Tally ==
    /\ emitted = SetToBag(DOMAIN emitted)
    /\ probe.pc \in {"row", "match"} =>
          /\ probe.active
          /\ Range(out) \cap DOMAIN emitted = {}
          /\ \A i, j \in DOMAIN out : out[i] = out[j] => i = j
    /\ probe.pc = "match" => probe.have
    /\ probe.drained => ~probe.active
    /\ probe.active => probe.chunk <= Len(Chunks)
    /\ probe.active /\ probe.have => probe.row <= Len(in)
    /\ probe.pc = "done" => probe.chunk > Len(Chunks)

Ranked(rank) ==
    \A b \in DOMAIN table.heads :
        LET T == {i \in 1 .. N : BucketOf(i) = b}
        IN  Greatest(T, rank, table.heads[b]) /\ Linked(T, rank, table.links)

OutputInv ==
    /\ probe.pc = "build" =>
          probe.chunk = 1 /\ ~probe.active /\ ~probe.drained /\ emitted = EmptyBag
    /\ probe.pc # "build" /\ ~PhantomRows =>
          IF table.built
          THEN Tally /\ \A rank \in [1 .. N -> Nat] : Ranked(rank) => Progress(rank)
          ELSE ~probe.active /\ ~probe.drained /\ emitted = EmptyBag

\* The input, the plan and the table stay as they are.
LEMMA JoinFrame ==
    ASSUME UNCHANGED <<join, input, table>>, payload'.hash_capacity = payload.hash_capacity
    PROVE  /\ \A key : Matches(key)' = Matches(key)
           /\ \A c, r : RowsOf(c, r)' = RowsOf(c, r)
           /\ SqlJoin' = SqlJoin /\ N' = N /\ PhantomRows' = PhantomRows
           /\ \A rank : Ranked(rank)' = Ranked(rank)
<1>1. ASSUME NEW key
      PROVE  Matches(key)' = Matches(key)
  <2>1. \A row : Accepts(row)' = Accepts(row)
    BY DEF Accepts
  <2>2. \A w, i : Row(w, i)' = Row(w, i)
    BY DEF Row
  <2>3. \A w, i : Accepts(Row(w, i))' = Accepts(Row(w, i))
    BY <2>1, <2>2 DEF Row, Accepts
  <2> QED
    BY <2>3 DEF Matches
<1>2. ASSUME NEW c, NEW r
      PROVE  RowsOf(c, r)' = RowsOf(c, r)
  BY <1>1 DEF RowsOf
<1>3. SqlJoin' = SqlJoin
  BY <1>2 DEF SqlJoin
<1>4. N' = N /\ PhantomRows' = PhantomRows
  BY ModeFrame DEF N, PhantomRows
<1>5. ASSUME NEW rank
      PROVE  Ranked(rank)' = Ranked(rank)
  BY <1>4 DEF Ranked, BucketOf, Bucket, Greatest, Linked, Below
<1> QED
  BY <1>1, <1>2, <1>3, <1>4, <1>5

\* The members of the join are triples of chunk, row and id.
LEMMA InJoin ==
    \A e : e \in SqlJoin <=> \E c \in DOMAIN Chunks : \E r \in DOMAIN Chunks[c] :
                                 \E id \in RowsOf(c, r) : e = <<c, r, id>>
<1>1. ASSUME NEW e
      PROVE  e \in SqlJoin <=> \E c \in DOMAIN Chunks : \E r \in DOMAIN Chunks[c] :
                                   e \in {c} \X {r} \X RowsOf(c, r)
  BY DEF SqlJoin
<1>2. ASSUME NEW c, NEW r, NEW e
      PROVE  e \in {c} \X {r} \X RowsOf(c, r) <=> \E id \in RowsOf(c, r) : e = <<c, r, id>>
  OBVIOUS
<1> QED
  BY <1>1, <1>2

\* The rows that match a key are in the table, in the bucket of the key.
LEMMA MatchFacts ==
    ASSUME TypeInv, FinalRows, NEW key
    PROVE  /\ \A i \in 1 .. N :
                  table.rows[i].id \in Matches(key) <=>
                      table.rows[i].key = key /\ (join.filtered => Accepts(table.rows[i]))
           /\ \A id \in Matches(key) : \E i \in 1 .. N : table.rows[i].id = id
<1>1. ASSUME NEW w \in Workers, NEW k
      PROVE  <<w, k>> \in Matches(key) <=>
                 /\ k \in 1 .. Len(input[w]) /\ input[w][k] = key
                 /\ join.filtered => Accepts(Row(w, k))
  <2>1. DOMAIN input[w] = 1 .. Len(input[w])
    BY WorkerFacts
  <2>2. <<w, k>> \in UNION {{v} \X DOMAIN input[v] : v \in Workers} <=> k \in DOMAIN input[w]
    OBVIOUS
  <2> QED
    BY <2>1, <2>2 DEF Matches
<1>2. ASSUME NEW i \in 1 .. N
      PROVE  table.rows[i].id \in Matches(key) <=>
                 table.rows[i].key = key /\ (join.filtered => Accepts(table.rows[i]))
  <2>1. PICK w \in Workers : \E k \in 1 .. Len(input[w]) : table.rows[i] = Row(w, k)
    BY DEF FinalRows
  <2>2. PICK k \in 1 .. Len(input[w]) : table.rows[i] = Row(w, k)
    BY <2>1
  <2>3. table.rows[i].id = <<w, k>> /\ table.rows[i].key = input[w][k]
    BY <2>2 DEF Row
  <2> QED
    BY <1>1, <2>2, <2>3
<1>3. ASSUME NEW id \in Matches(key)
      PROVE  \E i \in 1 .. N : table.rows[i].id = id
  <2>1. PICK w \in Workers : \E k : id = <<w, k>>
    BY DEF Matches
  <2>2. PICK k : id = <<w, k>>
    BY <2>1
  <2>3. k \in 1 .. Len(input[w])
    BY <1>1, <2>2
  <2>4. PICK i \in 1 .. N : table.rows[i] = Row(w, k)
    BY <2>3 DEF FinalRows
  <2>5. table.rows[i].id = <<w, k>>
    BY <2>4 DEF Row
  <2> QED
    BY <2>2, <2>5
<1> QED
  BY <1>2, <1>3

\* The cursor stays where it is.
LEMMA SameCursor ==
    ASSUME UNCHANGED <<join, input, table>>, payload'.hash_capacity = payload.hash_capacity,
           probe'.chunk = probe.chunk, probe'.row = probe.row, probe'.build = probe.build,
           probe'.matched = probe.matched, NEW rank
    PROVE  /\ ProbeKey' = ProbeKey /\ in' = in /\ Bucketful' = Bucketful
           /\ Hits(rank)' = Hits(rank) /\ Seen(rank)' = Seen(rank)
           /\ probe'.active = probe.active /\ probe'.have = probe.have =>
                 Current(rank)' = Current(rank) /\ (CursorOK(rank)' <=> CursorOK(rank))
           /\ probe'.active = probe.active /\ probe'.drained = probe.drained => Past' = Past
<1>1. SqlJoin' = SqlJoin /\ N' = N /\ \A key : Matches(key)' = Matches(key)
  BY JoinFrame
<1>2. ProbeKey' = ProbeKey /\ in' = in
  BY DEF ProbeKey, in
<1>3. Bucketful' = Bucketful
  BY <1>1, <1>2 DEF Bucketful, BucketOf, Bucket
<1>4. Passed(rank)' = Passed(rank)
  BY <1>3 DEF Passed
<1>5. Hits(rank)' = Hits(rank)
  <2>1. Matches(ProbeKey)' = Matches(ProbeKey)
    <3>1. PICK key : key = ProbeKey
      OBVIOUS
    <3>2. Matches(ProbeKey)' = Matches(key)'
      BY <1>2, <3>1 DEF Matches
    <3> QED
      BY <1>1, <3>1, <3>2
  <2> QED
    BY <1>4, <2>1 DEF Hits
<1>6. Seen(rank)' = Seen(rank)
  BY <1>5 DEF Seen
<1>7. probe'.active = probe.active /\ probe'.have = probe.have =>
          Current(rank)' = Current(rank) /\ (CursorOK(rank)' <=> CursorOK(rank))
  BY <1>3, <1>5, <1>6 DEF Current, CursorOK
<1>8. probe'.active = probe.active /\ probe'.drained = probe.drained => Past' = Past
  BY <1>1 DEF Past, Closed
<1> QED
  BY <1>2, <1>3, <1>5, <1>6, <1>7, <1>8

\* The chain of the bucket the cursor is in.
LEMMA BucketChain ==
    ASSUME TypeInv, TableInv, ProbeInv, table.built, probe.pc \in {"row", "match"},
           probe.row <= Len(in), NEW rank, Ranked(rank)
    PROVE  LET b == Bucket(ProbeKey, payload.hash_capacity)
           IN  /\ Bucketful \in SUBSET (1 .. N) /\ ProbeKey \in Keys
               /\ table.heads[b] \in 0 .. N /\ table.links \in [1 .. N -> 0 .. N]
               /\ Greatest(Bucketful, rank, table.heads[b])
               /\ Linked(Bucketful, rank, table.links)
<1> DEFINE b == Bucket(ProbeKey, payload.hash_capacity)
<1>1. ProbeKey \in Keys
  BY InputFacts
<1>2. b \in DOMAIN table.heads /\ table.heads[b] \in 0 .. N
  <2>1. payload.hash_capacity \in Nat \ {0}
    BY TableFacts, HashCapacityType DEF TableInv
  <2>2. b \in 0 .. payload.hash_capacity - 1
    BY <1>1, <2>1, BucketType
  <2> HIDE DEF b
  <2> QED
    BY <2>2 DEF TableInv
<1>3. Bucketful = {i \in 1 .. N : BucketOf(i) = b}
  BY DEF Bucketful
<1> HIDE DEF b
<1>4. Greatest(Bucketful, rank, table.heads[b]) /\ Linked(Bucketful, rank, table.links)
  BY <1>2, <1>3 DEF Ranked
<1> QED
  BY <1>1, <1>2, <1>3, <1>4 DEF b, TableInv

\* A match has the salt of the key and hangs in its bucket.
LEMMA MatchesHang ==
    ASSUME TypeInv, FinalRows, NEW i \in 1 .. N, table.rows[i].id \in Matches(ProbeKey)
    PROVE  i \in Bucketful /\ Salt(table.rows[i].key) = Salt(ProbeKey)
<1>1. table.rows[i].key = ProbeKey
  BY MatchFacts
<1> QED
  BY <1>1 DEF Bucketful, BucketOf, Salt

\* A row's output is not among that of earlier rows.
LEMMA RowIsOpen ==
    ASSUME TypeInv, probe.active, ~probe.drained, NEW id
    PROVE  <<probe.chunk, probe.row, id>> \notin Past
<1>1. probe.chunk \in Nat /\ probe.row \in Nat
  BY DEF TypeInv, ProbeSet
<1> QED
  BY <1>1 DEF Past, Closed

\* The state of a prober that has a table.
Probing == TypeInv /\ TableInv /\ ProbeInv /\ FinalRows /\ table.built /\ Tally

\* Chunks and rows are numbers.
LEMMA JoinNumbers ==
    ASSUME NEW e \in SqlJoin
    PROVE  /\ e[1] \in 1 .. Len(Chunks) /\ e[1] \in Nat
           /\ e[2] \in 1 .. Len(Chunks[e[1]]) /\ e[2] \in Nat
<1>1. PICK c \in DOMAIN Chunks : \E r \in DOMAIN Chunks[c] : \E id \in RowsOf(c, r) : e = <<c, r, id>>
  BY InJoin
<1>5. PICK r \in DOMAIN Chunks[c] : \E id \in RowsOf(c, r) : e = <<c, r, id>>
  BY <1>1
<1>2. DOMAIN Chunks = 1 .. Len(Chunks) /\ Chunks[c] \in Seq(Keys)
  BY <1>1, RowsAssumption
<1>3. DOMAIN Chunks[c] = 1 .. Len(Chunks[c])
  BY <1>2
<1>4. e[1] = c /\ e[2] = r
  BY <1>5
<1> QED
  BY <1>1, <1>2, <1>3, <1>4, <1>5

\* No row is closed or opened.
LEMMA SamePast ==
    ASSUME UNCHANGED <<join, input, table>>, payload'.hash_capacity = payload.hash_capacity,
           \A e \in SqlJoin : Closed(e[1], e[2])' <=> Closed(e[1], e[2])
    PROVE  Past' = Past
BY JoinFrame DEF Past

\* A chunk is taken up, resumed or given up.
LEMMA ExecuteOutput ==
    ASSUME Probing, NEW rank, Progress(rank), Execute
    PROVE  Tally' /\ Progress(rank)'
<1>1. /\ UNCHANGED <<join, input, table, emitted>> /\ payload'.hash_capacity = payload.hash_capacity
      /\ probe.pc = "call" /\ probe.chunk <= Len(Chunks) /\ out' = <<>> /\ table.built
  BY DEF Execute, buildVars, Probing
<1>2. probe \in ProbeSet /\ probe.chunk \in Nat /\ probe.row \in Nat \ {0}
  BY DEF Probing, TypeInv, ProbeSet
<1>3. DOMAIN emitted = Past \cup Current(rank) /\ CursorOK(rank) /\ Tally
  BY <1>1 DEF Progress, Pending, Probing
<1>4. Range(out') = {} /\ DOMAIN out' = {}
  BY <1>1 DEF Range
<1>5. Pending' = {}
  BY <1>4 DEF Pending
<1>6. CASE probe.drained
  <2>1. probe' = [probe EXCEPT !.drained = FALSE, !.chunk = @ + 1]
    BY <1>6 DEF Execute
  <2>2. /\ probe'.pc = "call" /\ probe'.chunk = probe.chunk + 1 /\ ~probe'.drained
        /\ ~probe.active /\ ~probe'.active
    BY <1>1, <1>2, <1>3, <1>6, <2>1 DEF Tally, ProbeSet
  <2>3. ASSUME NEW e \in SqlJoin
        PROVE  Closed(e[1], e[2])' <=> Closed(e[1], e[2])
    BY <1>2, <1>6, <2>2, JoinNumbers DEF Closed
  <2>4. Past' = Past
    BY <1>1, <2>3, SamePast
  <2>5. Current(rank) = {} /\ Current(rank)' = {} /\ CursorOK(rank)'
    BY <2>2 DEF Current, CursorOK
  <2>6. Tally'
    BY <1>1, <1>3, <2>2 DEF Tally
  <2> QED
    BY <1>1, <1>3, <1>5, <2>4, <2>5, <2>6 DEF Progress
<1>7. CASE ~probe.drained /\ probe.active
  <2>1. probe' = [probe EXCEPT !.pc = "row"]
    BY <1>1, <1>7 DEF Execute
  <2>2. /\ probe'.pc = "row" /\ probe'.chunk = probe.chunk /\ probe'.row = probe.row
        /\ probe'.build = probe.build /\ probe'.have = probe.have
        /\ probe'.matched = probe.matched /\ probe'.active = probe.active
        /\ probe'.drained = probe.drained
    BY <1>2, <2>1 DEF ProbeSet
  <2>3. /\ Past' = Past /\ Current(rank)' = Current(rank) /\ (CursorOK(rank)' <=> CursorOK(rank))
        /\ in' = in
    BY <1>1, <2>2, SameCursor
  <2>4. Tally'
    BY <1>1, <1>3, <1>4, <1>7, <2>2, <2>3 DEF Tally
  <2> QED
    BY <1>1, <1>3, <1>5, <2>3, <2>4 DEF Progress
<1>8. CASE ~probe.drained /\ ~probe.active
  <2>1. probe' = [probe EXCEPT !.pc = "row", !.active = TRUE, !.row = 1,
                               !.build = None, !.have = FALSE, !.matched = FALSE]
    BY <1>1, <1>8 DEF Execute
  <2>2. /\ probe'.pc = "row" /\ probe'.chunk = probe.chunk /\ probe'.row = 1
        /\ probe'.have = FALSE /\ probe'.active = TRUE /\ probe'.drained = FALSE
    BY <1>2, <1>8, <2>1 DEF ProbeSet
  <2>3. ASSUME NEW e \in SqlJoin
        PROVE  Closed(e[1], e[2])' <=> Closed(e[1], e[2])
    <3>1. ~(e[2] < 1)
      BY JoinNumbers
    <3> QED
      BY <1>2, <1>8, <2>2, <3>1 DEF Closed
  <2>4. Past' = Past
    BY <1>1, <2>3, SamePast
  <2>5. Current(rank) = {} /\ Current(rank)' = {} /\ CursorOK(rank)'
    BY <1>8, <2>2 DEF Current, CursorOK
  <2>6. Tally'
    BY <1>1, <1>3, <1>4, <2>2 DEF Tally
  <2> QED
    BY <1>1, <1>3, <1>5, <2>4, <2>5, <2>6 DEF Progress
<1> QED
  BY <1>6, <1>7, <1>8

\* The output chunk goes to the caller.
LEMMA ReturnOutput ==
    ASSUME Probing, NEW rank, Progress(rank), Return
    PROVE  Tally' /\ Progress(rank)'
<1>1. /\ UNCHANGED <<join, input, table, out>> /\ payload'.hash_capacity = payload.hash_capacity
      /\ probe.pc \in {"row", "match"}
      /\ probe.row > Len(in) \/ Len(out) = ChunkSize
      /\ emitted' = emitted (+) ToBag(out)
      /\ probe' = [probe EXCEPT !.pc = "call", !.active = ~(probe.row > Len(in)),
                                !.drained = probe.row > Len(in) /\ out # <<>>,
                                !.chunk = IF out = <<>> THEN @ + 1 ELSE @]
  BY DEF Return, buildVars
<1>2. /\ probe \in ProbeSet /\ probe.chunk \in Nat /\ probe.row \in Nat \ {0} /\ out \in Seq(OutSet)
      /\ probe.chunk <= Len(Chunks) /\ ChunkSize # 0
  BY <1>1, SizesAssumption DEF Probing, ProbeInv, TypeInv, ProbeSet
<1>3. /\ CursorOK(rank) /\ Tally /\ DOMAIN emitted \cup Range(out) = Past \cup Current(rank)
      /\ probe.active /\ ~probe.drained
  BY <1>1 DEF Progress, Pending, Probing, Tally
<1>4. /\ probe'.pc = "call" /\ probe'.active = ~(probe.row > Len(in))
      /\ probe'.drained = (probe.row > Len(in) /\ out # <<>>)
      /\ probe'.chunk = (IF out = <<>> THEN probe.chunk + 1 ELSE probe.chunk)
      /\ probe'.row = probe.row /\ probe'.build = probe.build /\ probe'.have = probe.have
      /\ probe'.matched = probe.matched
  BY <1>1, <1>2 DEF ProbeSet
<1>5. emitted' = SetToBag(DOMAIN emitted \cup Range(out))
  <2>1. emitted = SetToBag(DOMAIN emitted)
    BY <1>3 DEF Tally
  <2>2. /\ Range(out) \cap DOMAIN emitted = {}
        /\ \A i, j \in DOMAIN out : out[i] = out[j] => i = j
    BY <1>1, <1>3 DEF Tally
  <2>3. PICK E : E = DOMAIN emitted
    OBVIOUS
  <2>4. SetToBag(E) (+) ToBag(out) = SetToBag(E \cup Range(out))
    BY <1>2, <2>2, <2>3, BagOfChunk
  <2> QED
    BY <1>1, <2>1, <2>3, <2>4
<1>6. DOMAIN emitted' = DOMAIN emitted \cup Range(out)
  BY <1>5 DEF SetToBag
<1>7. emitted' = SetToBag(DOMAIN emitted')
  BY <1>5, <1>6
<1>8. Pending' = {}
  BY <1>4 DEF Pending
<1>9. in = Chunks[probe.chunk] /\ in \in Seq(Keys) /\ Len(in) \in Nat
  <2>1. probe.chunk \in 1 .. Len(Chunks)
    BY <1>2 DEF ProbeSet
  <2>2. Chunks[probe.chunk] \in Seq(Keys)
    BY <2>1, RowsAssumption
  <2> QED
    BY <2>2 DEF in
<1>10. CASE probe.row > Len(in)
  <2>1. Current(rank) = {}
    BY <1>3, <1>2, <1>9, <1>10 DEF Tally, Current
  <2>2. Current(rank)' = {} /\ CursorOK(rank)'
    BY <1>4, <1>10 DEF Current, CursorOK
  <2>3. ASSUME NEW e \in SqlJoin
        PROVE  Closed(e[1], e[2])' <=> Closed(e[1], e[2])
    <3>1. e[1] = probe.chunk => e[2] < probe.row
      <4>1. e[2] \in 1 .. Len(Chunks[e[1]])
        BY JoinNumbers
      <4>2. e[1] = probe.chunk => e[2] \in 1 .. Len(in)
        BY <1>9, <4>1
      <4> HIDE DEF in
      <4> QED
        BY <1>2, <1>9, <1>10, <4>2
    <3>2. CASE out = <<>>
      <4>1. probe'.chunk = probe.chunk + 1 /\ ~probe'.active /\ ~probe'.drained
        BY <1>4, <1>10, <3>2
      <4>2. e[1] \in Nat
        BY JoinNumbers
      <4>3. Closed(e[1], e[2])' <=> e[1] < probe.chunk + 1
        BY <4>1 DEF Closed
      <4>4. Closed(e[1], e[2]) <=> e[1] < probe.chunk \/ e[1] = probe.chunk
        BY <1>3, <3>1 DEF Closed
      <4> QED
        BY <1>2, <4>2, <4>3, <4>4
    <3>3. CASE out # <<>>
      BY <1>2, <1>3, <1>4, <1>10, <3>1, <3>3, JoinNumbers DEF Closed
    <3> QED
      BY <3>2, <3>3
  <2>4. Past' = Past
    BY <1>1, <2>3, SamePast
  <2>5. Tally'
    BY <1>4, <1>7, <1>10 DEF Tally
  <2> QED
    BY <1>3, <1>6, <1>8, <2>1, <2>2, <2>4, <2>5 DEF Progress
<1>11. CASE ~(probe.row > Len(in))
  <2>1. out # <<>>
    BY <1>1, <1>2, <1>11
  <2>2. /\ Past' = Past /\ Current(rank)' = Current(rank) /\ (CursorOK(rank)' <=> CursorOK(rank))
        /\ in' = in
    <3>1. probe'.active = probe.active /\ probe'.drained = probe.drained
      BY <1>2, <1>3, <1>4, <1>11 DEF ProbeSet
    <3> QED
      BY <1>1, <1>4, <2>1, <3>1, SameCursor
  <2>3. probe'.row <= Len(in)
    BY <1>2, <1>4, <1>9, <1>11
  <2>4. Tally'
    BY <1>2, <1>3, <1>4, <1>7, <1>11, <2>1, <2>2, <2>3 DEF Tally
  <2> QED
    BY <1>3, <1>6, <1>8, <2>2, <2>4 DEF Progress
<1> QED
  BY <1>10, <1>11

\* There is no chunk left.
LEMMA EndProbeOutput ==
    ASSUME Probing, NEW rank, Progress(rank), EndProbe
    PROVE  Tally' /\ Progress(rank)'
<1>1. /\ UNCHANGED <<join, input, table, out, emitted>>
      /\ payload'.hash_capacity = payload.hash_capacity
      /\ probe.pc = "call" /\ probe.chunk > Len(Chunks) /\ probe' = [probe EXCEPT !.pc = "done"]
  BY DEF EndProbe, buildVars
<1>2. probe \in ProbeSet
  BY DEF Probing, TypeInv
<1>3. /\ probe'.pc = "done" /\ probe'.chunk = probe.chunk /\ probe'.row = probe.row
      /\ probe'.build = probe.build /\ probe'.have = probe.have
      /\ probe'.matched = probe.matched /\ probe'.active = probe.active
      /\ probe'.drained = probe.drained
  BY <1>1, <1>2 DEF ProbeSet
<1>4. /\ Past' = Past /\ Current(rank)' = Current(rank) /\ (CursorOK(rank)' <=> CursorOK(rank))
      /\ in' = in
  BY <1>1, <1>3, SameCursor
<1>5. Pending = {} /\ Pending' = {}
  BY <1>1, <1>3 DEF Pending
<1>6. Tally /\ Progress(rank)
  BY DEF Probing
<1>7. Tally'
  BY <1>1, <1>3, <1>4, <1>6 DEF Tally
<1> QED
  BY <1>1, <1>4, <1>5, <1>6, <1>7 DEF Progress
\* The cursor moves within its chain.
LEMMA MovedCursor ==
    ASSUME UNCHANGED <<join, input, table>>, payload'.hash_capacity = payload.hash_capacity,
           probe'.chunk = probe.chunk, probe'.row = probe.row, NEW rank
    PROVE  /\ in' = in /\ Bucketful' = Bucketful
           /\ \A i : i \in Hits(rank)' <=>
                 /\ i \in Bucketful
                 /\ probe'.build = None \/ rank[i] > rank[probe'.build]
                 /\ table.rows[i].id \in Matches(ProbeKey)
<1>1. N' = N /\ \A key : Matches(key)' = Matches(key)
  BY JoinFrame
<1>2. ProbeKey' = ProbeKey /\ in' = in
  BY DEF ProbeKey, in
<1>3. Bucketful' = Bucketful
  BY <1>1, <1>2 DEF Bucketful, BucketOf, Bucket
<1>4. Matches(ProbeKey)' = Matches(ProbeKey)
  <2>1. PICK key : key = ProbeKey
    OBVIOUS
  <2>2. Matches(ProbeKey)' = Matches(key)'
    BY <1>2, <2>1 DEF Matches
  <2> QED
    BY <1>1, <2>1, <2>2
<1>5. \A i : i \in Passed(rank)' <=>
          i \in Bucketful /\ (probe'.build = None \/ rank[i] > rank[probe'.build])
  BY <1>3 DEF Passed
<1>6. ASSUME NEW i
      PROVE  i \in Hits(rank)' <=> /\ i \in Passed(rank)'
                                   /\ table.rows[i].id \in Matches(ProbeKey)
  BY <1>4 DEF Hits
<1> QED
  BY <1>2, <1>3, <1>5, <1>6

\* A row of its own is added to the output chunk.
LEMMA OutputGrows ==
    ASSUME Probing, probe.pc \in {"row", "match"}, NEW o, o \notin Range(out),
           o \notin DOMAIN emitted, out' = Append(out, o), emitted' = emitted
    PROVE  /\ Range(out') = Range(out) \cup {o}
           /\ Range(out') \cap DOMAIN emitted' = {}
           /\ \A i, j \in DOMAIN out' : out'[i] = out'[j] => i = j
<1>1. out \in Seq(OutSet) /\ Len(out) \in Nat /\ DOMAIN out = 1 .. Len(out)
  BY DEF Probing, TypeInv
<1>2. PICK n \in Nat : n = Len(out)
  BY <1>1
<1>3. /\ DOMAIN out' = 1 .. n + 1 /\ out'[n + 1] = o
      /\ \A i \in 1 .. n : out'[i] = out[i] /\ i \in DOMAIN out
  BY <1>1, <1>2
<1>4. \A i \in 1 .. n + 1 : i \in 1 .. n \/ i = n + 1
  OBVIOUS
<1>5. Range(out') = Range(out) \cup {o}
  <2>1. ASSUME NEW e \in Range(out')
        PROVE  e \in Range(out) \cup {o}
    BY <1>3, <1>4 DEF Range
  <2>2. ASSUME NEW e \in Range(out)
        PROVE  e \in Range(out')
    <3>1. PICK i \in DOMAIN out : out[i] = e
      BY DEF Range
    <3>2. i \in 1 .. n /\ i \in 1 .. n + 1
      BY <1>1, <1>2, <3>1
    <3> QED
      BY <1>3, <3>1, <3>2 DEF Range
  <2>3. o \in Range(out')
    <3>1. n + 1 \in DOMAIN out'
      BY <1>3
    <3> QED
      BY <1>3, <3>1 DEF Range
  <2> QED
    BY <2>1, <2>2, <2>3
<1>6. /\ Range(out) \cap DOMAIN emitted = {}
      /\ \A i, j \in DOMAIN out : out[i] = out[j] => i = j
  BY DEF Probing, Tally
<1>7. ASSUME NEW i \in DOMAIN out', NEW j \in DOMAIN out', out'[i] = out'[j]
      PROVE  i = j
  <2>1. \A k \in 1 .. n : out'[k] # o
    BY <1>3 DEF Range
  <2>2. CASE i \in 1 .. n /\ j \in 1 .. n
    BY <1>3, <1>6, <1>7, <2>2
  <2> QED
    BY <1>3, <1>4, <1>7, <2>1, <2>2
<1> QED
  BY <1>5, <1>6, <1>7

\* Where a search has ended no match has been passed over.
LEMMA NoMatchPassed ==
    ASSUME Probing, NEW rank, NEW T \in SUBSET Bucketful, NEW x, NEW i \in T,
           Found(T, rank, Salt(ProbeKey), x),
           x = None \/ rank[i] > rank[x]
    PROVE  table.rows[i].id \notin Matches(ProbeKey)
<1>1. Salt(table.rows[i].key) # Salt(ProbeKey)
  BY DEF Found
<1>2. i \in 1 .. N
  BY DEF Bucketful
<1> QED
  BY <1>1, <1>2, MatchesHang DEF Probing

\* A probe row is looked up, or taken up where it was left.
LEMMA ProbeRowOutput ==
    ASSUME Probing, NEW rank \in [1 .. N -> Nat], Ranked(rank), Progress(rank), ProbeRow
    PROVE  Tally' /\ Progress(rank)'
<1>1. /\ UNCHANGED <<join, input, table, emitted, out>>
      /\ payload'.hash_capacity = payload.hash_capacity
      /\ probe.pc = "row" /\ probe.row <= Len(in)
  BY DEF ProbeRow, buildVars
<1>2. probe \in ProbeSet
  BY DEF Probing, TypeInv
<1>3. /\ Tally /\ CursorOK(rank) /\ DOMAIN emitted \cup Range(out) = Past \cup Current(rank)
      /\ probe.active
  BY <1>1 DEF Probing, Progress, Pending, Tally
<1>4. CASE probe.have
  <2>1. probe' = [probe EXCEPT !.pc = "match"]
    BY <1>4 DEF ProbeRow
  <2>2. /\ probe'.pc = "match" /\ probe'.chunk = probe.chunk /\ probe'.row = probe.row
        /\ probe'.build = probe.build /\ probe'.have = probe.have
        /\ probe'.matched = probe.matched /\ probe'.active = probe.active
        /\ probe'.drained = probe.drained
    BY <1>2, <2>1 DEF ProbeSet
  <2>3. /\ Past' = Past /\ Current(rank)' = Current(rank) /\ (CursorOK(rank)' <=> CursorOK(rank))
        /\ in' = in
    BY <1>1, <2>2, SameCursor
  <2>4. Tally'
    BY <1>1, <1>3, <1>4, <2>2, <2>3 DEF Tally
  <2>5. Pending' = Range(out)
    BY <1>1, <2>2 DEF Pending
  <2> QED
    BY <1>1, <1>3, <2>3, <2>4, <2>5 DEF Progress
<1>5. CASE ~probe.have
  <2> DEFINE x == SkipTo(table.heads[Bucket(ProbeKey, payload.hash_capacity)], Salt(ProbeKey))
  <2>1. probe' = [probe EXCEPT !.pc = "match", !.have = TRUE, !.matched = FALSE, !.build = x]
    BY <1>5 DEF ProbeRow
  <2>2. Found(Bucketful, rank, Salt(ProbeKey), x)
    <3>1. /\ Bucketful \in SUBSET (1 .. N) /\ table.links \in [1 .. N -> 0 .. N]
          /\ table.heads[Bucket(ProbeKey, payload.hash_capacity)] \in 0 .. N
          /\ Greatest(Bucketful, rank, table.heads[Bucket(ProbeKey, payload.hash_capacity)])
          /\ Linked(Bucketful, rank, table.links)
      BY <1>1, BucketChain DEF Probing
    <3>2. PICK n \in Nat : n = N /\ Len(table.rows) = n
      BY TableFacts DEF Probing, N
    <3> QED
      BY <3>1, <3>2, SkipToFinds
  <2> HIDE DEF x
  <2>3. /\ probe'.pc = "match" /\ probe'.chunk = probe.chunk /\ probe'.row = probe.row
        /\ probe'.build = x /\ probe'.have = TRUE /\ probe'.matched = FALSE
        /\ probe'.active = probe.active /\ probe'.drained = probe.drained
    BY <1>2, <2>1 DEF ProbeSet
  <2>4. /\ in' = in /\ Bucketful' = Bucketful
        /\ \A i : i \in Hits(rank)' <=> /\ i \in Bucketful
                                        /\ probe'.build = None \/ rank[i] > rank[probe'.build]
                                        /\ table.rows[i].id \in Matches(ProbeKey)
    BY <1>1, <2>3, MovedCursor
  <2>5. Hits(rank)' = {}
    <3>1. \A i \in Bucketful : (x = None \/ rank[i] > rank[x]) =>
              table.rows[i].id \notin Matches(ProbeKey)
      BY <2>2, NoMatchPassed
    <3> QED
      BY <2>3, <2>4, <3>1
  <2>6. CursorOK(rank)'
    <3>1. probe'.build # None => probe'.build \in Bucketful'
      BY <2>2, <2>3, <2>4 DEF Found
    <3> QED
      BY <2>3, <2>5, <3>1 DEF CursorOK
  <2>7. Current(rank) = {} /\ Current(rank)' = {}
    <3>1. Seen(rank)' = {}
      BY <2>3, <2>5 DEF Seen
    <3> QED
      BY <1>5, <3>1 DEF Current
  <2>8. Past' = Past
    <3>1. \A e \in SqlJoin : Closed(e[1], e[2])' <=> Closed(e[1], e[2])
      BY <2>3 DEF Closed
    <3> QED
      BY <1>1, <3>1, SamePast
  <2>9. Tally'
    BY <1>1, <1>3, <2>3, <2>4 DEF Tally
  <2>10. Pending' = Range(out)
    BY <1>1, <2>3 DEF Pending
  <2> QED
    BY <1>1, <1>3, <2>6, <2>7, <2>8, <2>9, <2>10 DEF Progress
<1> QED
  BY <1>4, <1>5
\* At the end of a row its matches have been put out.
LEMMA EndOfRow ==
    ASSUME Probing, NEW rank, CursorOK(rank), probe.pc = "match", probe.build = None
    PROVE  /\ probe.matched <=> Matches(ProbeKey) # {}
           /\ RowsOf(probe.chunk, probe.row) =
                 Seen(rank) \cup (IF ~probe.matched /\ join.mode \in {"ANTI", "LEFT"}
                                  THEN {NoRow.id} ELSE {})
           /\ ~probe.matched => Seen(rank) = {}
<1>1. probe.active /\ probe.have /\ (probe.matched <=> Hits(rank) # {})
  BY DEF Probing, Tally, CursorOK
<1>2. ProbeKey = Chunks[probe.chunk][probe.row]
  BY DEF ProbeKey, in
<1>3. \A i : i \in Hits(rank) <=> i \in 1 .. N /\ table.rows[i].id \in Matches(ProbeKey)
  <2>1. \A i : i \in Hits(rank) <=> i \in Bucketful /\ table.rows[i].id \in Matches(ProbeKey)
    BY DEF Hits, Passed
  <2>2. \A i \in Bucketful : i \in 1 .. N
    BY DEF Bucketful
  <2>3. \A i \in 1 .. N : table.rows[i].id \in Matches(ProbeKey) => i \in Bucketful
    BY MatchesHang DEF Probing
  <2> QED
    BY <2>1, <2>2, <2>3
<1>4. {table.rows[i].id : i \in Hits(rank)} = Matches(ProbeKey)
  <2>1. \A id \in Matches(ProbeKey) : \E i \in 1 .. N : table.rows[i].id = id
    BY MatchFacts DEF Probing
  <2> QED
    BY <1>3, <2>1
<1>5. probe.matched <=> Matches(ProbeKey) # {}
  BY <1>1, <1>4
<1>6. join.mode \in {"INNER", "LEFT", "SEMI", "ANTI"}
  BY LayoutsAssumption DEF Probing, TypeInv, Modes
<1>7. PICK M : M = Matches(ProbeKey) /\ M = Matches(Chunks[probe.chunk][probe.row])
  BY <1>2
<1>8. Seen(rank) = IF join.mode \in {"INNER", "LEFT"} THEN M
                   ELSE IF join.mode = "SEMI" /\ probe.matched THEN {NoRow.id} ELSE {}
  BY <1>4, <1>7 DEF Seen
<1>9. RowsOf(probe.chunk, probe.row) =
          CASE join.mode = "INNER" -> M
          [] join.mode = "LEFT"  -> IF M = {} THEN {NoRow.id} ELSE M
          [] join.mode = "SEMI"  -> IF M = {} THEN {} ELSE {NoRow.id}
          [] join.mode = "ANTI"  -> IF M = {} THEN {NoRow.id} ELSE {}
  BY <1>7 DEF RowsOf
<1>10. probe.matched <=> M # {}
  BY <1>5, <1>7
<1>11. ~probe.matched => Seen(rank) = {}
  BY <1>8, <1>10
<1>12. CASE join.mode = "INNER"
  BY <1>5, <1>8, <1>9, <1>10, <1>11, <1>12
<1>13. CASE join.mode = "LEFT"
  BY <1>5, <1>8, <1>9, <1>10, <1>11, <1>13
<1>14. CASE join.mode = "SEMI"
  BY <1>5, <1>8, <1>9, <1>10, <1>11, <1>14
<1>15. CASE join.mode = "ANTI"
  BY <1>5, <1>8, <1>9, <1>10, <1>11, <1>15
<1> QED
  BY <1>6, <1>12, <1>13, <1>14, <1>15

\* A row is left behind, with a row of its own where it had no match.
LEMMA EndRowOutput ==
    ASSUME Probing, NEW rank, Progress(rank), EndRow
    PROVE  Tally' /\ Progress(rank)'
<1> DEFINE lone == ~probe.matched /\ join.mode \in {"ANTI", "LEFT"}
           o == <<probe.chunk, probe.row, NoRow.id>>
<1>1. /\ UNCHANGED <<join, input, table, emitted>>
      /\ payload'.hash_capacity = payload.hash_capacity
      /\ probe.pc = "match" /\ probe.build = None
      /\ out' = IF lone THEN Append(out, o) ELSE out
      /\ probe' = [probe EXCEPT !.pc = "row", !.row = @ + 1, !.have = FALSE, !.matched = FALSE]
  <2>1. join.mode \in {"ANTI", "LEFT"} => Output(NoRow.id) = o
    BY DEF Output
  <2> QED
    BY <2>1 DEF EndRow, buildVars
<1>2. probe \in ProbeSet /\ probe.chunk \in Nat /\ probe.row \in Nat
  BY DEF Probing, TypeInv, ProbeSet
<1>3. /\ Tally /\ CursorOK(rank) /\ DOMAIN emitted \cup Range(out) = Past \cup Current(rank)
      /\ probe.active /\ ~probe.drained /\ probe.have /\ probe.chunk <= Len(Chunks)
      /\ probe.row <= Len(in)
  BY <1>1 DEF Probing, Progress, Pending, Tally, ProbeInv
<1>4. /\ probe'.pc = "row" /\ probe'.chunk = probe.chunk /\ probe'.row = probe.row + 1
      /\ probe'.have = FALSE /\ probe'.active = probe.active /\ probe'.drained = probe.drained
  BY <1>1, <1>2 DEF ProbeSet
<1>5. /\ RowsOf(probe.chunk, probe.row) = Seen(rank) \cup (IF lone THEN {NoRow.id} ELSE {})
      /\ lone => Seen(rank) = {}
  BY <1>1, <1>3, EndOfRow
<1>6. Current(rank) = {<<probe.chunk, probe.row, id>> : id \in Seen(rank)}
  BY <1>3 DEF Current
<1>7. Past' = Past \cup Current(rank) \cup (IF lone THEN {o} ELSE {})
  <2>1. SqlJoin' = SqlJoin
    BY <1>1, JoinFrame
  <2>2. ASSUME NEW e \in SqlJoin
        PROVE  Closed(e[1], e[2])' <=>
                   Closed(e[1], e[2]) \/ (e[1] = probe.chunk /\ e[2] = probe.row)
    BY <1>2, <1>3, <1>4, JoinNumbers DEF Closed
  <2>3. ASSUME NEW e
        PROVE  e \in SqlJoin /\ e[1] = probe.chunk /\ e[2] = probe.row <=>
                   \E id \in RowsOf(probe.chunk, probe.row) : e = <<probe.chunk, probe.row, id>>
    <3>1. probe.chunk \in DOMAIN Chunks /\ probe.row \in DOMAIN Chunks[probe.chunk]
      <4>1. probe.chunk \in 1 .. Len(Chunks)
        BY <1>2, <1>3 DEF ProbeSet
      <4>2. in \in Seq(Keys) /\ DOMAIN Chunks = 1 .. Len(Chunks)
        BY <4>1, RowsAssumption DEF in
      <4>3. probe.row \in 1 .. Len(in)
        BY <1>2, <1>3, <4>2 DEF ProbeSet
      <4> QED
        BY <4>1, <4>2, <4>3 DEF in
    <3>2. ASSUME e \in SqlJoin, e[1] = probe.chunk, e[2] = probe.row
          PROVE  \E id \in RowsOf(probe.chunk, probe.row) : e = <<probe.chunk, probe.row, id>>
      <4>1. PICK c \in DOMAIN Chunks : \E r \in DOMAIN Chunks[c] : \E id \in RowsOf(c, r) :
                     e = <<c, r, id>>
        BY <3>2, InJoin
      <4>2. PICK r \in DOMAIN Chunks[c] : \E id \in RowsOf(c, r) : e = <<c, r, id>>
        BY <4>1
      <4>3. c = probe.chunk /\ r = probe.row
        BY <3>2, <4>2
      <4> QED
        BY <4>2, <4>3
    <3>3. ASSUME NEW id \in RowsOf(probe.chunk, probe.row), e = <<probe.chunk, probe.row, id>>
          PROVE  e \in SqlJoin /\ e[1] = probe.chunk /\ e[2] = probe.row
      <4>1. e \in SqlJoin
        BY <3>1, <3>3, InJoin
      <4> QED
        BY <3>3, <4>1
    <3> QED
      BY <3>2, <3>3
  <2>4. \A e : e \in Past' <=> e \in Past \/ (e \in SqlJoin /\ e[1] = probe.chunk /\ e[2] = probe.row)
    BY <2>1, <2>2 DEF Past
  <2>5. \A e : e \in Past' <=> \/ e \in Past
                               \/ \E id \in Seen(rank) : e = <<probe.chunk, probe.row, id>>
                               \/ (lone /\ e = o)
    BY <1>5, <2>3, <2>4
  <2>6. \A e : e \in Past' <=> e \in Past \/ e \in Current(rank) \/ (lone /\ e = o)
    BY <1>6, <2>5
  <2> HIDE DEF lone, o
  <2> QED
    BY <2>6
<1>8. Current(rank)' = {} /\ CursorOK(rank)'
  BY <1>4 DEF Current, CursorOK
<1>9. /\ Range(out') = Range(out) \cup (IF lone THEN {o} ELSE {})
      /\ Range(out') \cap DOMAIN emitted' = {}
      /\ \A i, j \in DOMAIN out' : out'[i] = out'[j] => i = j
  <2>1. CASE lone
    <3>1. Current(rank) = {}
      BY <1>5, <1>6, <2>1
    <3>2. o \notin Past
      BY <1>3, RowIsOpen DEF Probing
    <3>3. o \notin Range(out) /\ o \notin DOMAIN emitted
      BY <1>3, <3>1, <3>2
    <3>4. out' = Append(out, o) /\ emitted' = emitted
      BY <1>1, <2>1
    <3> HIDE DEF o
    <3> QED
      BY <1>1, <2>1, <3>3, <3>4, OutputGrows
  <2>2. CASE ~lone
    BY <1>1, <1>3, <2>2 DEF Tally
  <2> QED
    BY <2>1, <2>2
<1>10. Pending' = Range(out')
  BY <1>4 DEF Pending
<1>11. Tally'
  BY <1>1, <1>3, <1>4, <1>9 DEF Tally
<1> QED
  BY <1>1, <1>3, <1>7, <1>8, <1>9, <1>10, <1>11 DEF Progress
\* After a row of the chain the search goes on among the rows that hang behind it.
LEMMA NextInChain ==
    ASSUME Probing, NEW rank \in [1 .. N -> Nat], Ranked(rank), CursorOK(rank),
           probe.pc = "match", probe.build # None
    PROVE  /\ probe.build \in Bucketful /\ probe.build \in 1 .. N
           /\ Found(Below(Bucketful, rank, rank[probe.build]), rank, Salt(ProbeKey),
                    SkipTo(table.links[probe.build], Salt(ProbeKey)))
           /\ \A i \in Bucketful : rank[i] \in Nat /\ (rank[i] = rank[probe.build] => i = probe.build)
<1> DEFINE b == probe.build
           B == Bucketful
           T == Below(B, rank, rank[b])
<1>1. b \in B
  BY DEF CursorOK, Probing, Tally
<1>2. B \in SUBSET (1 .. N) /\ table.links \in [1 .. N -> 0 .. N] /\ Linked(B, rank, table.links)
  BY BucketChain DEF Probing, ProbeInv
<1> HIDE DEF b, B
<1>3. /\ Greatest(T, rank, table.links[b])
      /\ \A i \in B : rank[i] \in Nat /\ (rank[i] = rank[b] => i = b)
  BY <1>1, <1>2 DEF Linked
<1>4. \A i : i \in T <=> i \in B /\ rank[i] < rank[b]
  BY DEF Below
<1>5. Linked(T, rank, table.links)
  <2>1. ASSUME NEW i \in T
        PROVE  Below(T, rank, rank[i]) = Below(B, rank, rank[i])
    <3>1. \A j \in B : rank[j] < rank[i] => rank[j] < rank[b]
      BY <1>1, <1>3, <1>4
    <3> HIDE DEF T
    <3> QED
      BY <1>4, <3>1 DEF Below
  <2> HIDE DEF T
  <2> QED
    BY <1>2, <1>4, <2>1 DEF Linked
<1>6. T \in SUBSET (1 .. N) /\ table.links[b] \in 0 .. N
  BY <1>1, <1>2, <1>4
<1>7. PICK n \in Nat : n = N /\ Len(table.rows) = n
  BY TableFacts DEF Probing, N
<1> HIDE DEF T
<1>8. Found(T, rank, Salt(ProbeKey), SkipTo(table.links[b], Salt(ProbeKey)))
  BY <1>2, <1>3, <1>5, <1>6, <1>7, SkipToFinds
<1> QED
  BY <1>1, <1>2, <1>3, <1>8 DEF b, B, T

\* A row of the chain is compared; where it matches it is put out, or ends the search.
LEMMA MatchRowOutput ==
    ASSUME Probing, NEW rank \in [1 .. N -> Nat], Ranked(rank), Progress(rank), MatchRow
    PROVE  Tally' /\ Progress(rank)'
<1> DEFINE b == probe.build
           x == SkipTo(table.links[b], Salt(ProbeKey))
           T == Below(Bucketful, rank, rank[b])
           matches == table.rows[b].id \in Matches(ProbeKey)
           semi == join.mode \in {"SEMI", "ANTI"}
           o == Output(table.rows[b].id)
<1>1. /\ UNCHANGED <<join, input, table, emitted>>
      /\ payload'.hash_capacity = payload.hash_capacity
      /\ probe.pc = "match" /\ probe.build # None
  BY DEF MatchRow, buildVars
<1>2. probe \in ProbeSet
  BY DEF Probing, TypeInv
<1>3. /\ Tally /\ CursorOK(rank) /\ DOMAIN emitted \cup Range(out) = Past \cup Current(rank)
      /\ probe.active /\ ~probe.drained /\ probe.have /\ probe.chunk <= Len(Chunks)
      /\ probe.row <= Len(in)
  BY <1>1 DEF Probing, Progress, Pending, Tally, ProbeInv
<1>4. /\ b \in Bucketful /\ b \in 1 .. N /\ Found(T, rank, Salt(ProbeKey), x)
      /\ \A i \in Bucketful : rank[i] \in Nat /\ (rank[i] = rank[b] => i = b)
  BY <1>1, <1>3, NextInChain
<1>5. matches <=> table.rows[b].key = ProbeKey /\ (join.filtered => Accepts(table.rows[b]))
  BY <1>4, MatchFacts DEF Probing
<1>6. /\ probe' = [probe EXCEPT !.matched = @ \/ matches,
                                !.build = IF matches /\ semi THEN None ELSE x]
      /\ out' = IF matches /\ join.mode # "ANTI" THEN Append(out, o) ELSE out
  BY <1>5 DEF MatchRow
<1> HIDE DEF x, matches
<1>7. /\ probe'.pc = "match" /\ probe'.chunk = probe.chunk /\ probe'.row = probe.row
      /\ probe'.build = (IF matches /\ semi THEN None ELSE x)
      /\ probe'.matched = (probe.matched \/ matches) /\ probe'.have = probe.have
      /\ probe'.active = probe.active /\ probe'.drained = probe.drained
  BY <1>1, <1>2, <1>6 DEF ProbeSet
<1>8. /\ in' = in /\ Bucketful' = Bucketful
      /\ \A i : i \in Hits(rank)' <=> /\ i \in Bucketful
                                      /\ probe'.build = None \/ rank[i] > rank[probe'.build]
                                      /\ table.rows[i].id \in Matches(ProbeKey)
  BY <1>1, <1>7, MovedCursor
<1>9. \A i : i \in Hits(rank) <=> /\ i \in Bucketful /\ rank[i] > rank[b]
                                  /\ table.rows[i].id \in Matches(ProbeKey)
  BY <1>1 DEF Hits, Passed
<1>10. ~(matches /\ semi) => \A i : i \in Hits(rank)' <=> i \in Hits(rank) \/ (matches /\ i = b)
  <2>1. SUFFICES ASSUME ~(matches /\ semi), NEW i \in Bucketful,
                        table.rows[i].id \in Matches(ProbeKey)
                 PROVE  (x = None \/ rank[i] > rank[x]) <=> rank[i] > rank[b] \/ i = b
    BY <1>4, <1>7, <1>8, <1>9 DEF matches
  <2>2. rank[i] \in Nat /\ rank[b] \in Nat /\ (rank[i] = rank[b] => i = b)
    BY <1>4
  <2>3. i \in T <=> rank[i] < rank[b]
    BY DEF Below
  <2>4. x # None => x \in Bucketful /\ rank[x] < rank[b] /\ rank[x] \in Nat
    BY <1>4 DEF Found, Below
  <2>5. i \in T => ~(x = None \/ rank[i] > rank[x])
    <3>1. T \in SUBSET Bucketful
      BY DEF Below
    <3> HIDE DEF T
    <3> QED
      BY <1>4, <2>1, <3>1, NoMatchPassed
  <2> HIDE DEF b, T
  <2>6. CASE rank[i] < rank[b]
    BY <2>2, <2>3, <2>5, <2>6
  <2>7. CASE ~(rank[i] < rank[b])
    BY <2>2, <2>4, <2>7
  <2> QED
    BY <2>6, <2>7
<1>11. matches => b \in Hits(rank)'
  <2>1. CASE semi
    BY <1>4, <1>7, <1>8, <2>1 DEF matches
  <2>2. CASE ~semi
    BY <1>10, <2>2
  <2> QED
    BY <2>1, <2>2
<1>12. CursorOK(rank)'
  <2>1. x # None => x \in Bucketful
    BY <1>4 DEF Found, Below
  <2>2. semi => ~probe.matched
    BY <1>1, <1>3 DEF CursorOK
  <2>3. probe.matched <=> Hits(rank) # {}
    BY <1>3 DEF CursorOK
  <2>4. probe'.matched <=> Hits(rank)' # {}
    <3>1. CASE matches
      BY <1>7, <1>11, <3>1
    <3>2. CASE ~matches
      BY <1>7, <1>10, <2>3, <3>2
    <3> QED
      BY <3>1, <3>2
  <2>5. join'.mode \in {"SEMI", "ANTI"} /\ probe'.matched => probe'.build = None
    BY <1>1, <1>7, <2>2
  <2>6. probe'.build # None => probe'.build \in Bucketful'
    BY <1>7, <1>8, <2>1
  <2> QED
    BY <2>4, <2>5, <2>6 DEF CursorOK
<1>13. Past' = Past
  <2>1. \A e \in SqlJoin : Closed(e[1], e[2])' <=> Closed(e[1], e[2])
    BY <1>7 DEF Closed
  <2> QED
    BY <1>1, <2>1, SamePast
<1>14. Pending' = Range(out')
  BY <1>7 DEF Pending
<1>15. join.mode \in {"INNER", "LEFT", "SEMI", "ANTI"} /\ join' = join
  BY <1>1, LayoutsAssumption DEF Probing, TypeInv, Modes
<1>16. /\ Current(rank) = {<<probe.chunk, probe.row, id>> : id \in Seen(rank)}
       /\ Current(rank)' = {<<probe.chunk, probe.row, id>> : id \in Seen(rank)'}
  BY <1>3, <1>7 DEF Current
<1>17. CASE matches /\ join.mode # "ANTI"
  <2>1. PICK id : id = IF semi THEN NoRow.id ELSE table.rows[b].id
    OBVIOUS
  <2>2. o = <<probe.chunk, probe.row, id>>
    BY <2>1 DEF Output
  <2>3. id \notin Seen(rank) /\ \A y : y \in Seen(rank)' <=> y \in Seen(rank) \/ y = id
    <3>1. CASE join.mode = "SEMI"
      <4>1. ~probe.matched
        BY <1>1, <1>3, <3>1 DEF CursorOK
      <4>2. Seen(rank) = {} /\ Seen(rank)' = {NoRow.id}
        BY <1>7, <1>15, <1>17, <3>1, <4>1 DEF Seen
      <4> QED
        BY <2>1, <3>1, <4>2
    <3>2. CASE join.mode \in {"INNER", "LEFT"}
      <4>1. /\ Seen(rank) = {table.rows[i].id : i \in Hits(rank)}
            /\ Seen(rank)' = {table.rows[i].id : i \in Hits(rank)'}
        BY <1>1, <3>2 DEF Seen
      <4>2. \A i : i \in Hits(rank)' <=> i \in Hits(rank) \/ i = b
        BY <1>10, <1>17, <3>2
      <4>3. id = table.rows[b].id
        BY <2>1, <3>2
      <4>4. b \notin Hits(rank)
        BY <1>4, <1>9
      <4>5. \A i \in Hits(rank) : i \in 1 .. N
        BY <1>9 DEF Bucketful
      <4>6. \A i, j \in 1 .. N : table.rows[i].id = table.rows[j].id => i = j
        BY <3>2 DEF Probing, FinalRows
      <4>7. id \notin Seen(rank)
        BY <1>4, <4>1, <4>3, <4>4, <4>5, <4>6
      <4>8. ASSUME NEW y
            PROVE  y \in Seen(rank)' <=> y \in Seen(rank) \/ y = id
        <5> HIDE DEF b
        <5> QED
          BY <4>1, <4>2, <4>3
      <4> QED
        BY <4>7, <4>8
    <3> QED
      BY <1>15, <1>17, <3>1, <3>2
  <2>4. o \notin Current(rank) /\ Current(rank)' = Current(rank) \cup {o}
    <3> HIDE DEF o
    <3>1. o \notin Current(rank)
      BY <1>16, <2>2, <2>3
    <3>2. \A e : e \in Current(rank)' <=> e \in Current(rank) \/ e = o
      BY <1>16, <2>2, <2>3
    <3> QED
      BY <3>1, <3>2
  <2>5. o \notin Past
    BY <1>3, <2>2, RowIsOpen DEF Probing
  <2> HIDE DEF o
  <2>6. o \notin Range(out) /\ o \notin DOMAIN emitted
    BY <1>3, <2>4, <2>5
  <2>7. out' = Append(out, o) /\ emitted' = emitted
    BY <1>1, <1>6, <1>17
  <2>8. /\ Range(out') = Range(out) \cup {o}
        /\ Range(out') \cap DOMAIN emitted' = {}
        /\ \A i, j \in DOMAIN out' : out'[i] = out'[j] => i = j
    BY <1>1, <2>6, <2>7, OutputGrows
  <2>9. Tally'
    BY <1>1, <1>3, <1>7, <1>8, <2>8 DEF Tally
  <2> QED
    BY <1>1, <1>3, <1>12, <1>13, <1>14, <2>4, <2>8, <2>9 DEF Progress
<1>18. CASE ~(matches /\ join.mode # "ANTI")
  <2>1. out' = out
    BY <1>6, <1>18
  <2>2. Seen(rank)' = Seen(rank)
    <3>1. CASE join.mode = "ANTI"
      BY <1>15, <3>1 DEF Seen
    <3>2. CASE join.mode # "ANTI"
      <4>1. ~matches
        BY <1>18, <3>2
      <4>2. Hits(rank)' = Hits(rank)
        BY <1>10, <4>1
      <4>3. probe'.matched = (probe.matched \/ FALSE)
        BY <1>7, <4>1
      <4> QED
        BY <1>1, <4>2, <4>3 DEF Seen
    <3> QED
      BY <3>1, <3>2
  <2>3. Current(rank)' = Current(rank)
    BY <1>16, <2>2
  <2>4. Tally'
    BY <1>1, <1>3, <1>7, <1>8, <2>1 DEF Tally
  <2> QED
    BY <1>1, <1>3, <1>12, <1>13, <1>14, <2>1, <2>3, <2>4 DEF Progress
<1> QED
  BY <1>17, <1>18
------------------------------------------------------------------------------
(* Every step keeps the output. *)

\* The build puts out nothing.
LEMMA BuildOutput ==
    ASSUME JoinInv, OutputInv, NEW w \in Workers,
           GetLocalSinkState(w) \/ SinkRow(w) \/ StartCombine \/ CombineStep(w)
    PROVE  OutputInv'
<1>1. PhaseInv
  BY DEF JoinInv
<1>2. \E v \in Workers : pc[v] \notin {"absent", "combined"}
  <2>1. CASE GetLocalSinkState(w) \/ SinkRow(w) \/ StartCombine
    BY <2>1 DEF GetLocalSinkState, SinkRow, StartCombine, At, Participants
  <2>2. CASE CombineStep(w)
    BY <2>2 DEF CombineStep, Prepare, SumUp, PublishPrepared, AwaitPrepared, CopyLocal, ExchangeHead,
                StoreLink, BeginBatch, LockBatch, AppendRow, AppendFails,
                UnlockBatch, EndBatches, At
  <2> QED
    BY <2>1, <2>2
<1>3. probe.pc = "build"
  BY <1>1, <1>2 DEF PhaseInv
<1>4. UNCHANGED <<probe, emitted>>
  <2>1. CASE GetLocalSinkState(w) \/ SinkRow(w) \/ StartCombine
    BY <2>1 DEF GetLocalSinkState, SinkRow, StartCombine, probeVars
  <2>2. CASE CombineStep(w)
    BY <2>2 DEF CombineStep, Prepare, SumUp, PublishPrepared, AwaitPrepared, CopyLocal, ExchangeHead,
                StoreLink, BeginBatch, LockBatch, AppendRow, AppendFails,
                UnlockBatch, EndBatches, probeVars
  <2> QED
    BY <2>1, <2>2
<1> QED
  BY <1>3, <1>4 DEF OutputInv

\* FINALIZE hands the table to a prober that has put out nothing.
LEMMA FinalizeOutput ==
    ASSUME JoinInv, OutputInv, Finalize
    PROVE  OutputInv'
<1>1. /\ probe.pc = "build" /\ emitted' = emitted /\ UNCHANGED <<join, input>>
      /\ probe' = [probe EXCEPT !.pc = "call"]
  BY DEF Finalize
<1>2. probe \in ProbeSet
  BY DEF JoinInv, TypeInv
<1>3. probe.chunk = 1 /\ ~probe.active /\ ~probe.drained /\ emitted = EmptyBag
  BY <1>1 DEF OutputInv
<1>4. /\ probe'.pc = "call" /\ probe'.chunk = 1 /\ ~probe'.active /\ ~probe'.drained
      /\ emitted' = EmptyBag
  BY <1>1, <1>2, <1>3 DEF ProbeSet
<1>5. DOMAIN emitted' = {} /\ emitted' = SetToBag(DOMAIN emitted')
  BY <1>4 DEF EmptyBag, SetToBag
<1>6. Tally'
  BY <1>4, <1>5 DEF Tally
<1>7. ASSUME NEW rank
      PROVE  Progress(rank)'
  <2>1. Current(rank)' = {} /\ CursorOK(rank)' /\ Pending' = {}
    BY <1>4 DEF Current, CursorOK, Pending
  <2>2. Past' = {}
    <3>1. \A e \in SqlJoin : ~(e[1] < 1)
      BY JoinNumbers
    <3>2. \A key : Matches(key)' = Matches(key)
      <4>1. \A r : Accepts(r)' = Accepts(r)
        BY <1>1 DEF Accepts
      <4>2. \A v, i : Accepts(Row(v, i))' = Accepts(Row(v, i))
        BY <1>1, <4>1 DEF Row, Accepts
      <4> QED
        BY <1>1, <4>2 DEF Matches
    <3>3. \A c, r : RowsOf(c, r)' = RowsOf(c, r)
      BY <1>1, <3>2 DEF RowsOf
    <3>4. SqlJoin' = SqlJoin
      BY <3>3 DEF SqlJoin
    <3>5. \A e \in SqlJoin : ~Closed(e[1], e[2])'
      BY <1>4, <3>1 DEF Closed
    <3> QED
      BY <3>4, <3>5 DEF Past
  <2> QED
    BY <1>5, <2>1, <2>2 DEF Progress
<1> QED
  BY <1>4, <1>6, <1>7 DEF OutputInv

\* Each step of a prober that has a table.
LEMMA TableProbeOutput ==
    ASSUME Probing, NEW rank \in [1 .. N -> Nat], Ranked(rank), Progress(rank), ProbeStep
    PROVE  Tally' /\ Progress(rank)'
BY ExecuteOutput, ProbeRowOutput, MatchRowOutput, EndRowOutput, ReturnOutput, EndProbeOutput
   DEF ProbeStep

\* The prober keeps its account.
LEMMA ProbeOutput ==
    ASSUME JoinInv, AppendInv, OutputInv, ProbeStep
    PROVE  OutputInv'
<1>1. TypeInv /\ TableInv /\ ProbeInv
  BY DEF JoinInv
<1>2. UNCHANGED <<join, input, table>> /\ payload'.hash_capacity = payload.hash_capacity
  BY EndFrame DEF buildVars
<1>3. /\ N' = N /\ PhantomRows' = PhantomRows
      /\ \A rank : Ranked(rank)' = Ranked(rank)
  BY <1>2, JoinFrame
<1>4. probe.pc # "build"
  BY DEF ProbeStep, Execute, ProbeRow, MatchRow, EndRow, Return, EndProbe
<1>5. probe'.pc # "build" /\ (~table.built => emitted' = emitted /\ (
                                 ~probe.active /\ ~probe.drained => ~probe'.active /\ ~probe'.drained))
  <2>1. probe \in ProbeSet
    BY <1>1 DEF TypeInv
  <2>2. CASE Execute
    BY <2>1, <2>2 DEF Execute, ProbeSet
  <2>3. CASE ProbeRow \/ MatchRow \/ EndRow
    <3>1. probe.pc \in {"row", "match"}
      BY <2>3 DEF ProbeRow, MatchRow, EndRow
    <3>2. probe'.pc # "build"
      BY <2>1, <2>3 DEF ProbeRow, MatchRow, EndRow, ProbeSet
    <3> QED
      BY <1>1, <3>1, <3>2 DEF ProbeInv
  <2>4. CASE Return
    <3>1. probe.pc \in {"row", "match"}
      BY <2>4 DEF Return
    <3>2. probe'.pc # "build"
      BY <2>1, <2>4 DEF Return, ProbeSet
    <3> QED
      BY <1>1, <3>1, <3>2 DEF ProbeInv
  <2>5. CASE EndProbe
    BY <2>1, <2>5 DEF EndProbe, ProbeSet
  <2> QED
    BY <2>2, <2>3, <2>4, <2>5 DEF ProbeStep
<1>6. SUFFICES ASSUME ~PhantomRows
               PROVE  IF table'.built
                      THEN Tally' /\ \A rank \in [1 .. N' -> Nat] : Ranked(rank)' => Progress(rank)'
                      ELSE ~probe'.active /\ ~probe'.drained /\ emitted' = EmptyBag
  BY <1>3, <1>5 DEF OutputInv
<1>7. CASE table.built
  <2>1. Tally /\ \A rank \in [1 .. N -> Nat] : Ranked(rank) => Progress(rank)
    BY <1>4, <1>6, <1>7 DEF OutputInv
  <2>2. Probing
    BY <1>1, <1>4, <1>6, <1>7, <2>1, RowsAreFinal DEF Probing
  <2>3. ASSUME NEW rank \in [1 .. N -> Nat], Ranked(rank)
        PROVE  Tally' /\ Progress(rank)'
    BY <2>1, <2>2, <2>3, TableProbeOutput
  <2>4. \E rank \in [1 .. N -> Nat] : Ranked(rank)
    BY <1>4, <1>7, FinalChains DEF Ranked
  <2> QED
    BY <1>2, <1>3, <1>7, <2>3, <2>4
<1>8. CASE ~table.built
  BY <1>2, <1>4, <1>5, <1>6, <1>8 DEF OutputInv
<1> QED
  BY <1>7, <1>8

\* The release, and steps of others, change nothing the output is made of.
LEMMA FrameOutput ==
    ASSUME OutputInv, UNCHANGED <<join, input, table, probe, out, emitted>>,
           payload'.hash_capacity = payload.hash_capacity
    PROVE  OutputInv'
<1>1. /\ N' = N /\ PhantomRows' = PhantomRows
      /\ \A rank : Ranked(rank)' = Ranked(rank)
  BY JoinFrame
<1>2. Pending' = Pending /\ in' = in
  BY DEF Pending, in
<1>3. ASSUME NEW rank
      PROVE  Progress(rank)' = Progress(rank)
  <2>1. /\ Past' = Past /\ Current(rank)' = Current(rank) /\ (CursorOK(rank)' <=> CursorOK(rank))
    BY SameCursor
  <2> QED
    BY <1>2, <2>1 DEF Progress
<1>4. Tally' = Tally
  BY <1>2 DEF Tally
<1> QED
  BY <1>1, <1>3, <1>4 DEF OutputInv

\* No step breaks the account.
LEMMA NextOutputInv ==
    ASSUME JoinInv, AppendInv, OutputInv, [Next]_vars
    PROVE  OutputInv'
<1>1. ASSUME NEW w \in Workers, GetLocalSinkState(w) \/ SinkRow(w) \/ CombineStep(w)
      PROVE  OutputInv'
  BY <1>1, BuildOutput
<1>2. CASE StartCombine
  <2>1. \E w \in Workers : TRUE
    BY <1>2 DEF StartCombine, Participants
  <2> QED
    BY <1>2, <2>1, BuildOutput
<1>3. CASE Release
  <2>1. UNCHANGED <<join, input, table, probe, out, emitted>>
    BY <1>3 DEF Release, probeVars
  <2>2. payload'.hash_capacity = payload.hash_capacity
    BY <1>3 DEF Release, JoinInv, TypeInv, PayloadSet
  <2> QED
    BY <2>1, <2>2, FrameOutput
<1>4. CASE UNCHANGED vars
  BY <1>4, FrameOutput DEF vars
<1> QED
  BY <1>1, <1>2, <1>3, <1>4, FinalizeOutput, ProbeOutput DEF Next

\* The account of the output holds of every execution.
THEOREM OutputInvariance == Spec => [](JoinInv /\ AppendInv /\ OutputInv)
<1>1. Init => JoinInv /\ AppendInv /\ OutputInv
  <2>1. SUFFICES ASSUME Init
                 PROVE  JoinInv /\ AppendInv /\ OutputInv
    OBVIOUS
  <2>2. JoinInv /\ TypeInv
    BY <2>1, InitJoinInv DEF JoinInv
  <2>3. AppendInv
    BY <2>1, <2>2, InitAppendInv
  <2>4. OutputInv
    BY <2>1 DEF Init, OutputInv
  <2> QED
    BY <2>2, <2>3, <2>4
<1>2. JoinInv /\ AppendInv /\ OutputInv /\ [Next]_vars => (JoinInv /\ AppendInv /\ OutputInv)'
  BY NextJoinInv, NextAppendInv, NextOutputInv
<1> QED
  BY <1>1, <1>2, PTL DEF Spec

\* Where nothing was built and the join is no LEFT or ANTI join, SQL asks for no rows.
LEMMA NothingJoined ==
    ASSUME JoinInv, AppendInv, probe.pc # "build", ~table.built, ~PhantomRows, ~EmptyBuild
    PROVE  SqlJoin = {}
<1>1. TypeInv /\ TableInv /\ FinalRows
  BY RowsAreFinal DEF JoinInv
<1>2. N = 0
  BY <1>1, TableFacts DEF TableInv
<1>3. ASSUME NEW w \in Workers
      PROVE  input[w] = <<>>
  <2>1. input[w] \in Seq(Keys) /\ Len(input[w]) \in Nat
    BY <1>1, WorkerFacts
  <2>2. \A k \in 1 .. Len(input[w]) : \E i \in 1 .. 0 : TRUE
    BY <1>1, <1>2 DEF FinalRows
  <2>3. 1 .. 0 = {}
    OBVIOUS
  <2>4. Len(input[w]) = 0
    BY <2>1, <2>2, <2>3
  <2> QED
    BY <2>1, <2>4
<1>4. join.mode \in {"INNER", "SEMI"}
  BY <1>1, <1>3, LayoutsAssumption DEF EmptyBuild, TypeInv, Modes
<1>5. ASSUME NEW key
      PROVE  Matches(key) = {}
  BY <1>3 DEF Matches
<1>6. ASSUME NEW c, NEW r
      PROVE  RowsOf(c, r) = {}
  BY <1>4, <1>5 DEF RowsOf
<1> QED
  BY <1>6, InJoin

\* The prober puts out the rows of the join, each once, whatever the interleaving of the
\* build, the collisions of its chains, the limits of its chunks and the rows at which
\* Execute was interrupted; except for LEFT and ANTI joins with nothing built, and the
\* locked branch with one store for rows of two layouts.
THEOREM JoinOutputs == Spec => []JoinOutput
<1>1. ASSUME JoinInv, AppendInv, OutputInv
      PROVE  JoinOutput
  <2>1. SUFFICES ASSUME probe.pc = "done", ~EmptyBuild, ~PhantomRows
                 PROVE  emitted = SetToBag(SqlJoin)
    BY DEF JoinOutput
  <2>2. CASE table.built
    <3>1. Tally /\ \A rank \in [1 .. N -> Nat] : Ranked(rank) => Progress(rank)
      BY <1>1, <2>1, <2>2 DEF OutputInv
    <3>2. PICK rank \in [1 .. N -> Nat] : Ranked(rank)
      BY <1>1, <2>1, <2>2, FinalChains DEF Ranked
    <3>3. probe.chunk > Len(Chunks) /\ ~probe.active
      <4>1. probe.chunk > Len(Chunks)
        BY <2>1, <3>1 DEF Tally
      <4>2. probe.chunk \in Nat /\ Len(Chunks) \in Nat
        BY <1>1, RowsAssumption DEF JoinInv, TypeInv, ProbeSet
      <4> QED
        BY <3>1, <4>1, <4>2 DEF Tally
    <3>4. Current(rank) = {} /\ Pending = {}
      BY <2>1, <3>3 DEF Current, Pending
    <3>5. Past = SqlJoin
      <4>1. probe.chunk \in Nat /\ Len(Chunks) \in Nat
        BY <1>1, RowsAssumption DEF JoinInv, TypeInv, ProbeSet
      <4>2. \A e \in SqlJoin : e[1] < probe.chunk
        BY <3>3, <4>1, JoinNumbers
      <4> QED
        BY <4>2 DEF Past, Closed
    <3>6. DOMAIN emitted = SqlJoin
      BY <3>1, <3>2, <3>4, <3>5 DEF Progress
    <3> QED
      BY <3>1, <3>6 DEF Tally
  <2>3. CASE ~table.built
    <3>1. emitted = EmptyBag
      BY <1>1, <2>1, <2>3 DEF OutputInv
    <3>2. SqlJoin = {}
      BY <1>1, <2>1, <2>3, NothingJoined
    <3> QED
      BY <3>1, <3>2 DEF EmptyBag
  <2> QED
    BY <2>2, <2>3
<1> QED
  BY <1>1, OutputInvariance, PTL

=============================================================================
