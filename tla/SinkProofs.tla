----------------------------- MODULE SinkProofs -----------------------------
(****************************************************************************)
(* Proofs about the sinks that keep something of every row: HashAggregate,   *)
(* for any number of workers and partitions, any hash values with odd steps, *)
(* any input and any sizes of vectors, tables and stores, and SortedOutput,  *)
(* for any plan, rows and partitions, number of workers and sizes.           *)
(****************************************************************************)
EXTENDS HashAggregate, SortedOutput, RecursiveFunctions, FiniteSetTheorems, TLAPS

------------------------------------------------------------------------------
(* Powers of two, and the probe sequence of a group. *)

\* The recursive function is one: its definition holds of it.
LEMMA TwoToDef == TwoTo = [k \in Nat |-> IF k = 0 THEN 1 ELSE 2 * TwoTo[k - 1]]
<1> DEFINE step == [x \in Nat \X Nat |-> 2 * x[2]]
<1>1. step \in [Nat \X Nat -> Nat] /\ 1 \in Nat
  OBVIOUS
<1>2. PICK at \in [Nat -> Nat] : Iterates(at, 1, step)
  <2> HIDE DEF step
  <2> QED
    BY <1>1, Iteration
<1>3. at[0] = 1 /\ \A n \in Nat : at[n + 1] = 2 * at[n]
  BY <1>2 DEF Iterates
<1>4. at = [k \in Nat |-> IF k = 0 THEN 1 ELSE 2 * at[k - 1]]
  <2>1. ASSUME NEW k \in Nat
        PROVE  at[k] = IF k = 0 THEN 1 ELSE 2 * at[k - 1]
    <3>1. CASE k = 0
      BY <1>3, <3>1
    <3>2. CASE k # 0
      <4>1. k - 1 \in Nat /\ (k - 1) + 1 = k
        BY <3>2
      <4>2. at[(k - 1) + 1] = 2 * at[k - 1]
        BY <1>3, <4>1
      <4> QED
        BY <3>2, <4>1, <4>2
    <3> QED
      BY <3>1, <3>2
  <2> QED
    BY <2>1
<1> QED
  BY <1>4 DEF TwoTo

\* Powers of two double, and exceed their exponents.
LEMMA TwoToFacts ==
    /\ TwoTo[0] = 1
    /\ \A k \in Nat : TwoTo[k] \in Nat /\ k < TwoTo[k] /\ TwoTo[k + 1] = 2 * TwoTo[k]
<1>1. TwoTo[0] = 1
  BY TwoToDef
<1>2. \A k \in Nat : TwoTo[k + 1] = 2 * TwoTo[k]
  <2>1. SUFFICES ASSUME NEW k \in Nat PROVE TwoTo[k + 1] = 2 * TwoTo[k]
    OBVIOUS
  <2>2. k + 1 \in Nat /\ k + 1 # 0 /\ (k + 1) - 1 = k
    OBVIOUS
  <2> QED
    BY <2>2, TwoToDef
<1> DEFINE T == {k \in Nat : TwoTo[k] \in Nat /\ k < TwoTo[k]}
<1>3. 0 \in T
  BY <1>1
<1>4. \A k \in Nat : k \in T => k + 1 \in T
  BY <1>2
<1>5. \A k \in Nat : k \in T
  <2> HIDE DEF T
  <2> QED
    BY <1>3, <1>4, NumberInduction
<1> QED
  BY <1>1, <1>2, <1>5

\* An odd factor does not help a product to be divisible by a power of two.
LEMMA OddFactor ==
    ASSUME NEW m \in Nat, m % 2 = 1
    PROVE  \A k \in Nat : \A d \in Nat :
               (\E q \in Nat : d * m = TwoTo[k] * q) => \E r \in Nat : d = TwoTo[k] * r
<1> DEFINE T == {k \in Nat : \A d \in Nat :
               (\E q \in Nat : d * m = TwoTo[k] * q) => \E r \in Nat : d = TwoTo[k] * r}
<1>1. 0 \in T
  BY TwoToFacts
<1>2. ASSUME NEW k \in Nat, k \in T
      PROVE  k + 1 \in T
  <2>1. SUFFICES ASSUME NEW d \in Nat, NEW q \in Nat, d * m = TwoTo[k + 1] * q
                 PROVE  \E r \in Nat : d = TwoTo[k + 1] * r
    OBVIOUS
  <2>2. PICK p \in Nat : p = TwoTo[k] /\ TwoTo[k + 1] = 2 * p
    BY TwoToFacts
  <2>3. d * m = 2 * (p * q)
    BY <2>1, <2>2
  <2>4. PICK e \in Nat : d = 2 * e
    <3>1. PICK a \in Nat, x \in {0, 1} : d = 2 * a + x
      <4>1. d = 2 * (d \div 2) + (d % 2) /\ d \div 2 \in Nat /\ d % 2 \in {0, 1}
        OBVIOUS
      <4> QED
        BY <4>1
    <3>2. PICK b \in Nat : m = 2 * b + 1
      <4>1. m = 2 * (m \div 2) + (m % 2) /\ m \div 2 \in Nat
        OBVIOUS
      <4> QED
        BY <4>1
    <3>3. CASE x = 1
      <4>1. PICK c \in Nat : c = a * b
        OBVIOUS
      <4>2. d * m = 2 * (2 * c + a + b) + 1
        BY <3>1, <3>2, <3>3, <4>1
      <4>3. PICK z \in Nat : z = p * q
        OBVIOUS
      <4>4. 2 * (2 * c + a + b) + 1 = 2 * z
        BY <2>3, <4>2, <4>3
      <4> QED
        BY <4>4
    <3> QED
      BY <3>1, <3>3
  <2>5. e * m = p * q
    <3>1. d * m = 2 * (e * m)
      BY <2>4
    <3>2. e * m \in Nat /\ p * q \in Nat
      OBVIOUS
    <3> HIDE <2>4
    <3> QED
      BY <2>3, <3>1, <3>2
  <2>6. PICK r \in Nat : e = p * r
    BY <1>2, <2>2, <2>5
  <2>7. d = (2 * p) * r
    BY <2>4, <2>6
  <2> QED
    BY <2>2, <2>7
<1>3. \A k \in Nat : k \in T
  <2> HIDE DEF T
  <2> QED
    BY <1>1, <1>2, NumberInduction
<1> QED
  BY <1>3

\* The sizes a slot array can have.
Powers == {TwoTo[k] : k \in Nat}

\* A power of two is a number, and so is its double.
LEMMA PowerFacts ==
    ASSUME NEW n \in Powers
    PROVE  n \in Nat \ {0} /\ 2 * n \in Powers /\ n - 1 \in Nat
<1>1. PICK k \in Nat : n = TwoTo[k]
  BY DEF Powers
<1>2. n \in Nat /\ k < n /\ TwoTo[k + 1] = 2 * n
  BY <1>1, TwoToFacts
<1>3. k + 1 \in Nat
  OBVIOUS
<1> QED
  BY <1>2, <1>3 DEF Powers

\* A probe looks at a slot of the table.
LEMMA SlotType ==
    ASSUME NEW n \in Powers, NEW g \in DOMAIN Hash, NEW t \in Nat
    PROVE  SlotAt(n, g, t) \in 0 .. n - 1
<1>1. n \in Nat \ {0}
  BY PowerFacts
<1>2. PICK x \in Nat : x = Hash[g].slot + t * Hash[g].step
  BY HashAssumption
<1>3. x % n \in 0 .. n - 1
  BY <1>1
<1> QED
  BY <1>2, <1>3 DEF SlotAt

\* An odd step reaches every slot of a table whose size is a power of two, and none twice
\* (ProbeStep: "odd, covers power-of-two table").
LEMMA ProbesDiffer ==
    ASSUME NEW n \in Powers, NEW g \in DOMAIN Hash, NEW t \in 0 .. n - 1, NEW u \in 0 .. n - 1,
           SlotAt(n, g, t) = SlotAt(n, g, u), t < u
    PROVE  FALSE
<1>1. PICK k \in Nat : n = TwoTo[k]
  BY DEF Powers
<1>2. n \in Nat \ {0}
  BY PowerFacts
<1>3. PICK s \in Nat, m \in Nat : s = Hash[g].slot /\ m = Hash[g].step /\ m % 2 = 1
  BY HashAssumption
<1>4. PICK x \in Nat, y \in Nat : x = s + t * m /\ y = s + u * m
  BY <1>2
<1>5. x % n = y % n
  BY <1>3, <1>4 DEF SlotAt
<1>6. x = n * (x \div n) + (x % n) /\ y = n * (y \div n) + (y % n)
  BY <1>2
<1>7. PICK a \in Nat, b \in Nat : a = x \div n /\ b = y \div n
  <2>1. x \div n \in Nat /\ y \div n \in Nat
    BY <1>2
  <2> QED
    BY <2>1
<1>8. PICK d \in Nat : d = u - t /\ d # 0 /\ d < n
  BY <1>2
<1>9. d * m = n * (b - a)
  <2>1. d * m = u * m - t * m
    BY <1>2, <1>8
  <2>2. y - x = u * m - t * m
    BY <1>4, <1>2
  <2>3. y - x = n * b - n * a
    <3>1. PICK r \in Int, v \in Int, z \in Int : r = x % n /\ v = n * a /\ z = n * b
      <4>1. x % n \in Int /\ n * a \in Int /\ n * b \in Int
        BY <1>2
      <4> QED
        BY <4>1
    <3>2. x = v + r /\ y = z + r
      BY <1>5, <1>6, <1>7, <3>1
    <3>3. y - x = z - v
      BY <3>2
    <3> QED
      BY <3>1, <3>3
  <2>4. n * (b - a) = n * b - n * a
    BY <1>2
  <2> QED
    BY <2>1, <2>2, <2>3, <2>4
<1>10. b - a \in Nat
  <2>1. d * m \in Nat
    OBVIOUS
  <2>2. ASSUME b < a PROVE FALSE
    <3>1. PICK c \in Nat \ {0} : c = a - b
      BY <2>2
    <3>2. PICK z \in Nat : z = n * c
      <4>1. n * c \in Nat
        BY <1>2
      <4> QED
        BY <4>1
    <3>3. z > 0
      BY <1>2, <3>2
    <3>4. n * (b - a) = 0 - z
      BY <1>2, <3>1, <3>2
    <3>5. PICK v \in Nat : v = d * m
      BY <2>1
    <3>6. v = 0 - z
      BY <1>9, <3>4, <3>5
    <3> QED
      BY <3>3, <3>6
  <2> QED
    BY <2>2
<1>11. PICK r \in Nat : d = n * r
  <2>1. \E q \in Nat : d * m = TwoTo[k] * q
    BY <1>1, <1>9, <1>10
  <2> QED
    BY <1>1, <1>3, <2>1, OddFactor
<1>12. r = 0 \/ n * r >= n
  BY <1>2
<1> QED
  BY <1>2, <1>8, <1>11, <1>12

\* A probe sequence looks at every slot within as many tries as there are slots.
LEMMA ProbesCover ==
    ASSUME NEW n \in Powers, NEW g \in DOMAIN Hash, NEW s \in 0 .. n - 1
    PROVE  \E t \in 0 .. n - 1 : SlotAt(n, g, t) = s
<1> DEFINE S == 0 .. n - 1
           f == [t \in S |-> SlotAt(n, g, t)]
<1>1. n \in Nat \ {0}
  BY PowerFacts
<1>2. \A t \in S : t \in Nat /\ SlotAt(n, g, t) \in S
  BY <1>1, SlotType
<1>3. \A t, u \in S : f[t] = f[u] => t = u
  <2>1. SUFFICES ASSUME NEW t \in S, NEW u \in S, f[t] = f[u], t # u PROVE FALSE
    OBVIOUS
  <2>2. SlotAt(n, g, t) = SlotAt(n, g, u)
    BY <2>1
  <2>3. t < u \/ u < t
    BY <1>1, <2>1
  <2> QED
    BY <2>2, <2>3, ProbesDiffer
<1>4. IsFiniteSet(S)
  BY <1>1, FS_Interval
<1>5. f \in Injection(S, S)
  BY <1>2, <1>3 DEF Injection, IsInjective
<1>6. f \in Surjection(S, S)
  <2> HIDE DEF f, S
  <2> QED
    BY <1>4, <1>5, FS_Injection
<1>7. \E t \in S : f[t] = s
  BY <1>6 DEF Surjection
<1> QED
  BY <1>7

------------------------------------------------------------------------------
(* Capacities. *)

\* Doubling ends at a number that is enough, and does nothing to one that is.
LEMMA DoubledIs ==
    ASSUME NEW from \in Nat \ {0}, NEW enough \in Nat
    PROVE  /\ Doubled(from, enough) >= enough
           /\ \E k \in Nat : Doubled(from, enough) = from * TwoTo[k]
           /\ from >= enough => Doubled(from, enough) = from
<1> DEFINE D == {n \in {from * TwoTo[k] : k \in 0 .. enough} : n >= enough}
<1>1. \A k \in Nat : TwoTo[k] \in Nat /\ k < TwoTo[k]
  BY TwoToFacts
<1>2. ASSUME NEW k \in Nat
      PROVE  from * TwoTo[k] \in Nat /\ from * TwoTo[k] >= TwoTo[k] /\ from * TwoTo[k] >= from
  <2>1. PICK p \in Nat : p = TwoTo[k] /\ p >= 1
    BY <1>1
  <2>2. from * p \in Nat /\ from * p >= p /\ from * p >= from
    BY <2>1
  <2> QED
    BY <2>1, <2>2
<1>3. D \in SUBSET Nat
  BY <1>2
<1>4. from * TwoTo[enough] \in D
  <2>1. from * TwoTo[enough] >= enough
    BY <1>1, <1>2
  <2> QED
    BY <2>1
<1>5. Min(D) \in D /\ \A m \in D : Min(D) <= m
  <2> HIDE DEF D
  <2> QED
    BY <1>3, <1>4, MinOfNumbers
<1>6. Doubled(from, enough) = Min(D)
  BY DEF Doubled
<1>7. ASSUME from >= enough
      PROVE  Min(D) = from
  <2>1. from * TwoTo[0] = from
    BY TwoToFacts
  <2>2. from \in D
    BY <1>7, <2>1
  <2>3. \A m \in D : m >= from
    BY <1>2
  <2>4. Min(D) <= from /\ Min(D) >= from /\ Min(D) \in Nat
    BY <1>3, <1>5, <2>2, <2>3
  <2> HIDE DEF D
  <2> QED
    BY <2>4
<1> QED
  BY <1>5, <1>6, <1>7

\* AggregateHashTableChooseCapacity returns a power of two.
LEMMA CapacityIsPower ==
    ASSUME NEW rows \in Nat
    PROVE  ChooseCapacity(rows) \in Powers
<1>1. PICK x \in Nat : x = rows + (rows \div 2) + 1
  OBVIOUS
<1>2. MinSlots \in Nat /\ MaxSlots \in Nat
  BY AggregateSizes
<1>3. Max({x, MinSlots}) \in Nat
  <2>1. x <= x + MinSlots /\ MinSlots <= x + MinSlots /\ x + MinSlots \in Nat
    BY <1>2
  <2>2. {x, MinSlots} \in SUBSET (0 .. x + MinSlots) /\ {x, MinSlots} # {}
    BY <1>2, <2>1
  <2>3. Max({x, MinSlots}) \in {x, MinSlots}
    BY <2>1, <2>2, MaxOfBounded
  <2> QED
    BY <1>2, <2>3
<1>4. PICK y \in Nat : y = Max({x, MinSlots})
  BY <1>3
<1>5. {y, MaxSlots} \in SUBSET Nat /\ {y, MaxSlots} # {}
  BY <1>2
<1>6. Min({y, MaxSlots}) \in Nat
  BY <1>2, <1>5, MinOfNumbers
<1>7. PICK z \in Nat : z = Min({y, MaxSlots})
  BY <1>6
<1>8. PICK k \in Nat : Doubled(1, z) = 1 * TwoTo[k]
  BY DoubledIs
<1>9. Doubled(1, z) = TwoTo[k]
  BY <1>8, TwoToFacts
<1> QED
  BY <1>1, <1>4, <1>7, <1>9 DEF ChooseCapacity, Powers

\* Growing makes room for the rows it is asked for, and none if there is enough.
LEMMA RoomForIs ==
    ASSUME NEW store, store.room \in Nat \ {0}, NEW m \in Nat, Len(store.groups) \in Nat
    PROVE  /\ RoomFor(store, m) \in Nat \ {0}
           /\ RoomFor(store, m) >= Len(store.groups) + m
           /\ store.room >= Len(store.groups) + m => RoomFor(store, m) = store.room
<1>1. PICK enough \in Nat : enough = Len(store.groups) + m
  OBVIOUS
<1>2. PICK k \in Nat : Doubled(store.room, enough) = store.room * TwoTo[k]
  BY DoubledIs
<1>3. PICK p \in Nat \ {0} : p = TwoTo[k]
  <2>1. TwoTo[k] \in Nat /\ k < TwoTo[k]
    BY TwoToFacts
  <2>2. TwoTo[k] # 0
    BY <2>1
  <2> QED
    BY <2>1, <2>2
<1>4. store.room * p \in Nat \ {0}
  OBVIOUS
<1>5. PICK d : d = Doubled(store.room, enough)
  OBVIOUS
<1>6. d \in Nat \ {0} /\ d >= enough /\ (store.room >= enough => d = store.room)
  BY <1>2, <1>3, <1>4, <1>5, DoubledIs
<1>7. RoomFor(store, m) = d
  BY <1>1, <1>5 DEF RoomFor
<1> QED
  BY <1>1, <1>6, <1>7

------------------------------------------------------------------------------
(* A table: each row is at the first slot of its probe sequence that is not  *)
(* taken by another one.                                                     *)

\* Row x is in a slot of its group's probe sequence, after slots of other rows.
Placed(slots, n, group, x) ==
    \E t \in 0 .. n - 1 :
        /\ slots[SlotAt(n, group, t)] = x
        /\ \A u \in 0 .. t - 1 : slots[SlotAt(n, group, u)] \notin {NoEntry, x}

\* The table of the first `rows` rows of these groups.
Table(slots, n, groups, rows) ==
    /\ n \in Powers
    /\ slots \in [0 .. n - 1 -> 0 .. rows]
    /\ \A x \in 1 .. rows : groups[x] \in DOMAIN Hash /\ Placed(slots, n, groups[x], x)
    /\ \A s, v \in 0 .. n - 1 : slots[s] = slots[v] /\ slots[s] # NoEntry => s = v

\* A table holds no more rows than it has slots; it has a free one if there are fewer.
LEMMA TableBound ==
    ASSUME NEW slots, NEW n, NEW groups, NEW rows \in Nat, Table(slots, n, groups, rows)
    PROVE  /\ rows <= n
           /\ rows < n => \E s \in 0 .. n - 1 : slots[s] = NoEntry
<1> DEFINE S == 0 .. n - 1
           R == 1 .. rows
<1>1. n \in Nat \ {0} /\ slots \in [S -> 0 .. rows]
  BY PowerFacts DEF Table
<1>2. IsFiniteSet(S) /\ IsFiniteSet(R)
  BY <1>1, FS_Interval
<1>3. Cardinality(S) = n /\ Cardinality(R) = rows
  <2>1. Cardinality(0 .. n - 1) = (n - 1) - 0 + 1
    BY <1>1, FS_Interval
  <2>2. Cardinality(1 .. rows) = IF 1 > rows THEN 0 ELSE rows - 1 + 1
    BY FS_Interval
  <2> QED
    BY <1>1, <2>1, <2>2
<1>4. rows <= n
  <2>1. ASSUME NEW x \in R PROVE \E s \in S : slots[s] = x
    <3>1. groups[x] \in DOMAIN Hash
      BY DEF Table
    <3>2. PICK t \in 0 .. n - 1 : slots[SlotAt(n, groups[x], t)] = x
      BY DEF Table, Placed
    <3>3. t \in Nat /\ n \in Powers
      BY <1>1 DEF Table
    <3>4. SlotAt(n, groups[x], t) \in S
      BY <3>1, <3>3, SlotType
    <3> QED
      BY <3>2, <3>4
  <2> DEFINE h == [x \in R |-> CHOOSE s \in S : slots[s] = x]
  <2>2. \A x \in R : h[x] \in S /\ slots[h[x]] = x
    BY <2>1
  <2>3. h \in Injection(R, S)
    BY <2>2 DEF Injection, IsInjective
  <2> HIDE DEF h, R, S
  <2>4. Cardinality(R) <= Cardinality(S)
    BY <1>2, <2>3, FS_Injection
  <2> QED
    BY <1>3, <2>4
<1>5. ASSUME \A s \in S : slots[s] # NoEntry
      PROVE  ~(rows < n)
  <2>1. slots \in Injection(S, R)
    <3>1. \A s \in S : slots[s] \in R
      BY <1>1, <1>5 DEF NoEntry
    <3>2. slots \in [S -> R]
      BY <1>1, <3>1
    <3>3. \A s, v \in S : slots[s] = slots[v] => s = v
      BY <1>5 DEF Table
    <3> QED
      BY <3>2, <3>3 DEF Injection, IsInjective
  <2> HIDE DEF R, S
  <2>2. Cardinality(S) <= Cardinality(R)
    BY <1>2, <2>1, FS_Injection
  <2> QED
    BY <1>1, <1>3, <2>2
<1> QED
  BY <1>4, <1>5

\* A row goes to a free slot of its probe sequence behind taken ones.
LEMMA PlaceRow ==
    ASSUME NEW slots, NEW n, NEW groups, NEW rows \in Nat, Table(slots, n, groups, rows),
           NEW more, \A x \in 1 .. rows : more[x] = groups[x], more[rows + 1] \in DOMAIN Hash,
           NEW t \in 0 .. n - 1, NEW slot, slot = SlotAt(n, more[rows + 1], t),
           slots[slot] = NoEntry,
           \A u \in 0 .. t - 1 : slots[SlotAt(n, more[rows + 1], u)] # NoEntry
    PROVE  Table([slots EXCEPT ![slot] = rows + 1], n, more, rows + 1)
<1> DEFINE g == more[rows + 1]
           new == [slots EXCEPT ![slot] = rows + 1]
<1>1. n \in Nat \ {0} /\ n \in Powers /\ slots \in [0 .. n - 1 -> 0 .. rows]
  BY PowerFacts DEF Table
<1>2. \A v \in 0 .. n - 1 : \A h \in DOMAIN Hash : SlotAt(n, h, v) \in 0 .. n - 1
  <2>1. ASSUME NEW v \in 0 .. n - 1, NEW h \in DOMAIN Hash PROVE SlotAt(n, h, v) \in 0 .. n - 1
    <3>1. v \in Nat /\ n \in Powers
      BY <1>1
    <3> QED
      BY <3>1, SlotType
  <2> QED
    BY <2>1
<1>3. slot \in 0 .. n - 1
  BY <1>2
<1>4. /\ new \in [0 .. n - 1 -> 0 .. rows + 1] /\ new[slot] = rows + 1
      /\ \A v \in 0 .. n - 1 : v # slot => new[v] = slots[v]
  BY <1>1, <1>3
<1> HIDE DEF new
<1>5. ASSUME NEW x \in 1 .. rows + 1
      PROVE  more[x] \in DOMAIN Hash /\ Placed(new, n, more[x], x)
  <2>1. CASE x = rows + 1
    <3>1. \A u \in 0 .. t - 1 : new[SlotAt(n, g, u)] \notin {NoEntry, x}
      <4>1. SUFFICES ASSUME NEW u \in 0 .. t - 1
                     PROVE  new[SlotAt(n, g, u)] \notin {NoEntry, x}
        OBVIOUS
      <4>2. PICK v \in 0 .. n - 1 : v = SlotAt(n, g, u)
        BY <1>1, <1>2
      <4>3. slots[v] # NoEntry /\ v # slot
        BY <4>2
      <4>4. new[v] = slots[v] /\ slots[v] \in 0 .. rows
        BY <1>1, <1>4, <4>3
      <4> QED
        BY <2>1, <4>2, <4>3, <4>4
    <3> QED
      BY <1>4, <2>1, <3>1 DEF Placed
  <2>2. CASE x # rows + 1
    <3>1. x \in 1 .. rows
      BY <2>2
    <3>2. more[x] \in DOMAIN Hash /\ Placed(slots, n, more[x], x)
      BY <3>1 DEF Table
    <3>3. PICK v \in 0 .. n - 1 :
              /\ slots[SlotAt(n, more[x], v)] = x
              /\ \A u \in 0 .. v - 1 : slots[SlotAt(n, more[x], u)] \notin {NoEntry, x}
      BY <3>2 DEF Placed
    <3>4. new[SlotAt(n, more[x], v)] = x
      <4>1. SlotAt(n, more[x], v) \in 0 .. n - 1 /\ SlotAt(n, more[x], v) # slot
        BY <1>2, <3>1, <3>2, <3>3 DEF NoEntry
      <4> QED
        BY <1>4, <3>3, <4>1
    <3>5. ASSUME NEW u \in 0 .. v - 1
          PROVE  new[SlotAt(n, more[x], u)] \notin {NoEntry, x}
      <4>1. PICK y \in 0 .. n - 1 : y = SlotAt(n, more[x], u)
        <5>1. u \in 0 .. n - 1
          BY <1>1
        <5>2. SlotAt(n, more[x], u) \in 0 .. n - 1
          BY <1>2, <3>2, <5>1
        <5> QED
          BY <5>2
      <4>2. slots[y] \notin {NoEntry, x}
        BY <3>3, <4>1
      <4>3. new[y] = rows + 1 \/ new[y] = slots[y]
        BY <1>4
      <4> QED
        BY <2>2, <4>1, <4>2, <4>3 DEF NoEntry
    <3> QED
      BY <3>2, <3>4, <3>5 DEF Placed
  <2> QED
    BY <2>1, <2>2
<1>6. ASSUME NEW s \in 0 .. n - 1, NEW v \in 0 .. n - 1, new[s] = new[v], new[s] # NoEntry
      PROVE  s = v
  <2>1. slots[s] \in 0 .. rows /\ slots[v] \in 0 .. rows
    BY <1>1
  <2>2. slots[s] = slots[v] /\ slots[s] # NoEntry => s = v
    BY DEF Table
  <2> QED
    BY <1>4, <1>6, <2>1, <2>2
<1>7. rows + 1 \in Nat
  OBVIOUS
<1> QED
  BY <1>1, <1>4, <1>5, <1>6 DEF Table, new

\* FirstFree is such a slot, if there is one at all.
LEMMA FirstFreeIs ==
    ASSUME NEW slots, NEW n, NEW groups, NEW rows \in Nat, Table(slots, n, groups, rows),
           rows < n, NEW g \in DOMAIN Hash
    PROVE  \E t \in 0 .. n - 1 :
               /\ FirstFree(slots, n, g) = SlotAt(n, g, t)
               /\ slots[SlotAt(n, g, t)] = NoEntry
               /\ \A u \in 0 .. t - 1 : slots[SlotAt(n, g, u)] # NoEntry
<1> DEFINE D == {t \in 0 .. n - 1 : slots[SlotAt(n, g, t)] = NoEntry}
<1>1. n \in Powers /\ n \in Nat
  BY PowerFacts DEF Table
<1>2. PICK s \in 0 .. n - 1 : slots[s] = NoEntry
  BY TableBound
<1>3. PICK t \in 0 .. n - 1 : SlotAt(n, g, t) = s
  BY <1>1, ProbesCover
<1>4. D \in SUBSET Nat /\ D # {}
  BY <1>2, <1>3
<1>5. Min(D) \in D /\ \A m \in D : Min(D) <= m
  <2> HIDE DEF D
  <2> QED
    BY <1>4, MinOfNumbers
<1>6. PICK m \in 0 .. n - 1 : m = Min(D) /\ slots[SlotAt(n, g, m)] = NoEntry
  BY <1>5
<1>7. FirstFree(slots, n, g) = SlotAt(n, g, m)
  BY <1>6 DEF FirstFree
<1>8. ASSUME NEW u \in 0 .. m - 1, slots[SlotAt(n, g, u)] = NoEntry
      PROVE  FALSE
  <2>1. u \in D
    BY <1>1, <1>8
  <2>2. m <= u
    BY <1>5, <1>6, <2>1
  <2> QED
    BY <2>2
<1> QED
  BY <1>6, <1>7, <1>8

\* An array of empty slots is a table of no rows.
LEMMA EmptyTable ==
    ASSUME NEW n \in Powers, NEW groups
    PROVE  Table(EmptySlots(n), n, groups, 0)
BY DEF Table, EmptySlots, NoEntry

\* AggregateHashTableRehash makes a table of all rows.
LEMMA RehashIs ==
    ASSUME NEW groups \in Seq(DOMAIN Hash), NEW n \in Powers, Len(groups) <= n
    PROVE  Table(Rehash(groups, n), n, groups, Len(groups))
<1> DEFINE L == Len(groups)
           S == [0 .. n - 1 -> 0 .. L]
           Put(slots, r) == [slots EXCEPT ![FirstFree(slots, n, groups[r])] = r]
           step == [x \in Nat \X S |-> IF x[1] + 1 \in 1 .. L THEN Put(x[2], x[1] + 1) ELSE x[2]]
           filled == CHOOSE f : f = [r \in 0 .. L |->
                                        IF r = 0 THEN EmptySlots(n) ELSE Put(f[r - 1], r)]
<1>1. L \in Nat /\ n \in Nat \ {0} /\ \A x \in 1 .. L : groups[x] \in DOMAIN Hash
  BY PowerFacts, ElementOfSeq, LenProperties
<1>2. filled = [r \in 0 .. L |-> IF r = 0 THEN EmptySlots(n) ELSE Put(filled[r - 1], r)]
  <2>1. step \in [Nat \X S -> S]
    <3>1. \A x \in Nat \X S : x[1] + 1 \in 1 .. L => Put(x[2], x[1] + 1) \in S
      <4>1. SUFFICES ASSUME NEW s \in S, NEW r \in 1 .. L PROVE Put(s, r) \in S
        OBVIOUS
      <4>2. r \in 0 .. L
        BY <1>1
      <4> QED
        BY <4>2
    <3> HIDE DEF Put
    <3> QED
      BY <3>1
  <2>2. EmptySlots(n) \in S
    BY <1>1 DEF EmptySlots, NoEntry
  <2>3. PICK at \in [Nat -> S] : Iterates(at, EmptySlots(n), step)
    <3> HIDE DEF step, S
    <3> QED
      BY <2>1, <2>2, Iteration
  <2>4. at[0] = EmptySlots(n) /\ \A k \in Nat : at[k + 1] = step[<<k, at[k]>>]
    BY <2>3 DEF Iterates
  <2> DEFINE f == [r \in 0 .. L |-> at[r]]
  <2>5. ASSUME NEW r \in 0 .. L
        PROVE  at[r] = IF r = 0 THEN EmptySlots(n) ELSE Put(f[r - 1], r)
    <3>1. CASE r = 0
      BY <2>4, <3>1
    <3>2. CASE r # 0
      <4>1. PICK k \in Nat : k = r - 1 /\ k + 1 = r /\ k + 1 \in 1 .. L /\ k \in 0 .. L
        BY <1>1, <3>2
      <4>2. at[k] \in S
        BY <2>3
      <4> HIDE DEF Put, S
      <4>3. step[<<k, at[k]>>] = Put(at[k], k + 1)
        BY <4>1, <4>2
      <4>4. f[r - 1] = at[k]
        BY <4>1
      <4> HIDE DEF f, step
      <4>5. at[r] = Put(f[r - 1], r)
        BY <2>4, <4>1, <4>3, <4>4
      <4> QED
        BY <3>2, <4>5
    <3> QED
      BY <3>1, <3>2
  <2>6. f = [r \in 0 .. L |-> IF r = 0 THEN EmptySlots(n) ELSE Put(f[r - 1], r)]
    <3> HIDE DEF Put
    <3> QED
      BY <2>5
  <2> HIDE DEF f, Put, L
  <2> QED
    BY <2>6 DEF filled
<1>3. Rehash(groups, n) = filled[L]
  BY DEF Rehash
<1> HIDE DEF filled
<1> DEFINE T == {r \in Nat : r <= L => Table(filled[r], n, groups, r)}
<1>4. 0 \in T
  <2>1. filled[0] = EmptySlots(n)
    BY <1>1, <1>2
  <2> QED
    BY <2>1, EmptyTable
<1>5. ASSUME NEW r \in Nat, r \in T
      PROVE  r + 1 \in T
  <2>1. SUFFICES ASSUME r + 1 <= L
                 PROVE  Table(filled[r + 1], n, groups, r + 1)
    OBVIOUS
  <2>2. Table(filled[r], n, groups, r) /\ r < n /\ r + 1 \in 1 .. L
    BY <1>1, <1>5, <2>1
  <2>3. groups[r + 1] \in DOMAIN Hash
    BY <1>1, <2>2
  <2>4. filled[r + 1] = Put(filled[r], r + 1)
    <3>1. r + 1 \in 0 .. L /\ r + 1 # 0 /\ (r + 1) - 1 = r
      BY <2>2
    <3> HIDE DEF Put
    <3> QED
      BY <1>2, <3>1
  <2>5. PICK t \in 0 .. n - 1 :
            /\ FirstFree(filled[r], n, groups[r + 1]) = SlotAt(n, groups[r + 1], t)
            /\ filled[r][SlotAt(n, groups[r + 1], t)] = NoEntry
            /\ \A u \in 0 .. t - 1 : filled[r][SlotAt(n, groups[r + 1], u)] # NoEntry
    <3>1. PICK f, g : f = filled[r] /\ g = groups[r + 1]
      OBVIOUS
    <3>2. r \in Nat /\ Table(f, n, groups, r) /\ r < n /\ g \in DOMAIN Hash
      BY <1>5, <2>2, <2>3, <3>1
    <3>3. \E t \in 0 .. n - 1 :
              /\ FirstFree(f, n, g) = SlotAt(n, g, t)
              /\ f[SlotAt(n, g, t)] = NoEntry
              /\ \A u \in 0 .. t - 1 : f[SlotAt(n, g, u)] # NoEntry
      BY <3>2, FirstFreeIs
    <3> QED
      BY <3>1, <3>3
  <2>6. Table([filled[r] EXCEPT ![SlotAt(n, groups[r + 1], t)] = r + 1], n, groups, r + 1)
    BY <2>2, <2>3, <2>5, PlaceRow
  <2> QED
    BY <2>4, <2>5, <2>6
<1>6. \A r \in Nat : r \in T
  <2> HIDE DEF T
  <2> QED
    BY <1>4, <1>5, NumberInduction
<1> QED
  BY <1>1, <1>3, <1>6

\* Probing for the group of a row ends at the row's slot.
LEMMA EndsAtRow ==
    ASSUME NEW store, NEW n, NEW rows \in Nat, Table(store.slots, n, store.groups, rows),
           SlotCount(store) = n,
           \A x, y \in 1 .. rows : store.groups[x] = store.groups[y] => x = y,
           NEW x \in 1 .. rows
    PROVE  /\ Ends(store, store.groups[x]) # {}
           /\ store.slots[Lookup(store, store.groups[x])] = x
<1> DEFINE g == store.groups[x]
           D == Ends(store, g)
<1>1. n \in Nat \ {0} /\ n \in Powers /\ store.slots \in [0 .. n - 1 -> 0 .. rows]
  BY PowerFacts DEF Table
<1>2. g \in DOMAIN Hash
  BY DEF Table
<1>3. PICK t \in 0 .. n - 1 :
          /\ store.slots[SlotAt(n, g, t)] = x
          /\ \A u \in 0 .. t - 1 : store.slots[SlotAt(n, g, u)] \notin {NoEntry, x}
  BY DEF Table, Placed
<1>4. D = {v \in 0 .. n - 1 : \/ store.slots[SlotAt(n, g, v)] = NoEntry
                              \/ SameGroup(store.groups, store.slots[SlotAt(n, g, v)], g)}
  BY DEF Ends
<1>5. t \in D
  BY <1>3, <1>4 DEF SameGroup
<1>6. ASSUME NEW u \in D
      PROVE  t <= u
  <2>1. SUFFICES ASSUME u < t PROVE FALSE
    BY <1>4, <1>1
  <2>2. u \in 0 .. n - 1 /\ u \in 0 .. t - 1
    BY <1>1, <1>4, <2>1
  <2>3. PICK y \in 0 .. rows : y = store.slots[SlotAt(n, g, u)]
    <3>1. u \in Nat
      BY <2>2
    <3>2. SlotAt(n, g, u) \in 0 .. n - 1
      BY <1>1, <1>2, <3>1, SlotType
    <3> QED
      BY <1>1, <3>2
  <2>4. y \notin {NoEntry, x}
    BY <1>3, <2>2, <2>3
  <2>5. y \in 1 .. rows
    BY <2>3, <2>4 DEF NoEntry
  <2>6. SameGroup(store.groups, y, g)
    BY <1>4, <2>3, <2>4
  <2>7. store.groups[y] = store.groups[x]
    BY <2>6 DEF SameGroup
  <2> QED
    BY <2>4, <2>5, <2>7
<1>7. D \in SUBSET Nat
  BY <1>1, <1>4
<1>8. Min(D) = t
  <2> HIDE DEF D
  <2>1. Min(D) \in D /\ Min(D) <= t
    BY <1>5, <1>7, MinOfNumbers
  <2>2. t <= Min(D) /\ Min(D) \in Nat
    BY <1>6, <1>7, <2>1
  <2> QED
    BY <2>1, <2>2
<1>9. Lookup(store, g) = SlotAt(n, g, t)
  BY <1>8 DEF Lookup
<1> QED
  BY <1>3, <1>5, <1>9

------------------------------------------------------------------------------
(* Stores. *)

\* Input rows, bags of them, and stores with such aggregates.
RowIds == AggWorkers \X Nat \X Nat
Bag == UNION {[D -> Int] : D \in SUBSET RowIds}

StoreType ==
    [groups : Seq(DOMAIN Hash), aggs : Seq(Bag), room : Nat \ {0},
     slots : UNION {[0 .. n - 1 -> Nat] : n \in Powers}]

\* Every group has one row, with an aggregate.
Plain(s) ==
    /\ s \in StoreType
    /\ Len(s.aggs) = Len(s.groups)
    /\ \A x, y \in 1 .. Len(s.groups) : s.groups[x] = s.groups[y] => x = y

\* Every row is in the store's table.
InTable(s) == Table(s.slots, SlotCount(s), s.groups, Len(s.groups))

\* The number of slots of an array 0 .. n - 1.
LEMMA CountOfSlots ==
    ASSUME NEW n \in Powers, NEW slots, DOMAIN slots = 0 .. n - 1
    PROVE  Cardinality(DOMAIN slots) = n
<1>1. n \in Nat \ {0}
  BY PowerFacts
<1>2. Cardinality(0 .. n - 1) = (n - 1) - 0 + 1
  BY <1>1, FS_Interval
<1> QED
  BY <1>1, <1>2

\* The parts of a plain store.
LEMMA StoreFacts ==
    ASSUME NEW s, Plain(s)
    PROVE  /\ s.groups \in Seq(DOMAIN Hash) /\ s.aggs \in Seq(Bag) /\ s.room \in Nat \ {0}
           /\ Len(s.groups) \in Nat /\ Len(s.aggs) = Len(s.groups)
           /\ DOMAIN s.groups = 1 .. Len(s.groups) /\ DOMAIN s.aggs = 1 .. Len(s.groups)
           /\ \A x \in 1 .. Len(s.groups) : s.groups[x] \in DOMAIN Hash /\ s.aggs[x] \in Bag
           /\ SlotCount(s) \in Powers /\ SlotCount(s) \in Nat \ {0}
           /\ s.slots \in [0 .. SlotCount(s) - 1 -> Nat]
<1>1. s.groups \in Seq(DOMAIN Hash) /\ s.aggs \in Seq(Bag) /\ s.room \in Nat \ {0}
  BY DEF Plain, StoreType
<1>2. PICK n \in Powers : s.slots \in [0 .. n - 1 -> Nat]
  BY DEF Plain, StoreType
<1>3. SlotCount(s) = n
  BY <1>2, CountOfSlots DEF SlotCount
<1>4. n \in Nat \ {0}
  BY PowerFacts
<1> QED
  BY <1>1, <1>2, <1>3, <1>4, LenProperties, ElementOfSeq DEF Plain

\* A store with another table of its rows.
LEMMA WithTable ==
    ASSUME NEW s, Plain(s), NEW n \in Powers, Len(s.groups) <= n, NEW room \in Nat \ {0},
           NEW t, t = [groups |-> s.groups, aggs |-> s.aggs, room |-> room, slots |-> t.slots],
           t.slots = Rehash(s.groups, n)
    PROVE  /\ Plain(t) /\ InTable(t) /\ SlotCount(t) = n
           /\ t.groups = s.groups /\ t.aggs = s.aggs /\ t.room = room
<1>1. Table(Rehash(s.groups, n), n, s.groups, Len(s.groups))
  BY StoreFacts, RehashIs
<1>2. PICK slots : slots = Rehash(s.groups, n)
  OBVIOUS
<1>3. slots \in [0 .. n - 1 -> 0 .. Len(s.groups)]
  BY <1>1, <1>2 DEF Table
<1>4. slots \in [0 .. n - 1 -> Nat]
  BY <1>3, StoreFacts
<1>5. t.groups = s.groups /\ t.aggs = s.aggs /\ t.room = room /\ t.slots = slots
  BY <1>2 DEF Plain, StoreType
<1>6. t \in StoreType
  BY <1>2, <1>4 DEF Plain, StoreType
<1>7. SlotCount(t) = n
  BY <1>4, <1>5, CountOfSlots DEF SlotCount
<1> QED
  BY <1>1, <1>2, <1>5, <1>6, <1>7 DEF Plain, InTable

\* A new store is plain, empty, and its slots are a table.
LEMMA NewStoreIs ==
    /\ Plain(NewStore) /\ InTable(NewStore)
    /\ NewStore.groups = <<>> /\ NewStore.aggs = <<>>
<1>1. MinRows \in Nat \ {0}
  BY AggregateSizes
<1>2. PICK n \in Powers : n = ChooseCapacity(MinRows)
  BY <1>1, CapacityIsPower
<1>3. EmptySlots(n) \in [0 .. n - 1 -> Nat]
  BY DEF EmptySlots, NoEntry
<1>4. NewStore \in StoreType
  BY <1>1, <1>2, <1>3 DEF NewStore, StoreType
<1>5. SlotCount(NewStore) = n
  BY <1>2, <1>3, CountOfSlots DEF SlotCount, NewStore
<1>6. Len(NewStore.groups) = 0 /\ Len(NewStore.aggs) = 0
  BY DEF NewStore
<1>7. Table(NewStore.slots, n, NewStore.groups, 0)
  BY <1>2, EmptyTable DEF NewStore
<1> QED
  BY <1>4, <1>5, <1>6, <1>7 DEF Plain, InTable, NewStore

\* A resize keeps the rows and makes a table of them.
LEMMA ResizeIs ==
    ASSUME NEW s, Plain(s), InTable(s)
    PROVE  /\ Plain(Resize(s)) /\ InTable(Resize(s))
           /\ Resize(s).groups = s.groups /\ Resize(s).aggs = s.aggs /\ Resize(s).room = s.room
<1>1. PICK n \in Powers : n = SlotCount(s)
  BY StoreFacts
<1>2. 2 * n \in Powers /\ n \in Nat
  BY PowerFacts
<1>3. Len(s.groups) <= 2 * n
  BY <1>1, <1>2, TableBound, StoreFacts DEF InTable
<1>4. CASE Resize(s) = s
  BY <1>4
<1>5. CASE Resize(s) # s
  <2>1. Resize(s) = [s EXCEPT !.slots = Rehash(s.groups, 2 * n)]
    BY <1>1, <1>5 DEF Resize
  <2>2. Resize(s) = [s EXCEPT !.room = s.room, !.slots = Rehash(s.groups, 2 * n)]
    BY <2>1 DEF Plain, StoreType
  <2>3. PICK room \in Nat \ {0}, k \in Powers : room = s.room /\ k = 2 * n
    BY <1>2, StoreFacts
  <2>4. PICK r : /\ r = Resize(s)
                 /\ r = [groups |-> s.groups, aggs |-> s.aggs, room |-> room, slots |-> r.slots]
                 /\ r.slots = Rehash(s.groups, k)
    BY <2>2, <2>3 DEF Plain, StoreType
  <2>5. Plain(r) /\ InTable(r) /\ r.groups = s.groups /\ r.aggs = s.aggs /\ r.room = room
    BY <1>3, <2>3, <2>4, WithTable
  <2> QED
    BY <2>3, <2>4, <2>5
<1> QED
  BY <1>4, <1>5

\* A growth keeps the rows, makes a table of them and gives the room asked for.
LEMMA GrowIs ==
    ASSUME NEW s, Plain(s), InTable(s), NEW m \in Nat, MayGrow(s, m)
    PROVE  /\ Plain(Grow(s, m)) /\ InTable(Grow(s, m))
           /\ Grow(s, m).groups = s.groups /\ Grow(s, m).aggs = s.aggs
           /\ Grow(s, m).room >= Len(s.groups) + m
<1>1. /\ RoomFor(s, m) \in Nat \ {0} /\ RoomFor(s, m) >= Len(s.groups) + m
  BY StoreFacts, RoomForIs
<1>2. CASE RoomFor(s, m) = s.room
  <2>1. Grow(s, m) = s
    BY <1>2 DEF Grow
  <2> QED
    BY <1>1, <1>2, <2>1
<1>3. CASE RoomFor(s, m) # s.room
  <2>1. PICK n \in Powers : n = ChooseCapacity(RoomFor(s, m))
    BY <1>1, CapacityIsPower
  <2>2. Len(s.groups) <= n
    BY <1>3, <2>1 DEF MayGrow
  <2>3. Grow(s, m) = [s EXCEPT !.room = RoomFor(s, m), !.slots = Rehash(s.groups, n)]
    BY <1>3, <2>1 DEF Grow
  <2>4. PICK room \in Nat \ {0} : room = RoomFor(s, m)
    BY <1>1
  <2>5. PICK r : /\ r = Grow(s, m)
                 /\ r = [groups |-> s.groups, aggs |-> s.aggs, room |-> room, slots |-> r.slots]
                 /\ r.slots = Rehash(s.groups, n)
    BY <2>3, <2>4 DEF Plain, StoreType
  <2>6. Plain(r) /\ InTable(r) /\ r.groups = s.groups /\ r.aggs = s.aggs /\ r.room = room
    BY <2>2, <2>5, WithTable
  <2> QED
    BY <1>1, <2>4, <2>5, <2>6
<1> QED
  BY <1>2, <1>3

\* A probe looks at a slot of the table.
LEMMA SlotTypeIn ==
    ASSUME NEW s, Plain(s), NEW g \in DOMAIN Hash, NEW t \in Nat
    PROVE  SlotAt(SlotCount(s), g, t) \in 0 .. SlotCount(s) - 1
BY StoreFacts, SlotType

\* The tries before t met rows of other groups.
Passed(s, g, t) ==
    \A u \in 0 .. t - 1 :
        LET x == s.slots[SlotAt(SlotCount(s), g, u)]
        IN  x \in 1 .. Len(s.groups) /\ s.groups[x] # g

\* The aggregate of no row.
LEMMA EmptyBagIs == EmptyBag \in Bag
BY DEF EmptyBag, SetToBag, Bag

\* A new row put where the probe for its group ended keeps the table right.
LEMMA AddRowIs ==
    ASSUME NEW s, Plain(s), InTable(s), NEW g \in DOMAIN Hash,
           NEW t \in 0 .. SlotCount(s) - 1, NEW slot, slot = SlotAt(SlotCount(s), g, t),
           s.slots[slot] = NoEntry, Passed(s, g, t), NEW a, a = AddRow(s, g, slot)
    PROVE  /\ Plain(a) /\ InTable(a)
           /\ a.groups = Append(s.groups, g) /\ a.aggs = Append(s.aggs, EmptyBag)
           /\ a.room = s.room /\ SlotCount(a) = SlotCount(s)
           /\ a.slots[slot] = Len(s.groups) + 1
           /\ \A z \in 0 .. SlotCount(s) - 1 : z # slot => a.slots[z] = s.slots[z]
           /\ \A x \in 1 .. Len(s.groups) : s.groups[x] # g
<1> DEFINE L == Len(s.groups)
           more == Append(s.groups, g)
<1>1. PICK n \in Powers : n = SlotCount(s) /\ n \in Nat \ {0}
  BY StoreFacts
<1>2. Table(s.slots, n, s.groups, L)
  BY <1>1 DEF InTable
<1>3. /\ more \in Seq(DOMAIN Hash) /\ Len(more) = L + 1 /\ L \in Nat
      /\ \A x \in 1 .. L : more[x] = s.groups[x]
      /\ more[L + 1] = g
  BY StoreFacts, AppendProperties
<1>4. ASSUME NEW x \in 1 .. L, s.groups[x] = g
      PROVE  FALSE
  <2>1. PICK v \in 0 .. n - 1 :
            /\ s.slots[SlotAt(n, g, v)] = x
            /\ \A u \in 0 .. v - 1 : s.slots[SlotAt(n, g, u)] \notin {NoEntry, x}
    BY <1>2, <1>4 DEF Table, Placed
  <2>2. v # t
    BY <1>1, <2>1 DEF NoEntry
  <2>3. ~(t < v)
    <3>1. SUFFICES ASSUME t < v PROVE FALSE
      OBVIOUS
    <3>2. t \in 0 .. v - 1
      BY <1>1, <3>1
    <3> QED
      BY <1>1, <2>1, <3>2
  <2>4. v \in 0 .. t - 1
    BY <1>1, <2>2, <2>3
  <2> QED
    BY <1>1, <1>4, <2>1, <2>4 DEF Passed
<1>5. \A u \in 0 .. t - 1 : s.slots[SlotAt(n, g, u)] # NoEntry
  BY <1>1 DEF Passed, NoEntry
<1>6. Table([s.slots EXCEPT ![slot] = L + 1], n, more, L + 1)
  <2> HIDE DEF more
  <2>1. t \in 0 .. n - 1 /\ slot = SlotAt(n, more[L + 1], t) /\ more[L + 1] \in DOMAIN Hash
    BY <1>1, <1>3
  <2> HIDE DEF L
  <2> QED
    BY <1>1, <1>2, <1>3, <1>5, <2>1, PlaceRow
<1>7. /\ Append(s.aggs, EmptyBag) \in Seq(Bag)
      /\ Len(Append(s.aggs, EmptyBag)) = L + 1
  BY StoreFacts, EmptyBagIs, AppendProperties
<1>8. PICK table \in [0 .. n - 1 -> Nat] : table = [s.slots EXCEPT ![slot] = L + 1]
  <2>1. L + 1 \in Nat /\ s.slots \in [0 .. n - 1 -> Nat]
    BY <1>1, <1>3, StoreFacts
  <2> HIDE DEF L
  <2> QED
    BY <2>1
<1>9. PICK bags \in Seq(Bag) : bags = Append(s.aggs, EmptyBag)
  BY <1>7
<1>10. a \in StoreType /\ a.groups = more /\ a.aggs = bags /\ a.room = s.room /\ a.slots = table
  <2>1. PICK groups, aggs, room, slots :
            s = [groups |-> groups, aggs |-> aggs, room |-> room, slots |-> slots]
    BY DEF Plain, StoreType
  <2>2. room \in Nat \ {0} /\ n \in Powers
    BY <1>1, <2>1, StoreFacts
  <2> HIDE DEF more, L
  <2>3. more = Append(groups, g) /\ L = Len(groups)
    BY <2>1 DEF more, L
  <2>4. a = [s EXCEPT !.groups = more, !.aggs = Append(aggs, EmptyBag),
                      !.slots = [slots EXCEPT ![slot] = L + 1]]
    BY <2>1, <2>3 DEF AddRow
  <2>5. a = [s EXCEPT !.groups = more, !.aggs = bags, !.slots = table]
    BY <1>8, <1>9, <2>1, <2>4
  <2>6. PICK b : b = [groups |-> more, aggs |-> bags, room |-> room, slots |-> table]
    OBVIOUS
  <2>7. a = b
    BY <2>1, <2>5, <2>6
  <2>8. b \in StoreType
    BY <1>3, <2>2, <2>6 DEF StoreType
  <2>9. b.groups = more /\ b.aggs = bags /\ b.room = s.room /\ b.slots = table
    BY <2>1, <2>6
  <2> QED
    BY <2>7, <2>8, <2>9
<1>11. SlotCount(a) = n
  BY <1>1, <1>10, CountOfSlots DEF SlotCount
<1>12. \A x, y \in 1 .. L + 1 : more[x] = more[y] => x = y
  <2> HIDE DEF more
  <2>1. \A x \in 1 .. L : more[x] # more[L + 1]
    BY <1>3, <1>4
  <2>2. \A x, y \in 1 .. L : more[x] = more[y] => x = y
    BY <1>3 DEF Plain
  <2>3. \A x \in 1 .. L + 1 : x \in 1 .. L \/ x = L + 1
    BY <1>3
  <2> HIDE DEF L
  <2> QED
    BY <2>1, <2>2, <2>3
<1>13. Plain(a)
  BY <1>3, <1>7, <1>9, <1>10, <1>12 DEF Plain
<1>14. InTable(a)
  BY <1>3, <1>6, <1>8, <1>10, <1>11 DEF InTable
<1>15. /\ a.slots[slot] = L + 1
       /\ \A z \in 0 .. n - 1 : z # slot => a.slots[z] = s.slots[z]
  <2>1. s.slots \in [0 .. n - 1 -> Nat] /\ slot \in 0 .. n - 1
    <3>1. t \in Nat
      BY <1>1
    <3> QED
      BY <1>1, <3>1, StoreFacts, SlotTypeIn
  <2> HIDE DEF L
  <2> QED
    BY <1>8, <1>10, <2>1
<1> QED
  BY <1>1, <1>4, <1>9, <1>10, <1>11, <1>13, <1>14, <1>15


------------------------------------------------------------------------------
(* Adding to the row of a group. *)

\* Aggregates add up to aggregates.
LEMMA BagSum ==
    ASSUME NEW b \in Bag, NEW c \in Bag
    PROVE  b (+) c \in Bag
<1>1. PICK D \in SUBSET RowIds : b \in [D -> Int]
  BY DEF Bag
<1>2. PICK F \in SUBSET RowIds : c \in [F -> Int]
  BY DEF Bag
<1>3. b (+) c \in [D \cup F -> Int]
  BY <1>1, <1>2 DEF (+)
<1>4. D \cup F \in SUBSET RowIds
  BY <1>1, <1>2
<1> QED
  BY <1>3, <1>4 DEF Bag

\* A set of input rows, each once, is an aggregate.
LEMMA SetBag ==
    ASSUME NEW S, S \subseteq RowIds
    PROVE  SetToBag(S) \in Bag
<1>1. SetToBag(S) \in [S -> Int]
  BY DEF SetToBag
<1> QED
  BY <1>1 DEF Bag

\* A store with other aggregates of the same rows.
LEMMA WithAggregates ==
    ASSUME NEW s, Plain(s), NEW aggs \in Seq(Bag), Len(aggs) = Len(s.groups), NEW t,
           t = [s EXCEPT !.aggs = aggs]
    PROVE  /\ Plain(t) /\ t.groups = s.groups /\ t.aggs = aggs
           /\ t.room = s.room /\ t.slots = s.slots /\ SlotCount(t) = SlotCount(s)
           /\ InTable(s) => InTable(t)
<1>1. t.groups = s.groups /\ t.aggs = aggs /\ t.room = s.room /\ t.slots = s.slots
  BY DEF Plain, StoreType
<1>2. t \in StoreType
  BY DEF Plain, StoreType
<1>3. SlotCount(t) = SlotCount(s)
  BY <1>1 DEF SlotCount
<1> QED
  BY <1>1, <1>2, <1>3 DEF Plain, InTable

\* A lookup ends at an empty slot or at the row of the group, after rows of other groups.
LEMMA EndsIs ==
    ASSUME NEW s, Plain(s), InTable(s), NEW g \in DOMAIN Hash, Ends(s, g) # {}
    PROVE  \E t \in 0 .. SlotCount(s) - 1 :
              /\ Lookup(s, g) = SlotAt(SlotCount(s), g, t)
              /\ Passed(s, g, t)
              /\ \/ s.slots[Lookup(s, g)] = NoEntry
                 \/ /\ s.slots[Lookup(s, g)] \in 1 .. Len(s.groups)
                    /\ s.groups[s.slots[Lookup(s, g)]] = g
<1>1. PICK n \in Powers : n = SlotCount(s) /\ n \in Nat \ {0}
  BY StoreFacts
<1>2. Table(s.slots, n, s.groups, Len(s.groups)) /\ Len(s.groups) \in Nat
  BY <1>1, StoreFacts DEF InTable
<1>3. s.slots \in [0 .. n - 1 -> 0 .. Len(s.groups)]
  BY <1>2 DEF Table
<1> DEFINE D == Ends(s, g)
           entry(t) == s.slots[SlotAt(n, g, t)]
<1>4. D = {t \in 0 .. n - 1 : entry(t) = NoEntry \/ SameGroup(s.groups, entry(t), g)}
  BY <1>1 DEF Ends
<1>5. \A t \in 0 .. n - 1 : entry(t) \in 0 .. Len(s.groups)
  <2>1. SUFFICES ASSUME NEW t \in 0 .. n - 1 PROVE entry(t) \in 0 .. Len(s.groups)
    OBVIOUS
  <2>2. t \in Nat
    BY <1>1
  <2>3. SlotAt(n, g, t) \in 0 .. n - 1
    BY <1>1, <2>2, SlotType
  <2> QED
    BY <1>3, <2>3
<1>6. PICK t \in D : t = Min(D) /\ \A u \in D : t <= u
  <2>1. D \in SUBSET Nat
    BY <1>1, <1>4
  <2> HIDE DEF D
  <2>2. D # {}
    BY DEF D
  <2> QED
    BY <2>1, <2>2, MinOfNumbers
<1>7. t \in 0 .. n - 1 /\ (entry(t) = NoEntry \/ SameGroup(s.groups, entry(t), g))
  BY <1>4, <1>6
<1>8. Lookup(s, g) = SlotAt(n, g, t)
  BY <1>1, <1>6 DEF Lookup
<1>9. Passed(s, g, t)
  <2>1. SUFFICES ASSUME NEW u \in 0 .. t - 1
                 PROVE  entry(u) \in 1 .. Len(s.groups) /\ s.groups[entry(u)] # g
    BY <1>1 DEF Passed
  <2>2. u \in 0 .. n - 1 /\ u < t
    BY <1>1, <1>7
  <2> HIDE DEF entry
  <2>3. ~(entry(u) = NoEntry \/ SameGroup(s.groups, entry(u), g))
    <3>1. u \notin D
      <4> HIDE DEF D
      <4>1. u \in Nat /\ t \in Nat
        BY <1>1, <1>7, <2>2
      <4> QED
        BY <1>6, <2>2, <4>1
    <3> QED
      BY <1>4, <2>2, <3>1
  <2>4. entry(u) \in 0 .. Len(s.groups) /\ entry(u) # 0
    BY <1>5, <2>2, <2>3 DEF NoEntry
  <2>5. entry(u) \in 1 .. Len(s.groups)
    BY <1>2, <2>4
  <2>6. s.groups[entry(u)] # g
    BY <2>3 DEF SameGroup
  <2> QED
    BY <2>5, <2>6
<1>10. \/ entry(t) = NoEntry
       \/ entry(t) \in 1 .. Len(s.groups) /\ s.groups[entry(t)] = g
  <2> HIDE DEF entry, D
  <2>1. CASE entry(t) = NoEntry
    BY <2>1
  <2>2. CASE entry(t) # NoEntry
    <3>1. entry(t) \in 1 .. Len(s.groups)
      BY <1>2, <1>5, <1>7, <2>2 DEF NoEntry
    <3>2. s.groups[entry(t)] = g
      BY <1>7, <2>2 DEF SameGroup
    <3> QED
      BY <3>1, <3>2
  <2> QED
    BY <2>1, <2>2
<1> HIDE DEF D
<1> QED
  BY <1>1, <1>7, <1>8, <1>9, <1>10

\* To put a row of a group into a store: `to` has the rows of `from`, with the bag in it.
Puts(from, to, g, bag) ==
    \/ \E r \in 1 .. Len(from.groups) :
        /\ from.groups[r] = g
        /\ to.groups = from.groups /\ to.aggs = [from.aggs EXCEPT ![r] = @ (+) bag]
    \/ /\ \A x \in 1 .. Len(from.groups) : from.groups[x] # g
       /\ to.groups = Append(from.groups, g)
       /\ \E b \in {bag, EmptyBag (+) bag} : to.aggs = Append(from.aggs, b)

\* CombineRow puts a local row into the shared partition, which stays right.
LEMMA AbsorbIs ==
    ASSUME NEW s, Plain(s), InTable(s), NEW g \in DOMAIN Hash, NEW bag \in Bag,
           MayAbsorb(s, g)
    PROVE  /\ Plain(Absorb(s, g, bag)) /\ InTable(Absorb(s, g, bag))
           /\ Puts(s, Absorb(s, g, bag), g, bag)
           /\ Len(Absorb(s, g, bag).groups) <= Absorb(s, g, bag).room
<1>1. PICK grown : grown = Grow(s, 1)
  OBVIOUS
<1>2. /\ Plain(grown) /\ InTable(grown) /\ grown.groups = s.groups /\ grown.aggs = s.aggs
      /\ grown.room >= Len(s.groups) + 1
  BY <1>1, GrowIs DEF MayAbsorb
<1>2a. PICK slot : slot = Lookup(grown, g)
  OBVIOUS
<1>3. PICK t \in 0 .. SlotCount(grown) - 1 :
              /\ slot = Lookup(grown, g) /\ slot = SlotAt(SlotCount(grown), g, t)
              /\ Passed(grown, g, t)
              /\ \/ grown.slots[slot] = NoEntry
                 \/ /\ grown.slots[slot] \in 1 .. Len(grown.groups)
                    /\ grown.groups[grown.slots[slot]] = g
  BY <1>1, <1>2, <1>2a, EndsIs DEF MayAbsorb
<1>4. CASE grown.slots[slot] # NoEntry
  <2>1. PICK r \in 1 .. Len(s.groups) : r = grown.slots[slot] /\ s.groups[r] = g
    BY <1>2, <1>3, <1>4
  <2>2. PICK aggs : aggs = [s.aggs EXCEPT ![r] = @ (+) bag]
    OBVIOUS
  <2>3. aggs \in Seq(Bag) /\ Len(aggs) = Len(s.groups)
    <3>1. s.aggs[r] (+) bag \in Bag
      BY StoreFacts, BagSum
    <3> QED
      BY <2>2, <3>1, StoreFacts, ExceptSeq
  <2>4. PICK to : to = [grown EXCEPT !.aggs = aggs]
    OBVIOUS
  <2>5. /\ Plain(to) /\ InTable(to) /\ to.groups = s.groups /\ to.aggs = aggs
        /\ to.room = grown.room
    BY <1>2, <2>3, <2>4, WithAggregates
  <2>6. Absorb(s, g, bag) = Resize(to)
    <3>1. to = [grown EXCEPT !.aggs[r] = @ (+) bag]
      BY <1>2, <2>2, <2>4
    <3> QED
      BY <1>1, <1>3, <1>4, <2>1, <3>1 DEF Absorb
  <2>7. Puts(s, Absorb(s, g, bag), g, bag)
    BY <2>1, <2>2, <2>5, <2>6, ResizeIs DEF Puts
  <2>8. Len(to.groups) <= to.room
    <3>1. grown.room \in Nat /\ Len(s.groups) \in Nat
      BY <1>2, StoreFacts
    <3> QED
      BY <1>2, <2>5, <3>1
  <2> QED
    BY <2>5, <2>6, <2>7, <2>8, ResizeIs
<1>5. CASE grown.slots[slot] = NoEntry
  <2>1. PICK a : a = AddRow(grown, g, slot) /\ Len(s.groups) \in Nat
    BY StoreFacts
  <2> DEFINE L == Len(s.groups)
  <2>2. /\ Plain(a) /\ InTable(a)
        /\ a.groups = Append(s.groups, g) /\ a.aggs = Append(s.aggs, EmptyBag)
        /\ a.slots[slot] = L + 1 /\ a.room = grown.room
        /\ \A x \in 1 .. L : s.groups[x] # g
    <3>1. /\ Plain(grown) /\ InTable(grown) /\ slot = SlotAt(SlotCount(grown), g, t)
          /\ grown.slots[slot] = NoEntry /\ Passed(grown, g, t)
      BY <1>2, <1>3, <1>5
    <3>2. /\ Plain(a) /\ InTable(a) /\ a.groups = Append(grown.groups, g)
          /\ a.aggs = Append(grown.aggs, EmptyBag) /\ a.room = grown.room
      BY <2>1, <3>1, AddRowIs
    <3>3. a.slots[slot] = Len(grown.groups) + 1
      BY <2>1, <3>1, AddRowIs
    <3>4. \A x \in 1 .. Len(grown.groups) : grown.groups[x] # g
      BY <2>1, <3>1, AddRowIs
    <3> QED
      BY <1>2, <3>2, <3>3, <3>4
  <2>4. PICK b : b = EmptyBag (+) bag /\ b \in Bag
    BY EmptyBagIs, BagSum
  <2>5. PICK aggs : aggs = Append(s.aggs, b)
    OBVIOUS
  <2>6. Len(a.groups) = L + 1 /\ Len(s.aggs) = L /\ s.aggs \in Seq(Bag) /\ EmptyBag \in Bag
    BY <2>1, <2>2, EmptyBagIs, StoreFacts, AppendProperties
  <2>7. aggs \in Seq(Bag) /\ Len(aggs) = L + 1
    BY <2>4, <2>5, <2>6, AppendProperties
  <2>8. aggs = [a.aggs EXCEPT ![L + 1] = @ (+) bag]
    <3>1. Append(s.aggs, EmptyBag)[L + 1] = EmptyBag
      BY <2>6, AppendProperties
    <3>2. /\ a.aggs \in Seq(Bag) /\ Len(a.aggs) = L + 1 /\ a.aggs[L + 1] = EmptyBag
          /\ \A x \in 1 .. L : a.aggs[x] = s.aggs[x]
      BY <2>2, <2>6, <3>1, AppendProperties
    <3>3. aggs[L + 1] = b /\ \A x \in 1 .. L : aggs[x] = s.aggs[x]
      BY <2>4, <2>5, <2>6, AppendProperties
    <3>4. PICK more : more = [a.aggs EXCEPT ![L + 1] = @ (+) bag]
      OBVIOUS
    <3>5. DOMAIN a.aggs = 1 .. L + 1 /\ DOMAIN aggs = 1 .. L + 1
      BY <2>7, <3>2, LenProperties
    <3>6. more \in [1 .. L + 1 -> Bag]
      <4>1. a.aggs \in [1 .. L + 1 -> Bag]
        BY <3>2, LenProperties
      <4> QED
        BY <2>4, <3>2, <3>4, <4>1
    <3>7. \A x \in 1 .. L + 1 : aggs[x] = more[x]
      <4>1. \A x \in 1 .. L + 1 : x \in 1 .. L \/ x = L + 1
        OBVIOUS
      <4>2. more[L + 1] = b /\ \A x \in 1 .. L : more[x] = s.aggs[x]
        BY <2>4, <3>2, <3>4, <3>5
      <4> QED
        BY <3>3, <4>1, <4>2
    <3>8. aggs \in [1 .. L + 1 -> Bag]
      BY <2>7, LenProperties
    <3>9. aggs = more
      BY <3>6, <3>7, <3>8
    <3> QED
      BY <3>4, <3>9
  <2>9. PICK to : to = [a EXCEPT !.aggs = aggs]
    OBVIOUS
  <2>10. /\ Plain(to) /\ InTable(to) /\ to.groups = a.groups /\ to.aggs = aggs
         /\ to.room = a.room
    BY <2>2, <2>6, <2>7, <2>9, WithAggregates
  <2>11. Absorb(s, g, bag) = Resize(to)
    <3>1. to = [a EXCEPT !.aggs[a.slots[slot]] = @ (+) bag]
      BY <2>2, <2>8, <2>9
    <3> QED
      BY <1>1, <1>3, <1>5, <2>1, <3>1 DEF Absorb
  <2>12. Puts(s, Absorb(s, g, bag), g, bag)
    BY <2>1, <2>2, <2>4, <2>5, <2>10, <2>11, ResizeIs DEF Puts
  <2>13. Len(to.groups) <= to.room
    BY <1>2, <2>2, <2>6, <2>10
  <2> QED
    BY <2>10, <2>11, <2>12, <2>13, ResizeIs
<1> QED
  BY <1>4, <1>5

------------------------------------------------------------------------------
(* The lanes of a vector, one after the other. *)

\* A store with more rows at its end.
Extended(s, t) ==
    /\ Plain(t) /\ InTable(t) /\ SlotCount(t) = SlotCount(s) /\ t.room = s.room
    /\ Len(s.groups) <= Len(t.groups)
    /\ \A x \in 1 .. Len(s.groups) : t.groups[x] = s.groups[x] /\ t.aggs[x] = s.aggs[x]
    /\ \A x \in Len(s.groups) + 1 .. Len(t.groups) : t.aggs[x] = EmptyBag
    /\ \A z \in 0 .. SlotCount(s) - 1 : s.slots[z] # NoEntry => t.slots[z] = s.slots[z]

\* A store extends itself.
LEMMA ExtendedByNone ==
    ASSUME NEW s, Plain(s), InTable(s)
    PROVE  Extended(s, s)
BY StoreFacts DEF Extended

\* A store with one more row extends it, and what it extended.
LEMMA ExtendedByOne ==
    ASSUME NEW s, Plain(s), InTable(s), NEW q, Extended(s, q), NEW g \in DOMAIN Hash,
           NEW t \in 0 .. SlotCount(q) - 1, NEW slot, slot = SlotAt(SlotCount(q), g, t),
           q.slots[slot] = NoEntry, Passed(q, g, t), NEW a, a = AddRow(q, g, slot)
    PROVE  /\ Extended(s, a) /\ Extended(q, a)
           /\ Len(a.groups) = Len(q.groups) + 1 /\ a.groups[Len(q.groups) + 1] = g
<1>1. Plain(q) /\ InTable(q) /\ SlotCount(q) = SlotCount(s) /\ q.room = s.room
  BY DEF Extended
<1>2. /\ Plain(a) /\ InTable(a) /\ a.groups = Append(q.groups, g)
      /\ a.aggs = Append(q.aggs, EmptyBag) /\ a.room = q.room /\ SlotCount(a) = SlotCount(q)
  BY <1>1, AddRowIs
<1>3. \A z \in 0 .. SlotCount(q) - 1 : z # slot => a.slots[z] = q.slots[z]
  BY <1>1, AddRowIs
<1>4. PICK L \in Nat, M \in Nat : L = Len(s.groups) /\ M = Len(q.groups) /\ L <= M
  BY <1>1, StoreFacts DEF Extended
<1>5. /\ Len(a.groups) = M + 1 /\ a.groups[M + 1] = g /\ a.aggs[M + 1] = EmptyBag
      /\ \A x \in 1 .. M : a.groups[x] = q.groups[x] /\ a.aggs[x] = q.aggs[x]
  <2>1. q.groups \in Seq(DOMAIN Hash) /\ q.aggs \in Seq(Bag) /\ Len(q.aggs) = M
    BY <1>1, <1>4, StoreFacts
  <2>2. /\ Len(a.groups) = M + 1 /\ a.groups[M + 1] = g
        /\ \A x \in 1 .. M : a.groups[x] = q.groups[x]
    BY <1>2, <1>4, <2>1, AppendProperties
  <2>3. a.aggs[M + 1] = EmptyBag /\ \A x \in 1 .. M : a.aggs[x] = q.aggs[x]
    BY <1>2, <2>1, EmptyBagIs, AppendProperties
  <2> QED
    BY <2>2, <2>3
<1>6. Extended(q, a)
  <2>1. \A x \in M + 1 .. Len(a.groups) : a.aggs[x] = EmptyBag
    BY <1>4, <1>5
  <2>2. M <= Len(a.groups)
    BY <1>4, <1>5
  <2> QED
    BY <1>2, <1>3, <1>4, <1>5, <2>1, <2>2 DEF Extended
<1>7. Extended(s, a)
  <2>1. \A x \in 1 .. L : a.groups[x] = s.groups[x] /\ a.aggs[x] = s.aggs[x]
    <3>1. SUFFICES ASSUME NEW x \in 1 .. L
                   PROVE  a.groups[x] = s.groups[x] /\ a.aggs[x] = s.aggs[x]
      OBVIOUS
    <3>2. x \in 1 .. M
      BY <1>4
    <3> QED
      BY <1>4, <1>5, <3>2 DEF Extended
  <2>2. \A x \in L + 1 .. M + 1 : a.aggs[x] = EmptyBag
    <3>1. SUFFICES ASSUME NEW x \in L + 1 .. M + 1 PROVE a.aggs[x] = EmptyBag
      OBVIOUS
    <3>2. x = M + 1 \/ (x \in 1 .. M /\ x \in L + 1 .. M)
      BY <1>4
    <3> QED
      BY <1>4, <1>5, <3>2 DEF Extended
  <2>3. \A z \in 0 .. SlotCount(s) - 1 : s.slots[z] # NoEntry => a.slots[z] = s.slots[z]
    BY <1>1, <1>3 DEF Extended
  <2>4. L <= M + 1
    BY <1>4
  <2> QED
    BY <1>1, <1>2, <1>4, <1>5, <2>1, <2>2, <2>3, <2>4 DEF Extended
<1> QED
  BY <1>4, <1>5, <1>6, <1>7

\* What a row has passed stays passed when a table gets more rows.
LEMMA PassedStays ==
    ASSUME NEW s, Plain(s), NEW q, Extended(s, q), NEW g \in DOMAIN Hash,
           NEW t \in Nat, Passed(s, g, t)
    PROVE  Passed(q, g, t)
<1>1. SUFFICES ASSUME NEW u \in 0 .. t - 1
               PROVE  LET x == q.slots[SlotAt(SlotCount(q), g, u)]
                      IN  x \in 1 .. Len(q.groups) /\ q.groups[x] # g
  BY DEF Passed
<1>2. PICK slot : slot = SlotAt(SlotCount(s), g, u) /\ slot \in 0 .. SlotCount(s) - 1
  BY SlotTypeIn
<1>3. PICK x \in 1 .. Len(s.groups) : x = s.slots[slot] /\ s.groups[x] # g
  BY <1>2 DEF Passed
<1>4. q.slots[slot] = x
  BY <1>2, <1>3 DEF Extended, NoEntry
<1>5. Len(s.groups) \in Nat /\ Len(q.groups) \in Nat /\ Len(s.groups) <= Len(q.groups)
  BY StoreFacts DEF Extended
<1>6. x \in 1 .. Len(q.groups) /\ q.groups[x] # g
  BY <1>3, <1>5 DEF Extended
<1> QED
  BY <1>2, <1>4, <1>6 DEF Extended

\* A sequence of rows with one more.
Adds(s, x, t) == t \in Seq(Nat) /\ Len(t) = Len(s) + 1 /\ Range(t) = Range(s) \cup {x}

\* Append adds its element, once.
LEMMA AppendAdds ==
    ASSUME NEW s \in Seq(Nat), NEW x \in Nat
    PROVE  Adds(s, x, Append(s, x))
<1>1. PICK t : t = Append(s, x)
  OBVIOUS
<1>2. /\ t \in Seq(Nat) /\ Len(t) = Len(s) + 1
      /\ \A k \in 1 .. Len(s) : t[k] = s[k]
      /\ t[Len(s) + 1] = x
  BY <1>1, AppendProperties
<1>3. PICK L \in Nat : L = Len(s) /\ DOMAIN s = 1 .. L /\ DOMAIN t = 1 .. L + 1
  BY <1>2, LenProperties
<1>4. \A k \in 1 .. L + 1 : k \in 1 .. L \/ k = L + 1
  OBVIOUS
<1>5. \A k \in 1 .. L : k \in 1 .. L + 1 /\ t[k] = s[k]
  BY <1>2, <1>3
<1>6. L + 1 \in 1 .. L + 1 /\ t[L + 1] = x
  BY <1>2, <1>3
<1>7. {t[k] : k \in 1 .. L + 1} = {s[k] : k \in 1 .. L} \cup {x}
  BY <1>4, <1>5, <1>6
<1>8. Range(t) = Range(s) \cup {x}
  BY <1>3, <1>7 DEF Range
<1>9. Adds(s, x, t)
  BY <1>2, <1>8 DEF Adds
<1> QED
  BY <1>1, <1>9

\* The states between the lanes of a vector.
LaneStates == [store : StoreType, found : UNION {[D -> Nat] : D \in SUBSET Nat},
               missed : Seq(Nat), unequal : Seq(Nat)]

\* What a lane does to the state.
LaneTo(q, found, missed, unequal, g, slot, i, q2, found2, missed2, unequal2) ==
    LET row == q.slots[slot]
    IN  \/ /\ row = NoEntry /\ q2 = AddRow(q, g, slot)
           /\ found2 = WithAnswer(found, i, Len(q.groups) + 1)
           /\ missed2 = missed /\ unequal2 = unequal
        \/ /\ row # NoEntry /\ q.groups[row] = g /\ q2 = q
           /\ found2 = WithAnswer(found, i, row)
           /\ missed2 = missed /\ unequal2 = unequal
        \/ /\ row # NoEntry /\ q.groups[row] # g /\ q2 = q /\ found2 = found
           /\ \/ missed2 = Append(missed, i) /\ unequal2 = unequal
              \/ missed2 = missed /\ unequal2 = Append(unequal, i)

\* ProbeLane does one of four things.
LEMMA LaneIs ==
    ASSUME NEW q, NEW found, NEW missed, NEW unequal, NEW st,
           st = [store |-> q, found |-> found, missed |-> missed, unequal |-> unequal],
           NEW read, NEW g, NEW t, NEW i, NEW slot, slot = SlotAt(SlotCount(q), g, t)
    PROVE  \E q2, found2, missed2, unequal2 :
              /\ ProbeLane(st, read, g, t, i) = [store |-> q2, found |-> found2,
                                                 missed |-> missed2, unequal |-> unequal2]
              /\ LaneTo(q, found, missed, unequal, g, slot, i, q2, found2, missed2, unequal2)
<1>1. /\ st.store = q /\ st.found = found /\ st.missed = missed /\ st.unequal = unequal
  OBVIOUS
<1>2. PICK row : row = q.slots[slot]
  OBVIOUS
<1>3. CASE row = NoEntry
  <2>1. PICK a, f : a = AddRow(q, g, slot) /\ f = WithAnswer(found, i, Len(q.groups) + 1)
    OBVIOUS
  <2>2. ProbeLane(st, read, g, t, i) = [st EXCEPT !.store = a, !.found = f]
    BY <1>1, <1>2, <1>3, <2>1 DEF ProbeLane, Free, IsFree
  <2>3. ProbeLane(st, read, g, t, i) =
            [store |-> a, found |-> f, missed |-> missed, unequal |-> unequal]
    BY <2>2
  <2>4. LaneTo(q, found, missed, unequal, g, slot, i, a, f, missed, unequal)
    BY <1>2, <1>3, <2>1 DEF LaneTo
  <2> QED
    BY <2>3, <2>4
<1>4. CASE row # NoEntry /\ SameGroup(q.groups, row, g)
  <2>1. PICK f : f = WithAnswer(found, i, row)
    OBVIOUS
  <2>2. ProbeLane(st, read, g, t, i) = [st EXCEPT !.found = f]
    BY <1>1, <1>2, <1>4, <2>1 DEF ProbeLane, Free, IsFree
  <2>3. ProbeLane(st, read, g, t, i) =
            [store |-> q, found |-> f, missed |-> missed, unequal |-> unequal]
    BY <2>2
  <2>4. LaneTo(q, found, missed, unequal, g, slot, i, q, f, missed, unequal)
    BY <1>2, <1>4, <2>1 DEF LaneTo, SameGroup
  <2> QED
    BY <2>3, <2>4
<1>5. CASE /\ row # NoEntry /\ ~SameGroup(q.groups, row, g)
           /\ Hash[q.groups[row]].salt = Hash[g].salt
  <2>1. PICK m : m = Append(unequal, i)
    OBVIOUS
  <2>2. ProbeLane(st, read, g, t, i) = [st EXCEPT !.unequal = m]
    BY <1>1, <1>2, <1>5, <2>1 DEF ProbeLane, Free, IsFree
  <2>3. ProbeLane(st, read, g, t, i) =
            [store |-> q, found |-> found, missed |-> missed, unequal |-> m]
    BY <2>2
  <2>4. LaneTo(q, found, missed, unequal, g, slot, i, q, found, missed, m)
    BY <1>2, <1>5, <2>1 DEF LaneTo, SameGroup
  <2> QED
    BY <2>3, <2>4
<1>6. CASE /\ row # NoEntry /\ ~SameGroup(q.groups, row, g)
           /\ Hash[q.groups[row]].salt # Hash[g].salt
  <2>1. PICK m : m = Append(missed, i)
    OBVIOUS
  <2>2. ProbeLane(st, read, g, t, i) = [st EXCEPT !.missed = m]
    BY <1>1, <1>2, <1>6, <2>1 DEF ProbeLane, Free, IsFree
  <2>3. ProbeLane(st, read, g, t, i) =
            [store |-> q, found |-> found, missed |-> m, unequal |-> unequal]
    BY <2>2
  <2>4. LaneTo(q, found, missed, unequal, g, slot, i, q, found, m, unequal)
    BY <1>2, <1>6, <2>1 DEF LaneTo, SameGroup
  <2> QED
    BY <2>3, <2>4
<1> QED
  BY <1>3, <1>4, <1>5, <1>6

\* The first k lanes of the vector have been handled.
LanesDone(s, vector, groups, at, k, st) ==
    /\ st \in LaneStates
    /\ Extended(s, st.store)
    /\ \A x \in Len(s.groups) + 1 .. Len(st.store.groups) :
          \E j \in 1 .. k : st.store.groups[x] = groups[vector[j]]
    /\ \A j \in 1 .. k :
          vector[j] \in DOMAIN st.found \cup Range(st.missed) \cup Range(st.unequal)
    /\ \A i \in DOMAIN st.found :
          /\ \E j \in 1 .. k : i = vector[j]
          /\ st.found[i] \in 1 .. Len(st.store.groups)
          /\ st.store.groups[st.found[i]] = groups[i]
    /\ \A i \in Range(st.missed) \cup Range(st.unequal) :
          /\ \E j \in 1 .. k : i = vector[j]
          /\ Passed(st.store, groups[i], at[i] + 1)
    /\ Len(st.store.groups) + Len(st.missed) + Len(st.unequal) <= Len(s.groups) + k

\* The rows of a vector, which have all passed the tries before theirs.
VectorAt(s, vector, groups, at) ==
    /\ vector \in Seq(Nat)
    /\ \A j \in 1 .. Len(vector) :
          /\ groups[vector[j]] \in DOMAIN Hash
          /\ at[vector[j]] \in 0 .. SlotCount(s) - 1
          /\ Passed(s, groups[vector[j]], at[vector[j]])

\* A number of a range extended by one is its last or was in the range.
LEMMA LastOrBefore ==
    ASSUME NEW L \in Nat, NEW M \in Nat, L <= M, NEW x \in L + 1 .. M + 1
    PROVE  x = M + 1 \/ (x \in L + 1 .. M /\ x \in 1 .. M)
OBVIOUS

\* One lane keeps what holds of the lanes before it.
LEMMA LaneStep ==
    ASSUME NEW s, Plain(s), InTable(s), NEW vector, NEW groups, NEW at,
           VectorAt(s, vector, groups, at), NEW k \in 0 .. Len(vector) - 1, NEW read,
           NEW st, LanesDone(s, vector, groups, at, k, st), NEW i, i = vector[k + 1],
           NEW next, next = ProbeLane(st, read, groups[i], at[i], i)
    PROVE  LanesDone(s, vector, groups, at, k + 1, next)
<1>1. PICK K \in Nat : K = Len(vector) /\ k \in Nat /\ k + 1 \in 1 .. K
  BY LenProperties, SMTT(30) DEF VectorAt
<1>2. PICK q \in StoreType, D \in SUBSET Nat, found \in UNION {[E -> Nat] : E \in SUBSET Nat},
           missed \in Seq(Nat), unequal \in Seq(Nat) :
          /\ found \in [D -> Nat]
          /\ st = [store |-> q, found |-> found, missed |-> missed, unequal |-> unequal]
  BY DEF LanesDone, LaneStates
<1>3. /\ st.store = q /\ st.found = found /\ st.missed = missed /\ st.unequal = unequal
  BY <1>2
<1>4. Extended(s, q) /\ Plain(q) /\ InTable(q) /\ SlotCount(q) = SlotCount(s)
  BY <1>3 DEF LanesDone, Extended
<1>5. PICK n \in Powers, g \in DOMAIN Hash, t \in Nat, slot \in Nat :
          /\ t \in 0 .. n - 1 /\ slot \in 0 .. n - 1
          /\ n = SlotCount(q) /\ n \in Nat \ {0} /\ g = groups[i] /\ t = at[i]
          /\ slot = SlotAt(n, g, t) /\ Passed(s, g, t) /\ i \in Nat
  <2>1. PICK n \in Powers : n = SlotCount(q) /\ n \in Nat \ {0}
    BY <1>4, StoreFacts
  <2>2. PICK g \in DOMAIN Hash, t \in 0 .. n - 1 : g = groups[i] /\ t = at[i] /\ Passed(s, g, t)
    BY <1>1, <1>4, <2>1 DEF VectorAt
  <2>3. t \in Nat /\ i \in Nat
    BY <1>1, <2>1, ElementOfSeq DEF VectorAt
  <2>4. PICK slot \in 0 .. n - 1 : slot = SlotAt(n, g, t)
    BY <2>1, <2>3, SlotType
  <2> QED
    BY <2>1, <2>2, <2>3, <2>4
<1>6. Passed(q, g, t)
  BY <1>4, <1>5, PassedStays
<1>7. PICK q2, found2, missed2, unequal2 :
          /\ next = [store |-> q2, found |-> found2, missed |-> missed2, unequal |-> unequal2]
          /\ LaneTo(q, found, missed, unequal, g, slot, i, q2, found2, missed2, unequal2)
  BY <1>2, <1>5, LaneIs
<1>8. /\ next.store = q2 /\ next.found = found2 /\ next.missed = missed2
      /\ next.unequal = unequal2
  BY <1>7
<1>9. PICK L \in Nat, M \in Nat : L = Len(s.groups) /\ M = Len(q.groups) /\ L <= M
  BY <1>4, StoreFacts DEF Extended
<1>10. PICK row \in 0 .. M : row = q.slots[slot]
  <2>1. q.slots \in [0 .. n - 1 -> 0 .. M]
    BY <1>4, <1>5, <1>9 DEF InTable, Table
  <2> QED
    BY <1>5, <2>1
\* The conclusion, in parts.
<1> DEFINE Typed == q2 \in StoreType /\ missed2 \in Seq(Nat) /\ unequal2 \in Seq(Nat)
                    /\ \E F \in SUBSET Nat : found2 \in [F -> Nat]
           OfVector(x) == \E j \in 1 .. k + 1 : x = vector[j]
           New == \A x \in L + 1 .. Len(q2.groups) :
                      \E j \in 1 .. k + 1 : q2.groups[x] = groups[vector[j]]
           Answered == DOMAIN found \cup Range(missed) \cup Range(unequal) \cup {i}
                           = DOMAIN found2 \cup Range(missed2) \cup Range(unequal2)
           Right == \A x \in DOMAIN found2 :
                       /\ OfVector(x) /\ found2[x] \in 1 .. Len(q2.groups)
                       /\ q2.groups[found2[x]] = groups[x]
           Further == \A x \in Range(missed2) \cup Range(unequal2) :
                       OfVector(x) /\ Passed(q2, groups[x], at[x] + 1)
           Fits == Len(q2.groups) + Len(missed2) + Len(unequal2) <= L + (k + 1)
<1>11. SUFFICES Typed /\ Extended(s, q2) /\ New /\ Answered /\ Right /\ Further /\ Fits
  <2>1. next \in LaneStates
    BY <1>7, <1>11 DEF LaneStates
  <2>2. \A j \in 1 .. k + 1 :
            vector[j] \in DOMAIN found2 \cup Range(missed2) \cup Range(unequal2)
    <3>1. \A j \in 1 .. k + 1 : j \in 1 .. k \/ j = k + 1
      BY <1>1
    <3>2. \A j \in 1 .. k : vector[j] \in DOMAIN found \cup Range(missed) \cup Range(unequal)
      BY <1>3 DEF LanesDone
    <3> QED
      BY <1>11, <3>1, <3>2
  <2>3. /\ Extended(s, next.store)
        /\ \A x \in Len(s.groups) + 1 .. Len(next.store.groups) :
              \E j \in 1 .. k + 1 : next.store.groups[x] = groups[vector[j]]
        /\ Len(next.store.groups) + Len(next.missed) + Len(next.unequal) <= Len(s.groups) + (k + 1)
    <3>1. Extended(s, next.store)
      BY <1>8, <1>11
    <3>2. New /\ Fits
      BY <1>11
    <3>3. Len(q2.groups) + Len(missed2) + Len(unequal2) <= Len(s.groups) + (k + 1)
      BY <1>9, <3>2
    <3>4. \A x \in Len(s.groups) + 1 .. Len(q2.groups) :
              \E j \in 1 .. k + 1 : q2.groups[x] = groups[vector[j]]
      BY <1>9, <3>2
    <3> QED
      BY <1>8, <3>1, <3>3, <3>4
  <2>4. /\ \A x \in DOMAIN next.found :
              /\ \E j \in 1 .. k + 1 : x = vector[j]
              /\ next.found[x] \in 1 .. Len(next.store.groups)
              /\ next.store.groups[next.found[x]] = groups[x]
        /\ \A x \in Range(next.missed) \cup Range(next.unequal) :
              /\ \E j \in 1 .. k + 1 : x = vector[j]
              /\ Passed(next.store, groups[x], at[x] + 1)
    <3>1. Right /\ Further
      BY <1>11
    <3>2. ASSUME NEW x \in DOMAIN next.found
          PROVE  /\ \E j \in 1 .. k + 1 : x = vector[j]
                 /\ next.found[x] \in 1 .. Len(next.store.groups)
                 /\ next.store.groups[next.found[x]] = groups[x]
      <4>1. x \in DOMAIN found2
        BY <1>8, <3>2
      <4>2. OfVector(x) /\ found2[x] \in 1 .. Len(q2.groups) /\ q2.groups[found2[x]] = groups[x]
        BY <3>1, <4>1
      <4> QED
        BY <1>8, <4>2
    <3>3. ASSUME NEW x \in Range(next.missed) \cup Range(next.unequal)
          PROVE  /\ \E j \in 1 .. k + 1 : x = vector[j]
                 /\ Passed(next.store, groups[x], at[x] + 1)
      <4>1. x \in Range(missed2) \cup Range(unequal2)
        BY <1>8, <3>3
      <4>2. OfVector(x) /\ Passed(q2, groups[x], at[x] + 1)
        BY <3>1, <4>1
      <4> QED
        BY <1>8, <4>2
    <3> QED
      BY <3>2, <3>3
  <2>5. \A j \in 1 .. k + 1 :
            vector[j] \in DOMAIN next.found \cup Range(next.missed) \cup Range(next.unequal)
    BY <1>8, <2>2
  <2> QED
    BY <2>1, <2>3, <2>4, <2>5 DEF LanesDone
<1>12. /\ \A x \in L + 1 .. M : \E j \in 1 .. k : q.groups[x] = groups[vector[j]]
       /\ \A x \in DOMAIN found : /\ \E j \in 1 .. k : x = vector[j]
                                  /\ found[x] \in 1 .. M /\ q.groups[found[x]] = groups[x]
       /\ \A x \in Range(missed) \cup Range(unequal) :
             (\E j \in 1 .. k : x = vector[j]) /\ Passed(q, groups[x], at[x] + 1)
       /\ M + Len(missed) + Len(unequal) <= L + k
  BY <1>3, <1>9 DEF LanesDone
<1>13. k + 1 \in 1 .. k + 1 /\ \A j \in 1 .. k : j \in 1 .. k + 1
  BY <1>1
<1>14. \A x : (\E j \in 1 .. k : x = vector[j]) => OfVector(x)
  BY <1>13
<1>15. OfVector(i)
  BY <1>13
<1>16. PICK a \in Nat, b \in Nat : a = Len(missed) /\ b = Len(unequal)
  BY LenProperties
<1>17. CASE row = NoEntry
  <2>1. /\ q2 = AddRow(q, g, slot) /\ found2 = WithAnswer(found, i, M + 1)
        /\ missed2 = missed /\ unequal2 = unequal
    BY <1>7, <1>9, <1>17, <1>10 DEF LaneTo
  <2>2. q.slots[slot] = NoEntry
    BY <1>17, <1>10
  <2>3. /\ Extended(s, q2) /\ Extended(q, q2)
        /\ Len(q2.groups) = M + 1 /\ q2.groups[M + 1] = g
    <3>1. t \in 0 .. SlotCount(q) - 1 /\ slot = SlotAt(SlotCount(q), g, t)
      BY <1>5
    <3>2. /\ Extended(s, q2) /\ Extended(q, q2)
          /\ Len(q2.groups) = Len(q.groups) + 1 /\ q2.groups[Len(q.groups) + 1] = g
      BY <1>4, <1>6, <2>1, <2>2, <3>1, ExtendedByOne
    <3> QED
      BY <1>9, <3>2
  <2>4. \A x \in 1 .. M : q2.groups[x] = q.groups[x]
    BY <1>9, <2>3 DEF Extended
  <2>5. /\ DOMAIN found2 = DOMAIN found \cup {i} /\ found2[i] = M + 1
        /\ \A x \in DOMAIN found : x # i => found2[x] = found[x]
    BY <2>1 DEF WithAnswer
  <2>6. Typed
    <3>1. q2 \in StoreType
      BY <2>3 DEF Extended, Plain
    <3>2. found2 \in [D \cup {i} -> Nat]
      <4>1. M + 1 \in Nat
        OBVIOUS
      <4> QED
        BY <1>2, <2>1, <4>1 DEF WithAnswer
    <3> QED
      BY <1>5, <2>1, <3>1, <3>2
  <2>7. New
    <3>1. SUFFICES ASSUME NEW x \in L + 1 .. M + 1
                   PROVE  \E j \in 1 .. k + 1 : q2.groups[x] = groups[vector[j]]
      BY <2>3
    <3>2. CASE x = M + 1
      BY <1>5, <1>13, <2>3, <3>2
    <3>3. CASE x # M + 1
      <4>1. x \in L + 1 .. M /\ x \in 1 .. M
        BY <1>9, <3>3, LastOrBefore
      <4> QED
        BY <1>12, <1>13, <2>4, <4>1, SMTT(30)
    <3> QED
      BY <3>2, <3>3
  <2>8. Answered
    BY <2>1, <2>5
  <2>9. Right
    <3>1. SUFFICES ASSUME NEW x \in DOMAIN found2
                   PROVE  /\ OfVector(x) /\ found2[x] \in 1 .. M + 1
                          /\ q2.groups[found2[x]] = groups[x]
      BY <2>3
    <3>2. CASE x = i
      <4>1. M + 1 \in 1 .. M + 1
        BY <1>9
      <4> QED
        BY <1>5, <1>15, <2>3, <2>5, <3>2, <4>1
    <3>3. CASE x # i
      <4>1. x \in DOMAIN found /\ found2[x] = found[x]
        BY <2>5, <3>3
      <4>2. found[x] \in 1 .. M /\ q.groups[found[x]] = groups[x] /\ OfVector(x)
        BY <1>12, <1>14, <4>1
      <4>3. found[x] \in 1 .. M + 1
        BY <1>9, <4>2
      <4> QED
        BY <2>4, <4>1, <4>2, <4>3
    <3> QED
      BY <3>2, <3>3
  <2>10. Further
    <3>1. SUFFICES ASSUME NEW x \in Range(missed) \cup Range(unequal)
                   PROVE  OfVector(x) /\ Passed(q2, groups[x], at[x] + 1)
      BY <2>1
    <3>2. PICK j \in 1 .. k : x = vector[j] /\ Passed(q, groups[x], at[x] + 1)
      BY <1>12
    <3>3. j \in 1 .. K
      BY <1>1
    <3>4. PICK h \in DOMAIN Hash, v \in Nat : h = groups[x] /\ v = at[x] + 1
      BY <1>1, <1>4, <1>5, <3>2, <3>3, SMTT(30) DEF VectorAt
    <3>5. Passed(q2, h, v)
      BY <1>4, <2>3, <3>2, <3>4, PassedStays
    <3> QED
      BY <1>14, <3>2, <3>4, <3>5
  <2>11. Fits
    <3>1. M + a + b <= L + k
      BY <1>12, <1>16
    <3>2. M + 1 + a + b <= L + (k + 1)
      BY <1>1, <3>1
    <3> QED
      BY <1>16, <2>1, <2>3, <3>2
  <2> QED
    BY <2>3, <2>6, <2>7, <2>8, <2>9, <2>10, <2>11
<1>18. CASE row # NoEntry /\ q.groups[row] = g
  <2>1. /\ q2 = q /\ found2 = WithAnswer(found, i, row) /\ missed2 = missed /\ unequal2 = unequal
    BY <1>7, <1>18, <1>10 DEF LaneTo
  <2>2. row \in 1 .. M
    BY <1>9, <1>18 DEF NoEntry
  <2>3. /\ DOMAIN found2 = DOMAIN found \cup {i} /\ found2[i] = row
        /\ \A x \in DOMAIN found : x # i => found2[x] = found[x]
    BY <2>1 DEF WithAnswer
  <2>4. Typed
    <3>1. row \in Nat
      BY <2>2
    <3>2. found2 \in [D \cup {i} -> Nat]
      BY <1>2, <2>1, <3>1 DEF WithAnswer
    <3> QED
      BY <1>5, <2>1, <3>2
  <2>5. New
    BY <1>9, <1>12, <1>13, <2>1, SMTT(30)
  <2>6. Answered
    BY <2>1, <2>3
  <2>7. Right
    <3>1. SUFFICES ASSUME NEW x \in DOMAIN found2
                   PROVE  /\ OfVector(x) /\ found2[x] \in 1 .. M
                          /\ q.groups[found2[x]] = groups[x]
      BY <1>9, <2>1
    <3>2. CASE x = i
      BY <1>5, <1>15, <1>18, <2>2, <2>3, <3>2
    <3>3. CASE x # i
      BY <1>12, <1>14, <2>3, <3>3
    <3> QED
      BY <3>2, <3>3
  <2>8. Further
    BY <1>12, <1>14, <2>1
  <2>9. Fits
    <3>1. M + a + b <= L + k
      BY <1>12, <1>16
    <3>2. M + a + b <= L + (k + 1)
      BY <1>1, <3>1
    <3> QED
      BY <1>9, <1>16, <2>1, <3>2
  <2> QED
    BY <1>4, <2>1, <2>4, <2>5, <2>6, <2>7, <2>8, <2>9
<1>19. CASE row # NoEntry /\ q.groups[row] # g
  <2>1. /\ q2 = q /\ found2 = found
        /\ \/ missed2 = Append(missed, i) /\ unequal2 = unequal
           \/ missed2 = missed /\ unequal2 = Append(unequal, i)
    BY <1>7, <1>19, <1>10 DEF LaneTo
  <2>2. row \in 1 .. M
    BY <1>9, <1>19 DEF NoEntry
  <2>3. /\ missed2 \in Seq(Nat) /\ unequal2 \in Seq(Nat)
        /\ Len(missed2) + Len(unequal2) = Len(missed) + Len(unequal) + 1
        /\ Range(missed2) \cup Range(unequal2) = Range(missed) \cup Range(unequal) \cup {i}
    <3>1. CASE missed2 = Append(missed, i) /\ unequal2 = unequal
      <4>1. /\ missed2 \in Seq(Nat) /\ Len(missed2) = Len(missed) + 1
            /\ Range(missed2) = Range(missed) \cup {i}
        <5>1. Adds(missed, i, Append(missed, i))
          BY <1>5, AppendAdds
        <5>2. Adds(missed, i, missed2)
          BY <3>1, <5>1
        <5> QED
          BY <5>2 DEF Adds
      <4> QED
        BY <1>16, <3>1, <4>1
    <3>2. CASE missed2 = missed /\ unequal2 = Append(unequal, i)
      <4>1. /\ unequal2 \in Seq(Nat) /\ Len(unequal2) = Len(unequal) + 1
            /\ Range(unequal2) = Range(unequal) \cup {i}
        <5>1. Adds(unequal, i, Append(unequal, i))
          BY <1>5, AppendAdds
        <5>2. Adds(unequal, i, unequal2)
          BY <3>2, <5>1
        <5> QED
          BY <5>2 DEF Adds
      <4> QED
        BY <1>16, <3>2, <4>1
    <3> QED
      BY <2>1, <3>1, <3>2
  <2>4. Passed(q, g, t + 1)
    <3>1. SUFFICES ASSUME NEW u \in 0 .. (t + 1) - 1
                   PROVE  LET x == q.slots[SlotAt(n, g, u)]
                          IN  x \in 1 .. Len(q.groups) /\ q.groups[x] # g
      BY <1>5 DEF Passed
    <3>2. CASE u = t
      BY <1>5, <1>9, <1>19, <1>10, <2>2, <3>2
    <3>3. CASE u # t
      <4>1. u \in 0 .. t - 1
        BY <1>5, <3>3, SMTT(30)
      <4> QED
        BY <1>5, <1>6, <4>1 DEF Passed
    <3> QED
      BY <3>2, <3>3
  <2>5. Typed
    BY <2>1, <2>3
  <2>6. New
    BY <1>9, <1>12, <1>13, <2>1
  <2>7. Answered
    BY <2>1, <2>3
  <2>8. Right
    BY <1>9, <1>12, <1>14, <2>1
  <2>9. Further
    BY <1>5, <1>12, <1>14, <1>15, <2>1, <2>3, <2>4
  <2>10. Fits
    <3>1. PICK c \in Nat, d \in Nat : c = Len(missed2) /\ d = Len(unequal2)
      BY <2>3, LenProperties
    <3>2. M + a + b <= L + k /\ c + d = a + b + 1
      BY <1>12, <1>16, <2>3, <3>1
    <3>3. M + c + d <= L + (k + 1)
      BY <1>1, <3>2
    <3> QED
      BY <1>9, <2>1, <3>1, <3>3
  <2> QED
    BY <1>4, <2>1, <2>5, <2>6, <2>7, <2>8, <2>9, <2>10
<1> QED
  BY <1>17, <1>18, <1>19

\* Before the first lane nothing is done.
LEMMA LaneStart ==
    ASSUME NEW s, Plain(s), InTable(s), NEW vector, NEW groups, NEW at
    PROVE  LanesDone(s, vector, groups, at, 0,
                     [store |-> s, found |-> <<>>, missed |-> <<>>, unequal |-> <<>>])
<1> DEFINE st == [store |-> s, found |-> <<>>, missed |-> <<>>, unequal |-> <<>>]
<1>1. <<>> \in Seq(Nat) /\ Len(<<>>) = 0 /\ DOMAIN <<>> = {} /\ <<>> \in [{} -> Nat]
  OBVIOUS
<1>2. st \in LaneStates
  <2>1. s \in StoreType
    BY DEF Plain
  <2>2. <<>> \in UNION {[D -> Nat] : D \in SUBSET Nat}
    BY <1>1
  <2> QED
    BY <1>1, <2>1, <2>2 DEF LaneStates
<1>3. Range(st.missed) = {} /\ Range(st.unequal) = {} /\ DOMAIN st.found = {}
  BY DEF Range
<1>4. Extended(s, st.store) /\ st.store = s
  BY ExtendedByNone
<1>5. Len(s.groups) \in Nat /\ Len(st.missed) = 0 /\ Len(st.unequal) = 0
  BY StoreFacts
<1> HIDE DEF st
<1>6. Len(st.store.groups) + Len(st.missed) + Len(st.unequal) <= Len(s.groups) + 0
  BY <1>4, <1>5
<1>7. \A x \in Len(s.groups) + 1 .. Len(st.store.groups) :
          \E j \in 1 .. 0 : st.store.groups[x] = groups[vector[j]]
  BY <1>4, <1>5
<1>8. LanesDone(s, vector, groups, at, 0, st)
  <2>1. \A j \in 1 .. 0 : FALSE
    OBVIOUS
  <2>2. Range(st.missed) \cup Range(st.unequal) = {}
    BY <1>3
  <2>3. \A x \in DOMAIN st.found : FALSE
    BY <1>3
  <2> QED
    BY <1>2, <1>4, <1>6, <1>7, <2>1, <2>2, <2>3, Zenon DEF LanesDone
<1> QED
  BY <1>8 DEF st

\* All lanes of a vector are done after it.
LEMMA ProbedIs ==
    ASSUME NEW s, Plain(s), InTable(s), NEW vector, NEW groups, NEW at,
           VectorAt(s, vector, groups, at)
    PROVE  LanesDone(s, vector, groups, at, Len(vector), Probed(s, vector, groups, at))
<1> DEFINE start == [store |-> s, found |-> <<>>, missed |-> <<>>, unequal |-> <<>>]
           Put(st, k) == ProbeLane(st, s.slots, groups[vector[k]], at[vector[k]], vector[k])
           K == Len(vector)
           Done(k, st) == LanesDone(s, vector, groups, at, k, st)
           step == [x \in Nat \X LaneStates |->
                       IF Put(x[2], x[1] + 1) \in LaneStates THEN Put(x[2], x[1] + 1) ELSE x[2]]
           after == CHOOSE f : f = [k \in 0 .. K |-> IF k = 0 THEN start ELSE Put(f[k - 1], k)]
<1>1. K \in Nat
  BY LenProperties DEF VectorAt
<1>2. Done(0, start)
  BY LaneStart
<1>3. ASSUME NEW k \in Nat, k + 1 <= K, NEW st, Done(k, st)
      PROVE  Done(k + 1, Put(st, k + 1)) /\ Put(st, k + 1) \in LaneStates
  <2>1. k \in 0 .. Len(vector) - 1
    BY <1>1, <1>3
  <2>2. Done(k + 1, Put(st, k + 1))
    BY <1>3, <2>1, LaneStep
  <2> QED
    BY <2>2 DEF LanesDone
<1>4. after = [k \in 0 .. K |-> IF k = 0 THEN start ELSE Put(after[k - 1], k)]
  <2>1. step \in [Nat \X LaneStates -> LaneStates]
    <3> HIDE DEF Put
    <3> QED
      OBVIOUS
  <2>2. start \in LaneStates
    BY <1>2 DEF LanesDone
  <2>3. PICK run \in [Nat -> LaneStates] : Iterates(run, start, step)
    <3> HIDE DEF start, step
    <3> QED
      BY <2>1, <2>2, Iteration
  <2> HIDE DEF start, Put, K, Done
  <2>4. run[0] = start /\ \A k \in Nat : run[k + 1] = step[<<k, run[k]>>]
    <3> HIDE DEF step
    <3> QED
      BY <2>3 DEF Iterates
  <2>5. ASSUME NEW k \in Nat
        PROVE  step[<<k, run[k]>>] =
                   IF Put(run[k], k + 1) \in LaneStates THEN Put(run[k], k + 1) ELSE run[k]
    <3>1. <<k, run[k]>> \in Nat \X LaneStates
      BY <2>3
    <3> QED
      BY <3>1
  <2> HIDE DEF step
  <2> DEFINE T == {k \in Nat : k <= K => Done(k, run[k])}
  <2>6. 0 \in T
    BY <1>2, <2>4
  <2>7. ASSUME NEW k \in Nat, k \in T, k + 1 <= K
        PROVE  Done(k + 1, run[k + 1]) /\ run[k + 1] = Put(run[k], k + 1)
    <3>1. Done(k, run[k])
      BY <1>1, <2>7
    <3>2. run[k + 1] = Put(run[k], k + 1)
      BY <1>3, <2>4, <2>5, <2>7, <3>1
    <3> QED
      BY <1>3, <2>7, <3>1, <3>2
  <2>8. \A k \in Nat : k \in T
    <3>1. \A k \in Nat : k \in T => k + 1 \in T
      BY <2>7
    <3> HIDE DEF T
    <3> QED
      BY <2>6, <3>1, NumberInduction
  <2> DEFINE f == [k \in 0 .. K |-> run[k]]
  <2>9. ASSUME NEW k \in 0 .. K
        PROVE  run[k] = IF k = 0 THEN start ELSE Put(f[k - 1], k)
    <3>1. CASE k = 0
      BY <2>4, <3>1
    <3>2. CASE k # 0
      <4>1. PICK j \in Nat : j = k - 1 /\ j + 1 = k /\ j \in 0 .. K /\ j + 1 <= K
        BY <1>1, <3>2
      <4>2. run[j + 1] = Put(run[j], j + 1)
        BY <2>7, <2>8, <4>1
      <4>3. f[k - 1] = run[j]
        BY <4>1
      <4> HIDE DEF f
      <4> QED
        BY <3>2, <4>1, <4>2, <4>3
    <3> QED
      BY <3>1, <3>2
  <2>10. f = [k \in 0 .. K |-> IF k = 0 THEN start ELSE Put(f[k - 1], k)]
    BY <2>9
  <2> HIDE DEF f
  <2> QED
    BY <2>10 DEF after
<1>5. Probed(s, vector, groups, at) = after[K]
  BY DEF Probed
<1> HIDE DEF start, Put, after, K, Done
<1> DEFINE T == {k \in Nat : k <= K => Done(k, after[k])}
<1>6. 0 \in T
  BY <1>1, <1>2, <1>4
<1>7. ASSUME NEW k \in Nat, k \in T, k + 1 <= K
      PROVE  Done(k + 1, after[k + 1])
  <2>1. Done(k, after[k])
    BY <1>1, <1>7
  <2>2. k + 1 \in 0 .. K /\ k + 1 # 0 /\ (k + 1) - 1 = k
    BY <1>1, <1>7
  <2>3. after[k + 1] = Put(after[k], k + 1)
    BY <1>4, <2>2
  <2> QED
    BY <1>3, <1>7, <2>1, <2>3
<1>8. \A k \in Nat : k \in T
  <2>1. \A k \in Nat : k \in T => k + 1 \in T
    BY <1>7
  <2> HIDE DEF T
  <2> QED
    BY <1>6, <2>1, NumberInduction
<1>9. Done(K, after[K])
  BY <1>1, <1>8
<1> QED
  BY <1>5, <1>9 DEF Done, K

------------------------------------------------------------------------------
(* The groups and the rows of a chunk. *)

\* A group has a row.
Has(groups, g) == \E x \in 1 .. Len(groups) : groups[x] = g

\* Every group of the chunk has a row, after those there were before.
LEMMA WithGroupsIs ==
    ASSUME NEW H, NEW groups \in Seq(H), NEW new \in Seq(H),
           \A x, y \in 1 .. Len(groups) : groups[x] = groups[y] => x = y,
           NEW out, out = WithGroups(groups, new)
    PROVE  /\ out \in Seq(H)
           /\ \A x, y \in 1 .. Len(out) : out[x] = out[y] => x = y
           /\ Len(groups) <= Len(out) /\ \A x \in 1 .. Len(groups) : out[x] = groups[x]
           /\ \A x \in Len(groups) + 1 .. Len(out) : \E j \in 1 .. Len(new) : out[x] = new[j]
           /\ \A j \in 1 .. Len(new) : Has(out, new[j])
<1> DEFINE K == Len(new)
           Put(s, k) == IF Contains(s, new[k]) THEN s ELSE Append(s, new[k])
           step == [x \in Nat \X Seq(H) |->
                       IF x[1] + 1 \in 1 .. K THEN Put(x[2], x[1] + 1) ELSE x[2]]
           seen == CHOOSE f : f = [k \in 0 .. K |-> IF k = 0 THEN groups ELSE Put(f[k - 1], k)]
           Good(k, s) == /\ s \in Seq(H)
                         /\ \A x, y \in 1 .. Len(s) : s[x] = s[y] => x = y
                         /\ Len(groups) <= Len(s)
                         /\ \A x \in 1 .. Len(groups) : s[x] = groups[x]
                         /\ \A x \in Len(groups) + 1 .. Len(s) : \E j \in 1 .. k : s[x] = new[j]
                         /\ \A j \in 1 .. k : \E x \in 1 .. Len(s) : s[x] = new[j]
<1>1. K \in Nat /\ Len(groups) \in Nat /\ \A k \in 1 .. K : new[k] \in H
  BY LenProperties, ElementOfSeq
<1>2. ASSUME NEW s \in Seq(H), NEW k \in 1 .. K
      PROVE  Put(s, k) \in Seq(H)
  BY <1>1, <1>2, AppendProperties
<1>3. seen = [k \in 0 .. K |-> IF k = 0 THEN groups ELSE Put(seen[k - 1], k)]
  <2> HIDE DEF K, Put
  <2>1. step \in [Nat \X Seq(H) -> Seq(H)]
    BY <1>2
  <2>2. PICK run \in [Nat -> Seq(H)] : Iterates(run, groups, step)
    <3> HIDE DEF step
    <3> QED
      BY <2>1, Iteration
  <2>3. run[0] = groups /\ \A k \in Nat : run[k + 1] = step[<<k, run[k]>>]
    <3> HIDE DEF step
    <3> QED
      BY <2>2 DEF Iterates
  <2>4. ASSUME NEW k \in Nat, k + 1 \in 1 .. K
        PROVE  run[k + 1] = Put(run[k], k + 1)
    <3>1. <<k, run[k]>> \in Nat \X Seq(H)
      BY <2>2
    <3>2. step[<<k, run[k]>>] = Put(run[k], k + 1)
      BY <2>4, <3>1
    <3> HIDE DEF step
    <3> QED
      BY <2>3, <3>2
  <2> HIDE DEF step
  <2> DEFINE f == [k \in 0 .. K |-> run[k]]
  <2>5. ASSUME NEW k \in 0 .. K
        PROVE  run[k] = IF k = 0 THEN groups ELSE Put(f[k - 1], k)
    <3>1. CASE k = 0
      BY <2>3, <3>1
    <3>2. CASE k # 0
      <4>1. PICK j \in Nat : j = k - 1 /\ j + 1 = k /\ j \in 0 .. K /\ j + 1 \in 1 .. K
        BY <1>1, <3>2
      <4>2. run[j + 1] = Put(run[j], j + 1)
        BY <2>4, <4>1
      <4>3. f[k - 1] = run[j]
        BY <4>1
      <4> HIDE DEF f
      <4> QED
        BY <3>2, <4>1, <4>2, <4>3
    <3> QED
      BY <3>1, <3>2
  <2>6. f = [k \in 0 .. K |-> IF k = 0 THEN groups ELSE Put(f[k - 1], k)]
    BY <2>5
  <2> HIDE DEF f
  <2> QED
    BY <2>6 DEF seen
<1>4. out = seen[K]
  BY DEF WithGroups
<1>5. Good(0, groups)
  BY <1>1
<1>6. ASSUME NEW k \in Nat, k + 1 <= K, NEW s, Good(k, s)
      PROVE  Good(k + 1, Put(s, k + 1))
  <2>1. PICK g \in H : g = new[k + 1] /\ k + 1 \in 1 .. K
    BY <1>1, <1>6
  <2>2. PICK L \in Nat, M \in Nat : L = Len(groups) /\ M = Len(s) /\ L <= M
    BY <1>1, <1>6, LenProperties
  <2>3. \A j \in 1 .. k + 1 : j \in 1 .. k \/ j = k + 1
    OBVIOUS
  <2>4. \A j \in 1 .. k : j \in 1 .. k + 1
    OBVIOUS
  <2>5. k + 1 \in 1 .. k + 1
    OBVIOUS
  <2>6. CASE Contains(s, g)
    <3>1. Put(s, k + 1) = s
      BY <2>1, <2>6
    <3>2. \E x \in 1 .. Len(s) : s[x] = new[k + 1]
      BY <2>1, <2>6 DEF Contains
    <3>3. Good(k + 1, s)
      BY <1>6, <2>3, <2>4, <3>2
    <3> HIDE DEF Good, Put
    <3> QED
      BY <3>1, <3>3
  <2>7. CASE ~Contains(s, g)
    <3>1. PICK t : t = Append(s, g)
      OBVIOUS
    <3>2. /\ t \in Seq(H) /\ Len(t) = M + 1 /\ t[M + 1] = g
          /\ \A x \in 1 .. M : t[x] = s[x]
      BY <1>6, <2>2, <3>1, AppendProperties
    <3>3. \A x \in 1 .. M : s[x] # g
      BY <2>2, <2>7 DEF Contains
    <3>4. \A x \in 1 .. M + 1 : x \in 1 .. M \/ x = M + 1
      OBVIOUS
    <3>5. \A x, y \in 1 .. M + 1 : t[x] = t[y] => x = y
      BY <1>6, <2>2, <3>2, <3>3, <3>4, SMTT(30)
    <3>6. \A x \in 1 .. L : t[x] = groups[x]
      BY <1>6, <2>2, <3>2
    <3>7. \A x \in L + 1 .. M + 1 : \E j \in 1 .. k + 1 : t[x] = new[j]
      <4>1. SUFFICES ASSUME NEW x \in L + 1 .. M + 1
                     PROVE  \E j \in 1 .. k + 1 : t[x] = new[j]
        OBVIOUS
      <4>2. CASE x = M + 1
        BY <2>1, <2>5, <3>2, <4>2
      <4>3. CASE x # M + 1
        <5>1. x \in L + 1 .. M /\ x \in 1 .. M
          BY <2>2, <4>3, LastOrBefore
        <5>2. PICK j \in 1 .. k : s[x] = new[j]
          BY <1>6, <2>2, <5>1
        <5>3. t[x] = s[x] /\ j \in 1 .. k + 1
          BY <2>4, <3>2, <5>1
        <5> QED
          BY <5>2, <5>3
      <4> QED
        BY <4>2, <4>3
    <3>8. \A j \in 1 .. k + 1 : \E x \in 1 .. M + 1 : t[x] = new[j]
      <4>1. SUFFICES ASSUME NEW j \in 1 .. k + 1
                     PROVE  \E x \in 1 .. M + 1 : t[x] = new[j]
        OBVIOUS
      <4>2. CASE j = k + 1
        <5>1. M + 1 \in 1 .. M + 1
          OBVIOUS
        <5> QED
          BY <2>1, <3>2, <4>2, <5>1
      <4>3. CASE j \in 1 .. k
        <5>1. PICK x \in 1 .. M : s[x] = new[j]
          BY <1>6, <2>2, <4>3
        <5>2. x \in 1 .. M + 1
          OBVIOUS
        <5> QED
          BY <3>2, <5>1, <5>2
      <4> QED
        BY <2>3, <4>2, <4>3
    <3>9. L <= M + 1
      BY <2>2
    <3>10. Good(k + 1, t)
      BY <2>2, <3>2, <3>5, <3>6, <3>7, <3>8, <3>9
    <3>11. Put(s, k + 1) = t
      BY <2>1, <2>7, <3>1
    <3> HIDE DEF Good, Put
    <3> QED
      BY <3>10, <3>11
  <2> QED
    BY <2>6, <2>7
<1> HIDE DEF Put, seen, K, Good
<1> DEFINE T == {k \in Nat : k <= K => Good(k, seen[k])}
<1>7. 0 \in T
  BY <1>1, <1>3, <1>5
<1>8. ASSUME NEW k \in Nat, k \in T, k + 1 <= K
      PROVE  Good(k + 1, seen[k + 1])
  <2>1. Good(k, seen[k])
    BY <1>1, <1>8
  <2>2. k + 1 \in 0 .. K /\ k + 1 # 0 /\ (k + 1) - 1 = k
    BY <1>1, <1>8
  <2>3. seen[k + 1] = Put(seen[k], k + 1)
    BY <1>3, <2>2
  <2> QED
    BY <1>6, <1>8, <2>1, <2>3
<1>9. \A k \in Nat : k \in T
  <2>1. \A k \in Nat : k \in T => k + 1 \in T
    BY <1>8
  <2> HIDE DEF T
  <2> QED
    BY <1>7, <2>1, NumberInduction
<1>10. Good(K, out)
  BY <1>1, <1>4, <1>9
<1> QED
  BY <1>10 DEF Good, K, Has

\* The rows of a chunk that belong to a partition.
LEMMA RowsOfPartitionIs ==
    ASSUME NEW groups \in Seq(DOMAIN Hash), NEW p, NEW out, out = RowsOfPartition(groups, p)
    PROVE  /\ out \in Seq(Nat)
           /\ \A i \in Nat : i \in Range(out) <=>
                 i \in 1 .. Len(groups) /\ Hash[groups[i]].partition = p
<1> DEFINE K == Len(groups)
           In(i) == Hash[groups[i]].partition = p
           Put(s, k) == IF In(k) THEN Append(s, k) ELSE s
           step == [x \in Nat \X Seq(Nat) |-> Put(x[2], x[1] + 1)]
           rows == CHOOSE f : f = [k \in 0 .. K |->
                       IF k = 0 THEN <<>> ELSE IF In(k) THEN Append(f[k - 1], k) ELSE f[k - 1]]
           Good(k, s) == /\ s \in Seq(Nat)
                         /\ \A i \in Nat : i \in Range(s) <=> i \in 1 .. k /\ In(i)
<1>1. K \in Nat
  BY LenProperties
<1>2. ASSUME NEW s \in Seq(Nat), NEW k \in Nat
      PROVE  Put(s, k) \in Seq(Nat)
  <2>1. Adds(s, k, Append(s, k))
    BY AppendAdds
  <2> QED
    BY <2>1 DEF Adds
<1>3. rows = [k \in 0 .. K |-> IF k = 0 THEN <<>> ELSE Put(rows[k - 1], k)]
  <2> HIDE DEF K, In
  <2>1. step \in [Nat \X Seq(Nat) -> Seq(Nat)]
    <3> HIDE DEF Put
    <3> QED
      BY <1>2
  <2>2. PICK run \in [Nat -> Seq(Nat)] : Iterates(run, <<>>, step)
    <3>1. <<>> \in Seq(Nat)
      OBVIOUS
    <3> HIDE DEF step
    <3> QED
      BY <2>1, <3>1, Iteration
  <2>3. run[0] = <<>> /\ \A k \in Nat : run[k + 1] = step[<<k, run[k]>>]
    <3> HIDE DEF step
    <3> QED
      BY <2>2 DEF Iterates
  <2>4. ASSUME NEW k \in Nat
        PROVE  run[k + 1] = Put(run[k], k + 1)
    <3> HIDE DEF Put
    <3>1. <<k, run[k]>> \in Nat \X Seq(Nat)
      BY <2>2
    <3>2. step[<<k, run[k]>>] = Put(run[k], k + 1)
      BY <3>1
    <3> HIDE DEF step
    <3> QED
      BY <2>3, <3>2
  <2> HIDE DEF step
  <2> DEFINE f == [k \in 0 .. K |-> run[k]]
  <2>5. ASSUME NEW k \in 0 .. K
        PROVE  run[k] = IF k = 0 THEN <<>> ELSE Put(f[k - 1], k)
    <3> HIDE DEF Put
    <3>1. CASE k = 0
      BY <2>3, <3>1
    <3>2. CASE k # 0
      <4>1. PICK j \in Nat : j = k - 1 /\ j + 1 = k /\ j \in 0 .. K
        BY <1>1, <3>2
      <4>2. run[j + 1] = Put(run[j], j + 1)
        BY <2>4, <4>1
      <4>3. f[k - 1] = run[j]
        BY <4>1
      <4> HIDE DEF f
      <4> QED
        BY <3>2, <4>1, <4>2, <4>3
    <3> QED
      BY <3>1, <3>2
  <2>6. f = [k \in 0 .. K |->
                IF k = 0 THEN <<>> ELSE IF In(k) THEN Append(f[k - 1], k) ELSE f[k - 1]]
    BY <2>5
  <2>7. rows = [k \in 0 .. K |->
                IF k = 0 THEN <<>> ELSE IF In(k) THEN Append(rows[k - 1], k) ELSE rows[k - 1]]
    <3> HIDE DEF f
    <3> QED
      BY <2>6 DEF rows
  <2> HIDE DEF rows
  <2> QED
    BY <2>7
<1>4. out = rows[K]
  BY DEF RowsOfPartition
<1>5. Good(0, <<>>)
  BY DEF Range
<1>6. ASSUME NEW k \in Nat, NEW s, Good(k, s)
      PROVE  Good(k + 1, Put(s, k + 1))
  <2>1. \A i \in Nat : i \in 1 .. k + 1 <=> (i \in 1 .. k \/ i = k + 1)
    OBVIOUS
  <2> HIDE DEF In
  <2>2. CASE In(k + 1)
    <3>1. PICK t : t = Append(s, k + 1) /\ t \in Seq(Nat) /\ Range(t) = Range(s) \cup {k + 1}
      <4>1. Adds(s, k + 1, Append(s, k + 1))
        BY <1>6, AppendAdds
      <4> QED
        BY <4>1 DEF Adds
    <3>2. Good(k + 1, t)
      BY <1>6, <2>1, <2>2, <3>1
    <3>3. Put(s, k + 1) = t
      BY <2>2, <3>1
    <3> HIDE DEF Good, Put
    <3> QED
      BY <3>2, <3>3
  <2>3. CASE ~In(k + 1)
    <3>1. Good(k + 1, s)
      BY <1>6, <2>1, <2>3
    <3>2. Put(s, k + 1) = s
      BY <2>3
    <3> HIDE DEF Good, Put
    <3> QED
      BY <3>1, <3>2
  <2> QED
    BY <2>2, <2>3
<1> HIDE DEF Put, rows, K, Good, In
<1> DEFINE T == {k \in Nat : k <= K => Good(k, rows[k])}
<1>7. 0 \in T
  BY <1>1, <1>3, <1>5
<1>8. ASSUME NEW k \in Nat, k \in T, k + 1 <= K
      PROVE  Good(k + 1, rows[k + 1])
  <2>1. Good(k, rows[k])
    BY <1>1, <1>8
  <2>2. k + 1 \in 0 .. K /\ k + 1 # 0 /\ (k + 1) - 1 = k
    BY <1>1, <1>8
  <2>3. rows[k + 1] = Put(rows[k], k + 1)
    BY <1>3, <2>2
  <2> QED
    BY <1>6, <2>1, <2>3
<1>9. \A k \in Nat : k \in T
  <2>1. \A k \in Nat : k \in T => k + 1 \in T
    BY <1>8
  <2> HIDE DEF T
  <2> QED
    BY <1>7, <2>1, NumberInduction
<1>10. Good(K, out)
  BY <1>1, <1>4, <1>9
<1> QED
  BY <1>10 DEF Good, K, In

\* The rows of a chunk whose group is in row r of partition p.
RowsTo(w, chunk, canonical, p, r) ==
    {<<w, chunk, i>> : i \in {j \in DOMAIN canonical : canonical[j] = <<p, r>>}}

\* UpdateAggregatesGather changes the aggregates only, each by the rows answered with it.
LEMMA UpdatedIs ==
    ASSUME NEW D, NEW partitions, DOMAIN partitions = D, \A p \in D : Plain(partitions[p]),
           NEW w \in AggWorkers, NEW chunk \in Nat, NEW canonical, DOMAIN canonical \subseteq Nat,
           NEW out, out = Updated(partitions, w, chunk, canonical)
    PROVE  /\ out = [p \in D |-> out[p]]
           /\ \A p \in D :
                 /\ Plain(out[p])
                 /\ InTable(partitions[p]) => InTable(out[p])
                 /\ out[p].groups = partitions[p].groups /\ out[p].room = partitions[p].room
                 /\ out[p].slots = partitions[p].slots
                 /\ SlotCount(out[p]) = SlotCount(partitions[p])
                 /\ Len(out[p].aggs) = Len(partitions[p].groups)
                 /\ \A r \in 1 .. Len(partitions[p].groups) : out[p].aggs[r] =
                        partitions[p].aggs[r] (+) SetToBag(RowsTo(w, chunk, canonical, p, r))
<1> DEFINE Sum(p) == [r \in DOMAIN partitions[p].aggs |->
                         partitions[p].aggs[r] (+) SetToBag(RowsTo(w, chunk, canonical, p, r))]
<1>1. out = [p \in D |-> [partitions[p] EXCEPT !.aggs = Sum(p)]]
  BY DEF Updated, RowsTo
<1>2. SUFFICES ASSUME NEW p \in D
               PROVE  /\ Plain(out[p])
                      /\ InTable(partitions[p]) => InTable(out[p])
                      /\ out[p].groups = partitions[p].groups /\ out[p].room = partitions[p].room
                      /\ out[p].slots = partitions[p].slots
                      /\ SlotCount(out[p]) = SlotCount(partitions[p])
                      /\ Len(out[p].aggs) = Len(partitions[p].groups)
                      /\ \A r \in 1 .. Len(partitions[p].groups) : out[p].aggs[r] = Sum(p)[r]
  <2>1. ASSUME NEW p \in D, NEW r \in 1 .. Len(partitions[p].groups)
        PROVE  Sum(p)[r] =
                   partitions[p].aggs[r] (+) SetToBag(RowsTo(w, chunk, canonical, p, r))
    <3>1. r \in DOMAIN partitions[p].aggs
      BY <2>1, StoreFacts
    <3> QED
      BY <3>1
  <2>2. out = [p \in D |-> out[p]]
    BY <1>1
  <2> HIDE DEF Sum
  <2> QED
    BY <1>2, <2>1, <2>2
<1>3. PICK s : s = partitions[p] /\ Plain(s)
  OBVIOUS
<1>4. PICK L \in Nat : L = Len(s.groups) /\ s.aggs \in Seq(Bag) /\ Len(s.aggs) = L
                       /\ DOMAIN s.aggs = 1 .. L
  BY <1>3, StoreFacts
<1>5. ASSUME NEW r \in 1 .. L
      PROVE  Sum(p)[r] \in Bag
  <2>1. s.aggs[r] \in Bag
    BY <1>4, ElementOfSeq
  <2>2. RowsTo(w, chunk, canonical, p, r) \subseteq RowIds
    BY DEF RowsTo, RowIds
  <2>3. s.aggs[r] (+) SetToBag(RowsTo(w, chunk, canonical, p, r)) \in Bag
    BY <2>1, <2>2, BagSum, SetBag
  <2> QED
    BY <1>3, <1>4, <2>3
<1>6. PICK sum : sum = Sum(p)
  OBVIOUS
<1>7. sum \in [1 .. L -> Bag]
  <2>1. DOMAIN sum = 1 .. L /\ sum = [r \in DOMAIN sum |-> sum[r]]
    BY <1>3, <1>4, <1>6
  <2> HIDE DEF Sum
  <2> QED
    BY <1>5, <1>6, <2>1
<1>8. sum \in Seq(Bag) /\ Len(sum) = L
  BY <1>7
<1>9. PICK t : t = [s EXCEPT !.aggs = sum]
  OBVIOUS
<1>10. out[p] = t
  BY <1>1, <1>3, <1>6, <1>9
<1>11. /\ Plain(t) /\ t.groups = s.groups /\ t.aggs = sum
       /\ t.room = s.room /\ t.slots = s.slots /\ SlotCount(t) = SlotCount(s)
       /\ InTable(s) => InTable(t)
  BY <1>3, <1>4, <1>8, <1>9, WithAggregates
<1> HIDE DEF Sum
<1> QED
  BY <1>3, <1>4, <1>6, <1>8, <1>10, <1>11

------------------------------------------------------------------------------
(* The input, and what a worker and a COMBINE task have done with it. *)

\* The model's names with the case as an argument: partitions, workers combined, the
\* group of an input row, the input rows, and the groups of a chunk.
Parts(a) == 1 .. (IF a.kind = "hash" THEN Partitions ELSE 1)
Sources(a) == IF a.kind = "perfect" THEN {1} ELSE AggWorkers
KeyOf(a, x) == IF a.kind = "single" THEN AllRows ELSE a.input[x[1]][x[2]][x[3]]
RowsIn(a) ==
    {x \in RowIds : /\ x[2] \in 1 .. Len(a.input[x[1]])
                    /\ x[3] \in 1 .. Len(a.input[x[1]][x[2]])}
KeysOf(a, w, c) == [i \in 1 .. Len(a.input[w][c]) |-> KeyOf(a, <<w, c, i>>)]

\* The rows of a group in the first n chunks of a worker.
Sunk(a, w, n, g) == {x \in RowsIn(a) : x[1] = w /\ x[2] <= n /\ KeyOf(a, x) = g}

\* There is a first worker.
LEMMA WorkerOne == 1 \in AggWorkers
<1>1. AggWorkers = 1 .. Cardinality(AggWorkers) /\ AggWorkers # {} /\ Cardinality(AggWorkers) \in Nat
  BY AggregateSizes, FS_CardinalityType
<1> QED
  BY <1>1

\* Workers are numbered from 1.
LEMMA WorkersAre == \E n \in Nat \ {0} : AggWorkers = 1 .. n
<1>1. AggWorkers = 1 .. Cardinality(AggWorkers) /\ AggWorkers # {} /\ Cardinality(AggWorkers) \in Nat
  BY AggregateSizes, FS_CardinalityType
<1> QED
  BY <1>1

\* The parts of a case.
LEMMA CaseFacts ==
    ASSUME NEW a \in AggCases
    PROVE  /\ a.kind \in {"hash", "single", "perfect"}
           /\ \A w \in AggWorkers : /\ a.input[w] \in Seq(Seq(DOMAIN Hash))
                                    /\ Len(a.input[w]) \in Nat
           /\ 1 \in Parts(a) /\ Parts(a) \subseteq Nat
           /\ a.kind = "hash" => Parts(a) = 1 .. Partitions
           /\ a.kind # "hash" => Parts(a) = {1}
<1>1. a.kind \in {"hash", "single", "perfect"} /\ a.input \in [AggWorkers -> Seq(Seq(DOMAIN Hash))]
  BY CasesAssumption
<1>2. Partitions \in Nat \ {0}
  BY AggregateSizes
<1>3. \A w \in AggWorkers : a.input[w] \in Seq(Seq(DOMAIN Hash)) /\ Len(a.input[w]) \in Nat
  BY <1>1, LenProperties
<1> QED
  BY <1>1, <1>2, <1>3 DEF Parts

\* The groups of a chunk are those of its rows.
LEMMA KeysFacts ==
    ASSUME NEW a \in AggCases, NEW w \in AggWorkers, NEW c \in 1 .. Len(a.input[w])
    PROVE  /\ KeysOf(a, w, c) \in Seq(DOMAIN Hash) /\ DOMAIN a.input[w][c] = DOMAIN KeysOf(a, w, c)
           /\ Len(KeysOf(a, w, c)) \in Nat
           /\ DOMAIN KeysOf(a, w, c) = 1 .. Len(KeysOf(a, w, c))
           /\ \A i \in 1 .. Len(KeysOf(a, w, c)) :
                 /\ <<w, c, i>> \in RowsIn(a)
                 /\ KeyOf(a, <<w, c, i>>) = KeysOf(a, w, c)[i]
                 /\ KeysOf(a, w, c)[i] \in DOMAIN Hash
<1>1. a.input[w] \in Seq(Seq(DOMAIN Hash))
  BY CaseFacts
<1>2. a.input[w][c] \in Seq(DOMAIN Hash)
  BY <1>1, ElementOfSeq
<1>3. PICK L \in Nat : L = Len(a.input[w][c]) /\ DOMAIN a.input[w][c] = 1 .. L
  BY <1>2, LenProperties
<1>4. ASSUME NEW i \in 1 .. L
      PROVE  KeyOf(a, <<w, c, i>>) \in DOMAIN Hash
  <2>1. a.input[w][c][i] \in DOMAIN Hash
    BY <1>2, <1>3, <1>4, ElementOfSeq
  <2> QED
    BY <2>1, HashAssumption DEF KeyOf
<1>4a. KeysOf(a, w, c) = [i \in 1 .. L |-> KeyOf(a, <<w, c, i>>)]
  BY <1>3 DEF KeysOf
<1>4b. \A i \in 1 .. L : KeysOf(a, w, c)[i] = KeyOf(a, <<w, c, i>>)
  BY <1>4a
<1>4c. KeysOf(a, w, c) \in [1 .. L -> DOMAIN Hash]
  BY <1>4, <1>4a
<1>5. PICK keys \in [1 .. L -> DOMAIN Hash] :
          keys = KeysOf(a, w, c) /\ \A i \in 1 .. L : keys[i] = KeyOf(a, <<w, c, i>>)
  BY <1>4b, <1>4c
<1>6. keys \in Seq(DOMAIN Hash) /\ Len(keys) = L /\ DOMAIN keys = 1 .. L
  OBVIOUS
<1>7. c \in Nat
  BY CaseFacts
<1>8. \A i \in 1 .. L : <<w, c, i>> \in RowsIn(a)
  BY <1>3, <1>7 DEF RowsIn, RowIds
<1> QED
  BY <1>3, <1>5, <1>6, <1>8

\* An input row is a row of a chunk of a worker.
LEMMA RowFacts ==
    ASSUME NEW a \in AggCases, NEW x \in RowsIn(a)
    PROVE  /\ x = <<x[1], x[2], x[3]>> /\ x \in RowIds
           /\ x[1] \in AggWorkers /\ x[2] \in 1 .. Len(a.input[x[1]]) /\ x[2] \in Nat \ {0}
           /\ x[3] \in 1 .. Len(KeysOf(a, x[1], x[2])) /\ x[3] \in Nat
           /\ KeyOf(a, x) = KeysOf(a, x[1], x[2])[x[3]] /\ KeyOf(a, x) \in DOMAIN Hash
<1>1. /\ x \in RowIds /\ x[1] \in AggWorkers /\ x[2] \in Nat /\ x[3] \in Nat
      /\ x = <<x[1], x[2], x[3]>>
  BY DEF RowsIn, RowIds
<1>2. PICK w \in AggWorkers, c \in Nat, i \in Nat : w = x[1] /\ c = x[2] /\ i = x[3]
  BY <1>1
<1>3. c \in 1 .. Len(a.input[w]) /\ i \in 1 .. Len(a.input[w][c])
  BY <1>2 DEF RowsIn
<1>4. Len(a.input[w]) \in Nat /\ c # 0
  BY <1>3, CaseFacts
<1>5. Len(KeysOf(a, w, c)) = Len(a.input[w][c])
  <2>1. a.input[w][c] \in Seq(DOMAIN Hash)
    BY <1>3, CaseFacts, ElementOfSeq
  <2>2. DOMAIN a.input[w][c] = 1 .. Len(a.input[w][c]) /\ Len(a.input[w][c]) \in Nat
    BY <2>1, LenProperties
  <2>3. DOMAIN a.input[w][c] = 1 .. Len(KeysOf(a, w, c)) /\ Len(KeysOf(a, w, c)) \in Nat
    BY <1>3, KeysFacts
  <2> QED
    BY <2>2, <2>3
<1>6. i \in 1 .. Len(KeysOf(a, w, c))
  BY <1>3, <1>5
<1>7. KeyOf(a, <<w, c, i>>) = KeysOf(a, w, c)[i] /\ KeysOf(a, w, c)[i] \in DOMAIN Hash
  BY <1>3, <1>6, KeysFacts
<1> QED
  BY <1>1, <1>2, <1>3, <1>4, <1>6, <1>7

\* The same for the model's names.
LEMMA CaseOfModel ==
    ASSUME agg \in AggCases
    PROVE  /\ PartitionIds = Parts(agg) /\ MergeSources = Sources(agg)
           /\ InputRows = RowsIn(agg)
           /\ \A x \in RowsIn(agg) : GroupOf(x[1], x[2], x[3]) = KeyOf(agg, x)
           /\ \A w \in AggWorkers : worker[w].chunk \in 1 .. Len(agg.input[w]) =>
                 GroupsOfChunk(w) = KeysOf(agg, w, worker[w].chunk)
<1>1. PartitionIds = Parts(agg) /\ MergeSources = Sources(agg)
  BY DEF PartitionIds, Parts, IsHash, MergeSources, CombinedWorkers, Sources
<1>2. \A w, c, i : GroupOf(w, c, i) = KeyOf(agg, <<w, c, i>>)
  BY DEF GroupOf, KeyOf
<1>3. ASSUME NEW w \in AggWorkers
      PROVE  /\ DOMAIN agg.input[w] = 1 .. Len(agg.input[w])
             /\ \A c \in 1 .. Len(agg.input[w]) : DOMAIN agg.input[w][c] = 1 .. Len(agg.input[w][c])
  <2>1. agg.input[w] \in Seq(Seq(DOMAIN Hash))
    BY CaseFacts
  <2>2. \A c \in 1 .. Len(agg.input[w]) : agg.input[w][c] \in Seq(DOMAIN Hash)
    BY <2>1, ElementOfSeq
  <2> QED
    BY <2>1, <2>2, LenProperties
<1>4. \A x : x \in InputRows <=>
          \E w \in AggWorkers : \E c \in DOMAIN agg.input[w] : \E i \in DOMAIN agg.input[w][c] :
              x = <<w, c, i>>
  BY DEF InputRows
<1>5. InputRows = RowsIn(agg)
  <2>1. ASSUME NEW x \in InputRows PROVE x \in RowsIn(agg)
    <3>1. PICK w \in AggWorkers : \E c \in DOMAIN agg.input[w] : \E i \in DOMAIN agg.input[w][c] :
                                      x = <<w, c, i>>
      BY <1>4
    <3>2. PICK c \in 1 .. Len(agg.input[w]) : \E i \in DOMAIN agg.input[w][c] : x = <<w, c, i>>
      BY <1>3, <3>1
    <3>3. PICK i \in 1 .. Len(agg.input[w][c]) : x = <<w, c, i>>
      BY <1>3, <3>2
    <3>4. c \in Nat /\ i \in Nat
      <4>1. Len(agg.input[w]) \in Nat
        BY CaseFacts
      <4>2. agg.input[w][c] \in Seq(DOMAIN Hash)
        BY CaseFacts, ElementOfSeq
      <4> QED
        BY <4>1, <4>2, LenProperties
    <3> QED
      BY <3>3, <3>4 DEF RowsIn, RowIds
  <2>2. ASSUME NEW x \in RowsIn(agg) PROVE x \in InputRows
    <3>1. PICK w \in AggWorkers, c \in Nat, i \in Nat : x = <<w, c, i>>
      BY DEF RowsIn, RowIds
    <3>2. c \in DOMAIN agg.input[w] /\ i \in DOMAIN agg.input[w][c]
      BY <1>3, <3>1 DEF RowsIn
    <3> QED
      BY <1>4, <3>1, <3>2
  <2> QED
    BY <2>1, <2>2
<1>6. \A x \in RowsIn(agg) : GroupOf(x[1], x[2], x[3]) = KeyOf(agg, x)
  BY DEF GroupOf, KeyOf
<1>7. \A w \in AggWorkers : worker[w].chunk \in 1 .. Len(agg.input[w]) =>
          GroupsOfChunk(w) = KeysOf(agg, w, worker[w].chunk)
  BY <1>2, <1>3 DEF GroupsOfChunk, KeysOf
<1> QED
  BY <1>1, <1>5, <1>6, <1>7

------------------------------------------------------------------------------
(* What an action does to the worker's state v and its partitions S.         *)

\* The types of what a worker keeps in the middle of a chunk.
Tries == UNION {[D -> Nat] : D \in SUBSET Nat}
Canonical == UNION {[D -> Nat \X Nat] : D \in SUBSET Nat}
WorkerType ==
    [pc : {"sink", "probe"}, chunk : Nat \ {0}, partition : 1 .. Partitions + 1,
     active : Seq(Nat), deferred : Seq(Nat), at : Tries, canonical : Canonical]

\* The state of one worker, and what one of its steps makes of it.
Local(w, v, S) ==
    /\ agg \in AggCases
    /\ worker \in [AggWorkers -> WorkerType] /\ v = worker[w]
    /\ stores \in [AggWorkers -> [Parts(agg) -> StoreType]] /\ S = stores[w]
    /\ \A p \in Parts(agg) : Plain(S[p])
Becomes(w, v2, S2) ==
    /\ worker' = [worker EXCEPT ![w] = v2]
    /\ stores' = [stores EXCEPT ![w] = S2]
    /\ agg' = agg /\ global' = global /\ merge' = merge
    /\ reader' = reader /\ groups_out' = groups_out

\* The state of a worker at the start of a chunk.
LEMMA StartIs ==
    ASSUME NEW c \in Nat \ {0}, NEW v, v = [StartOfChunk EXCEPT !.chunk = c]
    PROVE  /\ v \in WorkerType /\ v.pc = "sink" /\ v.chunk = c /\ v.partition = 1
           /\ v.active = <<>> /\ v.deferred = <<>> /\ DOMAIN v.canonical = {}
<1>1. /\ v.pc = "sink" /\ v.chunk = c /\ v.partition = 1
      /\ v.active = <<>> /\ v.deferred = <<>> /\ v.at = <<>> /\ v.canonical = <<>>
      /\ v = [pc |-> "sink", chunk |-> c, partition |-> 1, active |-> <<>>,
              deferred |-> <<>>, at |-> <<>>, canonical |-> <<>>]
  BY DEF StartOfChunk
<1>2. <<>> \in Seq(Nat) /\ DOMAIN <<>> = {}
  OBVIOUS
<1>3. \A T : <<>> \in [{} -> T]
  OBVIOUS
<1>4. <<>> \in Tries /\ <<>> \in Canonical
  BY <1>3 DEF Tries, Canonical
<1>5. 1 \in 1 .. Partitions + 1
  BY AggregateSizes
<1>6. PICK none, at, canonical : none = <<>> /\ at = <<>> /\ canonical = <<>>
  OBVIOUS
<1>7. v = [pc |-> "sink", chunk |-> c, partition |-> 1, active |-> none,
           deferred |-> none, at |-> at, canonical |-> canonical]
  BY <1>1, <1>6
<1>8. none \in Seq(Nat) /\ at \in Tries /\ canonical \in Canonical
  BY <1>2, <1>4, <1>6
<1>9. v \in WorkerType
  <2>1. PICK u : u = v
    OBVIOUS
  <2>2. u = [pc |-> "sink", chunk |-> c, partition |-> 1, active |-> none,
             deferred |-> none, at |-> at, canonical |-> canonical]
    BY <1>7, <2>1
  <2>3. u \in WorkerType
    BY <1>5, <1>8, <2>2 DEF WorkerType
  <2> QED
    BY <2>1, <2>3
<1> QED
  BY <1>1, <1>2, <1>9

\* The rows of a chunk that belong to a group.
KeyRows(a, w, c, g) ==
    {<<w, c, i>> : i \in {j \in 1 .. Len(KeysOf(a, w, c)) : KeysOf(a, w, c)[j] = g}}

\* A chunk sunk without a hash table: the rows of the store stay, the new groups follow,
\* and every row of the chunk goes into its group's row.
DirectIs(a, w, c, s, s2) ==
    /\ Plain(s2) /\ s2.room = s.room /\ s2.slots = s.slots
    /\ Len(s.groups) <= Len(s2.groups)
    /\ \A r \in 1 .. Len(s.groups) : s2.groups[r] = s.groups[r]
    /\ \A r \in Len(s.groups) + 1 .. Len(s2.groups) :
          \E i \in 1 .. Len(KeysOf(a, w, c)) : s2.groups[r] = KeysOf(a, w, c)[i]
    /\ \A i \in 1 .. Len(KeysOf(a, w, c)) :
          Has(s2.groups, KeysOf(a, w, c)[i])
    /\ \A r \in 1 .. Len(s2.groups) : s2.aggs[r] =
          (IF r \in 1 .. Len(s.groups) THEN s.aggs[r] ELSE EmptyBag) (+)
          SetToBag(KeyRows(a, w, c, s2.groups[r]))

\* The array of row indices leads to the row of a group.
LEMMA RowOfIs ==
    ASSUME NEW H, NEW groups \in Seq(H), NEW r \in 1 .. Len(groups),
           \A x, y \in 1 .. Len(groups) : groups[x] = groups[y] => x = y
    PROVE  RowOf(groups, groups[r]) = r
<1>1. DOMAIN groups = 1 .. Len(groups)
  BY LenProperties
<1>2. r \in DOMAIN groups /\ \A x \in DOMAIN groups : groups[x] = groups[r] => x = r
  BY <1>1
<1> HIDE <1>1
<1> QED
  BY <1>2 DEF RowOf

\* SinkChunk without a hash table: one row per group, updated by the chunk's rows.
LEMMA SinkDirectIs ==
    ASSUME NEW w \in AggWorkers, NEW v, NEW S, Local(w, v, S), SinkDirect(w)
    PROVE  /\ agg.kind # "hash" /\ v.pc = "sink" /\ v.chunk \in 1 .. Len(agg.input[w])
           /\ \E v2, S2 :
                /\ v2 = [StartOfChunk EXCEPT !.chunk = v.chunk + 1]
                /\ S2 \in [Parts(agg) -> StoreType]
                /\ Becomes(w, v2, S2)
                /\ DirectIs(agg, w, v.chunk, S[1], S2[1])
<1> DEFINE new == GroupsOfChunk(w)
           groups == WithGroups(stores[w][1].groups, new)
           old == stores[w][1]
           full == [r \in DOMAIN groups |-> IF r \in DOMAIN old.aggs THEN old.aggs[r] ELSE EmptyBag]
           canonical == [i \in DOMAIN new |-> <<1, RowOf(groups, new[i])>>]
<1>1. /\ agg \in AggCases /\ v \in WorkerType /\ v = worker[w] /\ S = stores[w]
      /\ S \in [Parts(agg) -> StoreType] /\ worker \in [AggWorkers -> WorkerType]
      /\ stores \in [AggWorkers -> [Parts(agg) -> StoreType]] /\ \A p \in Parts(agg) : Plain(S[p])
  BY DEF Local
<1>2. agg.kind # "hash" /\ v.pc = "sink" /\ v.chunk <= Len(agg.input[w])
  BY <1>1 DEF SinkDirect, IsHash
<1>3. v.chunk \in 1 .. Len(agg.input[w]) /\ Parts(agg) = {1} /\ v.chunk \in Nat
  BY <1>1, <1>2, CaseFacts DEF WorkerType
<1>4. new = KeysOf(agg, w, v.chunk)
  BY <1>1, <1>3, CaseOfModel
<1>5. PICK L \in Nat : /\ L = Len(new) /\ new \in Seq(DOMAIN Hash) /\ DOMAIN new = 1 .. L
                       /\ \A i \in 1 .. L : new[i] \in DOMAIN Hash
  BY <1>1, <1>3, <1>4, KeysFacts
<1>6. Plain(old)
  BY <1>1, <1>3
<1>7. /\ old \in StoreType /\ old.groups \in Seq(DOMAIN Hash) /\ old.aggs \in Seq(Bag)
      /\ DOMAIN old.aggs = 1 .. Len(old.groups) /\ Len(old.groups) \in Nat
      /\ \A x \in 1 .. Len(old.groups) : old.aggs[x] \in Bag
      /\ \A x, y \in 1 .. Len(old.groups) : old.groups[x] = old.groups[y] => x = y
  BY <1>6, StoreFacts DEF Plain
<1> HIDE DEF new, groups, old
<1>8. /\ groups \in Seq(DOMAIN Hash)
      /\ \A x, y \in 1 .. Len(groups) : groups[x] = groups[y] => x = y
      /\ Len(old.groups) <= Len(groups)
      /\ \A x \in 1 .. Len(old.groups) : groups[x] = old.groups[x]
      /\ \A x \in Len(old.groups) + 1 .. Len(groups) : \E j \in 1 .. L : groups[x] = new[j]
      /\ \A j \in 1 .. L : Has(groups, new[j])
  <2>1. PICK out : out = WithGroups(old.groups, new)
    OBVIOUS
  <2>2. groups = out
    BY <2>1 DEF groups, old
  <2> DEFINE H == DOMAIN Hash
  <2>2a. PICK o \in Seq(H), n \in Seq(H) : o = old.groups /\ n = new
    BY <1>5, <1>7
  <2>3. /\ out = WithGroups(o, n)
        /\ \A x, y \in 1 .. Len(o) : o[x] = o[y] => x = y
    BY <1>7, <2>1, <2>2a
  <2> HIDE DEF H
  <2>3a.
        /\ out \in Seq(H)
        /\ \A x, y \in 1 .. Len(out) : out[x] = out[y] => x = y
        /\ Len(o) <= Len(out)
        /\ \A x \in 1 .. Len(o) : out[x] = o[x]
        /\ \A x \in Len(o) + 1 .. Len(out) : \E j \in 1 .. Len(n) : out[x] = n[j]
        /\ \A j \in 1 .. Len(n) : Has(out, n[j])
    BY <2>3, WithGroupsIs, SMTT(30)
  <2>4. /\ out \in Seq(H)
        /\ \A x, y \in 1 .. Len(out) : out[x] = out[y] => x = y
        /\ Len(old.groups) <= Len(out)
        /\ \A x \in 1 .. Len(old.groups) : out[x] = old.groups[x]
        /\ \A x \in Len(old.groups) + 1 .. Len(out) : \E j \in 1 .. Len(new) : out[x] = new[j]
        /\ \A j \in 1 .. Len(new) : Has(out, new[j])
    BY <2>2a, <2>3a
  <2> QED
    BY <1>5, <2>2, <2>4 DEF H
<1>9. DOMAIN groups = 1 .. Len(groups) /\ Len(groups) \in Nat
  BY <1>8, LenProperties
<1>10. full \in [1 .. Len(groups) -> Bag]
  BY <1>7, <1>9, EmptyBagIs
<1>11. /\ full \in Seq(Bag) /\ Len(full) = Len(groups)
       /\ \A r \in 1 .. Len(groups) :
             full[r] = IF r \in 1 .. Len(old.groups) THEN old.aggs[r] ELSE EmptyBag
  BY <1>7, <1>9, <1>10
<1> HIDE DEF full
<1>12. PICK s1 : s1 = [groups |-> groups, aggs |-> full, room |-> old.room, slots |-> old.slots]
  OBVIOUS
<1>13. /\ Plain(s1) /\ s1.groups = groups /\ s1.aggs = full /\ s1.room = old.room
       /\ s1.slots = old.slots
  BY <1>7, <1>8, <1>11, <1>12 DEF Plain, StoreType
<1>14. PICK T : T = [p \in {1} |-> s1]
  OBVIOUS
<1>15. stores' = [stores EXCEPT ![w] = Updated(T, w, v.chunk, canonical)]
  <2>1. [stores[w] EXCEPT ![1].groups = groups,
                        ![1].aggs = [r \in DOMAIN groups |->
                                        IF r \in DOMAIN @ THEN @[r] ELSE EmptyBag]] = T
    <3> DEFINE settled == [stores[w] EXCEPT ![1].groups = groups,
                            ![1].aggs = [r \in DOMAIN groups |->
                                            IF r \in DOMAIN @ THEN @[r] ELSE EmptyBag]]
    <3>1. PICK f : f = stores[w]
      OBVIOUS
    <3>2. f \in [{1} -> StoreType] /\ f[1] = old
      BY <3>1, <1>1, <1>3 DEF old
    <3>3. PICK g : g = [f EXCEPT ![1].groups = groups]
      OBVIOUS
    <3>4. g = [p \in {1} |-> [old EXCEPT !.groups = groups]]
      BY <3>2, <3>3
    <3>5. /\ g[1].groups = groups /\ g[1].aggs = old.aggs /\ g[1].room = old.room
          /\ g[1].slots = old.slots
          /\ g[1] = [groups |-> groups, aggs |-> old.aggs, room |-> old.room, slots |-> old.slots]
      BY <3>4, <1>7 DEF StoreType
    <3>6. settled = [g EXCEPT ![1].aggs = [r \in DOMAIN groups |->
                                            IF r \in DOMAIN @ THEN @[r] ELSE EmptyBag]]
      BY <3>1, <3>3
    <3>7. settled = [g EXCEPT ![1].aggs = full]
      BY <3>5, <3>6 DEF full
    <3>8. settled = [p \in {1} |-> [g[1] EXCEPT !.aggs = full]]
      BY <3>4, <3>7
    <3>9. [g[1] EXCEPT !.aggs = full] = s1
      BY <3>5, <1>12
    <3> QED
      BY <3>8, <3>9, <1>14
  <2> QED
    BY <2>1, <1>1 DEF SinkDirect, new, groups
<1>16. worker' = [worker EXCEPT ![w] = [StartOfChunk EXCEPT !.chunk = v.chunk + 1]]
  BY <1>1 DEF SinkDirect, NextChunk
<1>17. \A i \in 1 .. L : canonical[i] = <<1, RowOf(groups, new[i])>>
  BY <1>5
<1>18. DOMAIN canonical = 1 .. L /\ DOMAIN canonical \subseteq Nat
  BY <1>5
<1> HIDE DEF canonical
<1>19. PICK S2 : S2 = Updated(T, w, v.chunk, canonical)
  OBVIOUS
<1>20. DOMAIN T = {1} /\ T[1] = s1 /\ \A p \in {1} : Plain(T[p])
  BY <1>13, <1>14
<1>21. /\ S2 = [p \in {1} |-> S2[p]]
       /\ Plain(S2[1]) /\ S2[1].groups = groups /\ S2[1].room = old.room
       /\ S2[1].slots = old.slots
       /\ \A r \in 1 .. Len(groups) : S2[1].aggs[r] =
               full[r] (+) SetToBag(RowsTo(w, v.chunk, canonical, 1, r))
  BY <1>3, <1>13, <1>18, <1>19, <1>20, UpdatedIs
<1>22. S2 \in [Parts(agg) -> StoreType]
  BY <1>3, <1>21 DEF Plain
<1>23. ASSUME NEW r \in 1 .. Len(groups)
       PROVE  RowsTo(w, v.chunk, canonical, 1, r) = KeyRows(agg, w, v.chunk, groups[r])
  <2>1. ASSUME NEW j \in 1 .. L PROVE canonical[j] = <<1, r>> <=> new[j] = groups[r]
    <3>1. PICK x \in 1 .. Len(groups) : groups[x] = new[j]
      BY <1>8 DEF Has
    <3>2. RowOf(groups, new[j]) = x
      <4>1. RowOf(groups, groups[x]) = x
        <5>1. PICK H : groups \in Seq(H)
          BY <1>8
        <5> QED
          BY <3>1, <1>8, <5>1, RowOfIs
      <4> QED
        BY <3>1, <4>1
    <3>3. canonical[j] = <<1, x>>
      BY <3>2, <1>17
    <3> QED
      BY <3>1, <3>3, <1>8
  <2>2. {j \in DOMAIN canonical : canonical[j] = <<1, r>>} = {j \in 1 .. L : new[j] = groups[r]}
    BY <2>1, <1>18
  <2> DEFINE of == {j \in 1 .. L : new[j] = groups[r]}
  <2>3. RowsTo(w, v.chunk, canonical, 1, r) = {<<w, v.chunk, i>> : i \in of}
    BY <2>2 DEF RowsTo
  <2>4. KeyRows(agg, w, v.chunk, groups[r]) = {<<w, v.chunk, i>> : i \in of}
    BY <1>4, <1>5 DEF KeyRows
  <2> QED
    BY <2>3, <2>4
<1>24. DirectIs(agg, w, v.chunk, S[1], S2[1])
  <2>1. \A r \in 1 .. Len(groups) : S2[1].aggs[r] =
          (IF r \in 1 .. Len(old.groups) THEN old.aggs[r] ELSE EmptyBag) (+)
          SetToBag(KeyRows(agg, w, v.chunk, groups[r]))
    BY <1>11, <1>21, <1>23
  <2>2. S[1] = old
    BY <1>1 DEF old
  <2> QED
    BY <2>1, <2>2, <1>4, <1>5, <1>8, <1>21, SMTT(30) DEF DirectIs
<1>25. Becomes(w, [StartOfChunk EXCEPT !.chunk = v.chunk + 1], S2)
  BY <1>15, <1>16, <1>19 DEF Becomes, SinkDirect
<1> QED
  BY <1>2, <1>3, <1>22, <1>24, <1>25

\* The fields of a worker's state.
LEMMA WorkerParts ==
    ASSUME NEW v \in WorkerType
    PROVE  \E pc \in {"sink", "probe"}, chunk \in Nat \ {0}, partition \in 1 .. Partitions + 1,
              active \in Seq(Nat), deferred \in Seq(Nat), at \in Tries, canonical \in Canonical :
              v = [pc |-> pc, chunk |-> chunk, partition |-> partition, active |-> active,
                   deferred |-> deferred, at |-> at, canonical |-> canonical]
<1> DEFINE Part == 1 .. Partitions + 1
<1>1. WorkerType = [pc : {"sink", "probe"}, chunk : Nat \ {0}, partition : Part,
                    active : Seq(Nat), deferred : Seq(Nat), at : Tries, canonical : Canonical]
  BY DEF WorkerType
<1> HIDE DEF Part
<1>2. \E pc \in {"sink", "probe"}, chunk \in Nat \ {0}, partition \in Part,
         active \in Seq(Nat), deferred \in Seq(Nat), at \in Tries, canonical \in Canonical :
         v = [pc |-> pc, chunk |-> chunk, partition |-> partition, active |-> active,
              deferred |-> deferred, at |-> at, canonical |-> canonical]
  BY <1>1
<1> QED
  BY <1>2 DEF Part

\* A worker's state made of its fields.
LEMMA WorkerWith ==
    ASSUME NEW pc \in {"sink", "probe"}, NEW chunk \in Nat \ {0},
           NEW partition \in 1 .. Partitions + 1, NEW active \in Seq(Nat),
           NEW deferred \in Seq(Nat), NEW at \in Tries, NEW canonical \in Canonical,
           NEW v, v = [pc |-> pc, chunk |-> chunk, partition |-> partition, active |-> active,
                       deferred |-> deferred, at |-> at, canonical |-> canonical]
    PROVE  /\ v \in WorkerType
           /\ v.pc = pc /\ v.chunk = chunk /\ v.partition = partition /\ v.active = active
           /\ v.deferred = deferred /\ v.at = at /\ v.canonical = canonical
BY DEF WorkerType

\* One partition of a worker changes.
Changed(S, S2, p, s2) ==
    /\ S2 \in [Parts(agg) -> StoreType] /\ S2[p] = s2
    /\ \A q \in Parts(agg) : q # p => S2[q] = S[q]

\* EXCEPT changes one partition.
LEMMA ChangedIs ==
    ASSUME NEW S \in [Parts(agg) -> StoreType], NEW p \in Parts(agg), NEW s2 \in StoreType
    PROVE  Changed(S, [S EXCEPT ![p] = s2], p, s2)
BY DEF Changed

\* A batch begins, or there is none for the partition.
StartIsEmpty(a, w, v, S, v2, S2) ==
    /\ \A i \in 1 .. Len(KeysOf(a, w, v.chunk)) :
          Hash[KeysOf(a, w, v.chunk)[i]].partition # v.partition
    /\ S2 = S /\ v2.pc = "sink" /\ v2.partition = v.partition + 1
    /\ v2.active = v.active /\ v2.deferred = v.deferred
StartIsBatch(a, w, v, S, v2, S2) ==
    /\ v2.pc = "probe" /\ v2.partition = v.partition
    /\ v2.active # <<>> /\ v2.deferred = v.deferred
    /\ \A i \in Nat : i \in Range(v2.active) <=>
          /\ i \in 1 .. Len(KeysOf(a, w, v.chunk))
          /\ Hash[KeysOf(a, w, v.chunk)[i]].partition = v.partition
    /\ \A i \in Range(v2.active) : i \in DOMAIN v2.at /\ v2.at[i] = 0
    /\ \E s2 : /\ Changed(S, S2, v.partition, s2)
               /\ Plain(s2) /\ InTable(s2)
               /\ s2.groups = S[v.partition].groups /\ s2.aggs = S[v.partition].aggs
               /\ s2.room >= Len(s2.groups) + Len(v2.active)

\* A worker turns to its next partition, whose store grows if it has to.
LEMMA StartPartitionIs ==
    ASSUME NEW w \in AggWorkers, NEW v, NEW S, Local(w, v, S), StartPartition(w),
           \A p \in Parts(agg) : InTable(S[p])
    PROVE  /\ agg.kind = "hash" /\ v.pc = "sink" /\ v.chunk \in 1 .. Len(agg.input[w])
           /\ v.partition \in 1 .. Partitions
           /\ \E v2, S2 :
                /\ Becomes(w, v2, S2)
                /\ v2 \in WorkerType /\ S2 \in [Parts(agg) -> StoreType]
                /\ v2.chunk = v.chunk /\ v2.canonical = v.canonical
                /\ StartIsEmpty(agg, w, v, S, v2, S2) \/ StartIsBatch(agg, w, v, S, v2, S2)
<1>1. /\ agg \in AggCases /\ v \in WorkerType /\ v = worker[w] /\ S = stores[w]
      /\ S \in [Parts(agg) -> StoreType] /\ worker \in [AggWorkers -> WorkerType]
      /\ stores \in [AggWorkers -> [Parts(agg) -> StoreType]] /\ \A p \in Parts(agg) : Plain(S[p])
  BY DEF Local
<1>2. agg.kind = "hash" /\ v.pc = "sink" /\ v.chunk <= Len(agg.input[w]) /\ v.partition <= Partitions
  BY <1>1 DEF StartPartition, IsHash
<1>3. /\ v.chunk \in 1 .. Len(agg.input[w]) /\ Parts(agg) = 1 .. Partitions
      /\ v.partition \in 1 .. Partitions /\ v.chunk \in Nat
  BY <1>1, <1>2, CaseFacts DEF WorkerType
<1>4. PICK keys, p, c : keys = KeysOf(agg, w, v.chunk) /\ p = v.partition /\ c = v.chunk
  OBVIOUS
<1>5. keys = GroupsOfChunk(w) /\ keys \in Seq(DOMAIN Hash)
  BY <1>1, <1>3, <1>4, CaseOfModel, KeysFacts
<1>6. PICK rows : rows = RowsOfPartition(keys, p)
  OBVIOUS
<1>7. /\ rows \in Seq(Nat)
      /\ \A i \in Nat : i \in Range(rows) <=> i \in 1 .. Len(keys) /\ Hash[keys[i]].partition = p
  BY <1>5, <1>6, RowsOfPartitionIs
<1>8. agg' = agg /\ global' = global /\ merge' = merge /\ reader' = reader /\ groups_out' = groups_out
  BY DEF StartPartition
<1>9. CASE rows = <<>>
  <2>1. worker' = [worker EXCEPT ![w].partition = p + 1] /\ stores' = stores
    BY <1>1, <1>4, <1>5, <1>6, <1>9 DEF StartPartition
  <2>2. PICK v2, p1 : v2 = [v EXCEPT !.partition = p1] /\ p1 = p + 1
    OBVIOUS
  <2>3. worker' = [worker EXCEPT ![w] = v2]
    BY <1>1, <2>1, <2>2
  <2>4. stores' = [stores EXCEPT ![w] = S]
    BY <1>1, <2>1
  <2>5. /\ v2 \in WorkerType /\ v2.pc = v.pc /\ v2.chunk = v.chunk /\ v2.canonical = v.canonical
        /\ v2.partition = p + 1 /\ v2.active = v.active /\ v2.deferred = v.deferred
    <3>1. PICK pc \in {"sink", "probe"}, chunk \in Nat \ {0}, partition \in 1 .. Partitions + 1,
              active \in Seq(Nat), deferred \in Seq(Nat), at \in Tries, canonical \in Canonical :
              v = [pc |-> pc, chunk |-> chunk, partition |-> partition, active |-> active,
                   deferred |-> deferred, at |-> at, canonical |-> canonical]
      BY <1>1, WorkerParts
    <3>2. v2 = [pc |-> pc, chunk |-> chunk, partition |-> p1, active |-> active,
                deferred |-> deferred, at |-> at, canonical |-> canonical]
      BY <2>2, <3>1
    <3>3. p1 \in 1 .. Partitions + 1
      BY <1>3, <1>4, <2>2, AggregateSizes, SMTT(30)
    <3>4. /\ v2 \in WorkerType /\ v2.pc = pc /\ v2.chunk = chunk /\ v2.canonical = canonical
          /\ v2.partition = p1 /\ v2.active = active /\ v2.deferred = deferred
      BY <3>2, <3>3, WorkerWith
    <3> QED
      BY <2>2, <3>1, <3>4
  <2>6. \A i \in 1 .. Len(keys) : Hash[keys[i]].partition # p
    <3>1. Range(rows) = {}
      BY <1>9 DEF Range
    <3>2. \A i \in 1 .. Len(keys) : i \in Nat
      BY <1>5, LenProperties
    <3> QED
      BY <3>1, <3>2, <1>7
  <2>7. StartIsEmpty(agg, w, v, S, v2, S)
    BY <1>2, <1>4, <2>5, <2>6 DEF StartIsEmpty
  <2>8. Becomes(w, v2, S)
    BY <1>8, <2>3, <2>4 DEF Becomes
  <2> QED
    BY <1>1, <1>2, <1>3, <2>5, <2>7, <2>8
<1>10. CASE rows # <<>>
  <2>1. /\ MayGrow(S[p], Len(rows))
        /\ stores' = [stores EXCEPT ![w][p] = Grow(@, Len(rows))]
        /\ worker' = [worker EXCEPT ![w].pc = "probe", ![w].active = rows,
                                ![w].at = [i \in Range(rows) |-> 0]]
    BY <1>1, <1>4, <1>5, <1>6, <1>10 DEF StartPartition
  <2>2. PICK at, s2 : at = [i \in Range(rows) |-> 0] /\ s2 = Grow(S[p], Len(rows))
    OBVIOUS
  <2>3. at \in Tries /\ \A i \in Range(rows) : i \in DOMAIN at /\ at[i] = 0
    <3>1. Range(rows) \subseteq Nat
      BY <1>7 DEF Range
    <3>2. at \in [Range(rows) -> Nat] /\ DOMAIN at = Range(rows)
      BY <2>2
    <3>3. at \in Tries
      BY <3>1, <3>2 DEF Tries
    <3> QED
      BY <3>2, <3>3, <2>2
  <2>4. PICK v2 : v2 = [pc |-> "probe", chunk |-> v.chunk, partition |-> v.partition,
                        active |-> rows, deferred |-> v.deferred, at |-> at,
                        canonical |-> v.canonical]
    OBVIOUS
  <2>5. /\ v2 \in WorkerType /\ v2.pc = "probe" /\ v2.chunk = v.chunk /\ v2.canonical = v.canonical
        /\ v2.partition = p /\ v2.active = rows /\ v2.deferred = v.deferred /\ v2.at = at
    BY <1>1, <1>3, <1>4, <1>7, <2>3, <2>4 DEF WorkerType
  <2>6. worker' = [worker EXCEPT ![w] = v2]
    <3>1. PICK pc \in {"sink", "probe"}, chunk \in Nat \ {0}, partition \in 1 .. Partitions + 1,
              active \in Seq(Nat), deferred \in Seq(Nat), at0 \in Tries, canonical \in Canonical :
              v = [pc |-> pc, chunk |-> chunk, partition |-> partition, active |-> active,
                   deferred |-> deferred, at |-> at0, canonical |-> canonical]
      BY <1>1, WorkerParts
    <3>2. v2 = [pc |-> "probe", chunk |-> chunk, partition |-> partition, active |-> rows,
                deferred |-> deferred, at |-> at, canonical |-> canonical]
      BY <2>4, <3>1
    <3>3. PICK a : a = [v EXCEPT !.pc = "probe"]
      OBVIOUS
    <3>4. PICK b : b = [a EXCEPT !.active = rows]
      OBVIOUS
    <3>5. PICK c3 : c3 = [b EXCEPT !.at = at]
      OBVIOUS
    <3>6. worker' = [worker EXCEPT ![w] = c3]
      <4>1. PICK f : f = [worker EXCEPT ![w].pc = "probe"]
        OBVIOUS
      <4>2. f = [worker EXCEPT ![w] = a]
        BY <1>1, <3>3, <4>1
      <4>3. PICK h : h = [f EXCEPT ![w].active = rows]
        OBVIOUS
      <4>4. f[w] = a /\ h = [worker EXCEPT ![w] = b]
        BY <1>1, <3>4, <4>2, <4>3
      <4>5. h[w] = b /\ [h EXCEPT ![w].at = at] = [worker EXCEPT ![w] = c3]
        BY <1>1, <3>5, <4>4
      <4>6. worker' = [h EXCEPT ![w].at = at]
        BY <2>1, <2>2, <4>1, <4>3
      <4> QED
        BY <4>5, <4>6
    <3>7. a = [pc |-> "probe", chunk |-> chunk, partition |-> partition, active |-> active,
               deferred |-> deferred, at |-> at0, canonical |-> canonical]
      BY <3>1, <3>3
    <3>8. b = [pc |-> "probe", chunk |-> chunk, partition |-> partition, active |-> rows,
               deferred |-> deferred, at |-> at0, canonical |-> canonical]
      BY <3>4, <3>7
    <3>9. c3 = v2
      BY <3>2, <3>5, <3>8
    <3> QED
      BY <3>6, <3>9
  <2>7. Len(rows) \in Nat /\ p \in Parts(agg) /\ Plain(S[p]) /\ InTable(S[p])
    BY <1>1, <1>3, <1>4, <1>7, LenProperties
  <2>8. /\ Plain(s2) /\ InTable(s2) /\ s2.groups = S[p].groups /\ s2.aggs = S[p].aggs
        /\ s2.room >= Len(S[p].groups) + Len(rows)
    BY <2>1, <2>2, <2>7, GrowIs
  <2>9. PICK S2 : S2 = [S EXCEPT ![p] = s2]
    OBVIOUS
  <2>10. stores' = [stores EXCEPT ![w] = S2]
    <3>1. stores' = [stores EXCEPT ![w] = [stores[w] EXCEPT ![p] = Grow(stores[w][p], Len(rows))]]
      BY <1>1, <2>1
    <3> QED
      BY <3>1, <1>1, <2>2, <2>9
  <2>11. Changed(S, S2, p, s2) /\ S2 \in [Parts(agg) -> StoreType]
    BY <1>1, <2>7, <2>8, <2>9, ChangedIs DEF Plain, Changed
  <2>12. StartIsBatch(agg, w, v, S, v2, S2)
    BY <1>4, <1>7, <1>10, <2>3, <2>5, <2>8, <2>11 DEF StartIsBatch
  <2>13. Becomes(w, v2, S2)
    BY <1>8, <2>6, <2>10 DEF Becomes
  <2> QED
    BY <1>1, <1>2, <1>3, <2>5, <2>11, <2>12, <2>13
<1> QED
  BY <1>9, <1>10

\* The batch is answered: the table may be resized.
LEMMA EndPartitionIs ==
    ASSUME NEW w \in AggWorkers, NEW v, NEW S, Local(w, v, S), EndPartition(w),
           v.partition \in 1 .. Partitions, v.partition \in Parts(agg),
           \A p \in Parts(agg) : InTable(S[p])
    PROVE  /\ v.pc = "probe" /\ v.active = <<>>
           /\ \E v2, S2, s2 :
                /\ Becomes(w, v2, S2) /\ Changed(S, S2, v.partition, s2)
                /\ v2 \in WorkerType /\ v2.pc = "sink" /\ v2.chunk = v.chunk
                /\ v2.partition = v.partition + 1 /\ v2.active = v.active
                /\ v2.deferred = v.deferred /\ v2.canonical = v.canonical
                /\ Plain(s2) /\ InTable(s2)
                /\ s2.groups = S[v.partition].groups /\ s2.aggs = S[v.partition].aggs
                /\ s2.room = S[v.partition].room
<1>1. /\ v \in WorkerType /\ v = worker[w] /\ S = stores[w]
      /\ S \in [Parts(agg) -> StoreType] /\ worker \in [AggWorkers -> WorkerType]
      /\ stores \in [AggWorkers -> [Parts(agg) -> StoreType]] /\ \A p \in Parts(agg) : Plain(S[p])
  BY DEF Local
<1>2. PICK p : p = v.partition
  OBVIOUS
<1>3. /\ v.pc = "probe" /\ v.active = <<>>
      /\ stores' = [stores EXCEPT ![w][p] = Resize(@)]
      /\ worker' = [worker EXCEPT ![w].pc = "sink", ![w].partition = @ + 1, ![w].at = <<>>]
      /\ agg' = agg /\ global' = global /\ merge' = merge /\ reader' = reader /\ groups_out' = groups_out
  BY <1>1, <1>2 DEF EndPartition
<1>4. PICK at, s2 : at = <<>> /\ s2 = Resize(S[p])
  OBVIOUS
<1>5. at \in Tries
  <2>1. \A T : <<>> \in [{} -> T]
    OBVIOUS
  <2> QED
    BY <1>4, <2>1 DEF Tries
<1>6. PICK v2 : v2 = [pc |-> "sink", chunk |-> v.chunk, partition |-> p + 1,
                      active |-> v.active, deferred |-> v.deferred, at |-> at,
                      canonical |-> v.canonical]
  OBVIOUS
<1>7. /\ v2 \in WorkerType /\ v2.pc = "sink" /\ v2.chunk = v.chunk /\ v2.canonical = v.canonical
      /\ v2.partition = p + 1 /\ v2.active = v.active /\ v2.deferred = v.deferred
  <2>1. PICK pc \in {"sink", "probe"}, chunk \in Nat \ {0}, partition \in 1 .. Partitions + 1,
            active \in Seq(Nat), deferred \in Seq(Nat), at0 \in Tries, canonical \in Canonical :
            v = [pc |-> pc, chunk |-> chunk, partition |-> partition, active |-> active,
                 deferred |-> deferred, at |-> at0, canonical |-> canonical]
    BY <1>1, WorkerParts
  <2>2. PICK p1, sink : p1 = p + 1 /\ sink = "sink"
    OBVIOUS
  <2>3. v2 = [pc |-> sink, chunk |-> chunk, partition |-> p1, active |-> active,
              deferred |-> deferred, at |-> at, canonical |-> canonical]
    BY <1>6, <2>1, <2>2
  <2>4. p1 \in 1 .. Partitions + 1 /\ sink \in {"sink", "probe"}
    BY <1>2, <2>2, AggregateSizes
  <2>5. /\ v2 \in WorkerType /\ v2.pc = sink /\ v2.chunk = chunk /\ v2.canonical = canonical
        /\ v2.partition = p1 /\ v2.active = active /\ v2.deferred = deferred
    BY <1>5, <2>3, <2>4, WorkerWith
  <2> QED
    BY <2>1, <2>2, <2>5
<1>8. worker' = [worker EXCEPT ![w] = v2]
  <2>1. PICK pc \in {"sink", "probe"}, chunk \in Nat \ {0}, partition \in 1 .. Partitions + 1,
            active \in Seq(Nat), deferred \in Seq(Nat), at0 \in Tries, canonical \in Canonical :
            v = [pc |-> pc, chunk |-> chunk, partition |-> partition, active |-> active,
                 deferred |-> deferred, at |-> at0, canonical |-> canonical]
    BY <1>1, WorkerParts
  <2>2. v2 = [pc |-> "sink", chunk |-> chunk, partition |-> partition + 1, active |-> active,
              deferred |-> deferred, at |-> at, canonical |-> canonical]
    BY <1>2, <1>6, <2>1
  <2>3. PICK a : a = [v EXCEPT !.pc = "sink"]
    OBVIOUS
  <2>4. PICK b : b = [a EXCEPT !.partition = @ + 1]
    OBVIOUS
  <2>5. PICK c3 : c3 = [b EXCEPT !.at = at]
    OBVIOUS
  <2>6. worker' = [worker EXCEPT ![w] = c3]
    <3>1. PICK f : f = [worker EXCEPT ![w].pc = "sink"]
      OBVIOUS
    <3>2. f = [worker EXCEPT ![w] = a]
      BY <1>1, <2>3, <3>1
    <3>3. PICK h : h = [f EXCEPT ![w].partition = @ + 1]
      OBVIOUS
    <3>4. f[w] = a /\ h = [worker EXCEPT ![w] = b]
      BY <1>1, <2>4, <3>2, <3>3
    <3>5. h[w] = b /\ [h EXCEPT ![w].at = at] = [worker EXCEPT ![w] = c3]
      BY <1>1, <2>5, <3>4
    <3>6. worker' = [h EXCEPT ![w].at = at]
      BY <1>3, <1>4, <3>1, <3>3
    <3> QED
      BY <3>5, <3>6
  <2>7. a = [pc |-> "sink", chunk |-> chunk, partition |-> partition, active |-> active,
             deferred |-> deferred, at |-> at0, canonical |-> canonical]
    BY <2>1, <2>3
  <2>8. b = [pc |-> "sink", chunk |-> chunk, partition |-> partition + 1, active |-> active,
             deferred |-> deferred, at |-> at0, canonical |-> canonical]
    BY <2>4, <2>7
  <2>9. c3 = v2
    <3>1. PICK q : q = partition + 1
      OBVIOUS
    <3>2. c3 = [pc |-> "sink", chunk |-> chunk, partition |-> q, active |-> active,
                deferred |-> deferred, at |-> at, canonical |-> canonical]
      BY <2>5, <2>8, <3>1
    <3> QED
      BY <2>2, <3>1, <3>2
  <2> QED
    BY <2>6, <2>9
<1>9. p \in Parts(agg) /\ Plain(S[p]) /\ InTable(S[p])
  BY <1>1, <1>2
<1>10. /\ Plain(s2) /\ InTable(s2) /\ s2.groups = S[p].groups /\ s2.aggs = S[p].aggs
       /\ s2.room = S[p].room
  BY <1>4, <1>9, ResizeIs
<1>11. PICK S2 : S2 = [S EXCEPT ![p] = s2]
  OBVIOUS
<1>12. stores' = [stores EXCEPT ![w] = S2]
  <2>1. stores' = [stores EXCEPT ![w] = [stores[w] EXCEPT ![p] = Resize(stores[w][p])]]
    BY <1>1, <1>3
  <2> QED
    BY <2>1, <1>1, <1>4, <1>11
<1>13. Changed(S, S2, p, s2)
  BY <1>1, <1>9, <1>10, <1>11, ChangedIs DEF Plain
<1>14. Becomes(w, v2, S2)
  BY <1>3, <1>8, <1>12 DEF Becomes
<1> QED
  BY <1>2, <1>3, <1>7, <1>10, <1>13, <1>14

\* The rows of a batch that have no answer yet.
Waiting(v) == Range(v.active) \cup Range(v.deferred)

\* Min of two numbers.
LEMMA SmallerOf ==
    ASSUME NEW m \in Nat, NEW n \in Nat
    PROVE  Min({m, n}) \in {m, n} /\ Min({m, n}) <= m /\ Min({m, n}) <= n
<1>1. \E x \in {m, n} : \A y \in {m, n} : x <= y
  <2>1. CASE m <= n
    BY <2>1
  <2>2. CASE ~(m <= n)
    BY <2>2
  <2> QED
    BY <2>1, <2>2
<1> QED
  BY <1>1 DEF Min

\* The vector of a batch, and what is left of the batch.
FirstRows(s, m) == SubSeq(s, 1, m)
OtherRows(s, m) == SubSeq(s, m + 1, Len(s))

\* A batch is its vector and the rest.
LEMMA SplitIs ==
    ASSUME NEW s \in Seq(Nat), NEW m \in 1 .. Len(s), NEW vector, vector = FirstRows(s, m),
           NEW rest, rest = OtherRows(s, m)
    PROVE  /\ vector \in Seq(Nat) /\ Len(vector) = m
           /\ rest \in Seq(Nat) /\ Len(rest) = Len(s) - m
           /\ Range(s) = Range(vector) \cup Range(rest)
<1>1. PICK L \in Nat : L = Len(s)
  BY LenProperties
<1>2. /\ m \in 1 .. L /\ \A i \in 1 .. L : s[i] \in Nat
      /\ DOMAIN s = 1 .. L
  BY <1>1, LenProperties, ElementOfSeq
<1>3. vector \in Seq(Nat) /\ Len(vector) = m /\ \A i \in 1 .. m : vector[i] = s[i]
  <2>1. \A i \in 1 .. m : s[i] \in Nat
    BY <1>2
  <2>2. /\ SubSeq(s, 1, m) \in Seq(Nat)
        /\ Len(SubSeq(s, 1, m)) = IF 1 <= m THEN m - 1 + 1 ELSE 0
        /\ \A i \in 1 .. m - 1 + 1 : SubSeq(s, 1, m)[i] = s[1 + i - 1]
    BY <1>2, <2>1, SubSeqProperties
  <2> QED
    BY <1>2, <2>2 DEF FirstRows
<1>4. /\ rest \in Seq(Nat) /\ Len(rest) = L - m /\ L - m \in Nat
      /\ \A i \in 1 .. L - m : rest[i] = s[i + m]
  <2>1. \A i \in m + 1 .. L : s[i] \in Nat
    BY <1>2
  <2>2. /\ SubSeq(s, m + 1, L) \in Seq(Nat)
        /\ Len(SubSeq(s, m + 1, L)) = IF m + 1 <= L THEN L - (m + 1) + 1 ELSE 0
        /\ \A i \in 1 .. L - (m + 1) + 1 : SubSeq(s, m + 1, L)[i] = s[(m + 1) + i - 1]
    BY <1>2, <2>1, SubSeqProperties
  <2>3. rest = SubSeq(s, m + 1, L)
    BY <1>1 DEF OtherRows
  <2>4. \A i \in 1 .. L - m : i \in 1 .. L - (m + 1) + 1 /\ (m + 1) + i - 1 = i + m
    BY <1>2
  <2> QED
    BY <1>2, <2>2, <2>3, <2>4
<1>7. DOMAIN vector = 1 .. m /\ DOMAIN rest = 1 .. L - m
  BY <1>3, <1>4, LenProperties
<1>8. ASSUME NEW x \in Range(s) PROVE x \in Range(vector) \cup Range(rest)
  <2>1. PICK i \in 1 .. L : x = s[i]
    BY <1>2 DEF Range
  <2>2. CASE i <= m
    <3>1. i \in 1 .. m /\ vector[i] = x
      BY <1>2, <1>3, <2>1, <2>2
    <3> QED
      BY <3>1, <1>7 DEF Range
  <2>3. CASE i > m
    <3>1. i - m \in 1 .. L - m /\ (i - m) + m = i
      BY <1>2, <2>1, <2>3
    <3>2. rest[i - m] = x
      BY <1>4, <2>1, <3>1
    <3> QED
      BY <1>7, <3>1, <3>2 DEF Range
  <2> QED
    BY <2>2, <2>3, <1>2
<1>9. ASSUME NEW x \in Range(vector) \cup Range(rest) PROVE x \in Range(s)
  <2>1. CASE x \in Range(vector)
    <3>1. PICK i \in 1 .. m : x = vector[i]
      BY <2>1, <1>7 DEF Range
    <3>2. i \in 1 .. L /\ x = s[i]
      BY <3>1, <1>2, <1>3
    <3> QED
      BY <3>2, <1>2 DEF Range
  <2>2. CASE x \in Range(rest)
    <3>1. PICK i \in 1 .. L - m : x = rest[i]
      BY <2>2, <1>7 DEF Range
    <3>2. i + m \in 1 .. L /\ x = s[i + m]
      BY <3>1, <1>2, <1>4, SMTT(30)
    <3> QED
      BY <3>2, <1>2 DEF Range
  <2> QED
    BY <1>9, <2>1, <2>2
<1> QED
  BY <1>1, <1>3, <1>4, <1>8, <1>9

\* The elements of two sequences, one after the other.
LEMMA JoinIs ==
    ASSUME NEW s \in Seq(Nat), NEW t \in Seq(Nat), NEW u, u = s \o t
    PROVE  u \in Seq(Nat) /\ Len(u) = Len(s) + Len(t) /\ Range(u) = Range(s) \cup Range(t)
<1>1. PICK L \in Nat, M \in Nat : L = Len(s) /\ M = Len(t)
  BY LenProperties
<1>2. /\ DOMAIN s = 1 .. L /\ DOMAIN t = 1 .. M
      /\ u \in Seq(Nat) /\ Len(u) = L + M /\ DOMAIN u = 1 .. L + M
      /\ \A i \in 1 .. L + M : u[i] = IF i <= L THEN s[i] ELSE t[i - L]
  BY <1>1, ConcatProperties, LenProperties
<1>3. ASSUME NEW x \in Range(s) \cup Range(t) PROVE x \in Range(u)
  <2>1. CASE x \in Range(s)
    <3>1. PICK i \in 1 .. L : x = s[i]
      BY <1>2, <2>1 DEF Range
    <3>2. i \in 1 .. L + M /\ u[i] = x
      BY <1>2, <3>1
    <3> QED
      BY <1>2, <3>2 DEF Range
  <2>2. CASE x \in Range(t)
    <3>1. PICK i \in 1 .. M : x = t[i]
      BY <1>2, <2>2 DEF Range
    <3>2. i + L \in 1 .. L + M /\ ~(i + L <= L) /\ (i + L) - L = i
      BY <3>1
    <3>3. u[i + L] = x
      BY <1>2, <3>1, <3>2
    <3> QED
      BY <1>2, <3>2, <3>3 DEF Range
  <2> QED
    BY <1>3, <2>1, <2>2
<1>4. ASSUME NEW x \in Range(u) PROVE x \in Range(s) \cup Range(t)
  <2>1. PICK i \in 1 .. L + M : x = u[i]
    BY <1>2 DEF Range
  <2>2. CASE i <= L
    <3>1. i \in 1 .. L /\ x = s[i]
      BY <1>2, <2>1, <2>2
    <3> QED
      BY <1>2, <3>1 DEF Range
  <2>3. CASE ~(i <= L)
    <3>1. i - L \in 1 .. M /\ x = t[i - L]
      BY <1>2, <2>1, <2>3, SMTT(30)
    <3> QED
      BY <1>2, <3>1 DEF Range
  <2> QED
    BY <2>2, <2>3
<1> QED
  BY <1>1, <1>2, <1>3, <1>4

\* A vector of a batch: some of its rows have an answer, the others look further.
ProbeIs(a, w, v, s, v2, s2) ==
    /\ Extended(s, s2)
    /\ \A x \in Len(s.groups) + 1 .. Len(s2.groups) :
          \E i \in Waiting(v) : s2.groups[x] = KeysOf(a, w, v.chunk)[i]
    /\ \A i \in Waiting(v2) : /\ i \in Waiting(v) /\ i \in DOMAIN v2.at
                              /\ Passed(s2, KeysOf(a, w, v.chunk)[i], v2.at[i])
    /\ \A i \in Waiting(v) : i \in Waiting(v2) \cup DOMAIN v2.canonical
    /\ DOMAIN v.canonical \subseteq DOMAIN v2.canonical
    /\ \A i \in DOMAIN v2.canonical :
          \/ /\ i \in Waiting(v)
             /\ \E r \in 1 .. Len(s2.groups) :
                   /\ v2.canonical[i] = <<v.partition, r>>
                   /\ s2.groups[r] = KeysOf(a, w, v.chunk)[i]
          \/ i \in DOMAIN v.canonical /\ v2.canonical[i] = v.canonical[i]
    /\ v2.active = <<>> => v2.deferred = <<>>
    /\ Len(s2.groups) + Len(v2.active) + Len(v2.deferred)
          <= Len(s.groups) + Len(v.active) + Len(v.deferred)

\* The numbers of rows: m of a batch are handled, some of which become rows of the store.
LEMMA ProbeCounts ==
    ASSUME NEW active \in Nat, NEW deferred \in Nat, NEW m \in 0 .. active, NEW rows \in Nat,
           NEW rows2 \in Nat, NEW further \in Nat, rows2 + further <= rows + m
    PROVE  rows2 + (active - m) + (deferred + further) <= rows + active + deferred
OBVIOUS

\* What ProbeVector does to the store and the rows of the batch.
LEMMA ProbeVectorIs ==
    ASSUME NEW w \in AggWorkers, NEW v, NEW S, Local(w, v, S), ProbeVector(w),
           agg.kind = "hash", v.chunk \in 1 .. Len(agg.input[w]), v.partition \in 1 .. Partitions,
           \A p \in Parts(agg) : InTable(S[p]),
           \A i \in Waiting(v) :
              /\ i \in 1 .. Len(KeysOf(agg, w, v.chunk)) /\ i \in DOMAIN v.at
              /\ Passed(S[v.partition], KeysOf(agg, w, v.chunk)[i], v.at[i])
    PROVE  /\ v.pc = "probe" /\ v.active # <<>>
           /\ \E v2, S2, s2 :
                /\ Becomes(w, v2, S2) /\ Changed(S, S2, v.partition, s2)
                /\ v2 \in WorkerType /\ v2.pc = "probe" /\ v2.chunk = v.chunk
                /\ v2.partition = v.partition
                /\ ProbeIs(agg, w, v, S[v.partition], v2, s2)
<1>1. /\ agg \in AggCases /\ v \in WorkerType /\ v = worker[w] /\ S = stores[w]
      /\ S \in [Parts(agg) -> StoreType] /\ worker \in [AggWorkers -> WorkerType]
      /\ stores \in [AggWorkers -> [Parts(agg) -> StoreType]] /\ \A p \in Parts(agg) : Plain(S[p])
  BY DEF Local
<1>2. PICK keys, p, s : keys = KeysOf(agg, w, v.chunk) /\ p = v.partition /\ s = S[p]
  OBVIOUS
<1>3. /\ keys = GroupsOfChunk(w) /\ keys \in Seq(DOMAIN Hash)
      /\ \A i \in 1 .. Len(keys) : keys[i] \in DOMAIN Hash
      /\ p \in Parts(agg) /\ Plain(s) /\ InTable(s)
  BY <1>1, <1>2, CaseFacts, CaseOfModel, KeysFacts
<1>4. PICK active \in Seq(Nat), deferred \in Seq(Nat), at \in Tries, canonical \in Canonical :
          active = v.active /\ deferred = v.deferred /\ at = v.at /\ canonical = v.canonical
  BY <1>1 DEF WorkerType
<1>5. PICK L \in Nat, D \in Nat : L = Len(active) /\ D = Len(deferred)
  BY <1>4, LenProperties
<1> DEFINE vector == SubSeq(worker[w].active, 1, Min({Lanes, Len(worker[w].active)}))
           rest == SubSeq(worker[w].active, Len(vector) + 1, Len(worker[w].active))
           after == Probed(stores[w][worker[w].partition], vector, GroupsOfChunk(w), worker[w].at)
           further == after.missed \o after.unequal
           more == worker[w].deferred \o further
           first == IF rest = <<>> THEN more ELSE rest
           second == IF rest = <<>> THEN <<>> ELSE more
           tries == [i \in DOMAIN worker[w].at |->
                        IF i \in Range(further) THEN worker[w].at[i] + 1 ELSE worker[w].at[i]]
           answers == [i \in DOMAIN worker[w].canonical \cup DOMAIN after.found |->
                          IF i \in DOMAIN after.found
                          THEN <<worker[w].partition, after.found[i]>>
                          ELSE worker[w].canonical[i]]
<1>6. /\ worker[w].pc = "probe" /\ worker[w].active # <<>>
      /\ \A i \in Range(vector) : worker[w].at[i] < SlotCount(stores[w][worker[w].partition])
      /\ stores' = [stores EXCEPT ![w][worker[w].partition] = after.store]
      /\ agg' = agg /\ global' = global /\ merge' = merge /\ reader' = reader /\ groups_out' = groups_out
  BY DEF ProbeVector
<1>7. worker' = [worker EXCEPT
                ![w].active = first,
                ![w].deferred = second,
                ![w].at = tries, ![w].canonical = answers]
  BY DEF ProbeVector
<1>8. /\ vector = SubSeq(active, 1, Min({Lanes, L}))
      /\ rest = SubSeq(active, Len(vector) + 1, L)
      /\ after = Probed(s, vector, keys, at)
      /\ more = deferred \o further
  BY <1>1, <1>2, <1>3, <1>4, <1>5
<1> HIDE DEF vector, rest, after, further, more
<1>9. /\ DOMAIN tries = DOMAIN at
      /\ \A i \in DOMAIN at : tries[i] = IF i \in Range(further) THEN at[i] + 1 ELSE at[i]
  BY <1>1, <1>4
<1>10. /\ DOMAIN answers = DOMAIN canonical \cup DOMAIN after.found
       /\ \A i \in DOMAIN after.found : answers[i] = <<p, after.found[i]>>
       /\ \A i \in DOMAIN canonical : i \notin DOMAIN after.found => answers[i] = canonical[i]
  BY <1>1, <1>2, <1>4
<1>11. PICK first1, second1, tries1, answers1 :
           first1 = first /\ second1 = second /\ tries1 = tries /\ answers1 = answers
  OBVIOUS
<1> HIDE DEF first, second, tries, answers
<1>12. PICK v2 : v2 = [pc |-> "probe", chunk |-> v.chunk, partition |-> p, active |-> first1,
                       deferred |-> second1, at |-> tries1, canonical |-> answers1]
  OBVIOUS
<1>13. worker' = [worker EXCEPT ![w] = v2]
  <2>1. PICK pc \in {"sink", "probe"}, chunk \in Nat \ {0}, partition \in 1 .. Partitions + 1,
            a0 \in Seq(Nat), d0 \in Seq(Nat), at0 \in Tries, c0 \in Canonical :
            v = [pc |-> pc, chunk |-> chunk, partition |-> partition, active |-> a0,
                 deferred |-> d0, at |-> at0, canonical |-> c0]
    BY <1>1, WorkerParts
  <2>2. pc = "probe" /\ partition = p
    BY <1>1, <1>2, <1>6, <2>1
  <2>3a. PICK a : a = [v EXCEPT !.active = first1]
    OBVIOUS
  <2>3b. PICK b : b = [a EXCEPT !.deferred = second1]
    OBVIOUS
  <2>3c. PICK c : c = [b EXCEPT !.at = tries1]
    OBVIOUS
  <2>3. PICK d : d = [c EXCEPT !.canonical = answers1]
    OBVIOUS
  <2>4. a = [pc |-> pc, chunk |-> chunk, partition |-> partition, active |-> first1,
             deferred |-> d0, at |-> at0, canonical |-> c0]
    BY <2>1, <2>3a
  <2>5. b = [pc |-> pc, chunk |-> chunk, partition |-> partition, active |-> first1,
             deferred |-> second1, at |-> at0, canonical |-> c0]
    BY <2>3b, <2>4
  <2>6. c = [pc |-> pc, chunk |-> chunk, partition |-> partition, active |-> first1,
             deferred |-> second1, at |-> tries1, canonical |-> c0]
    BY <2>3c, <2>5
  <2>7. d = [pc |-> pc, chunk |-> chunk, partition |-> partition, active |-> first1,
             deferred |-> second1, at |-> tries1, canonical |-> answers1]
    BY <2>3, <2>6
  <2>8. d = v2
    BY <1>12, <2>1, <2>2, <2>7
  <2>9. PICK f1, f2, f3 :
            /\ f1 = [worker EXCEPT ![w].active = first1]
            /\ f2 = [f1 EXCEPT ![w].deferred = second1]
            /\ f3 = [f2 EXCEPT ![w].at = tries1]
    OBVIOUS
  <2>10. f1 = [worker EXCEPT ![w] = a]
    BY <1>1, <2>3a, <2>9
  <2>11. f1[w] = a /\ f2 = [worker EXCEPT ![w] = b]
    BY <1>1, <2>3b, <2>9, <2>10
  <2>12. f2[w] = b /\ f3 = [worker EXCEPT ![w] = c]
    BY <1>1, <2>3c, <2>9, <2>11
  <2>13. worker' = [f3 EXCEPT ![w].canonical = answers1]
    BY <1>7, <1>11, <2>9
  <2>14. f3[w] = c /\ worker' = [worker EXCEPT ![w] = d]
    BY <1>1, <2>3, <2>12, <2>13
  <2> QED
    BY <2>8, <2>14
<1>14. PICK S2 : S2 = [S EXCEPT ![p] = after.store]
  OBVIOUS
<1>15. stores' = [stores EXCEPT ![w] = S2]
  BY <1>1, <1>2, <1>6, <1>14
<1>16. Becomes(w, v2, S2)
  BY <1>6, <1>13, <1>15 DEF Becomes
<1>17. PICK m \in 1 .. L : m = Min({Lanes, L})
  <2>1. Lanes \in Nat \ {0}
    BY AggregateSizes
  <2>2. L # 0
    BY <1>1, <1>4, <1>5, <1>6, EmptySeq
  <2>3. Min({Lanes, L}) \in {Lanes, L} /\ Min({Lanes, L}) <= L
    BY <1>5, <2>1, SmallerOf
  <2> QED
    BY <2>1, <2>2, <2>3
<1>18. /\ vector \in Seq(Nat) /\ Len(vector) = m
       /\ rest \in Seq(Nat) /\ Len(rest) = L - m
       /\ Range(active) = Range(vector) \cup Range(rest)
  <2>1. PICK a, b : a = FirstRows(active, m) /\ b = OtherRows(active, m)
    OBVIOUS
  <2>2. /\ a \in Seq(Nat) /\ Len(a) = m /\ b \in Seq(Nat) /\ Len(b) = L - m
        /\ Range(active) = Range(a) \cup Range(b)
    <3>1. m \in 1 .. Len(active)
      BY <1>5, <1>17
    <3>2. /\ a \in Seq(Nat) /\ Len(a) = m /\ b \in Seq(Nat) /\ Len(b) = Len(active) - m
          /\ Range(active) = Range(a) \cup Range(b)
      BY <2>1, <3>1, SplitIs, SMTT(30)
    <3> QED
      BY <1>5, <3>2
  <2>3. vector = a /\ rest = b
    <3>1. vector = a
      BY <1>8, <1>17, <2>1 DEF FirstRows
    <3>2. rest = SubSeq(active, m + 1, Len(active))
      BY <1>5, <1>8, <2>2, <3>1
    <3> QED
      BY <2>1, <3>1, <3>2 DEF OtherRows
  <2> QED
    BY <2>2, <2>3
<1>19. Waiting(v) = Range(active) \cup Range(deferred)
  BY <1>4 DEF Waiting
<1>20. \A i \in Waiting(v) : /\ i \in 1 .. Len(keys) /\ i \in DOMAIN at /\ at[i] \in Nat /\ i \in Nat
                             /\ Passed(s, keys[i], at[i]) /\ keys[i] \in DOMAIN Hash
  <2>1. DOMAIN at \subseteq Nat /\ \A i \in DOMAIN at : at[i] \in Nat
    <3>1. PICK E \in SUBSET Nat : at \in [E -> Nat]
      BY DEF Tries
    <3> QED
      BY <3>1
  <2> QED
    BY <1>2, <1>3, <1>4, <2>1
<1>21. \A j \in 1 .. m : vector[j] \in Range(vector) /\ vector[j] \in Waiting(v)
  <2>1. DOMAIN vector = 1 .. m
    BY <1>18, LenProperties
  <2> QED
    BY <2>1, <1>18, <1>19 DEF Range
<1>22. VectorAt(s, vector, keys, at)
  <2>1. \A i \in Range(vector) : at[i] < SlotCount(s)
    BY <1>1, <1>2, <1>4, <1>6
  <2>2. SlotCount(s) \in Nat
    BY <1>3, StoreFacts
  <2>3. ASSUME NEW j \in 1 .. m
        PROVE  /\ keys[vector[j]] \in DOMAIN Hash
               /\ at[vector[j]] \in 0 .. SlotCount(s) - 1
               /\ Passed(s, keys[vector[j]], at[vector[j]])
    <3>1. PICK i : i = vector[j]
      OBVIOUS
    <3>2. i \in Range(vector) /\ i \in Waiting(v)
      BY <1>21, <3>1
    <3> QED
      BY <1>20, <2>1, <2>2, <3>1, <3>2, SMTT(30)
  <2> QED
    BY <1>18, <2>3 DEF VectorAt
<1>23. LanesDone(s, vector, keys, at, m, after)
  BY <1>3, <1>8, <1>18, <1>22, ProbedIs
<1>24. PICK s2, found, missed, unequal :
          s2 = after.store /\ found = after.found /\ missed = after.missed /\ unequal = after.unequal
  OBVIOUS
<1>25. /\ missed \in Seq(Nat) /\ unequal \in Seq(Nat) /\ found \in UNION {[E -> Nat] : E \in SUBSET Nat}
       /\ Extended(s, s2)
       /\ \A x \in Len(s.groups) + 1 .. Len(s2.groups) :
             \E j \in 1 .. m : s2.groups[x] = keys[vector[j]]
       /\ \A j \in 1 .. m :
             vector[j] \in DOMAIN found \cup Range(missed) \cup Range(unequal)
       /\ \A i \in DOMAIN found :
             /\ \E j \in 1 .. m : i = vector[j]
             /\ found[i] \in 1 .. Len(s2.groups)
             /\ s2.groups[found[i]] = keys[i]
       /\ \A i \in Range(missed) \cup Range(unequal) :
             /\ \E j \in 1 .. m : i = vector[j]
             /\ Passed(s2, keys[i], at[i] + 1)
       /\ Len(s2.groups) + Len(missed) + Len(unequal) <= Len(s.groups) + m
  BY <1>23, <1>24 DEF LanesDone, LaneStates
<1>26. /\ further \in Seq(Nat) /\ Len(further) = Len(missed) + Len(unequal)
       /\ Range(further) = Range(missed) \cup Range(unequal)
  <2>1. further = missed \o unequal
    BY <1>24 DEF further
  <2> QED
    BY <1>25, <2>1, JoinIs
<1>27. /\ more \in Seq(Nat) /\ Len(more) = D + Len(further)
       /\ Range(more) = Range(deferred) \cup Range(further)
  <2>1. more = deferred \o further
    BY <1>4, <1>8
  <2>2. deferred \in Seq(Nat) /\ Len(deferred) = D
    BY <1>4, <1>5
  <2> HIDE DEF more
  <2> QED
    BY <1>26, <2>1, <2>2, JoinIs
<1>28. /\ first1 \in Seq(Nat) /\ second1 \in Seq(Nat)
       /\ Range(first1) \cup Range(second1) = Range(rest) \cup Range(more)
       /\ Len(first1) + Len(second1) = Len(rest) + Len(more)
       /\ first1 = <<>> => second1 = <<>>
  <2>1. <<>> \in Seq(Nat) /\ Len(<<>>) = 0
    OBVIOUS
  <2>2. Range(<<>>) = {}
    BY DEF Range
  <2>3. Len(rest) \in Nat /\ Len(more) \in Nat
    BY <1>18, <1>27, LenProperties
  <2>4. CASE rest = <<>>
    BY <1>11, <1>27, <2>1, <2>2, <2>3, <2>4 DEF first, second
  <2>5. CASE rest # <<>>
    BY <1>11, <1>18, <1>27, <2>3, <2>5 DEF first, second
  <2> QED
    BY <2>4, <2>5
<1>29. /\ tries1 \in Tries /\ DOMAIN tries1 = DOMAIN at
       /\ \A i \in DOMAIN at : tries1[i] = IF i \in Range(further) THEN at[i] + 1 ELSE at[i]
  <2>1. PICK E \in SUBSET Nat : at \in [E -> Nat]
    BY DEF Tries
  <2>2. \A i \in E : (IF i \in Range(further) THEN at[i] + 1 ELSE at[i]) \in Nat
    BY <2>1
  <2>3. tries = [i \in E |-> IF i \in Range(further) THEN at[i] + 1 ELSE at[i]]
    BY <1>1, <1>4, <2>1 DEF tries
  <2>4. tries \in [E -> Nat]
    BY <2>2, <2>3
  <2>5. tries1 \in Tries
    BY <1>11, <2>4 DEF Tries
  <2> QED
    BY <1>11, <2>1, <2>3, <2>5
<1>30. /\ answers1 \in Canonical /\ DOMAIN answers1 = DOMAIN canonical \cup DOMAIN found
       /\ \A i \in DOMAIN found : answers1[i] = <<p, found[i]>>
       /\ \A i \in DOMAIN canonical : i \notin DOMAIN found => answers1[i] = canonical[i]
  <2>1. PICK E \in SUBSET Nat : canonical \in [E -> Nat \X Nat]
    BY DEF Canonical
  <2>2. PICK F \in SUBSET Nat : found \in [F -> Nat]
    BY <1>25
  <2>3. p \in Nat
    BY <1>1, <1>3, CaseFacts
  <2>4. \A i \in E \cup F : (IF i \in F THEN <<p, found[i]>> ELSE canonical[i]) \in Nat \X Nat
    BY <2>1, <2>2, <2>3
  <2>5. answers = [i \in E \cup F |-> IF i \in F THEN <<p, found[i]>> ELSE canonical[i]]
    BY <1>1, <1>2, <1>4, <1>24, <2>1, <2>2 DEF answers
  <2>6. answers \in [E \cup F -> Nat \X Nat]
    BY <2>4, <2>5
  <2>7. answers1 \in Canonical
    BY <1>11, <2>6 DEF Canonical
  <2>8. /\ \A i \in F : answers[i] = <<p, found[i]>>
        /\ \A i \in E : i \notin F => answers[i] = canonical[i]
        /\ DOMAIN answers = E \cup F
    BY <2>5
  <2> QED
    BY <1>11, <2>1, <2>2, <2>7, <2>8
<1>31. /\ v2 \in WorkerType /\ v2.pc = "probe" /\ v2.chunk = v.chunk /\ v2.partition = p
       /\ v2.active = first1 /\ v2.deferred = second1 /\ v2.at = tries1 /\ v2.canonical = answers1
  <2>1. v.chunk \in Nat \ {0} /\ p \in 1 .. Partitions + 1
    BY <1>1, <1>2 DEF WorkerType
  <2>2. PICK pc, chunk : pc = "probe" /\ chunk = v.chunk
    OBVIOUS
  <2>3. pc \in {"sink", "probe"} /\ chunk \in Nat \ {0}
    BY <2>1, <2>2
  <2>4. v2 = [pc |-> pc, chunk |-> chunk, partition |-> p, active |-> first1,
              deferred |-> second1, at |-> tries1, canonical |-> answers1]
    BY <1>12, <2>2
  <2>5. /\ v2 \in WorkerType /\ v2.pc = pc /\ v2.chunk = chunk /\ v2.partition = p
        /\ v2.active = first1 /\ v2.deferred = second1 /\ v2.at = tries1 /\ v2.canonical = answers1
    BY <1>28, <1>29, <1>30, <2>1, <2>3, <2>4, WorkerWith
  <2> QED
    BY <2>2, <2>5
<1>32. ProbeIs(agg, w, v, s, v2, s2)
  <2>1. Waiting(v2) = Range(rest) \cup Range(deferred) \cup Range(further)
    BY <1>27, <1>28, <1>31 DEF Waiting
  <2>2. ASSUME NEW x \in Len(s.groups) + 1 .. Len(s2.groups)
        PROVE  \E i \in Waiting(v) : s2.groups[x] = keys[i]
    BY <1>21, <1>25
  <2>3. \A i \in Range(further) : i \in Waiting(v)
    BY <1>21, <1>25, <1>26
  <2>4. ASSUME NEW i \in Waiting(v2)
        PROVE  i \in Waiting(v) /\ i \in DOMAIN tries1 /\ Passed(s2, keys[i], tries1[i])
    <3>1. i \in Waiting(v)
      BY <1>18, <1>19, <2>1, <2>3
    <3>2. i \in DOMAIN at /\ at[i] \in Nat /\ Passed(s, keys[i], at[i]) /\ keys[i] \in DOMAIN Hash
      BY <1>20, <3>1
    <3>3. CASE i \in Range(further)
      BY <1>25, <1>26, <1>29, <3>1, <3>2, <3>3
    <3>4. CASE i \notin Range(further)
      <4>1. tries1[i] = at[i] /\ i \in DOMAIN tries1
        BY <1>29, <3>2, <3>4
      <4>2. Passed(s2, keys[i], at[i])
        BY <1>3, <1>25, <3>2, PassedStays
      <4> QED
        BY <3>1, <4>1, <4>2
    <3> QED
      BY <3>3, <3>4
  <2>5. ASSUME NEW i \in Waiting(v)
        PROVE  i \in Waiting(v2) \cup DOMAIN answers1
    <3>1. CASE i \in Range(vector)
      <4>1. PICK j \in 1 .. m : i = vector[j]
        <5>1. DOMAIN vector = 1 .. m
          BY <1>18, LenProperties
        <5> QED
          BY <3>1, <5>1 DEF Range
      <4> QED
        BY <4>1, <1>25, <1>26, <1>30, <2>1
    <3>2. CASE i \notin Range(vector)
      BY <1>18, <1>19, <2>1, <3>2
    <3> QED
      BY <3>1, <3>2
  <2>6. ASSUME NEW i \in DOMAIN answers1
        PROVE  \/ /\ i \in Waiting(v)
                  /\ \E r \in 1 .. Len(s2.groups) : answers1[i] = <<p, r>> /\ s2.groups[r] = keys[i]
               \/ i \in DOMAIN canonical /\ answers1[i] = canonical[i]
    <3>1. CASE i \in DOMAIN found
      <4>1. i \in Waiting(v)
        BY <1>21, <1>25, <3>1
      <4>2. answers1[i] = <<p, found[i]>> /\ found[i] \in 1 .. Len(s2.groups) /\ s2.groups[found[i]] = keys[i]
        BY <1>25, <1>30, <3>1
      <4> QED
        BY <4>1, <4>2
    <3>2. CASE i \notin DOMAIN found
      BY <1>30, <3>2
    <3> QED
      BY <3>1, <3>2
  <2>7. Len(s2.groups) + Len(first1) + Len(second1) <= Len(s.groups) + L + D
    <3>1. PICK mi \in Nat, un \in Nat, fu \in Nat, rows \in Nat, rows2 \in Nat :
              /\ mi = Len(missed) /\ un = Len(unequal) /\ fu = Len(further)
              /\ rows = Len(s.groups) /\ rows2 = Len(s2.groups)
      BY <1>3, <1>25, <1>26, StoreFacts, LenProperties DEF Extended
    <3>2. fu = mi + un /\ rows2 + mi + un <= rows + m
      BY <1>25, <1>26, <3>1
    <3>3. rows2 + fu <= rows + m /\ m \in 0 .. L
      BY <3>2, <1>5, SMTT(30)
    <3>4. rows2 + (L - m) + (D + fu) <= rows + L + D
      BY <3>3, <1>5, ProbeCounts
    <3>5. PICK a \in Nat, b \in Nat : a = Len(first1) /\ b = Len(second1)
      BY <1>28, LenProperties
    <3>6. a + b = (L - m) + (D + fu)
      BY <1>18, <1>27, <1>28, <3>1, <3>5
    <3>7. rows2 + a + b <= rows + L + D
      BY <3>4, <3>5, <3>6
    <3> QED
      BY <3>1, <3>5, <3>7
  <2>8. keys = KeysOf(agg, w, v.chunk)
    BY <1>2
  <2>9. /\ \A x \in Len(s.groups) + 1 .. Len(s2.groups) :
             \E i \in Waiting(v) : s2.groups[x] = KeysOf(agg, w, v.chunk)[i]
        /\ \A i \in Waiting(v2) : /\ i \in Waiting(v) /\ i \in DOMAIN v2.at
                                  /\ Passed(s2, KeysOf(agg, w, v.chunk)[i], v2.at[i])
    BY <1>31, <2>2, <2>4, <2>8
  <2>10. /\ \A i \in Waiting(v) : i \in Waiting(v2) \cup DOMAIN v2.canonical
         /\ DOMAIN v.canonical \subseteq DOMAIN v2.canonical
    BY <1>4, <1>30, <1>31, <2>5
  <2>11. \A i \in DOMAIN v2.canonical :
            \/ /\ i \in Waiting(v)
               /\ \E r \in 1 .. Len(s2.groups) :
                     /\ v2.canonical[i] = <<v.partition, r>>
                     /\ s2.groups[r] = KeysOf(agg, w, v.chunk)[i]
            \/ i \in DOMAIN v.canonical /\ v2.canonical[i] = v.canonical[i]
    <3>1. ASSUME NEW i \in DOMAIN answers1
          PROVE  \/ /\ i \in Waiting(v)
                    /\ \E r \in 1 .. Len(s2.groups) :
                          /\ answers1[i] = <<v.partition, r>>
                          /\ s2.groups[r] = KeysOf(agg, w, v.chunk)[i]
                 \/ i \in DOMAIN v.canonical /\ answers1[i] = v.canonical[i]
      BY <1>2, <1>4, <2>6, <2>8
    <3>2. answers1 = v2.canonical
      BY <1>31
    <3> QED
      BY <3>1, <3>2
  <2>12. v2.active = <<>> => v2.deferred = <<>>
    BY <1>28, <1>31
  <2>13. Len(s2.groups) + Len(v2.active) + Len(v2.deferred)
            <= Len(s.groups) + Len(v.active) + Len(v.deferred)
    BY <1>4, <1>5, <1>31, <2>7
  <2> QED
    BY <1>25, <2>9, <2>10, <2>11, <2>12, <2>13 DEF ProbeIs
<1>33. Changed(S, S2, p, s2)
  <2>1. s2 \in StoreType
    BY <1>25 DEF Extended, Plain
  <2> QED
    BY <1>1, <1>3, <1>14, <1>24, <2>1, ChangedIs
<1> QED
  BY <1>1, <1>2, <1>4, <1>6, <1>16, <1>31, <1>32, <1>33

\* The aggregates of a chunk, once every row of it has an answer.
UpdatesIs(w, v, s, s2, p) ==
    /\ Plain(s2) /\ (InTable(s) => InTable(s2))
    /\ s2.groups = s.groups /\ s2.room = s.room
    /\ \A r \in 1 .. Len(s.groups) : s2.aggs[r] =
          s.aggs[r] (+) SetToBag(RowsTo(w, v.chunk, v.canonical, p, r))

\* What UpdateAggregates does: a new chunk begins, the aggregates have the rows of the old.
LEMMA UpdateAggregatesIs ==
    ASSUME NEW w \in AggWorkers, NEW v, NEW S, Local(w, v, S), UpdateAggregates(w)
    PROVE  /\ agg.kind = "hash" /\ v.pc = "sink" /\ v.partition = Partitions + 1
           /\ \E v2, S2 :
                /\ v2 = [StartOfChunk EXCEPT !.chunk = v.chunk + 1]
                /\ S2 \in [Parts(agg) -> StoreType]
                /\ Becomes(w, v2, S2)
                /\ \A p \in Parts(agg) : UpdatesIs(w, v, S[p], S2[p], p)
<1>1. /\ agg \in AggCases /\ v \in WorkerType /\ v = worker[w] /\ S = stores[w]
      /\ S \in [Parts(agg) -> StoreType] /\ worker \in [AggWorkers -> WorkerType]
      /\ stores \in [AggWorkers -> [Parts(agg) -> StoreType]] /\ \A p \in Parts(agg) : Plain(S[p])
  BY DEF Local
<1>2. agg.kind = "hash" /\ v.pc = "sink" /\ v.partition > Partitions
  BY <1>1 DEF UpdateAggregates, IsHash
<1>3. v.partition = Partitions + 1 /\ v.chunk \in Nat
  <2>1. v.partition \in 1 .. Partitions + 1 /\ v.chunk \in Nat
    BY <1>1 DEF WorkerType
  <2>2. Partitions \in Nat
    BY AggregateSizes
  <2> QED
    BY <1>2, <2>1, <2>2
<1>4. PICK c, canonical : c = v.chunk /\ canonical = v.canonical
  OBVIOUS
<1>5. c \in Nat /\ DOMAIN canonical \subseteq Nat
  <2>1. v.canonical \in Canonical
    BY <1>1 DEF WorkerType
  <2>2. PICK E \in SUBSET Nat : canonical \in [E -> Nat \X Nat]
    BY <1>4, <2>1 DEF Canonical
  <2> QED
    BY <1>3, <1>4, <2>2
<1>6. PICK S2 : S2 = Updated(S, w, c, canonical)
  OBVIOUS
<1>7. PICK D : D = Parts(agg)
  OBVIOUS
<1>8. DOMAIN S = D /\ \A p \in D : Plain(S[p])
  BY <1>1, <1>7
<1>9. /\ S2 = [p \in D |-> S2[p]]
      /\ \A p \in D :
            /\ Plain(S2[p])
            /\ InTable(S[p]) => InTable(S2[p])
            /\ S2[p].groups = S[p].groups /\ S2[p].room = S[p].room
            /\ \A r \in 1 .. Len(S[p].groups) : S2[p].aggs[r] =
                  S[p].aggs[r] (+) SetToBag(RowsTo(w, c, canonical, p, r))
  BY <1>5, <1>6, <1>8, UpdatedIs
<1>10. S2 \in [D -> StoreType]
  <2>1. \A p \in D : S2[p] \in StoreType
    BY <1>9 DEF Plain
  <2>2. PICK T : T = S2
    OBVIOUS
  <2>3. T = [p \in D |-> S2[p]]
    BY <1>9, <2>2
  <2>4. T \in [D -> StoreType]
    BY <2>1, <2>3
  <2> QED
    BY <2>2, <2>4
<1>11. stores' = [stores EXCEPT ![w] = S2]
  BY <1>1, <1>4, <1>6 DEF UpdateAggregates
<1>12. worker' = [worker EXCEPT ![w] = [StartOfChunk EXCEPT !.chunk = v.chunk + 1]]
  BY <1>1 DEF UpdateAggregates, NextChunk
<1>13. Becomes(w, [StartOfChunk EXCEPT !.chunk = v.chunk + 1], S2)
  BY <1>11, <1>12 DEF Becomes, UpdateAggregates
<1>14. \A p \in D : UpdatesIs(w, v, S[p], S2[p], p)
  BY <1>4, <1>9 DEF UpdatesIs
<1> QED
  BY <1>2, <1>3, <1>7, <1>10, <1>13, <1>14

------------------------------------------------------------------------------
(* What a COMBINE task does.                                                 *)

\* The cursor of a COMBINE task.
MergeType == [slot : Nat \ {0}, row : Nat \ {0}]

\* The shared partitions, and the local rows they are made of.
Shared ==
    /\ agg \in AggCases
    /\ stores \in [AggWorkers -> [Parts(agg) -> StoreType]]
    /\ \A w \in AggWorkers, p \in Parts(agg) : Plain(stores[w][p])
    /\ global \in [Parts(agg) -> StoreType]
    /\ \A p \in Parts(agg) : Plain(global[p])
    /\ merge \in [Parts(agg) -> MergeType]
Merges(p, m2, s2) ==
    /\ merge' = [merge EXCEPT ![p] = m2] /\ m2 \in MergeType
    /\ global' = [global EXCEPT ![p] = s2] /\ s2 \in StoreType
    /\ agg' = agg /\ worker' = worker /\ stores' = stores
    /\ reader' = reader /\ groups_out' = groups_out

\* The same as AbsorbIs for the array of row indices.
LEMMA AbsorbDirectIs ==
    ASSUME NEW s, Plain(s), NEW g \in DOMAIN Hash, NEW bag \in Bag
    PROVE  /\ Plain(AbsorbDirect(s, g, bag)) /\ Puts(s, AbsorbDirect(s, g, bag), g, bag)
           /\ AbsorbDirect(s, g, bag).slots = s.slots
<1>1. PICK groups, aggs, room, slots :
          groups = s.groups /\ aggs = s.aggs /\ room = s.room /\ slots = s.slots
  OBVIOUS
<1>2. PICK L \in Nat : /\ L = Len(groups) /\ L = Len(aggs) /\ DOMAIN groups = 1 .. L /\ DOMAIN aggs = 1 .. L
                       /\ groups \in Seq(DOMAIN Hash) /\ aggs \in Seq(Bag)
                       /\ \A x \in 1 .. L : aggs[x] \in Bag
                       /\ room \in Nat \ {0}
  BY <1>1, StoreFacts
<1>3. /\ \A x, y \in 1 .. L : groups[x] = groups[y] => x = y
      /\ s \in StoreType /\ slots \in UNION {[0 .. n - 1 -> Nat] : n \in Powers}
  BY <1>1, <1>2 DEF Plain, StoreType
<1>4. s = [groups |-> groups, aggs |-> aggs, room |-> room, slots |-> slots]
  BY <1>1, <1>3 DEF StoreType
<1>5. Contains(groups, g) <=> \E x \in 1 .. L : groups[x] = g
  BY <1>2 DEF Contains
<1>6. CASE Contains(groups, g)
  <2>1. PICK x \in 1 .. L : groups[x] = g
    BY <1>5, <1>6
  <2>2. RowOf(groups, g) = x
    BY <1>2, <1>3, <2>1, RowOfIs
  <2>3. AbsorbDirect(s, g, bag) = [s EXCEPT !.aggs[x] = @ (+) bag]
    BY <1>1, <1>6, <2>2 DEF AbsorbDirect
  <2>4. PICK aggs2 : aggs2 = [aggs EXCEPT ![x] = @ (+) bag]
    OBVIOUS
  <2>5. AbsorbDirect(s, g, bag) = [s EXCEPT !.aggs = aggs2]
    BY <1>1, <2>3, <2>4
  <2>6. aggs2 \in Seq(Bag) /\ Len(aggs2) = L
    <3>1. aggs[x] (+) bag \in Bag
      BY <1>2, BagSum
    <3>2. PICK sum \in Bag : sum = aggs[x] (+) bag
      BY <3>1
    <3>3. aggs2 = [aggs EXCEPT ![x] = sum]
      BY <2>4, <3>2
    <3> QED
      BY <1>2, <3>3, ExceptSeq
  <2>7. PICK t : t = [s EXCEPT !.aggs = aggs2]
    OBVIOUS
  <2>8. Plain(t) /\ t.groups = groups /\ t.aggs = aggs2 /\ t.slots = slots
    BY <1>1, <1>2, <2>6, <2>7, WithAggregates
  <2>9. Puts(s, t, g, bag)
    BY <1>1, <1>2, <2>1, <2>4, <2>8 DEF Puts
  <2> QED
    BY <1>1, <2>5, <2>7, <2>8, <2>9
<1>7. CASE ~Contains(groups, g)
  <2>1. PICK groups2, aggs2 : groups2 = Append(groups, g) /\ aggs2 = Append(aggs, bag)
    OBVIOUS
  <2>2. AbsorbDirect(s, g, bag) =
            [groups |-> groups2, aggs |-> aggs2, room |-> room, slots |-> slots]
    BY <1>1, <1>4, <1>7, <2>1 DEF AbsorbDirect
  <2>3. PICK t : t = [groups |-> groups2, aggs |-> aggs2, room |-> room, slots |-> slots]
    OBVIOUS
  <2>4. /\ groups2 \in Seq(DOMAIN Hash) /\ Len(groups2) = L + 1
        /\ aggs2 \in Seq(Bag) /\ Len(aggs2) = L + 1
        /\ \A x \in 1 .. L : groups2[x] = groups[x] /\ groups2[L + 1] = g
    BY <1>2, <2>1, AppendProperties
  <2>5. t \in StoreType /\ t.groups = groups2 /\ t.aggs = aggs2 /\ t.slots = slots
    BY <1>2, <1>3, <2>3, <2>4 DEF StoreType
  <2>6. groups2[L + 1] = g
    BY <1>2, <2>1, AppendProperties
  <2>7. ASSUME NEW x \in 1 .. L + 1, NEW y \in 1 .. L + 1, groups2[x] = groups2[y]
        PROVE  x = y
    <3>1. \A z \in 1 .. L : groups[z] # g
      BY <1>5, <1>7
    <3>2. CASE x = L + 1
      BY <2>4, <2>6, <2>7, <3>1, <3>2
    <3>3. CASE y = L + 1
      BY <2>4, <2>6, <2>7, <3>1, <3>3
    <3>4. CASE x # L + 1 /\ y # L + 1
      <4>1. x \in 1 .. L /\ y \in 1 .. L
        BY <3>4
      <4> QED
        BY <4>1, <1>3, <2>4, <2>7
    <3> QED
      BY <3>2, <3>3, <3>4
  <2>8. Plain(t)
    BY <2>4, <2>5, <2>7 DEF Plain
  <2>9. Puts(s, t, g, bag)
    BY <1>1, <1>2, <1>5, <1>7, <2>1, <2>5 DEF Puts
  <2> QED
    BY <1>1, <2>2, <2>3, <2>5, <2>8, <2>9
<1> QED
  BY <1>6, <1>7

\* A local row goes into the row of its group.
LEMMA CombineRowIs ==
    ASSUME Shared, NEW p \in Parts(agg), CombineRow(p),
           agg.kind # "perfect" => InTable(global[p])
    PROVE  /\ SinkDone /\ merge[p].slot \in Sources(agg) /\ merge[p].slot \in AggWorkers
           /\ merge[p].row \in 1 .. Len(stores[merge[p].slot][p].groups)
           /\ \E m2, s2 :
                 /\ Merges(p, m2, s2)
                 /\ m2.slot = merge[p].slot /\ m2.row = merge[p].row + 1
                 /\ Plain(s2)
                 /\ agg.kind # "perfect" => InTable(s2) /\ Len(s2.groups) <= s2.room
                 /\ agg.kind = "perfect" => s2.slots = global[p].slots
                 /\ Puts(global[p], s2, stores[merge[p].slot][p].groups[merge[p].row],
                         stores[merge[p].slot][p].aggs[merge[p].row])
<1>1. PICK m, w, r, from, g, bag :
          /\ m = merge[p] /\ w = m.slot /\ r = m.row /\ from = stores[w][p]
          /\ g = from.groups[r] /\ bag = from.aggs[r]
  OBVIOUS
<1>2. w \in Nat \ {0} /\ r \in Nat \ {0} /\ m \in MergeType
  BY <1>1 DEF Shared, MergeType
<1>3. /\ SinkDone /\ w \in Sources(agg) /\ r <= Len(from.groups)
      /\ agg.kind = "perfect" \/ MayAbsorb(global[p], g)
      /\ global' = [global EXCEPT ![p] =
                IF agg.kind = "perfect" THEN AbsorbDirect(@, g, bag) ELSE Absorb(@, g, bag)]
      /\ merge' = [merge EXCEPT ![p].row = r + 1]
      /\ agg' = agg /\ worker' = worker /\ stores' = stores /\ reader' = reader /\ groups_out' = groups_out
  <2>1. MergeSources = Sources(agg)
    BY CaseOfModel DEF Shared
  <2> QED
    BY <1>1, <2>1 DEF CombineRow, MergeDone
<1>4. w \in AggWorkers
  BY <1>3, WorkerOne DEF Sources
<1>5. Plain(from) /\ Plain(global[p]) /\ global \in [Parts(agg) -> StoreType]
  BY <1>1, <1>4 DEF Shared
<1>6. r \in 1 .. Len(from.groups) /\ g \in DOMAIN Hash /\ bag \in Bag
  <2>1. Len(from.groups) \in Nat
    BY <1>5, StoreFacts
  <2>2. r \in 1 .. Len(from.groups)
    BY <1>2, <1>3, <2>1
  <2>3. from.groups[r] \in DOMAIN Hash /\ from.aggs[r] \in Bag
    BY <1>5, <2>2, StoreFacts
  <2> QED
    BY <1>1, <2>2, <2>3
<1>7. PICK s2 : s2 = IF agg.kind = "perfect" THEN AbsorbDirect(global[p], g, bag)
                     ELSE Absorb(global[p], g, bag)
  OBVIOUS
<1>8. /\ Plain(s2) /\ Puts(global[p], s2, g, bag)
      /\ agg.kind # "perfect" => InTable(s2) /\ Len(s2.groups) <= s2.room
      /\ agg.kind = "perfect" => s2.slots = global[p].slots
  <2>1. CASE agg.kind = "perfect"
    BY <1>5, <1>6, <1>7, <2>1, AbsorbDirectIs
  <2>2. CASE agg.kind # "perfect"
    BY <1>3, <1>5, <1>6, <1>7, <2>2, AbsorbIs
  <2> QED
    BY <2>1, <2>2
<1>9. global' = [global EXCEPT ![p] = s2] /\ s2 \in StoreType
  BY <1>3, <1>5, <1>7, <1>8 DEF Plain
<1>10. PICK m2 : m2 = [slot |-> w, row |-> r + 1]
  OBVIOUS
<1>11. m2 \in MergeType /\ m2.slot = w /\ m2.row = r + 1
  BY <1>2, <1>10 DEF MergeType
<1>12. merge' = [merge EXCEPT ![p] = m2]
  <2>1. [m EXCEPT !.row = r + 1] = m2
    BY <1>1, <1>2, <1>10 DEF MergeType
  <2>2. merge' = [merge EXCEPT ![p] = [m EXCEPT !.row = r + 1]]
    BY <1>1, <1>3
  <2> QED
    BY <2>1, <2>2
<1> QED
  BY <1>1, <1>3, <1>4, <1>6, <1>8, <1>9, <1>11, <1>12 DEF Merges

\* A COMBINE task goes on to the next worker when it has read all rows of one.
LEMMA CombineNextIs ==
    ASSUME Shared, NEW p \in Parts(agg), CombineNextWorker(p)
    PROVE  /\ SinkDone /\ merge[p].slot \in Sources(agg) /\ merge[p].slot \in AggWorkers
           /\ merge[p].row > Len(stores[merge[p].slot][p].groups)
           /\ \E m2 : /\ Merges(p, m2, global[p])
                      /\ m2.slot = merge[p].slot + 1 /\ m2.row = 1
<1>1. PICK m, w, r : m = merge[p] /\ w = m.slot /\ r = m.row
  OBVIOUS
<1>2. w \in Nat \ {0} /\ r \in Nat \ {0} /\ m \in MergeType
  BY <1>1 DEF Shared, MergeType
<1>3. /\ SinkDone /\ w \in Sources(agg) /\ r > Len(stores[w][p].groups)
      /\ merge' = [merge EXCEPT ![p] = [slot |-> w + 1, row |-> 1]]
      /\ agg' = agg /\ worker' = worker /\ stores' = stores /\ global' = global
      /\ reader' = reader /\ groups_out' = groups_out
  <2>1. MergeSources = Sources(agg)
    BY CaseOfModel DEF Shared
  <2> QED
    BY <1>1, <2>1 DEF CombineNextWorker, MergeDone
<1>4. w \in AggWorkers
  BY <1>3, WorkerOne DEF Sources
<1>5. PICK m2 : m2 = [slot |-> w + 1, row |-> 1]
  OBVIOUS
<1>6. m2 \in MergeType /\ m2.slot = w + 1 /\ m2.row = 1
  BY <1>2, <1>5 DEF MergeType
<1>7. global' = [global EXCEPT ![p] = global[p]] /\ global[p] \in StoreType
  BY <1>3 DEF Shared
<1> QED
  BY <1>1, <1>3, <1>4, <1>5, <1>6, <1>7 DEF Merges

------------------------------------------------------------------------------
(* The inductive invariant, first part: the stores are right, and so is what *)
(* a worker knows of them in the middle of a chunk.                          *)

\* A store holds groups of the input, those of its partition, and has room for them.
SlotsHoldRows(s) == \A z \in DOMAIN s.slots : s.slots[z] \in 0 .. Len(s.groups)
StoreOK(a, p, s) ==
    /\ Plain(s) /\ SlotsHoldRows(s)
    /\ a.kind = "hash" => /\ InTable(s) /\ Len(s.groups) <= s.room
                          /\ \A r \in 1 .. Len(s.groups) : Hash[s.groups[r]].partition = p
    /\ \A r \in 1 .. Len(s.groups) : \E x \in RowsIn(a) : KeyOf(a, x) = s.groups[r]

\* In a batch: a row that waits has only looked at rows of other groups, every row of the
\* partition waits or has its answer, and there is room if all that wait are new groups.
BatchOK(a, w, v, s) ==
    /\ v.partition \in 1 .. Partitions
    /\ v.active = <<>> => v.deferred = <<>>
    /\ \A i \in Waiting(v) : /\ i \in 1 .. Len(KeysOf(a, w, v.chunk)) /\ i \in DOMAIN v.at
                             /\ Hash[KeysOf(a, w, v.chunk)[i]].partition = v.partition
                             /\ Passed(s, KeysOf(a, w, v.chunk)[i], v.at[i])
    /\ \A i \in 1 .. Len(KeysOf(a, w, v.chunk)) :
          Hash[KeysOf(a, w, v.chunk)[i]].partition = v.partition =>
              i \in Waiting(v) \cup DOMAIN v.canonical
    /\ Len(s.groups) + Len(v.active) + Len(v.deferred) <= s.room

\* The answers of a chunk stay right while stores move, and none is missing.
Answered(a, w, v, S) ==
    \A i \in DOMAIN v.canonical :
        /\ i \in 1 .. Len(KeysOf(a, w, v.chunk))
        /\ \E p \in Parts(a) : \E r \in 1 .. Len(S[p].groups) :
              v.canonical[i] = <<p, r>> /\ S[p].groups[r] = KeysOf(a, w, v.chunk)[i]
WorkerOK(a, w, v, S) ==
    /\ v.chunk \in 1 .. Len(a.input[w]) + 1
    /\ v.pc = "probe" \/ v.partition > 1 \/ DOMAIN v.canonical # {} =>
          a.kind = "hash" /\ v.chunk <= Len(a.input[w])
    /\ v.pc = "sink" => v.active = <<>> /\ v.deferred = <<>>
    /\ v.pc = "probe" => BatchOK(a, w, v, S[v.partition])
    /\ Answered(a, w, v, S)
    /\ a.kind = "hash" /\ v.chunk <= Len(a.input[w]) =>
          \A i \in 1 .. Len(KeysOf(a, w, v.chunk)) :
              Hash[KeysOf(a, w, v.chunk)[i]].partition < v.partition => i \in DOMAIN v.canonical

\* A shared partition: that of an aggregate without group columns has a hash table, too.
GlobalOK(a, p, s) ==
    /\ StoreOK(a, p, s)
    /\ a.kind # "perfect" => InTable(s)

\* All of it: the stores of the workers, the workers, and the shared partitions.
Shape ==
    /\ agg \in AggCases
    /\ worker \in [AggWorkers -> WorkerType]
    /\ stores \in [AggWorkers -> [Parts(agg) -> StoreType]]
    /\ global \in [Parts(agg) -> StoreType]
    /\ merge \in [Parts(agg) -> MergeType]
    /\ \A w \in AggWorkers, p \in Parts(agg) : StoreOK(agg, p, stores[w][p])
    /\ \A w \in AggWorkers : WorkerOK(agg, w, worker[w], stores[w])
    /\ \A p \in Parts(agg) : GlobalOK(agg, p, global[p])

\* A table's slots hold rows.
LEMMA TableHoldsRows ==
    ASSUME NEW s, InTable(s)
    PROVE  SlotsHoldRows(s)
BY DEF InTable, Table, SlotsHoldRows

\* The slots of a store without a hash table are not used.
LEMMA SlotsStay ==
    ASSUME NEW s, SlotsHoldRows(s), NEW s2, s2.slots = s.slots,
           Len(s.groups) \in Nat, Len(s2.groups) \in Nat, Len(s.groups) <= Len(s2.groups)
    PROVE  SlotsHoldRows(s2)
<1>1. PICK slots : slots = s.slots
  OBVIOUS
<1>2. \A z \in DOMAIN slots : slots[z] \in 0 .. Len(s2.groups)
  BY <1>1 DEF SlotsHoldRows
<1> QED
  BY <1>1, <1>2 DEF SlotsHoldRows

\* Empty stores are right.
LEMMA NewStoreOK ==
    ASSUME NEW a, NEW p
    PROVE  StoreOK(a, p, NewStore) /\ GlobalOK(a, p, NewStore)
<1>1. PICK s : s = NewStore
  OBVIOUS
<1>2. Plain(s) /\ InTable(s) /\ s.groups = <<>>
  BY <1>1, NewStoreIs
<1>3. Len(s.groups) = 0
  BY <1>2
<1>4. s.room \in Nat
  BY <1>2, StoreFacts
<1>5. StoreOK(a, p, s) /\ GlobalOK(a, p, s)
  BY <1>2, <1>3, <1>4, TableHoldsRows DEF StoreOK, GlobalOK
<1> QED
  BY <1>1, <1>5

\* A worker at the start of a chunk is right.
LEMMA StartOK ==
    ASSUME NEW a \in AggCases, NEW w \in AggWorkers, NEW c \in 1 .. Len(a.input[w]) + 1,
           NEW v, v = [StartOfChunk EXCEPT !.chunk = c], NEW S
    PROVE  v \in WorkerType /\ WorkerOK(a, w, v, S)
<1>1. c \in Nat \ {0}
  BY CaseFacts
<1>2. /\ v \in WorkerType /\ v.pc = "sink" /\ v.chunk = c /\ v.partition = 1
      /\ v.active = <<>> /\ v.deferred = <<>> /\ DOMAIN v.canonical = {}
  BY <1>1, StartIs
<1>3. ASSUME a.kind = "hash", c <= Len(a.input[w]), NEW i \in 1 .. Len(KeysOf(a, w, c)),
             Hash[KeysOf(a, w, c)[i]].partition < 1
      PROVE  FALSE
  <2>1. KeysOf(a, w, c)[i] \in DOMAIN Hash
    BY <1>1, <1>3, CaseFacts, KeysFacts
  <2>2. Hash[KeysOf(a, w, c)[i]].partition \in 1 .. Partitions
    BY <2>1, HashAssumption
  <2> QED
    BY <1>3, <2>2, AggregateSizes
<1> QED
  BY <1>2, <1>3 DEF WorkerOK, Answered

\* The invariant holds at first.
LEMMA ShapeInit == AggregateInit => Shape
<1> SUFFICES ASSUME AggregateInit PROVE Shape
  OBVIOUS
<1>1. /\ agg \in AggCases
      /\ worker = [w \in AggWorkers |-> StartOfChunk]
      /\ stores = [w \in AggWorkers |-> [p \in Parts(agg) |-> NewStore]]
      /\ global = [p \in Parts(agg) |-> NewStore]
      /\ merge = [p \in Parts(agg) |-> [slot |-> 1, row |-> 1]]
  BY CaseOfModel DEF AggregateInit
<1>2. NewStore \in StoreType
  BY NewStoreIs DEF Plain
<1>3. [slot |-> 1, row |-> 1] \in MergeType
  BY DEF MergeType
<1>4. ASSUME NEW w \in AggWorkers, NEW S
      PROVE  StartOfChunk \in WorkerType /\ WorkerOK(agg, w, StartOfChunk, S)
  <2>1. StartOfChunk = [StartOfChunk EXCEPT !.chunk = 1]
    BY DEF StartOfChunk
  <2>2. 1 \in 1 .. Len(agg.input[w]) + 1
    BY <1>1, CaseFacts
  <2> QED
    BY <1>1, <2>1, <2>2, StartOK
<1>5. /\ worker \in [AggWorkers -> WorkerType]
      /\ \A w \in AggWorkers : WorkerOK(agg, w, worker[w], stores[w])
  BY <1>1, <1>4
<1>6. /\ stores \in [AggWorkers -> [Parts(agg) -> StoreType]]
      /\ global \in [Parts(agg) -> StoreType]
      /\ merge \in [Parts(agg) -> MergeType]
  BY <1>1, <1>2, <1>3
<1>7. /\ \A w \in AggWorkers, p \in Parts(agg) : StoreOK(agg, p, stores[w][p])
      /\ \A p \in Parts(agg) : GlobalOK(agg, p, global[p])
  BY <1>1, NewStoreOK
<1> QED
  BY <1>1, <1>5, <1>6, <1>7 DEF Shape

\* It is enough to look at the worker that made the step.
LEMMA SinkFrame ==
    ASSUME Shape, NEW w \in AggWorkers, NEW v2 \in WorkerType,
           NEW S2 \in [Parts(agg) -> StoreType], Becomes(w, v2, S2),
           \A p \in Parts(agg) : StoreOK(agg, p, S2[p]), WorkerOK(agg, w, v2, S2)
    PROVE  Shape'
<1>1. /\ agg' = agg /\ global' = global /\ merge' = merge
      /\ worker' = [worker EXCEPT ![w] = v2] /\ stores' = [stores EXCEPT ![w] = S2]
  BY DEF Becomes
<1>2. /\ worker' \in [AggWorkers -> WorkerType] /\ worker'[w] = v2
      /\ \A u \in AggWorkers : u # w => worker'[u] = worker[u]
  BY <1>1 DEF Shape
<1>3. /\ stores' \in [AggWorkers -> [Parts(agg) -> StoreType]] /\ stores'[w] = S2
      /\ \A u \in AggWorkers : u # w => stores'[u] = stores[u]
  BY <1>1 DEF Shape
<1>4. /\ \A u \in AggWorkers, p \in Parts(agg) : StoreOK(agg, p, stores'[u][p])
      /\ \A u \in AggWorkers : WorkerOK(agg, u, worker'[u], stores'[u])
  BY <1>2, <1>3 DEF Shape
<1> QED
  BY <1>1, <1>2, <1>3, <1>4 DEF Shape

\* What the invariant says of one worker and its partitions.
LEMMA LocalOfShape ==
    ASSUME Shape, NEW w \in AggWorkers, NEW v, v = worker[w], NEW S, S = stores[w]
    PROVE  /\ Local(w, v, S) /\ agg \in AggCases /\ v \in WorkerType
           /\ S \in [Parts(agg) -> StoreType]
           /\ WorkerOK(agg, w, v, S) /\ \A p \in Parts(agg) : StoreOK(agg, p, S[p])
           /\ \A p \in Parts(agg) : Plain(S[p])
           /\ agg.kind = "hash" => \A p \in Parts(agg) : InTable(S[p])
<1>1. /\ agg \in AggCases /\ v \in WorkerType /\ S \in [Parts(agg) -> StoreType]
      /\ WorkerOK(agg, w, v, S) /\ \A p \in Parts(agg) : StoreOK(agg, p, S[p])
  BY DEF Shape
<1>2. /\ \A p \in Parts(agg) : Plain(S[p])
      /\ agg.kind = "hash" => \A p \in Parts(agg) : InTable(S[p])
  BY <1>1 DEF StoreOK
<1>3. Local(w, v, S)
  BY <1>1, <1>2 DEF Shape, Local
<1> QED
  BY <1>1, <1>2, <1>3

\* SinkDirect keeps the invariant.
LEMMA SinkDirectOK ==
    ASSUME Shape, NEW w \in AggWorkers, SinkDirect(w)
    PROVE  Shape'
<1>1. PICK v, S : v = worker[w] /\ S = stores[w]
  OBVIOUS
<1>2. /\ Local(w, v, S) /\ agg \in AggCases /\ v \in WorkerType /\ S \in [Parts(agg) -> StoreType]
      /\ \A p \in Parts(agg) : StoreOK(agg, p, S[p])
  BY <1>1, LocalOfShape
<1>3. agg.kind # "hash" /\ v.chunk \in 1 .. Len(agg.input[w]) /\ Parts(agg) = {1}
  BY <1>2, SinkDirectIs, CaseFacts
<1>4. PICK v2, S2 : /\ v2 = [StartOfChunk EXCEPT !.chunk = v.chunk + 1]
                    /\ S2 \in [Parts(agg) -> StoreType]
                    /\ Becomes(w, v2, S2)
                    /\ DirectIs(agg, w, v.chunk, S[1], S2[1])
  BY <1>2, SinkDirectIs
<1>5. v2 \in WorkerType /\ WorkerOK(agg, w, v2, S2)
  <2>1. v.chunk + 1 \in 1 .. Len(agg.input[w]) + 1
    BY <1>2, <1>3, CaseFacts
  <2> QED
    BY <1>2, <1>4, <2>1, StartOK
<1>6. StoreOK(agg, 1, S2[1])
  <2>1. PICK s, s2, c : s = S[1] /\ s2 = S2[1] /\ c = v.chunk
    OBVIOUS
  <2>2. StoreOK(agg, 1, s) /\ DirectIs(agg, w, c, s, s2) /\ c \in 1 .. Len(agg.input[w])
    BY <1>2, <1>3, <1>4, <2>1
  <2>3. ASSUME NEW r \in 1 .. Len(s2.groups)
        PROVE  \E x \in RowsIn(agg) : KeyOf(agg, x) = s2.groups[r]
    <3>1. CASE r \in 1 .. Len(s.groups)
      BY <2>2, <3>1 DEF StoreOK, DirectIs
    <3>2. CASE r \notin 1 .. Len(s.groups)
      <4>1. Len(s.groups) \in Nat /\ Len(s2.groups) \in Nat
        BY <2>2, StoreFacts DEF StoreOK, DirectIs
      <4>2. r \in Len(s.groups) + 1 .. Len(s2.groups)
        BY <3>2, <4>1
      <4>3. PICK i \in 1 .. Len(KeysOf(agg, w, c)) : s2.groups[r] = KeysOf(agg, w, c)[i]
        BY <2>2, <4>2 DEF DirectIs
      <4>4. <<w, c, i>> \in RowsIn(agg) /\ KeyOf(agg, <<w, c, i>>) = s2.groups[r]
        BY <1>2, <2>2, <4>3, KeysFacts
      <4> QED
        BY <4>4
    <3> QED
      BY <3>1, <3>2
  <2>4. SlotsHoldRows(s2)
    <3>1. /\ SlotsHoldRows(s) /\ s2.slots = s.slots /\ Plain(s) /\ Plain(s2)
          /\ Len(s.groups) <= Len(s2.groups)
      BY <2>2 DEF StoreOK, DirectIs
    <3>2. Len(s.groups) \in Nat /\ Len(s2.groups) \in Nat
      BY <3>1, StoreFacts
    <3> QED
      BY <3>1, <3>2, SlotsStay
  <2> QED
    BY <1>3, <2>1, <2>2, <2>3, <2>4 DEF StoreOK, DirectIs
<1>7. \A p \in Parts(agg) : StoreOK(agg, p, S2[p])
  BY <1>3, <1>6
<1> QED
  BY <1>4, <1>5, <1>7, SinkFrame

\* UpdateAggregates keeps the invariant.
LEMMA UpdateAggregatesOK ==
    ASSUME Shape, NEW w \in AggWorkers, UpdateAggregates(w)
    PROVE  Shape'
<1>1. PICK v, S : v = worker[w] /\ S = stores[w]
  OBVIOUS
<1>2. /\ Local(w, v, S) /\ agg \in AggCases /\ v \in WorkerType /\ S \in [Parts(agg) -> StoreType]
      /\ \A p \in Parts(agg) : StoreOK(agg, p, S[p])
      /\ WorkerOK(agg, w, v, S)
  BY <1>1, LocalOfShape
<1>3. /\ agg.kind = "hash" /\ v.pc = "sink" /\ v.partition = Partitions + 1
  BY <1>2, UpdateAggregatesIs
<1>4. PICK v2, S2 : /\ v2 = [StartOfChunk EXCEPT !.chunk = v.chunk + 1]
                    /\ S2 \in [Parts(agg) -> StoreType]
                    /\ Becomes(w, v2, S2)
                    /\ \A p \in Parts(agg) : UpdatesIs(w, v, S[p], S2[p], p)
  BY <1>2, UpdateAggregatesIs
<1>5. v2 \in WorkerType /\ WorkerOK(agg, w, v2, S2)
  <2>1. v.partition > 1
    BY <1>3, AggregateSizes
  <2>2. v.chunk <= Len(agg.input[w]) /\ v.chunk \in Nat \ {0}
    BY <1>2, <2>1 DEF WorkerOK, WorkerType
  <2>3. v.chunk + 1 \in 1 .. Len(agg.input[w]) + 1
    BY <1>2, <2>2, CaseFacts
  <2> QED
    BY <1>2, <1>4, <2>3, StartOK
<1>6. ASSUME NEW p \in Parts(agg)
      PROVE  StoreOK(agg, p, S2[p])
  <2>1. PICK s, s2 : s = S[p] /\ s2 = S2[p]
    OBVIOUS
  <2>2. /\ StoreOK(agg, p, s) /\ InTable(s) /\ Plain(s2) /\ InTable(s2)
        /\ s2.groups = s.groups /\ s2.room = s.room
    BY <1>2, <1>3, <1>4, <2>1 DEF StoreOK, UpdatesIs
  <2>3. StoreOK(agg, p, s2)
    BY <2>2, TableHoldsRows DEF StoreOK
  <2> QED
    BY <2>1, <2>3
<1> QED
  BY <1>4, <1>5, <1>6, SinkFrame

\* Answers point at rows, and rows stay where they are.
Longer(groups, groups2) ==
    /\ Len(groups) \in Nat /\ Len(groups2) \in Nat /\ Len(groups) <= Len(groups2)
    /\ \A x \in 1 .. Len(groups) : groups2[x] = groups[x]

\* Answers stay right when stores get more rows.
LEMMA AnswersStay ==
    ASSUME NEW a, NEW w, NEW v, NEW S, Answered(a, w, v, S), NEW v2, NEW S2,
           v2.canonical = v.canonical, v2.chunk = v.chunk,
           \A p \in Parts(a) : Longer(S[p].groups, S2[p].groups)
    PROVE  Answered(a, w, v2, S2)
<1>1. ASSUME NEW i \in DOMAIN v.canonical
      PROVE  /\ i \in 1 .. Len(KeysOf(a, w, v.chunk))
             /\ \E p \in Parts(a) : \E r \in 1 .. Len(S2[p].groups) :
                   v.canonical[i] = <<p, r>> /\ S2[p].groups[r] = KeysOf(a, w, v.chunk)[i]
  <2>1. PICK p \in Parts(a) : \E r \in 1 .. Len(S[p].groups) :
            v.canonical[i] = <<p, r>> /\ S[p].groups[r] = KeysOf(a, w, v.chunk)[i]
    BY DEF Answered
  <2>2. PICK r \in 1 .. Len(S[p].groups) :
            v.canonical[i] = <<p, r>> /\ S[p].groups[r] = KeysOf(a, w, v.chunk)[i]
    BY <2>1
  <2>3. r \in 1 .. Len(S2[p].groups) /\ S2[p].groups[r] = S[p].groups[r]
    BY DEF Longer
  <2> QED
    BY <2>2, <2>3 DEF Answered
<1> QED
  BY <1>1 DEF Answered

\* One partition became longer.
LEMMA LongerIn ==
    ASSUME NEW S, \A p \in Parts(agg) : Plain(S[p]), NEW S2, NEW p, NEW s2,
           Changed(S, S2, p, s2), Longer(S[p].groups, s2.groups)
    PROVE  \A q \in Parts(agg) : Longer(S[q].groups, S2[q].groups)
<1>1. \A q \in Parts(agg) : Len(S[q].groups) \in Nat
  BY StoreFacts
<1> QED
  BY <1>1 DEF Changed, Longer

\* StartPartition keeps the invariant.
LEMMA StartPartitionOK ==
    ASSUME Shape, NEW w \in AggWorkers, StartPartition(w)
    PROVE  Shape'
<1>1. PICK v, S : v = worker[w] /\ S = stores[w]
  OBVIOUS
<1>2. /\ Local(w, v, S) /\ agg \in AggCases /\ v \in WorkerType /\ S \in [Parts(agg) -> StoreType]
      /\ \A p \in Parts(agg) : StoreOK(agg, p, S[p])
      /\ \A p \in Parts(agg) : Plain(S[p])
      /\ WorkerOK(agg, w, v, S)
      /\ agg.kind = "hash" => \A p \in Parts(agg) : InTable(S[p])
  BY <1>1, LocalOfShape
<1>3. agg.kind = "hash"
  BY <1>2 DEF StartPartition, IsHash
<1>4. /\ v.pc = "sink" /\ v.chunk \in 1 .. Len(agg.input[w]) /\ v.partition \in 1 .. Partitions
      /\ Parts(agg) = 1 .. Partitions
  BY <1>2, <1>3, StartPartitionIs, CaseFacts
<1>5. PICK v2, S2 :
          /\ Becomes(w, v2, S2)
          /\ v2 \in WorkerType /\ S2 \in [Parts(agg) -> StoreType]
          /\ v2.chunk = v.chunk /\ v2.canonical = v.canonical
          /\ StartIsEmpty(agg, w, v, S, v2, S2) \/ StartIsBatch(agg, w, v, S, v2, S2)
  BY <1>2, <1>3, StartPartitionIs
<1>6. PICK keys, p : keys = KeysOf(agg, w, v.chunk) /\ p = v.partition
  OBVIOUS
<1>7. /\ v.active = <<>> /\ v.deferred = <<>> /\ Answered(agg, w, v, S)
      /\ \A i \in 1 .. Len(keys) : Hash[keys[i]].partition < p => i \in DOMAIN v.canonical
      /\ v.chunk \in 1 .. Len(agg.input[w]) + 1 /\ v.chunk <= Len(agg.input[w])
      /\ p \in 1 .. Partitions
  <2>1. Len(agg.input[w]) \in Nat
    BY <1>2, CaseFacts
  <2> QED
    BY <1>2, <1>3, <1>4, <1>6, <2>1 DEF WorkerOK
<1>8. \A i \in 1 .. Len(keys) : Hash[keys[i]].partition \in Nat
  <2>1. \A i \in 1 .. Len(keys) : keys[i] \in DOMAIN Hash
    BY <1>2, <1>4, <1>6, KeysFacts
  <2>2. \A g \in DOMAIN Hash : Hash[g].partition \in 1 .. Partitions
    BY HashAssumption
  <2>3. Partitions \in Nat
    BY AggregateSizes
  <2> QED
    BY <2>1, <2>2, <2>3
<1>9. Partitions \in Nat
  BY AggregateSizes
<1>10. CASE StartIsEmpty(agg, w, v, S, v2, S2)
  <2>1. /\ \A i \in 1 .. Len(keys) : Hash[keys[i]].partition # p
        /\ S2 = S /\ v2.pc = "sink" /\ v2.partition = p + 1
        /\ v2.active = <<>> /\ v2.deferred = <<>>
    BY <1>6, <1>7, <1>10 DEF StartIsEmpty
  <2>2. \A i \in 1 .. Len(keys) : Hash[keys[i]].partition < p + 1 => i \in DOMAIN v2.canonical
    BY <1>5, <1>7, <1>8, <1>9, <2>1
  <2>3. Answered(agg, w, v2, S2)
    BY <1>5, <1>7, <2>1 DEF Answered
  <2>4. WorkerOK(agg, w, v2, S2)
    BY <1>3, <1>5, <1>6, <1>7, <2>1, <2>2, <2>3 DEF WorkerOK
  <2>5. \A q \in Parts(agg) : StoreOK(agg, q, S2[q])
    BY <1>2, <2>1
  <2> QED
    BY <1>5, <2>4, <2>5, SinkFrame
<1>11. CASE StartIsBatch(agg, w, v, S, v2, S2)
  <2>1. PICK s, s2 : /\ s = S[p] /\ Changed(S, S2, p, s2)
                     /\ Plain(s2) /\ InTable(s2)
                     /\ s2.groups = s.groups /\ s2.aggs = s.aggs
                     /\ s2.room >= Len(s2.groups) + Len(v2.active)
    BY <1>6, <1>11 DEF StartIsBatch
  <2>2. /\ v2.pc = "probe" /\ v2.partition = p
        /\ v2.active # <<>> /\ v2.deferred = <<>>
        /\ \A i \in Nat : i \in Range(v2.active) <=>
              i \in 1 .. Len(keys) /\ Hash[keys[i]].partition = p
        /\ \A i \in Range(v2.active) : i \in DOMAIN v2.at /\ v2.at[i] = 0
    BY <1>6, <1>7, <1>11 DEF StartIsBatch
  <2>3. v2.active \in Seq(Nat) /\ Range(v2.active) \subseteq Nat /\ Len(v2.active) \in Nat
    <3>1. v2.active \in Seq(Nat)
      BY <1>5 DEF WorkerType
    <3>2. \A i \in 1 .. Len(v2.active) : v2.active[i] \in Nat
      BY <3>1, ElementOfSeq
    <3>3. DOMAIN v2.active = 1 .. Len(v2.active) /\ Len(v2.active) \in Nat
      BY <3>1, LenProperties
    <3> QED
      BY <3>1, <3>2, <3>3 DEF Range
  <2>4. Waiting(v2) = Range(v2.active)
    <3>1. Range(<<>>) = {}
      BY DEF Range
    <3> QED
      BY <2>2, <3>1 DEF Waiting
  <2>5. \A i \in Waiting(v2) : /\ i \in 1 .. Len(keys) /\ i \in DOMAIN v2.at
                               /\ Hash[keys[i]].partition = p
                               /\ Passed(s2, keys[i], v2.at[i])
    <3>1. \A g : Passed(s2, g, 0)
      BY DEF Passed
    <3> QED
      BY <2>2, <2>3, <2>4, <3>1
  <2>6. \A i \in 1 .. Len(keys) : Hash[keys[i]].partition = p =>
            i \in Waiting(v2) \cup DOMAIN v2.canonical
    BY <2>2, <2>4
  <2>7. Len(s2.groups) + Len(v2.active) + Len(v2.deferred) <= s2.room
    <3>1. PICK n \in Nat, room \in Nat, a \in Nat : n = Len(s2.groups) /\ room = s2.room /\ a = Len(v2.active)
      BY <2>1, <2>3, StoreFacts
    <3>2. Len(v2.deferred) = 0
      BY <2>2
    <3>3. room >= n + a
      BY <2>1, <3>1
    <3>4. n + a + 0 <= room
      BY <3>3
    <3> QED
      BY <3>1, <3>2, <3>4
  <2>8. BatchOK(agg, w, v2, s2)
    BY <1>5, <1>6, <1>7, <2>2, <2>5, <2>6, <2>7 DEF BatchOK
  <2>9. S2[p] = s2
    BY <2>1 DEF Changed
  <2>10. Answered(agg, w, v2, S2)
    <3>1. Longer(S[p].groups, s2.groups)
      <4>1. Len(s2.groups) \in Nat
        BY <2>1, StoreFacts
      <4> QED
        BY <2>1, <4>1 DEF Longer
    <3>2. \A q \in Parts(agg) : Longer(S[q].groups, S2[q].groups)
      BY <1>2, <2>1, <3>1, LongerIn
    <3> QED
      BY <1>5, <1>7, <3>2, AnswersStay
  <2>11. \A i \in 1 .. Len(keys) : Hash[keys[i]].partition < p => i \in DOMAIN v2.canonical
    BY <1>5, <1>7
  <2>12. WorkerOK(agg, w, v2, S2)
    BY <1>3, <1>5, <1>6, <1>7, <2>2, <2>8, <2>9, <2>10, <2>11 DEF WorkerOK
  <2>13. ASSUME NEW q \in Parts(agg) PROVE StoreOK(agg, q, S2[q])
    <3>1. CASE q = p
      <4>1. StoreOK(agg, p, s)
        BY <1>2, <2>1, <3>1
      <4>2. Len(s2.groups) <= s2.room
        <5>1. PICK n \in Nat, room \in Nat, a \in Nat : n = Len(s2.groups) /\ room = s2.room /\ a = Len(v2.active)
          BY <2>1, <2>3, StoreFacts
        <5>2. room >= n + a
          BY <2>1, <5>1
        <5>3. n <= room
          BY <5>2
        <5> QED
          BY <5>1, <5>3
      <4>3. StoreOK(agg, p, s2)
        BY <2>1, <4>1, <4>2, TableHoldsRows DEF StoreOK
      <4> QED
        BY <2>9, <3>1, <4>3
    <3>2. CASE q # p
      BY <1>2, <2>1, <3>2 DEF Changed
    <3> QED
      BY <3>1, <3>2
  <2> QED
    BY <1>5, <2>12, <2>13, SinkFrame
<1> QED
  BY <1>5, <1>10, <1>11

\* EndPartition keeps the invariant.
LEMMA EndPartitionOK ==
    ASSUME Shape, NEW w \in AggWorkers, EndPartition(w)
    PROVE  Shape'
<1>1. PICK v, S : v = worker[w] /\ S = stores[w]
  OBVIOUS
<1>2. /\ Local(w, v, S) /\ agg \in AggCases /\ v \in WorkerType /\ S \in [Parts(agg) -> StoreType]
      /\ \A p \in Parts(agg) : StoreOK(agg, p, S[p])
      /\ \A p \in Parts(agg) : Plain(S[p])
      /\ WorkerOK(agg, w, v, S)
      /\ agg.kind = "hash" => \A p \in Parts(agg) : InTable(S[p])
  BY <1>1, LocalOfShape
<1>3. v.pc = "probe" /\ v.active = <<>>
  BY <1>1 DEF EndPartition
<1>4. PICK keys, p : keys = KeysOf(agg, w, v.chunk) /\ p = v.partition
  OBVIOUS
<1>5. agg.kind = "hash" /\ v.chunk <= Len(agg.input[w]) /\ BatchOK(agg, w, v, S[p])
  BY <1>2, <1>3, <1>4 DEF WorkerOK
<1>6. /\ v.chunk \in 1 .. Len(agg.input[w]) + 1 /\ v.chunk \in 1 .. Len(agg.input[w])
      /\ Parts(agg) = 1 .. Partitions /\ p \in 1 .. Partitions
      /\ v.deferred = <<>> /\ Partitions \in Nat
  <2>1. v.chunk \in 1 .. Len(agg.input[w]) + 1
    BY <1>2 DEF WorkerOK
  <2>2. p \in 1 .. Partitions /\ v.deferred = <<>>
    BY <1>3, <1>4, <1>5 DEF BatchOK
  <2> QED
    BY <1>2, <1>5, <2>1, <2>2, CaseFacts, AggregateSizes
<1>7. PICK v2, S2, s2 :
          /\ Becomes(w, v2, S2) /\ Changed(S, S2, p, s2)
          /\ v2 \in WorkerType /\ v2.pc = "sink" /\ v2.chunk = v.chunk
          /\ v2.partition = p + 1 /\ v2.active = v.active
          /\ v2.deferred = v.deferred /\ v2.canonical = v.canonical
          /\ Plain(s2) /\ InTable(s2)
          /\ s2.groups = S[p].groups /\ s2.aggs = S[p].aggs
          /\ s2.room = S[p].room
  BY <1>2, <1>4, <1>5, <1>6, EndPartitionIs
<1>8. Waiting(v) = {}
  <2>1. Range(<<>>) = {}
    BY DEF Range
  <2> QED
    BY <1>3, <1>6, <2>1 DEF Waiting
<1>9. \A i \in 1 .. Len(keys) : Hash[keys[i]].partition \in Nat
  <2>1. \A i \in 1 .. Len(keys) : keys[i] \in DOMAIN Hash
    BY <1>2, <1>4, <1>6, KeysFacts
  <2>2. \A g \in DOMAIN Hash : Hash[g].partition \in 1 .. Partitions
    BY HashAssumption
  <2> QED
    BY <1>6, <2>1, <2>2
<1>10. \A i \in 1 .. Len(keys) : Hash[keys[i]].partition < p + 1 => i \in DOMAIN v2.canonical
  <2>1. \A i \in 1 .. Len(keys) : Hash[keys[i]].partition = p => i \in DOMAIN v.canonical
    BY <1>4, <1>5, <1>8 DEF BatchOK
  <2>2. \A i \in 1 .. Len(keys) : Hash[keys[i]].partition < p => i \in DOMAIN v.canonical
    BY <1>2, <1>4, <1>5 DEF WorkerOK
  <2> QED
    BY <1>6, <1>7, <1>9, <2>1, <2>2
<1>11. Answered(agg, w, v2, S2)
  <2>1. Len(s2.groups) \in Nat
    BY <1>7, StoreFacts
  <2>2. Longer(S[p].groups, s2.groups)
    BY <1>7, <2>1 DEF Longer
  <2>3. \A q \in Parts(agg) : Longer(S[q].groups, S2[q].groups)
    BY <1>2, <1>7, <2>2, LongerIn
  <2>4. Answered(agg, w, v, S)
    BY <1>2 DEF WorkerOK
  <2> QED
    BY <1>7, <2>3, <2>4, AnswersStay
<1>12. WorkerOK(agg, w, v2, S2)
  BY <1>3, <1>4, <1>5, <1>6, <1>7, <1>10, <1>11 DEF WorkerOK
<1>13. ASSUME NEW q \in Parts(agg) PROVE StoreOK(agg, q, S2[q])
  <2>1. CASE q = p
    <3>1. PICK s : s = S[p]
      OBVIOUS
    <3>2. StoreOK(agg, p, s) /\ s2.groups = s.groups /\ s2.room = s.room
      BY <1>2, <1>7, <2>1, <3>1
    <3>3. StoreOK(agg, p, s2)
      BY <1>7, <3>2, TableHoldsRows DEF StoreOK
    <3> QED
      BY <1>7, <2>1, <3>3 DEF Changed
  <2>2. CASE q # p
    BY <1>2, <1>7, <2>2 DEF Changed
  <2> QED
    BY <2>1, <2>2
<1> QED
  BY <1>2, <1>7, <1>12, <1>13, SinkFrame DEF Changed

\* ProbeVector keeps the invariant.
LEMMA ProbeVectorOK ==
    ASSUME Shape, NEW w \in AggWorkers, ProbeVector(w)
    PROVE  Shape'
<1>1. PICK v, S : v = worker[w] /\ S = stores[w]
  OBVIOUS
<1>2. /\ Local(w, v, S) /\ agg \in AggCases /\ v \in WorkerType /\ S \in [Parts(agg) -> StoreType]
      /\ \A p \in Parts(agg) : StoreOK(agg, p, S[p])
      /\ \A p \in Parts(agg) : Plain(S[p])
      /\ WorkerOK(agg, w, v, S)
      /\ agg.kind = "hash" => \A p \in Parts(agg) : InTable(S[p])
  BY <1>1, LocalOfShape
<1>3. v.pc = "probe"
  BY <1>1 DEF ProbeVector
<1>4. PICK keys, p, s : keys = KeysOf(agg, w, v.chunk) /\ p = v.partition /\ s = S[p]
  OBVIOUS
<1>5. agg.kind = "hash" /\ v.chunk <= Len(agg.input[w]) /\ BatchOK(agg, w, v, s)
  BY <1>2, <1>3, <1>4 DEF WorkerOK
<1>6. /\ v.chunk \in 1 .. Len(agg.input[w]) + 1 /\ v.chunk \in 1 .. Len(agg.input[w])
      /\ Parts(agg) = 1 .. Partitions /\ p \in 1 .. Partitions /\ Partitions \in Nat
  <2>1. v.chunk \in 1 .. Len(agg.input[w]) + 1
    BY <1>2 DEF WorkerOK
  <2>2. p \in 1 .. Partitions
    BY <1>4, <1>5 DEF BatchOK
  <2> QED
    BY <1>2, <1>5, <2>1, <2>2, CaseFacts, AggregateSizes
<1>7. /\ \A i \in Waiting(v) : /\ i \in 1 .. Len(keys) /\ i \in DOMAIN v.at
                               /\ Hash[keys[i]].partition = p
                               /\ Passed(s, keys[i], v.at[i])
      /\ \A i \in 1 .. Len(keys) : Hash[keys[i]].partition = p =>
            i \in Waiting(v) \cup DOMAIN v.canonical
      /\ Len(s.groups) + Len(v.active) + Len(v.deferred) <= s.room
  BY <1>4, <1>5 DEF BatchOK
<1>8. PICK v2, S2, s2 :
          /\ Becomes(w, v2, S2) /\ Changed(S, S2, p, s2)
          /\ v2 \in WorkerType /\ v2.pc = "probe" /\ v2.chunk = v.chunk
          /\ v2.partition = p
          /\ ProbeIs(agg, w, v, s, v2, s2)
  BY <1>2, <1>4, <1>5, <1>6, <1>7, ProbeVectorIs
<1>9. /\ Plain(s2) /\ InTable(s2) /\ s2.room = s.room
      /\ Len(s.groups) <= Len(s2.groups)
      /\ \A x \in 1 .. Len(s.groups) : s2.groups[x] = s.groups[x]
  BY <1>8 DEF ProbeIs, Extended
<1>10. /\ Len(s.groups) \in Nat /\ Len(s2.groups) \in Nat /\ s.room \in Nat
       /\ Len(v.active) \in Nat /\ Len(v.deferred) \in Nat
       /\ Len(v2.active) \in Nat /\ Len(v2.deferred) \in Nat
  <2>1. Plain(s)
    BY <1>2, <1>4, <1>6
  <2>2. v.active \in Seq(Nat) /\ v.deferred \in Seq(Nat) /\ v2.active \in Seq(Nat) /\ v2.deferred \in Seq(Nat)
    BY <1>2, <1>8 DEF WorkerType
  <2> QED
    BY <1>9, <2>1, <2>2, StoreFacts, LenProperties
<1>11. Longer(s.groups, s2.groups)
  BY <1>9, <1>10 DEF Longer
<1>12. /\ \A x \in Len(s.groups) + 1 .. Len(s2.groups) :
             \E i \in Waiting(v) : s2.groups[x] = keys[i]
       /\ \A i \in Waiting(v2) : /\ i \in Waiting(v) /\ i \in DOMAIN v2.at
                                 /\ Passed(s2, keys[i], v2.at[i])
       /\ \A i \in Waiting(v) : i \in Waiting(v2) \cup DOMAIN v2.canonical
       /\ DOMAIN v.canonical \subseteq DOMAIN v2.canonical
       /\ \A i \in DOMAIN v2.canonical :
             \/ /\ i \in Waiting(v)
                /\ \E r \in 1 .. Len(s2.groups) :
                      v2.canonical[i] = <<p, r>> /\ s2.groups[r] = keys[i]
             \/ i \in DOMAIN v.canonical /\ v2.canonical[i] = v.canonical[i]
       /\ v2.active = <<>> => v2.deferred = <<>>
       /\ Len(s2.groups) + Len(v2.active) + Len(v2.deferred)
             <= Len(s.groups) + Len(v.active) + Len(v.deferred)
  BY <1>4, <1>8 DEF ProbeIs
<1>13. BatchOK(agg, w, v2, s2)
  <2>1. Len(s2.groups) + Len(v2.active) + Len(v2.deferred) <= s2.room
    <3>1. PICK n \in Nat, n2 \in Nat, a \in Nat, d \in Nat, a2 \in Nat, d2 \in Nat, room \in Nat :
              /\ n = Len(s.groups) /\ n2 = Len(s2.groups) /\ room = s.room
              /\ a = Len(v.active) /\ d = Len(v.deferred)
              /\ a2 = Len(v2.active) /\ d2 = Len(v2.deferred)
      BY <1>10
    <3>2. n2 + a2 + d2 <= n + a + d /\ n + a + d <= room
      BY <1>7, <1>12, <3>1
    <3>3. n2 + a2 + d2 <= room
      BY <3>2
    <3> QED
      BY <1>9, <3>1, <3>3
  <2>2. \A i \in Waiting(v2) : /\ i \in 1 .. Len(keys) /\ i \in DOMAIN v2.at
                               /\ Hash[keys[i]].partition = p
                               /\ Passed(s2, keys[i], v2.at[i])
    BY <1>7, <1>12
  <2>3. \A i \in 1 .. Len(keys) : Hash[keys[i]].partition = p =>
            i \in Waiting(v2) \cup DOMAIN v2.canonical
    BY <1>7, <1>12
  <2> QED
    BY <1>4, <1>6, <1>8, <1>12, <2>1, <2>2, <2>3 DEF BatchOK
<1>14. S2[p] = s2
  BY <1>8 DEF Changed
<1>15. Answered(agg, w, v2, S2)
  <2>1. \A q \in Parts(agg) : Longer(S[q].groups, S2[q].groups)
    BY <1>2, <1>4, <1>8, <1>11, LongerIn
  <2>2. PICK v3 : v3 = [chunk |-> v.chunk, canonical |-> v.canonical]
    OBVIOUS
  <2>3. Answered(agg, w, v3, S2)
    <3>1. Answered(agg, w, v, S)
      BY <1>2 DEF WorkerOK
    <3> QED
      BY <2>1, <2>2, <3>1, AnswersStay
  <2>4. ASSUME NEW i \in DOMAIN v2.canonical
        PROVE  /\ i \in 1 .. Len(keys)
               /\ \E q \in Parts(agg) : \E r \in 1 .. Len(S2[q].groups) :
                     v2.canonical[i] = <<q, r>> /\ S2[q].groups[r] = keys[i]
    <3>1. CASE /\ i \in Waiting(v)
               /\ \E r \in 1 .. Len(s2.groups) :
                      v2.canonical[i] = <<p, r>> /\ s2.groups[r] = keys[i]
      <4>1. \E r \in 1 .. Len(S2[p].groups) :
                      v2.canonical[i] = <<p, r>> /\ S2[p].groups[r] = keys[i]
        BY <1>14, <3>1
      <4> QED
        BY <1>6, <1>7, <3>1, <4>1
    <3>2. CASE i \in DOMAIN v.canonical /\ v2.canonical[i] = v.canonical[i]
      BY <1>4, <2>2, <2>3, <3>2 DEF Answered
    <3> QED
      BY <1>12, <3>1, <3>2
  <2> QED
    BY <1>4, <1>8, <2>4 DEF Answered
<1>16. \A i \in 1 .. Len(keys) : Hash[keys[i]].partition < p => i \in DOMAIN v2.canonical
  BY <1>2, <1>4, <1>5, <1>12 DEF WorkerOK
<1>17. WorkerOK(agg, w, v2, S2)
  BY <1>4, <1>5, <1>6, <1>8, <1>13, <1>14, <1>15, <1>16 DEF WorkerOK
<1>18. StoreOK(agg, p, s2)
  <2>1. StoreOK(agg, p, s)
    BY <1>2, <1>4, <1>6
  <2>2. Len(s2.groups) <= s2.room
    <3>1. PICK n2 \in Nat, a2 \in Nat, d2 \in Nat, room \in Nat :
              /\ n2 = Len(s2.groups) /\ room = s.room
              /\ a2 = Len(v2.active) /\ d2 = Len(v2.deferred)
      BY <1>10
    <3>2. n2 + a2 + d2 <= room
      BY <1>9, <1>13, <3>1 DEF BatchOK
    <3>3. n2 <= room
      BY <3>2
    <3> QED
      BY <1>9, <3>1, <3>3
  <2>3. ASSUME NEW r \in 1 .. Len(s2.groups)
        PROVE  /\ Hash[s2.groups[r]].partition = p
               /\ \E x \in RowsIn(agg) : KeyOf(agg, x) = s2.groups[r]
    <3>1. CASE r \in 1 .. Len(s.groups)
      BY <1>5, <1>9, <2>1, <3>1 DEF StoreOK
    <3>2. CASE r \notin 1 .. Len(s.groups)
      <4>1. r \in Len(s.groups) + 1 .. Len(s2.groups)
        BY <1>10, <3>2
      <4>2. PICK i \in Waiting(v) : s2.groups[r] = keys[i]
        BY <1>12, <4>1
      <4>3. i \in 1 .. Len(keys) /\ Hash[keys[i]].partition = p
        BY <1>7
      <4>4. <<w, v.chunk, i>> \in RowsIn(agg) /\ KeyOf(agg, <<w, v.chunk, i>>) = keys[i]
        BY <1>2, <1>4, <1>6, <4>3, KeysFacts
      <4> QED
        BY <4>2, <4>3, <4>4
    <3> QED
      BY <3>1, <3>2
  <2> QED
    BY <1>9, <2>2, <2>3, TableHoldsRows DEF StoreOK
<1>19. ASSUME NEW q \in Parts(agg) PROVE StoreOK(agg, q, S2[q])
  <2>1. CASE q = p
    BY <1>14, <1>18, <2>1
  <2>2. CASE q # p
    BY <1>2, <1>8, <2>2 DEF Changed
  <2> QED
    BY <2>1, <2>2
<1> QED
  BY <1>2, <1>8, <1>17, <1>19, SinkFrame DEF Changed

\* It is enough to look at the partition that a COMBINE task works on.
LEMMA CombineFrame ==
    ASSUME Shape, NEW p \in Parts(agg), NEW m2, NEW s2, Merges(p, m2, s2), GlobalOK(agg, p, s2)
    PROVE  Shape'
<1>1. /\ agg' = agg /\ worker' = worker /\ stores' = stores
      /\ merge' \in [Parts(agg) -> MergeType] /\ global' \in [Parts(agg) -> StoreType]
      /\ global' = [global EXCEPT ![p] = s2]
  BY DEF Merges, Shape
<1>2. \A q \in Parts(agg) : GlobalOK(agg, q, global'[q])
  BY <1>1 DEF Shape
<1> QED
  BY <1>1, <1>2 DEF Shape

\* What the invariant says of the shared partitions.
LEMMA SharedOfShape ==
    ASSUME Shape
    PROVE  /\ Shared
           /\ \A p \in Parts(agg) : /\ Plain(global[p])
                                    /\ agg.kind # "perfect" => InTable(global[p])
BY DEF Shape, Shared, StoreOK, GlobalOK

\* The groups of a store after a row was put into it.
LEMMA PutsGroups ==
    ASSUME NEW s, Plain(s), NEW s2, Plain(s2), NEW g, NEW bag, Puts(s, s2, g, bag)
    PROVE  /\ Longer(s.groups, s2.groups)
           /\ Has(s2.groups, g)
           /\ \A r \in 1 .. Len(s2.groups) : r \in 1 .. Len(s.groups) \/ s2.groups[r] = g
<1>1. PICK groups, groups2 : groups = s.groups /\ groups2 = s2.groups
  OBVIOUS
<1>2. /\ groups \in Seq(DOMAIN Hash) /\ groups2 \in Seq(DOMAIN Hash)
      /\ Len(groups) \in Nat /\ Len(groups2) \in Nat
  BY <1>1, StoreFacts
<1>3. CASE \E r \in 1 .. Len(groups) : groups[r] = g /\ groups2 = groups
  BY <1>1, <1>2, <1>3 DEF Longer, Has
<1>4. CASE groups2 = Append(groups, g)
  <2>1. PICK L \in Nat : L = Len(groups)
    BY <1>2
  <2>2. /\ Len(groups2) = L + 1 /\ groups2[L + 1] = g
        /\ \A x \in 1 .. L : groups2[x] = groups[x]
    BY <1>2, <1>4, <2>1, AppendProperties
  <2>3. \A r \in 1 .. L + 1 : r \in 1 .. L \/ r = L + 1
    OBVIOUS
  <2>4. L + 1 \in 1 .. L + 1 /\ L <= L + 1
    OBVIOUS
  <2> QED
    BY <1>1, <1>2, <2>1, <2>2, <2>3, <2>4 DEF Longer, Has
<1> QED
  BY <1>1, <1>3, <1>4 DEF Puts

\* CombineRow keeps the invariant.
LEMMA CombineRowOK ==
    ASSUME Shape, NEW p \in Parts(agg), CombineRow(p)
    PROVE  Shape'
<1>1. /\ Shared /\ Plain(global[p])
      /\ agg.kind # "perfect" => InTable(global[p])
      /\ StoreOK(agg, p, global[p])
  BY SharedOfShape DEF Shape, GlobalOK
<1>2a. PICK r : r = merge[p].row
  OBVIOUS
<1>2. PICK w \in AggWorkers : w = merge[p].slot /\ r = merge[p].row
  BY <1>1, <1>2a, CombineRowIs
<1>3. PICK from, g, bag, s : /\ from = stores[w][p] /\ g = from.groups[r] /\ bag = from.aggs[r]
                             /\ s = global[p]
  OBVIOUS
<1>4. r \in 1 .. Len(from.groups)
  BY <1>1, <1>2, <1>3, CombineRowIs
<1>5. PICK m2, s2 : /\ Merges(p, m2, s2) /\ Plain(s2) /\ Puts(s, s2, g, bag)
                    /\ agg.kind # "perfect" => InTable(s2) /\ Len(s2.groups) <= s2.room
                    /\ agg.kind = "perfect" => s2.slots = s.slots
  BY <1>1, <1>2, <1>3, CombineRowIs
<1>6. StoreOK(agg, p, from)
  BY <1>3 DEF Shape
<1>7. /\ agg.kind = "hash" => Hash[g].partition = p
      /\ \E x \in RowsIn(agg) : KeyOf(agg, x) = g
  BY <1>3, <1>4, <1>6 DEF StoreOK
<1>8. /\ Longer(s.groups, s2.groups)
      /\ \A x \in 1 .. Len(s2.groups) : x \in 1 .. Len(s.groups) \/ s2.groups[x] = g
  BY <1>1, <1>3, <1>5, PutsGroups
<1>9. ASSUME NEW x \in 1 .. Len(s2.groups)
      PROVE  /\ agg.kind = "hash" => Hash[s2.groups[x]].partition = p
             /\ \E y \in RowsIn(agg) : KeyOf(agg, y) = s2.groups[x]
  <2>1. CASE x \in 1 .. Len(s.groups)
    BY <1>1, <1>3, <1>8, <2>1 DEF StoreOK, Longer
  <2>2. CASE s2.groups[x] = g
    BY <1>7, <2>2
  <2> QED
    BY <1>8, <2>1, <2>2
<1>10. agg.kind = "hash" => agg.kind # "perfect"
  OBVIOUS
<1>11. SlotsHoldRows(s2)
  <2>1. CASE agg.kind = "perfect"
    BY <1>1, <1>3, <1>5, <1>8, <2>1, SlotsStay DEF StoreOK, Longer
  <2>2. CASE agg.kind # "perfect"
    BY <1>5, <2>2, TableHoldsRows
  <2> QED
    BY <2>1, <2>2
<1>12. GlobalOK(agg, p, s2)
  BY <1>5, <1>9, <1>10, <1>11 DEF GlobalOK, StoreOK
<1> QED
  BY <1>5, <1>12, CombineFrame

\* CombineNextWorker keeps the invariant.
LEMMA CombineNextOK ==
    ASSUME Shape, NEW p \in Parts(agg), CombineNextWorker(p)
    PROVE  Shape'
<1>1. PICK m2 : Merges(p, m2, global[p])
  BY SharedOfShape, CombineNextIs
<1>2. GlobalOK(agg, p, global[p])
  BY DEF Shape
<1> QED
  BY <1>1, <1>2, CombineFrame

\* Every step keeps the invariant.
LEMMA ShapeNext == Shape /\ [AggregateNext]_aggregateVars => Shape'
<1> SUFFICES ASSUME Shape, [AggregateNext]_aggregateVars PROVE Shape'
  OBVIOUS
<1>1. ASSUME NEW w \in AggWorkers, SinkStep(w) PROVE Shape'
  BY <1>1, SinkDirectOK, StartPartitionOK, ProbeVectorOK, EndPartitionOK, UpdateAggregatesOK
     DEF SinkStep
<1>2. ASSUME NEW p \in PartitionIds, CombineRow(p) \/ CombineNextWorker(p) PROVE Shape'
  <2>1. p \in Parts(agg)
    BY CaseOfModel DEF Shape
  <2> QED
    BY <1>2, <2>1, CombineRowOK, CombineNextOK
<1>3. CASE ReadGroups
  BY <1>3 DEF ReadGroups, Shape
<1>4. CASE UNCHANGED aggregateVars
  BY <1>4 DEF aggregateVars, Shape
<1> QED
  BY <1>1, <1>2, <1>3, <1>4 DEF AggregateNext

\* At every moment the stores of all workers and the shared partitions are right, and so is
\* what each worker knows of its chunk: whatever the interleaving of the sinks, the growths,
\* resizes and merges (SinkChunk, CombinePartition).
THEOREM StoresAreRight == AggregateSpec => []Shape
<1>1. AggregateInit => Shape
  BY ShapeInit
<1>2. Shape /\ [AggregateNext]_aggregateVars => Shape'
  BY ShapeNext
<1> QED
  BY <1>1, <1>2, PTL DEF AggregateSpec

\* What the invariant says of every store.
LEMMA AllStoresAre ==
    ASSUME Shape, NEW s \in AllStores
    PROVE  /\ Plain(s) /\ SlotsHoldRows(s)
           /\ agg.kind = "hash" => InTable(s) /\ Len(s.groups) <= s.room
<1>1. PartitionIds = Parts(agg)
  BY CaseOfModel DEF Shape
<1>2. CASE \E p \in Parts(agg) : s = global[p]
  BY <1>2 DEF Shape, GlobalOK, StoreOK
<1>3. CASE \E w \in AggWorkers, p \in Parts(agg) : s = stores[w][p]
  BY <1>3 DEF Shape, StoreOK
<1> QED
  BY <1>1, <1>2, <1>3 DEF AllStores

\* In a store that is right every group is found.
LEMMA ShapeFinds == Shape => GroupsAreFound
<1> SUFFICES ASSUME Shape, NEW s \in AllStores
             PROVE  /\ IsInjective(s.groups)
                    /\ IsHash => \A r \in DOMAIN s.groups : s.slots[Lookup(s, s.groups[r])] = r
  BY DEF GroupsAreFound
<1>1. Plain(s) /\ (agg.kind = "hash" => InTable(s))
  BY AllStoresAre
<1>2. /\ DOMAIN s.groups = 1 .. Len(s.groups) /\ Len(s.groups) \in Nat
      /\ \A x, y \in 1 .. Len(s.groups) : s.groups[x] = s.groups[y] => x = y
  BY <1>1, StoreFacts DEF Plain
<1>3. IsInjective(s.groups)
  BY <1>2 DEF IsInjective
<1>4. ASSUME IsHash, NEW r \in 1 .. Len(s.groups)
      PROVE  s.slots[Lookup(s, s.groups[r])] = r
  <2>1. PICK rows \in Nat, n \in Nat : n = SlotCount(s) /\ rows = Len(s.groups)
    BY <1>1, <1>2, StoreFacts
  <2>2. Table(s.slots, n, s.groups, rows)
    BY <1>1, <1>4, <2>1 DEF IsHash, InTable
  <2> QED
    BY <1>2, <1>4, <2>1, <2>2, EndsAtRow
<1> QED
  BY <1>2, <1>3, <1>4

\* Every group of a store has one row, which probing finds
\* (AggregateHashTableFindOrInsertBatch, AggregateHashTableRehash).
THEOREM GroupsFound == AggregateSpec => []GroupsAreFound
<1>1. Shape => GroupsAreFound
  BY ShapeFinds
<1> QED
  BY <1>1, StoresAreRight, PTL

\* The invariant has the types.
LEMMA ShapeTyped == Shape => AggregateTypeOK
<1> SUFFICES ASSUME Shape PROVE AggregateTypeOK
  OBVIOUS
<1>1. ASSUME NEW w \in AggWorkers
      PROVE  /\ worker[w].pc \in {"sink", "probe"}
             /\ worker[w].partition \in 1 .. Partitions + 1
             /\ Range(worker[w].active \o worker[w].deferred) \subseteq DOMAIN worker[w].at
  <2>1. PICK v : v = worker[w]
    OBVIOUS
  <2>2. v \in WorkerType /\ WorkerOK(agg, w, v, stores[w])
    BY <2>1 DEF Shape
  <2>3. /\ v.pc \in {"sink", "probe"} /\ v.partition \in 1 .. Partitions + 1
        /\ v.active \in Seq(Nat) /\ v.deferred \in Seq(Nat)
    BY <2>2 DEF WorkerType
  <2>4. PICK all : all = v.active \o v.deferred
    OBVIOUS
  <2>5. Range(all) = Waiting(v)
    BY <2>3, <2>4, JoinIs DEF Waiting
  <2>6. CASE v.pc = "sink"
    <3>1. Range(<<>>) = {}
      BY DEF Range
    <3>2. Waiting(v) = {}
      BY <2>2, <2>6, <3>1 DEF WorkerOK, Waiting
    <3> QED
      BY <2>1, <2>3, <2>4, <2>5, <3>2
  <2>7. CASE v.pc = "probe"
    <3>1. \A i \in Waiting(v) : i \in DOMAIN v.at
      BY <2>2, <2>7 DEF WorkerOK, BatchOK
    <3> QED
      BY <2>1, <2>3, <2>4, <2>5, <3>1
  <2> QED
    BY <2>3, <2>6, <2>7
<1>2. ASSUME NEW s \in AllStores
      PROVE  /\ Len(s.aggs) = Len(s.groups)
             /\ \A g \in DOMAIN s.slots : s.slots[g] \in 0 .. Len(s.groups)
             /\ IsHash => Len(s.groups) <= s.room /\ Len(s.groups) <= SlotCount(s)
  <2>1. /\ Plain(s) /\ SlotsHoldRows(s)
        /\ agg.kind = "hash" => InTable(s) /\ Len(s.groups) <= s.room
    BY AllStoresAre
  <2>2. Len(s.aggs) = Len(s.groups) /\ Len(s.groups) \in Nat
    BY <2>1, StoreFacts
  <2>3. InTable(s) => Len(s.groups) <= SlotCount(s)
    <3>1. PICK rows \in Nat : rows = Len(s.groups)
      BY <2>2
    <3>2. InTable(s) => rows <= SlotCount(s)
      BY <3>1, TableBound DEF InTable
    <3> QED
      BY <3>1, <3>2
  <2> QED
    BY <2>1, <2>2, <2>3 DEF SlotsHoldRows, IsHash
<1> QED
  BY <1>1, <1>2 DEF AggregateTypeOK

\* The state keeps its types, every row has an aggregate, every slot holds a row or none,
\* and no store has more rows than room or slots (PartitionRowCapacity, EnsureCapacity).
THEOREM AggregateTyped == AggregateSpec => []AggregateTypeOK
<1>1. Shape => AggregateTypeOK
  BY ShapeTyped
<1> QED
  BY <1>1, StoresAreRight, PTL
------------------------------------------------------------------------------
(* The inductive invariant, second part: what is in the aggregates.          *)

\* The partition of a group.
Home(a, g) == IF a.kind = "hash" THEN Hash[g].partition ELSE 1

\* After n chunks of a worker its rows have the input rows of their groups, each once, and
\* no group is missing.
Sums(a, w, n, s) ==
    \A r \in 1 .. Len(s.groups) : s.aggs[r] = SetToBag(Sunk(a, w, n, s.groups[r]))
Present(a, w, n, S) ==
    \A x \in RowsIn(a) : x[1] = w /\ x[2] <= n =>
        Has(S[Home(a, KeyOf(a, x))].groups, KeyOf(a, x))
LocalSums(a, w, n, S) ==
    /\ \A p \in Parts(a) : Sums(a, w, n, S[p])
    /\ Present(a, w, n, S)

\* A COMBINE task has merged the rows of the workers before its own, and of that one the
\* groups before its row: these rows are in the shared partition, each once.
IsMerged(a, T, m, p, x) ==
    \/ x[1] < m.slot
    \/ x[1] = m.slot /\ \E r \in 1 .. m.row - 1 : T[m.slot][p].groups[r] = KeyOf(a, x)
Merged(a, T, m, p, g) ==
    {x \in RowsIn(a) : KeyOf(a, x) = g /\ x[1] \in Sources(a) /\ IsMerged(a, T, m, p, x)}
MergeSums(a, T, m, p, s) ==
    /\ m.slot \in Sources(a) \/ \A w \in Sources(a) : w < m.slot
    /\ \A r \in 1 .. Len(s.groups) : s.aggs[r] = SetToBag(Merged(a, T, m, p, s.groups[r]))
    /\ \A g \in DOMAIN Hash : Home(a, g) = p /\ Merged(a, T, m, p, g) # {} => Has(s.groups, g)

Content ==
    /\ \A w \in AggWorkers : LocalSums(agg, w, worker[w].chunk - 1, stores[w])
    /\ \A p \in Parts(agg) : MergeSums(agg, stores, merge[p], p, global[p])
    /\ ~SinkDone => \A p \in Parts(agg) : merge[p].slot = 1 /\ merge[p].row = 1

\* Different rows add up to the set of both.
LEMMA SumOfSets ==
    ASSUME NEW A, NEW B, A \cap B = {}
    PROVE  SetToBag(A) (+) SetToBag(B) = SetToBag(A \cup B)
<1> DEFINE C == SetToBag(A) (+) SetToBag(B)
<1>1. /\ SetToBag(A) = [e \in A |-> 1] /\ SetToBag(B) = [e \in B |-> 1]
      /\ SetToBag(A \cup B) = [e \in A \cup B |-> 1]
  BY DEF SetToBag
<1>2. C = [e \in A \cup B |-> (IF e \in A THEN 1 ELSE 0) + (IF e \in B THEN 1 ELSE 0)]
  BY <1>1 DEF (+)
<1>3. \A e \in A \cup B : (IF e \in A THEN 1 ELSE 0) + (IF e \in B THEN 1 ELSE 0) = 1
  OBVIOUS
<1> QED
  BY <1>1, <1>2, <1>3

\* The rows of one more chunk.
LEMMA SunkMore ==
    ASSUME NEW a \in AggCases, NEW w \in AggWorkers, NEW c \in 1 .. Len(a.input[w]),
           NEW g, NEW n, n = c - 1
    PROVE  /\ Sunk(a, w, c, g) = Sunk(a, w, n, g) \cup KeyRows(a, w, c, g)
           /\ Sunk(a, w, n, g) \cap KeyRows(a, w, c, g) = {}
<1>1. c \in Nat \ {0} /\ n \in Nat /\ n < c
  BY CaseFacts
<1>2. ASSUME NEW x
      PROVE  x \in KeyRows(a, w, c, g) <=> x \in RowsIn(a) /\ x[1] = w /\ x[2] = c /\ KeyOf(a, x) = g
  <2>1. ASSUME x \in KeyRows(a, w, c, g)
        PROVE  x \in RowsIn(a) /\ x[1] = w /\ x[2] = c /\ KeyOf(a, x) = g
    <3>1. PICK i \in 1 .. Len(KeysOf(a, w, c)) : KeysOf(a, w, c)[i] = g /\ x = <<w, c, i>>
      BY <2>1 DEF KeyRows
    <3>2. <<w, c, i>> \in RowsIn(a) /\ KeyOf(a, <<w, c, i>>) = KeysOf(a, w, c)[i]
      BY KeysFacts
    <3> QED
      BY <3>1, <3>2
  <2>2. ASSUME x \in RowsIn(a), x[1] = w, x[2] = c, KeyOf(a, x) = g
        PROVE  x \in KeyRows(a, w, c, g)
    <3>1. /\ x = <<x[1], x[2], x[3]>> /\ x[3] \in 1 .. Len(KeysOf(a, x[1], x[2]))
          /\ KeyOf(a, x) = KeysOf(a, x[1], x[2])[x[3]]
      BY <2>2, RowFacts
    <3>2. PICK i : i = x[3]
      OBVIOUS
    <3>3. x = <<w, c, i>> /\ i \in 1 .. Len(KeysOf(a, w, c)) /\ KeysOf(a, w, c)[i] = g
      BY <2>2, <3>1, <3>2
    <3> QED
      BY <3>3 DEF KeyRows
  <2> QED
    BY <2>1, <2>2
<1>3. \A x \in RowsIn(a) : x[2] \in Nat
  BY RowFacts
<1>4. \A k \in Nat : (k <= c <=> k <= n \/ k = c) /\ ~(c <= n)
  BY <1>1
<1>5. \A x : x \in Sunk(a, w, c, g) <=> x \in Sunk(a, w, n, g) \cup KeyRows(a, w, c, g)
  BY <1>2, <1>3, <1>4 DEF Sunk
<1>6. \A x : ~(x \in Sunk(a, w, n, g) /\ x \in KeyRows(a, w, c, g))
  BY <1>2, <1>3, <1>4 DEF Sunk
<1> QED
  BY <1>5, <1>6

\* Stores in which rows were added for groups that no row was sunk of.
AddsGroups(s, s2) ==
    /\ Longer(s.groups, s2.groups)
    /\ \A r \in 1 .. Len(s.groups) : s2.aggs[r] = s.aggs[r]
    /\ \A r \in Len(s.groups) + 1 .. Len(s2.groups) : s2.aggs[r] = EmptyBag

\* The partition of a group that a store holds.
LEMMA HomeIs ==
    ASSUME NEW a \in AggCases, NEW p \in Parts(a), NEW s, StoreOK(a, p, s),
           NEW r \in 1 .. Len(s.groups)
    PROVE  /\ Home(a, s.groups[r]) = p
           /\ s.groups[r] \in DOMAIN Hash
           /\ \A x \in 1 .. Len(s.groups) : s.groups[x] = s.groups[r] => x = r
<1>1. Plain(s)
  BY DEF StoreOK
<1>2. s.groups[r] \in DOMAIN Hash
  BY <1>1, StoreFacts
<1>3. \A x \in 1 .. Len(s.groups) : s.groups[x] = s.groups[r] => x = r
  BY <1>1 DEF Plain
<1>4. Home(a, s.groups[r]) = p
  BY CaseFacts DEF Home, StoreOK
<1> QED
  BY <1>2, <1>3, <1>4

\* A row of a group that is not in its partition's store has not been sunk.
LEMMA NothingSunk ==
    ASSUME NEW a, NEW w, NEW n, NEW S, Present(a, w, n, S), NEW g, ~Has(S[Home(a, g)].groups, g)
    PROVE  Sunk(a, w, n, g) = {}
BY DEF Present, Sunk

\* Rows added for groups of which nothing was sunk leave the sums right: such a group has no
\* row yet, and its new aggregate is empty.
LEMMA AddedSums ==
    ASSUME NEW a \in AggCases, NEW w \in AggWorkers, NEW n, NEW S, LocalSums(a, w, n, S), NEW S2,
           \A p \in Parts(a) : StoreOK(a, p, S2[p]) /\ AddsGroups(S[p], S2[p])
    PROVE  LocalSums(a, w, n, S2)
<1>1. ASSUME NEW p \in Parts(a), NEW r \in 1 .. Len(S2[p].groups)
      PROVE  S2[p].aggs[r] = SetToBag(Sunk(a, w, n, S2[p].groups[r]))
  <2>1. PICK s, s2 : s = S[p] /\ s2 = S2[p]
    OBVIOUS
  <2>2. StoreOK(a, p, s2) /\ AddsGroups(s, s2) /\ Sums(a, w, n, s)
    BY <2>1 DEF LocalSums
  <2>3. Len(s.groups) \in Nat /\ Len(s2.groups) \in Nat
    BY <2>2 DEF AddsGroups, Longer
  <2>4. CASE r \in 1 .. Len(s.groups)
    BY <2>1, <2>2, <2>4 DEF AddsGroups, Longer, Sums
  <2>5. CASE r \notin 1 .. Len(s.groups)
    <3>1. r \in Len(s.groups) + 1 .. Len(s2.groups)
      BY <2>1, <2>3, <2>5
    <3>2. s2.aggs[r] = EmptyBag
      BY <2>2, <3>1 DEF AddsGroups
    <3>3. PICK g : g = s2.groups[r]
      OBVIOUS
    <3>4. Home(a, g) = p
      BY <2>1, <2>2, <3>3, HomeIs
    <3>5. ~Has(s.groups, g)
      <4>1. SUFFICES ASSUME NEW x \in 1 .. Len(s.groups), s.groups[x] = g PROVE FALSE
        BY DEF Has
      <4>2. x \in 1 .. Len(s2.groups) /\ s2.groups[x] = g
        BY <2>2, <2>3, <4>1 DEF AddsGroups, Longer
      <4>3. x = r
        BY <2>1, <2>2, <3>3, <4>2, HomeIs
      <4> QED
        BY <2>5, <4>1, <4>3
    <3>6. Sunk(a, w, n, g) = {}
      BY <2>1, <3>4, <3>5, NothingSunk DEF LocalSums
    <3> QED
      BY <2>1, <3>2, <3>3, <3>6 DEF EmptyBag
  <2> QED
    BY <2>4, <2>5
<1>2. ASSUME NEW x \in RowsIn(a), x[1] = w, x[2] <= n
      PROVE  Has(S2[Home(a, KeyOf(a, x))].groups, KeyOf(a, x))
  <2>1. PICK g, p : g = KeyOf(a, x) /\ p = Home(a, g)
    OBVIOUS
  <2>2. Has(S[p].groups, g)
    BY <1>2, <2>1 DEF LocalSums, Present
  <2>3. g \in DOMAIN Hash
    BY <2>1, RowFacts
  <2>4. p \in Parts(a)
    BY <2>1, <2>3, HashAssumption, CaseFacts DEF Home
  <2>5. Longer(S[p].groups, S2[p].groups)
    BY <2>4 DEF AddsGroups
  <2>6. Has(S2[p].groups, g)
    BY <2>2, <2>5 DEF Has, Longer
  <2> QED
    BY <2>1, <2>6
<1> QED
  BY <1>1, <1>2 DEF LocalSums, Sums, Present

\* Workers are numbered from 1.
LEMMA WorkerNumbers ==
    \E n \in Nat : AggWorkers = 1 .. n /\ n >= 1
<1>1. PICK n : n = Cardinality(AggWorkers)
  OBVIOUS
<1>2. n \in Nat /\ AggWorkers = 1 .. n /\ AggWorkers # {}
  BY <1>1, AggregateSizes, FS_CardinalityType
<1> QED
  BY <1>2

\* Nothing is merged at the start of the merge, whatever the local stores are.
LEMMA NothingMerged ==
    ASSUME NEW a \in AggCases, NEW T, NEW m, m.slot = 1, m.row = 1, NEW p, NEW g
    PROVE  Merged(a, T, m, p, g) = {}
<1>1. SUFFICES ASSUME NEW x \in RowsIn(a), IsMerged(a, T, m, p, x) PROVE FALSE
  BY DEF Merged
<1>2. x[1] \in Nat \ {0}
  BY RowFacts, WorkerNumbers
<1>3. ~(x[1] < 1)
  BY <1>2
<1>4. 1 .. 1 - 1 = {}
  OBVIOUS
<1> QED
  BY <1>1, <1>3, <1>4 DEF IsMerged

\* Another partition of the same merge has the same rows, if nothing was merged yet.
LEMMA MergeNotBegun ==
    ASSUME NEW a \in AggCases, NEW T, NEW T2, NEW m, m.slot = 1, m.row = 1, NEW p, NEW s,
           MergeSums(a, T, m, p, s)
    PROVE  MergeSums(a, T2, m, p, s)
<1>1. \A g : Merged(a, T, m, p, g) = {} /\ Merged(a, T2, m, p, g) = {}
  BY NothingMerged
<1> QED
  BY <1>1 DEF MergeSums

\* A step of a worker that sinks: the other workers, and the merges that have not begun, are
\* as they were.
LEMMA ContentSink ==
    ASSUME Shape, Content, NEW w \in AggWorkers, ~SinkDone, NEW v2 \in WorkerType,
           NEW S2 \in [Parts(agg) -> StoreType], Becomes(w, v2, S2),
           LocalSums(agg, w, v2.chunk - 1, S2)
    PROVE  Content'
<1>1. /\ agg' = agg /\ global' = global /\ merge' = merge
      /\ worker' = [worker EXCEPT ![w] = v2] /\ stores' = [stores EXCEPT ![w] = S2]
  BY DEF Becomes
<1>2. worker'[w] = v2 /\ \A u \in AggWorkers : u # w => worker'[u] = worker[u]
  BY <1>1 DEF Shape
<1>3. stores'[w] = S2 /\ \A u \in AggWorkers : u # w => stores'[u] = stores[u]
  BY <1>1 DEF Shape
<1>4. \A u \in AggWorkers : LocalSums(agg, u, worker'[u].chunk - 1, stores'[u])
  BY <1>2, <1>3 DEF Content
<1>5. \A p \in Parts(agg) : merge[p].slot = 1 /\ merge[p].row = 1
  BY DEF Content
<1>6. \A p \in Parts(agg) : MergeSums(agg, stores', merge[p], p, global[p])
  BY <1>5, MergeNotBegun DEF Content, Shape
<1> QED
  BY <1>1, <1>4, <1>5, <1>6 DEF Content

\* A step of a worker that adds groups, and no rows yet.
LEMMA ContentAdds ==
    ASSUME Shape, Shape', Content, NEW w \in AggWorkers, NEW v, v = worker[w], NEW S, S = stores[w],
           v.chunk \in 1 .. Len(agg.input[w]), NEW v2 \in WorkerType, v2.chunk = v.chunk,
           NEW S2 \in [Parts(agg) -> StoreType], Becomes(w, v2, S2),
           \A p \in Parts(agg) : AddsGroups(S[p], S2[p])
    PROVE  Content'
<1>1. agg' = agg /\ agg \in AggCases /\ S2 = stores'[w]
  BY DEF Becomes, Shape
<1>2. \A p \in Parts(agg) : StoreOK(agg, p, S2[p])
  BY <1>1 DEF Shape
<1>3. LocalSums(agg, w, v.chunk - 1, S)
  BY DEF Content
<1>4. LocalSums(agg, w, v2.chunk - 1, S2)
  BY <1>1, <1>2, <1>3, AddedSums
<1>5. ~SinkDone
  BY <1>1, CaseFacts DEF SinkDone
<1> QED
  BY <1>4, <1>5, ContentSink

\* A store with the same groups and aggregates, and one that is extended.
LEMMA SameAdds ==
    ASSUME NEW s, Plain(s), NEW s2, s2.groups = s.groups, s2.aggs = s.aggs
    PROVE  AddsGroups(s, s2)
<1>1. PICK L \in Nat : L = Len(s.groups)
  BY StoreFacts
<1>2. L + 1 .. L = {}
  BY <1>1
<1> QED
  BY <1>1, <1>2 DEF AddsGroups, Longer

\* The rows an extension adds have empty aggregates.
LEMMA ExtendedAdds ==
    ASSUME NEW s, Plain(s), NEW s2, Extended(s, s2)
    PROVE  AddsGroups(s, s2)
<1>1. Len(s.groups) \in Nat /\ Len(s2.groups) \in Nat
  BY StoreFacts DEF Extended
<1> QED
  BY <1>1 DEF Extended, AddsGroups, Longer

\* If one partition adds groups and the others are as they were, all add groups.
LEMMA ChangedAdds ==
    ASSUME NEW S, \A p \in Parts(agg) : Plain(S[p]), NEW S2, NEW p, NEW s2,
           Changed(S, S2, p, s2), AddsGroups(S[p], s2)
    PROVE  \A q \in Parts(agg) : AddsGroups(S[q], S2[q])
<1>1. ASSUME NEW q \in Parts(agg) PROVE AddsGroups(S[q], S2[q])
  <2>1. CASE q = p
    BY <2>1 DEF Changed
  <2>2. CASE q # p
    BY <2>2, SameAdds DEF Changed
  <2> QED
    BY <2>1, <2>2
<1> QED
  BY <1>1

\* StartPartition gives a store room and leaves its groups and aggregates alone.
LEMMA StartPartitionContent ==
    ASSUME Shape, Shape', Content, NEW w \in AggWorkers, StartPartition(w)
    PROVE  Content'
<1>1. PICK v, S : v = worker[w] /\ S = stores[w]
  OBVIOUS
<1>2. /\ Local(w, v, S) /\ \A p \in Parts(agg) : Plain(S[p])
      /\ agg.kind = "hash" => \A p \in Parts(agg) : InTable(S[p])
  BY <1>1, LocalOfShape
<1>3. agg.kind = "hash"
  BY DEF StartPartition, IsHash
<1>4. v.chunk \in 1 .. Len(agg.input[w])
  BY <1>2, <1>3, StartPartitionIs
<1>5. PICK v2, S2 :
          /\ Becomes(w, v2, S2)
          /\ v2 \in WorkerType /\ S2 \in [Parts(agg) -> StoreType]
          /\ v2.chunk = v.chunk
          /\ StartIsEmpty(agg, w, v, S, v2, S2) \/ StartIsBatch(agg, w, v, S, v2, S2)
  BY <1>2, <1>3, StartPartitionIs
<1>6. CASE StartIsEmpty(agg, w, v, S, v2, S2)
  <2>1. \A p \in Parts(agg) : AddsGroups(S[p], S2[p])
    BY <1>2, <1>6, SameAdds DEF StartIsEmpty
  <2> QED
    BY <1>1, <1>4, <1>5, <2>1, ContentAdds
<1>7. CASE StartIsBatch(agg, w, v, S, v2, S2)
  <2>1. PICK p, s2 : /\ p = v.partition /\ Changed(S, S2, p, s2)
                     /\ s2.groups = S[p].groups /\ s2.aggs = S[p].aggs
    BY <1>7 DEF StartIsBatch
  <2>2. p \in Parts(agg)
    BY <1>2, <1>3, <2>1, StartPartitionIs, CaseFacts DEF Local
  <2>3. \A q \in Parts(agg) : AddsGroups(S[q], S2[q])
    BY <1>2, <2>1, <2>2, SameAdds, ChangedAdds
  <2> QED
    BY <1>1, <1>4, <1>5, <2>3, ContentAdds
<1> QED
  BY <1>5, <1>6, <1>7

\* A resize moves the slots of a store and leaves its groups and aggregates alone.
LEMMA EndPartitionContent ==
    ASSUME Shape, Shape', Content, NEW w \in AggWorkers, EndPartition(w)
    PROVE  Content'
<1>1. PICK v, S : v = worker[w] /\ S = stores[w]
  OBVIOUS
<1>2. /\ Local(w, v, S) /\ agg \in AggCases /\ \A p \in Parts(agg) : Plain(S[p])
      /\ WorkerOK(agg, w, v, S)
      /\ agg.kind = "hash" => \A p \in Parts(agg) : InTable(S[p])
  BY <1>1, LocalOfShape
<1>3. v.pc = "probe"
  BY <1>1 DEF EndPartition
<1>4. /\ agg.kind = "hash" /\ v.chunk \in 1 .. Len(agg.input[w])
      /\ v.partition \in 1 .. Partitions /\ Parts(agg) = 1 .. Partitions
  <2>1. agg.kind = "hash" /\ v.chunk <= Len(agg.input[w]) /\ v.partition \in 1 .. Partitions
    BY <1>2, <1>3 DEF WorkerOK, BatchOK
  <2> QED
    BY <1>2, <2>1, CaseFacts DEF WorkerOK
<1>5. PICK v2, S2, s2 :
          /\ Becomes(w, v2, S2) /\ Changed(S, S2, v.partition, s2)
          /\ v2 \in WorkerType /\ v2.chunk = v.chunk
          /\ s2.groups = S[v.partition].groups /\ s2.aggs = S[v.partition].aggs
  BY <1>2, <1>4, EndPartitionIs
<1>6. \A q \in Parts(agg) : AddsGroups(S[q], S2[q])
  BY <1>2, <1>4, <1>5, SameAdds, ChangedAdds
<1>7. S2 \in [Parts(agg) -> StoreType]
  BY <1>5 DEF Changed
<1> QED
  BY <1>1, <1>4, <1>5, <1>6, <1>7, ContentAdds

\* A vector of probes adds groups and no row of the input.
LEMMA ProbeVectorContent ==
    ASSUME Shape, Shape', Content, NEW w \in AggWorkers, ProbeVector(w)
    PROVE  Content'
<1>1. PICK v, S : v = worker[w] /\ S = stores[w]
  OBVIOUS
<1>2. /\ Local(w, v, S) /\ agg \in AggCases /\ \A p \in Parts(agg) : Plain(S[p])
      /\ WorkerOK(agg, w, v, S)
      /\ agg.kind = "hash" => \A p \in Parts(agg) : InTable(S[p])
  BY <1>1, LocalOfShape
<1>3. v.pc = "probe"
  BY <1>1 DEF ProbeVector
<1>4. /\ agg.kind = "hash" /\ v.chunk \in 1 .. Len(agg.input[w])
      /\ v.partition \in 1 .. Partitions /\ Parts(agg) = 1 .. Partitions
  <2>1. agg.kind = "hash" /\ v.chunk <= Len(agg.input[w]) /\ v.partition \in 1 .. Partitions
    BY <1>2, <1>3 DEF WorkerOK, BatchOK
  <2> QED
    BY <1>2, <2>1, CaseFacts DEF WorkerOK
<1>5. \A i \in Waiting(v) : /\ i \in 1 .. Len(KeysOf(agg, w, v.chunk)) /\ i \in DOMAIN v.at
                            /\ Passed(S[v.partition], KeysOf(agg, w, v.chunk)[i], v.at[i])
  BY <1>2, <1>3 DEF WorkerOK, BatchOK
<1>6. PICK v2, S2, s2 :
          /\ Becomes(w, v2, S2) /\ Changed(S, S2, v.partition, s2)
          /\ v2 \in WorkerType /\ v2.chunk = v.chunk
          /\ ProbeIs(agg, w, v, S[v.partition], v2, s2)
  BY <1>2, <1>4, <1>5, ProbeVectorIs
<1>7. AddsGroups(S[v.partition], s2)
  BY <1>2, <1>4, <1>6, ExtendedAdds DEF ProbeIs
<1>8. \A q \in Parts(agg) : AddsGroups(S[q], S2[q])
  BY <1>2, <1>6, <1>7, ChangedAdds
<1>9. S2 \in [Parts(agg) -> StoreType]
  BY <1>6 DEF Changed
<1> QED
  BY <1>1, <1>4, <1>6, <1>8, <1>9, ContentAdds

\* At the end of a chunk each of its rows has an answer, and those of a row of the store are
\* the ones of its group.
LEMMA RowsToIs ==
    ASSUME NEW a \in AggCases, a.kind = "hash", NEW w \in AggWorkers,
           NEW c \in 1 .. Len(a.input[w]), NEW v, v.chunk = c, NEW S, Answered(a, w, v, S),
           \A i \in 1 .. Len(KeysOf(a, w, c)) : i \in DOMAIN v.canonical,
           \A q \in Parts(a) : StoreOK(a, q, S[q]), NEW p \in Parts(a),
           NEW r \in 1 .. Len(S[p].groups)
    PROVE  RowsTo(w, c, v.canonical, p, r) = KeyRows(a, w, c, S[p].groups[r])
<1>1. PICK g : g = S[p].groups[r]
  OBVIOUS
<1>2. ASSUME NEW i PROVE i \in DOMAIN v.canonical /\ v.canonical[i] = <<p, r>>
                         <=> i \in 1 .. Len(KeysOf(a, w, c)) /\ KeysOf(a, w, c)[i] = g
  <2>1. ASSUME i \in DOMAIN v.canonical, v.canonical[i] = <<p, r>>
        PROVE  i \in 1 .. Len(KeysOf(a, w, c)) /\ KeysOf(a, w, c)[i] = g
    <3>1. PICK q \in Parts(a) : \E y \in 1 .. Len(S[q].groups) :
              /\ i \in 1 .. Len(KeysOf(a, w, c))
              /\ v.canonical[i] = <<q, y>> /\ S[q].groups[y] = KeysOf(a, w, c)[i]
      BY <2>1 DEF Answered
    <3>2. PICK y \in 1 .. Len(S[q].groups) :
              /\ i \in 1 .. Len(KeysOf(a, w, c))
              /\ v.canonical[i] = <<q, y>> /\ S[q].groups[y] = KeysOf(a, w, c)[i]
      BY <3>1
    <3>3. q = p /\ y = r
      BY <2>1, <3>2
    <3> QED
      BY <1>1, <3>2, <3>3
  <2>2. ASSUME i \in 1 .. Len(KeysOf(a, w, c)), KeysOf(a, w, c)[i] = g
        PROVE  i \in DOMAIN v.canonical /\ v.canonical[i] = <<p, r>>
    <3>1. i \in DOMAIN v.canonical
      BY <2>2
    <3>2. PICK q \in Parts(a) : \E y \in 1 .. Len(S[q].groups) :
              v.canonical[i] = <<q, y>> /\ S[q].groups[y] = KeysOf(a, w, c)[i]
      BY <3>1 DEF Answered
    <3>3. PICK y \in 1 .. Len(S[q].groups) : v.canonical[i] = <<q, y>> /\ S[q].groups[y] = g
      BY <2>2, <3>2
    <3>4. Home(a, g) = q /\ Home(a, g) = p
      BY <1>1, <3>3, HomeIs
    <3>5. y = r
      BY <1>1, <3>3, <3>4, HomeIs
    <3> QED
      BY <3>1, <3>3, <3>4, <3>5
  <2> QED
    BY <2>1, <2>2
<1> QED
  BY <1>1, <1>2 DEF RowsTo, KeyRows

\* The rows of a chunk are added.
LEMMA UpdatedSums ==
    ASSUME NEW a \in AggCases, a.kind = "hash", NEW w \in AggWorkers,
           NEW c \in 1 .. Len(a.input[w]), NEW v, v.chunk = c, NEW S, Answered(a, w, v, S),
           \A i \in 1 .. Len(KeysOf(a, w, c)) : i \in DOMAIN v.canonical,
           \A q \in Parts(a) : StoreOK(a, q, S[q]), NEW n, n = c - 1, LocalSums(a, w, n, S),
           NEW S2, \A q \in Parts(a) : UpdatesIs(w, v, S[q], S2[q], q)
    PROVE  LocalSums(a, w, c, S2)
<1>1. ASSUME NEW p \in Parts(a), NEW r \in 1 .. Len(S2[p].groups)
      PROVE  S2[p].aggs[r] = SetToBag(Sunk(a, w, c, S2[p].groups[r]))
  <2>1. PICK g : g = S[p].groups[r]
    OBVIOUS
  <2>2. S2[p].groups = S[p].groups
    BY DEF UpdatesIs
  <2>3. /\ r \in 1 .. Len(S[p].groups)
        /\ S2[p].aggs[r] = S[p].aggs[r] (+) SetToBag(RowsTo(w, c, v.canonical, p, r))
    BY <2>2 DEF UpdatesIs
  <2>4. RowsTo(w, c, v.canonical, p, r) = KeyRows(a, w, c, g)
    BY <2>1, <2>3, RowsToIs
  <2>5. S[p].aggs[r] = SetToBag(Sunk(a, w, n, g))
    BY <2>1, <2>3 DEF LocalSums, Sums
  <2>6. /\ Sunk(a, w, c, g) = Sunk(a, w, n, g) \cup KeyRows(a, w, c, g)
        /\ Sunk(a, w, n, g) \cap KeyRows(a, w, c, g) = {}
    BY SunkMore
  <2>7. SetToBag(Sunk(a, w, n, g)) (+) SetToBag(KeyRows(a, w, c, g)) = SetToBag(Sunk(a, w, c, g))
    BY <2>6, SumOfSets
  <2> QED
    BY <2>1, <2>2, <2>3, <2>4, <2>5, <2>7
<1>2. ASSUME NEW x \in RowsIn(a), x[1] = w, x[2] <= c
      PROVE  Has(S2[Home(a, KeyOf(a, x))].groups, KeyOf(a, x))
  <2>1. PICK g, p : g = KeyOf(a, x) /\ p = Home(a, g)
    OBVIOUS
  <2>2. p \in Parts(a)
    BY <2>1, RowFacts, HashAssumption, CaseFacts DEF Home
  <2>3. Has(S[p].groups, g)
    <3>1. x[2] \in Nat /\ c \in Nat
      BY RowFacts, CaseFacts
    <3>2. CASE x[2] <= n
      BY <1>2, <2>1, <3>2 DEF LocalSums, Present
    <3>3. CASE x[2] = c
      <4>1. PICK i \in 1 .. Len(KeysOf(a, w, c)) : KeysOf(a, w, c)[i] = g
        BY <1>2, <2>1, <3>3, RowFacts
      <4>2. i \in DOMAIN v.canonical
        OBVIOUS
      <4>3. PICK q \in Parts(a) : \E y \in 1 .. Len(S[q].groups) :
                v.canonical[i] = <<q, y>> /\ S[q].groups[y] = KeysOf(a, w, c)[i]
        BY <4>2 DEF Answered
      <4>4. PICK y \in 1 .. Len(S[q].groups) : S[q].groups[y] = g
        BY <4>1, <4>3
      <4>5. Home(a, g) = q
        BY <4>4, HomeIs
      <4> QED
        BY <2>1, <4>4, <4>5 DEF Has
    <3> QED
      BY <1>2, <3>1, <3>2, <3>3
  <2>4. S2[p].groups = S[p].groups
    BY <2>2 DEF UpdatesIs
  <2> QED
    BY <2>1, <2>3, <2>4
<1> QED
  BY <1>1, <1>2 DEF LocalSums, Sums, Present

\* UpdateAggregates puts every row of the chunk into its group, which is where the lookups
\* found it: what was sunk is one chunk more.
LEMMA UpdateAggregatesContent ==
    ASSUME Shape, Shape', Content, NEW w \in AggWorkers, UpdateAggregates(w)
    PROVE  Content'
<1>1. PICK v, S, c : v = worker[w] /\ S = stores[w] /\ c = v.chunk
  OBVIOUS
<1>2. /\ Local(w, v, S) /\ agg \in AggCases /\ v \in WorkerType /\ WorkerOK(agg, w, v, S)
      /\ \A p \in Parts(agg) : StoreOK(agg, p, S[p])
  BY <1>1, LocalOfShape
<1>3. agg.kind = "hash" /\ v.pc = "sink" /\ v.partition = Partitions + 1
  BY <1>2, UpdateAggregatesIs
<1>4. PICK v2, S2 : /\ v2 = [StartOfChunk EXCEPT !.chunk = c + 1]
                    /\ S2 \in [Parts(agg) -> StoreType] /\ Becomes(w, v2, S2)
                    /\ \A p \in Parts(agg) : UpdatesIs(w, v, S[p], S2[p], p)
  BY <1>1, <1>2, UpdateAggregatesIs
<1>5. Partitions \in Nat \ {0}
  BY AggregateSizes
<1>6. c \in 1 .. Len(agg.input[w]) /\ c \in Nat \ {0} /\ Answered(agg, w, v, S)
  <2>1. v.partition > 1
    BY <1>3, <1>5
  <2>2. c <= Len(agg.input[w]) /\ c \in Nat \ {0} /\ Answered(agg, w, v, S)
    BY <1>1, <1>2, <2>1 DEF WorkerOK, WorkerType
  <2>3. Len(agg.input[w]) \in Nat
    BY <1>2, CaseFacts
  <2> QED
    BY <2>2, <2>3
<1>7. \A i \in 1 .. Len(KeysOf(agg, w, c)) : i \in DOMAIN v.canonical
  <2>1. ASSUME NEW i \in 1 .. Len(KeysOf(agg, w, c)) PROVE i \in DOMAIN v.canonical
    <3>1. Hash[KeysOf(agg, w, c)[i]].partition \in 1 .. Partitions
      BY <1>2, <1>6, KeysFacts, HashAssumption
    <3>2. Hash[KeysOf(agg, w, c)[i]].partition < v.partition
      BY <1>3, <1>5, <3>1
    <3>3. c <= Len(agg.input[w])
      BY <1>6
    <3> QED
      BY <1>1, <1>2, <1>3, <3>2, <3>3 DEF WorkerOK
  <2> QED
    BY <2>1
<1>8. PICK n : n = c - 1
  OBVIOUS
<1>9. LocalSums(agg, w, n, S)
  BY <1>1, <1>8 DEF Content
<1>10. LocalSums(agg, w, c, S2)
  BY <1>1, <1>2, <1>3, <1>4, <1>6, <1>7, <1>8, <1>9, UpdatedSums
<1>11. v2 \in WorkerType /\ v2.chunk = c + 1 /\ (c + 1) - 1 = c
  <2>1. PICK d : d = c + 1
    OBVIOUS
  <2>2. d \in Nat \ {0} /\ d - 1 = c
    BY <1>6, <2>1
  <2>3. v2 = [StartOfChunk EXCEPT !.chunk = d]
    BY <1>4, <2>1
  <2>4. v2 \in WorkerType /\ v2.chunk = d
    BY <2>2, <2>3, StartIs
  <2> QED
    BY <2>1, <2>2, <2>4
<1>12. ~SinkDone
  BY <1>1, <1>2, <1>6, CaseFacts DEF SinkDone
<1> QED
  BY <1>4, <1>10, <1>11, <1>12, ContentSink

\* The same for a chunk sunk without a hash table.
LEMMA DirectSums ==
    ASSUME NEW a \in AggCases, a.kind # "hash", NEW w \in AggWorkers,
           NEW c \in 1 .. Len(a.input[w]), NEW n, n = c - 1, NEW S, LocalSums(a, w, n, S),
           StoreOK(a, 1, S[1]), NEW S2, DirectIs(a, w, c, S[1], S2[1])
    PROVE  LocalSums(a, w, c, S2)
<1>1. PICK s, s2 : s = S[1] /\ s2 = S2[1]
  OBVIOUS
<1>2. /\ StoreOK(a, 1, s) /\ Sums(a, w, n, s) /\ DirectIs(a, w, c, s, s2) /\ Parts(a) = {1}
      /\ \A g : Home(a, g) = 1
  BY <1>1, CaseFacts DEF LocalSums, Home
<1>3. PICK L \in Nat, M \in Nat : L = Len(s.groups) /\ M = Len(s2.groups) /\ L <= M
  BY <1>2, StoreFacts DEF StoreOK, DirectIs
<1>4. ASSUME NEW r \in 1 .. M
      PROVE  s2.aggs[r] = SetToBag(Sunk(a, w, c, s2.groups[r]))
  <2>1. PICK g : g = s2.groups[r]
    OBVIOUS
  <2>2. /\ Sunk(a, w, c, g) = Sunk(a, w, n, g) \cup KeyRows(a, w, c, g)
        /\ Sunk(a, w, n, g) \cap KeyRows(a, w, c, g) = {}
    BY SunkMore
  <2>3. SetToBag(Sunk(a, w, n, g)) (+) SetToBag(KeyRows(a, w, c, g)) = SetToBag(Sunk(a, w, c, g))
    BY <2>2, SumOfSets
  <2>4. PICK before : before = (IF r \in 1 .. L THEN s.aggs[r] ELSE EmptyBag)
    OBVIOUS
  <2>5. s2.aggs[r] = before (+) SetToBag(KeyRows(a, w, c, g))
    BY <1>2, <1>3, <2>1, <2>4 DEF DirectIs
  <2>6. before = SetToBag(Sunk(a, w, n, g))
    <3>1. CASE r \in 1 .. L
      <4>1. s2.groups[r] = s.groups[r] /\ s.aggs[r] = SetToBag(Sunk(a, w, n, s.groups[r]))
        BY <1>2, <1>3, <3>1 DEF DirectIs, Sums
      <4> QED
        BY <2>1, <2>4, <3>1, <4>1
    <3>2. CASE r \notin 1 .. L
      <4>1. ~Has(s.groups, g)
        <5>1. SUFFICES ASSUME NEW x \in 1 .. L, s.groups[x] = g PROVE FALSE
          BY <1>3 DEF Has
        <5>2. x \in 1 .. M /\ s2.groups[x] = g
          BY <1>2, <1>3, <5>1 DEF DirectIs
        <5>3. x = r
          BY <1>2, <1>3, <2>1, <5>2 DEF DirectIs, Plain
        <5> QED
          BY <3>2, <5>3
      <4>2. Sunk(a, w, n, g) = {}
        BY <1>1, <1>2, <4>1, NothingSunk DEF LocalSums
      <4> QED
        BY <2>4, <3>2, <4>2 DEF EmptyBag
    <3> QED
      BY <3>1, <3>2
  <2> QED
    BY <2>1, <2>3, <2>5, <2>6
<1>5. ASSUME NEW x \in RowsIn(a), x[1] = w, x[2] <= c
      PROVE  Has(s2.groups, KeyOf(a, x))
  <2>1. PICK g : g = KeyOf(a, x)
    OBVIOUS
  <2>2. x[2] \in Nat /\ c \in Nat
    BY RowFacts, CaseFacts
  <2>3. CASE x[2] <= n
    <3>1. Has(s.groups, g)
      BY <1>1, <1>2, <1>5, <2>1, <2>3 DEF LocalSums, Present
    <3>2. PICK y \in 1 .. L : s.groups[y] = g
      BY <1>3, <3>1 DEF Has
    <3>3. y \in 1 .. M /\ s2.groups[y] = g
      BY <1>2, <1>3, <3>2 DEF DirectIs
    <3> QED
      BY <1>3, <2>1, <3>3 DEF Has
  <2>4. CASE x[2] = c
    <3>1. PICK i \in 1 .. Len(KeysOf(a, w, c)) : KeysOf(a, w, c)[i] = g
      BY <1>5, <2>1, <2>4, RowFacts
    <3> QED
      BY <1>2, <2>1, <3>1 DEF DirectIs
  <2> QED
    BY <1>5, <2>2, <2>3, <2>4
<1> QED
  BY <1>1, <1>2, <1>3, <1>4, <1>5 DEF LocalSums, Sums, Present

\* So does a chunk sunk without a hash table.
LEMMA SinkDirectContent ==
    ASSUME Shape, Shape', Content, NEW w \in AggWorkers, SinkDirect(w)
    PROVE  Content'
<1>1. PICK v, S, c : v = worker[w] /\ S = stores[w] /\ c = v.chunk
  OBVIOUS
<1>2. /\ Local(w, v, S) /\ agg \in AggCases
      /\ \A p \in Parts(agg) : StoreOK(agg, p, S[p])
  BY <1>1, LocalOfShape
<1>3. agg.kind # "hash" /\ c \in 1 .. Len(agg.input[w]) /\ Parts(agg) = {1}
  BY <1>1, <1>2, SinkDirectIs, CaseFacts
<1>4. PICK v2, S2 : /\ v2 = [StartOfChunk EXCEPT !.chunk = c + 1]
                    /\ S2 \in [Parts(agg) -> StoreType]
                    /\ Becomes(w, v2, S2)
                    /\ DirectIs(agg, w, c, S[1], S2[1])
  BY <1>1, <1>2, SinkDirectIs
<1>5. PICK n : n = c - 1
  OBVIOUS
<1>6. LocalSums(agg, w, n, S) /\ StoreOK(agg, 1, S[1])
  BY <1>1, <1>2, <1>3, <1>5 DEF Content
<1>7. LocalSums(agg, w, c, S2)
  BY <1>2, <1>3, <1>4, <1>5, <1>6, DirectSums
<1>8. c \in Nat \ {0}
  BY <1>2, <1>3, CaseFacts
<1>9. v2 \in WorkerType /\ v2.chunk = c + 1 /\ (c + 1) - 1 = c
  <2>1. PICK d : d = c + 1
    OBVIOUS
  <2>2. d \in Nat \ {0} /\ d - 1 = c
    BY <1>8, <2>1
  <2>3. v2 = [StartOfChunk EXCEPT !.chunk = d]
    BY <1>4, <2>1
  <2>4. v2 \in WorkerType /\ v2.chunk = d
    BY <2>2, <2>3, StartIs
  <2> QED
    BY <2>1, <2>2, <2>4
<1>10. ~SinkDone
  BY <1>1, <1>2, <1>3, CaseFacts DEF SinkDone
<1> QED
  BY <1>4, <1>7, <1>9, <1>10, ContentSink

\* The merge of one partition goes on.
LEMMA ContentMerge ==
    ASSUME Shape, Content, NEW p \in Parts(agg), SinkDone, NEW m2, NEW s2, Merges(p, m2, s2),
           MergeSums(agg, stores, m2, p, s2)
    PROVE  Content'
<1>1. /\ agg' = agg /\ worker' = worker /\ stores' = stores
      /\ merge' = [merge EXCEPT ![p] = m2] /\ global' = [global EXCEPT ![p] = s2]
  BY DEF Merges
<1>2. merge'[p] = m2 /\ \A q \in Parts(agg) : q # p => merge'[q] = merge[q]
  BY <1>1 DEF Shape
<1>3. global'[p] = s2 /\ \A q \in Parts(agg) : q # p => global'[q] = global[q]
  BY <1>1 DEF Shape
<1>4. \A q \in Parts(agg) : MergeSums(agg, stores, merge'[q], q, global'[q])
  BY <1>2, <1>3 DEF Content
<1>5. SinkDone'
  BY <1>1 DEF SinkDone
<1> QED
  BY <1>1, <1>4, <1>5 DEF Content

\* A task goes from row r of a worker, the one of group g, to the next.
NextRow(a, T, p, m, m2, w, r, g) ==
    /\ w \in Sources(a) /\ r \in Nat \ {0}
    /\ Len(T[w][p].groups) \in Nat /\ r \in 1 .. Len(T[w][p].groups) /\ g = T[w][p].groups[r]
    /\ \A x, y \in 1 .. Len(T[w][p].groups) : T[w][p].groups[x] = T[w][p].groups[y] => x = y
    /\ m.slot = w /\ m.row = r /\ m2.slot = w /\ m2.row = r + 1

\* The rows of one more local row.
LEMMA MergedMore ==
    ASSUME NEW a \in AggCases, NEW T, NEW p, NEW m, NEW m2, NEW w, NEW r, NEW g,
           NextRow(a, T, p, m, m2, w, r, g), NEW n, n = Len(a.input[w])
    PROVE  /\ \A h : h # g => Merged(a, T, m2, p, h) = Merged(a, T, m, p, h)
           /\ Merged(a, T, m2, p, g) = Merged(a, T, m, p, g) \cup Sunk(a, w, n, g)
           /\ Merged(a, T, m, p, g) \cap Sunk(a, w, n, g) = {}
<1>1. PICK groups, L : groups = T[w][p].groups /\ L = Len(groups)
  OBVIOUS
<1>2. /\ w \in Sources(a) /\ r \in Nat \ {0} /\ L \in Nat /\ r \in 1 .. L /\ g = groups[r]
      /\ \A x, y \in 1 .. L : groups[x] = groups[y] => x = y
      /\ m.slot = w /\ m.row = r /\ m2.slot = w /\ m2.row = r + 1
  BY <1>1 DEF NextRow
<1>3. \A y : y \in 1 .. m2.row - 1 <=> y \in 1 .. m.row - 1 \/ y = r
  BY <1>2
<1>4. ASSUME NEW x \in RowsIn(a)
      PROVE  IsMerged(a, T, m2, p, x) <=>
                IsMerged(a, T, m, p, x) \/ (x[1] = w /\ KeyOf(a, x) = g)
  BY <1>2, <1>3, <1>1 DEF IsMerged
<1>5. ASSUME NEW x \in RowsIn(a), x[1] = w, KeyOf(a, x) = g, IsMerged(a, T, m, p, x)
      PROVE  FALSE
  <2>1. x[1] \in Nat
    BY RowFacts, WorkerNumbers
  <2>2. ~(x[1] < m.slot)
    BY <1>2, <1>5, <2>1
  <2>3. PICK y \in 1 .. r - 1 : groups[y] = g
    BY <1>2, <1>5, <1>1, <2>2 DEF IsMerged
  <2>4. y \in 1 .. L /\ y # r
    BY <1>2, <2>3
  <2> QED
    BY <1>2, <2>3, <2>4
<1>6. \A x \in RowsIn(a) : x[1] = w => x[2] <= n
  <2>1. SUFFICES ASSUME NEW x \in RowsIn(a), x[1] = w PROVE x[2] <= n
    OBVIOUS
  <2>2. x[2] \in 1 .. n
    BY <2>1, RowFacts
  <2>3. n \in Nat
    BY <2>1, RowFacts, CaseFacts
  <2> QED
    BY <2>2, <2>3
<1>7. \A h : h # g => Merged(a, T, m2, p, h) = Merged(a, T, m, p, h)
  BY <1>4 DEF Merged
<1>8. \A x : x \in Merged(a, T, m2, p, g) <=> x \in Merged(a, T, m, p, g) \cup Sunk(a, w, n, g)
  BY <1>2, <1>4, <1>6 DEF Merged, Sunk
<1>9. \A x : ~(x \in Merged(a, T, m, p, g) /\ x \in Sunk(a, w, n, g))
  BY <1>5 DEF Merged, Sunk
<1> QED
  BY <1>7, <1>8, <1>9

\* A local row with all its rows is put into the shared partition.
LEMMA PutSums ==
    ASSUME NEW a \in AggCases, NEW T, NEW m, NEW m2, NEW p, NEW s, Plain(s), NEW s2, Plain(s2),
           NEW g \in DOMAIN Hash, Home(a, g) = p, NEW A, MergeSums(a, T, m, p, s),
           Puts(s, s2, g, SetToBag(A)),
           \A h : h # g => Merged(a, T, m2, p, h) = Merged(a, T, m, p, h),
           Merged(a, T, m2, p, g) = Merged(a, T, m, p, g) \cup A,
           Merged(a, T, m, p, g) \cap A = {}, m2.slot = m.slot
    PROVE  MergeSums(a, T, m2, p, s2)
<1>1. PICK L \in Nat : L = Len(s.groups) /\ Len(s.aggs) = L
  BY StoreFacts DEF Plain
<1>2. /\ \A r \in 1 .. L : s.aggs[r] = SetToBag(Merged(a, T, m, p, s.groups[r]))
      /\ \A h \in DOMAIN Hash : Home(a, h) = p /\ Merged(a, T, m, p, h) # {} => Has(s.groups, h)
      /\ m.slot \in Sources(a) \/ \A w \in Sources(a) : w < m.slot
  BY <1>1 DEF MergeSums
<1>3. \A x, y \in 1 .. L : s.groups[x] = s.groups[y] => x = y
  BY <1>1 DEF Plain
<1>4. SetToBag(Merged(a, T, m, p, g)) (+) SetToBag(A) = SetToBag(Merged(a, T, m2, p, g))
  BY SumOfSets
<1>5. /\ s.groups \in Seq(DOMAIN Hash) /\ s.aggs \in Seq(Bag)
  BY DEF Plain, StoreType
<1>6. ASSUME NEW r \in 1 .. Len(s2.groups)
      PROVE  s2.aggs[r] = SetToBag(Merged(a, T, m2, p, s2.groups[r]))
  <2>1. CASE \E y \in 1 .. L : /\ s.groups[y] = g /\ s2.groups = s.groups
                               /\ s2.aggs = [s.aggs EXCEPT ![y] = @ (+) SetToBag(A)]
    <3>1. PICK y \in 1 .. L : /\ s.groups[y] = g /\ s2.groups = s.groups
                              /\ s2.aggs = [s.aggs EXCEPT ![y] = @ (+) SetToBag(A)]
      BY <2>1
    <3>2. DOMAIN s.aggs = 1 .. L /\ r \in 1 .. L
      BY <1>1, <1>5, <3>1, LenProperties
    <3>3. CASE r = y
      <4>1. s2.aggs[r] = s.aggs[r] (+) SetToBag(A)
        BY <3>1, <3>2, <3>3
      <4>2. s.aggs[r] = SetToBag(Merged(a, T, m, p, g))
        BY <1>2, <3>1, <3>3
      <4> QED
        BY <1>4, <3>1, <3>3, <4>1, <4>2
    <3>4. CASE r # y
      <4>1. s2.aggs[r] = s.aggs[r] /\ s2.groups[r] = s.groups[r]
        BY <3>1, <3>2, <3>4
      <4>2. s.groups[r] # g
        BY <1>3, <3>1, <3>2, <3>4
      <4> QED
        BY <1>2, <3>2, <4>1, <4>2
    <3> QED
      BY <3>3, <3>4
  <2>2. CASE /\ \A x \in 1 .. L : s.groups[x] # g
             /\ s2.groups = Append(s.groups, g)
             /\ \E b \in {SetToBag(A), EmptyBag (+) SetToBag(A)} : s2.aggs = Append(s.aggs, b)
    <3>1. PICK b \in {SetToBag(A), EmptyBag (+) SetToBag(A)} : s2.aggs = Append(s.aggs, b)
      BY <2>2
    <3>2. ~Has(s.groups, g)
      BY <1>1, <2>2 DEF Has
    <3>3. Merged(a, T, m, p, g) = {}
      BY <1>2, <3>2
    <3>4. b = SetToBag(Merged(a, T, m2, p, g))
      <4>1. SetToBag({}) = EmptyBag
        BY DEF EmptyBag
      <4> QED
        BY <1>4, <3>1, <3>3, <4>1
    <3>5. /\ Len(s2.groups) = L + 1 /\ s2.groups[L + 1] = g
          /\ \A x \in 1 .. L : s2.groups[x] = s.groups[x]
      BY <1>1, <1>5, <2>2, AppendProperties
    <3>6. /\ s2.aggs[L + 1] = b
          /\ \A x \in 1 .. L : s2.aggs[x] = s.aggs[x]
      <4>1. s2.aggs \in Seq(Bag) /\ Len(s2.aggs) = L + 1
        BY <3>5 DEF Plain, StoreType
      <4>2. DOMAIN s.aggs = 1 .. L
        BY <1>1, <1>5, LenProperties
      <4> QED
        BY <1>1, <1>5, <3>1, <4>1, <4>2
    <3>7. CASE r = L + 1
      BY <3>4, <3>5, <3>6, <3>7
    <3>8. CASE r \in 1 .. L
      <4>1. s2.aggs[r] = s.aggs[r] /\ s2.groups[r] = s.groups[r] /\ s.groups[r] # g
        BY <2>2, <3>5, <3>6, <3>8
      <4> QED
        BY <1>2, <3>8, <4>1
    <3> QED
      BY <3>5, <3>7, <3>8
  <2> QED
    BY <1>1, <2>1, <2>2 DEF Puts
<1>7. ASSUME NEW h \in DOMAIN Hash, Home(a, h) = p, Merged(a, T, m2, p, h) # {}
      PROVE  Has(s2.groups, h)
  <2>1. Longer(s.groups, s2.groups) /\ Has(s2.groups, g)
    BY PutsGroups
  <2>2. CASE h = g
    BY <2>1, <2>2
  <2>3. CASE h # g
    <3>1. Has(s.groups, h)
      BY <1>2, <1>7, <2>3
    <3> QED
      BY <2>1, <3>1 DEF Has, Longer
  <2> QED
    BY <2>2, <2>3
<1> QED
  BY <1>2, <1>6, <1>7 DEF MergeSums

\* After the last chunk a worker has sunk all its rows.
LEMMA AllSunk ==
    ASSUME Shape, Content, SinkDone, NEW w \in AggWorkers, NEW n, n = Len(agg.input[w])
    PROVE  n \in Nat /\ LocalSums(agg, w, n, stores[w])
<1>1. PICK c : c = worker[w].chunk
  OBVIOUS
<1>2. c \in 1 .. n + 1 /\ c > n
  BY <1>1 DEF Shape, WorkerOK, SinkDone
<1>3. n \in Nat
  BY CaseFacts DEF Shape
<1>4. c - 1 = n
  BY <1>2, <1>3
<1> QED
  BY <1>1, <1>3, <1>4 DEF Content

\* CombineRow puts all rows a worker has of a group into the shared partition, and none of
\* them was there.
LEMMA CombineRowContent ==
    ASSUME Shape, Content, NEW p \in Parts(agg), CombineRow(p)
    PROVE  Content'
<1>1. /\ Shared /\ Plain(global[p]) /\ agg \in AggCases
      /\ agg.kind # "perfect" => InTable(global[p])
  BY SharedOfShape DEF Shape
<1>2. PICK m, w, r : m = merge[p] /\ w = m.slot /\ r = m.row
  OBVIOUS
<1>3. /\ SinkDone /\ w \in Sources(agg) /\ w \in AggWorkers
      /\ r \in 1 .. Len(stores[w][p].groups)
  BY <1>1, <1>2, CombineRowIs
<1>4. PICK from, g, s, n : /\ from = stores[w][p] /\ g = from.groups[r] /\ s = global[p]
                           /\ n = Len(agg.input[w])
  OBVIOUS
<1>5. PICK m2, s2 : /\ Merges(p, m2, s2) /\ Plain(s2) /\ Puts(s, s2, g, from.aggs[r])
                    /\ m2.slot = w /\ m2.row = r + 1
  BY <1>1, <1>2, <1>4, CombineRowIs
<1>6. StoreOK(agg, p, from) /\ r \in 1 .. Len(from.groups)
  BY <1>3, <1>4 DEF Shape
<1>7. /\ Home(agg, g) = p /\ g \in DOMAIN Hash
      /\ \A x, y \in 1 .. Len(from.groups) : from.groups[x] = from.groups[y] => x = y
  <2>1. Home(agg, g) = p /\ g \in DOMAIN Hash
    BY <1>1, <1>4, <1>6, HomeIs
  <2>2. Plain(from)
    BY <1>6 DEF StoreOK
  <2> QED
    BY <2>1, <2>2 DEF Plain
<1>8. PICK A : A = Sunk(agg, w, n, g)
  OBVIOUS
<1>9. from.aggs[r] = SetToBag(A)
  BY <1>3, <1>4, <1>6, <1>8, AllSunk DEF LocalSums, Sums
<1>10. PICK L \in Nat : L = Len(from.groups)
  BY <1>6, StoreFacts DEF StoreOK
<1>11. r \in Nat \ {0}
  BY <1>6, <1>10
<1>17. NextRow(agg, stores, p, m, m2, w, r, g)
  BY <1>2, <1>3, <1>4, <1>5, <1>6, <1>7, <1>10, <1>11 DEF NextRow
<1>12. /\ \A h : h # g => Merged(agg, stores, m2, p, h) = Merged(agg, stores, m, p, h)
       /\ Merged(agg, stores, m2, p, g) = Merged(agg, stores, m, p, g) \cup A
       /\ Merged(agg, stores, m, p, g) \cap A = {}
  BY <1>1, <1>4, <1>8, <1>17, MergedMore
<1>13. MergeSums(agg, stores, m, p, s)
  BY <1>2, <1>4 DEF Content
<1>14. Plain(s) /\ Puts(s, s2, g, SetToBag(A))
  BY <1>1, <1>4, <1>5, <1>9
<1>15. MergeSums(agg, stores, m2, p, s2)
  BY <1>1, <1>2, <1>5, <1>7, <1>12, <1>13, <1>14, PutSums
<1> QED
  BY <1>3, <1>5, <1>15, ContentMerge

\* All rows of a worker's group are in its row of the partition.
LEMMA MergedWorker ==
    ASSUME NEW a \in AggCases, NEW T, NEW w \in Sources(a), NEW p, NEW n, n = Len(a.input[w]),
           Present(a, w, n, T[w]), NEW L \in Nat, L = Len(T[w][p].groups),
           NEW m, m.slot = w, NEW r \in Nat, m.row = r, r > L,
           NEW m2, m2.slot = w + 1, m2.row = 1, NEW h, Home(a, h) = p
    PROVE  Merged(a, T, m2, p, h) = Merged(a, T, m, p, h)
<1>1. w \in Nat
  BY WorkerNumbers DEF Sources
<1>2. ASSUME NEW x \in RowsIn(a), x[1] \in Sources(a), KeyOf(a, x) = h
      PROVE  IsMerged(a, T, m2, p, x) <=> IsMerged(a, T, m, p, x)
  <2>1. x[1] \in Nat
    BY RowFacts, WorkerNumbers
  <2>2. 1 .. 1 - 1 = {}
    OBVIOUS
  <2>3. IsMerged(a, T, m2, p, x) <=> x[1] < w + 1
    BY <2>2 DEF IsMerged
  <2>4. IsMerged(a, T, m, p, x) =>  x[1] < w + 1
    BY <1>1, <2>1 DEF IsMerged
  <2>5. ASSUME x[1] = w PROVE IsMerged(a, T, m, p, x)
    <3>1. x[2] \in 1 .. n /\ n \in Nat
      BY <2>5, RowFacts, CaseFacts
    <3>2. x[2] <= n
      BY <3>1
    <3>3. Has(T[w][p].groups, h)
      BY <1>2, <2>5, <3>2 DEF Present
    <3>4. PICK y \in 1 .. L : T[w][p].groups[y] = h
      BY <3>3 DEF Has
    <3>5. y \in 1 .. r - 1
      BY <3>4
    <3> QED
      BY <1>2, <2>5, <3>4, <3>5 DEF IsMerged
  <2>6. x[1] < w => IsMerged(a, T, m, p, x)
    BY DEF IsMerged
  <2>7. x[1] < w + 1 => x[1] < w \/ x[1] = w
    BY <1>1, <2>1
  <2> QED
    BY <2>3, <2>4, <2>5, <2>6, <2>7
<1> QED
  BY <1>2 DEF Merged

\* Behind a worker's last row every row it sunk of the partition is merged.
LEMMA CombineNextContent ==
    ASSUME Shape, Content, NEW p \in Parts(agg), CombineNextWorker(p)
    PROVE  Content'
<1>1. Shared /\ agg \in AggCases
  BY SharedOfShape DEF Shape
<1>2. PICK m, w, r : m = merge[p] /\ w = m.slot /\ r = m.row
  OBVIOUS
<1>3. /\ SinkDone /\ w \in Sources(agg) /\ w \in AggWorkers
      /\ r > Len(stores[w][p].groups)
  BY <1>1, <1>2, CombineNextIs
<1>4. PICK m2, s : Merges(p, m2, s) /\ s = global[p] /\ m2.slot = w + 1 /\ m2.row = 1
  BY <1>1, <1>2, CombineNextIs
<1>5. PICK n : n = Len(agg.input[w])
  OBVIOUS
<1>6. Present(agg, w, n, stores[w])
  BY <1>3, <1>5, AllSunk DEF LocalSums
<1>7. PICK L \in Nat : L = Len(stores[w][p].groups)
  BY <1>3, StoreFacts DEF Shape, StoreOK
<1>8. r \in Nat
  BY <1>2 DEF Shape, MergeType
<1>9. \A h : Home(agg, h) = p => Merged(agg, stores, m2, p, h) = Merged(agg, stores, m, p, h)
  <2>1. /\ m.slot = w /\ m.row = r /\ r > L /\ m2.slot = w + 1 /\ m2.row = 1
        /\ w \in Sources(agg) /\ agg \in AggCases
    BY <1>1, <1>2, <1>3, <1>4, <1>7
  <2> QED
    BY <1>5, <1>6, <1>7, <1>8, <2>1, MergedWorker
<1>10. MergeSums(agg, stores, m, p, s)
  BY <1>2, <1>4 DEF Content
<1>11. m2.slot \in Sources(agg) \/ \A u \in Sources(agg) : u < m2.slot
  <2>1. PICK k \in Nat : AggWorkers = 1 .. k
    BY WorkerNumbers
  <2>2. w \in 1 .. k
    BY <1>3, <2>1
  <2>3. CASE agg.kind = "perfect"
    <3>1. w = 1 /\ Sources(agg) = {1}
      BY <1>3, <2>3 DEF Sources
    <3> QED
      BY <1>4, <3>1
  <2>4. CASE agg.kind # "perfect"
    <3>1. Sources(agg) = 1 .. k
      BY <2>1, <2>4 DEF Sources
    <3> QED
      BY <1>4, <2>2, <3>1
  <2> QED
    BY <2>3, <2>4
<1>12. \A y \in 1 .. Len(s.groups) : Home(agg, s.groups[y]) = p
  BY <1>1, <1>4, HomeIs DEF Shape, GlobalOK
<1>13. MergeSums(agg, stores, m2, p, s)
  BY <1>9, <1>10, <1>11, <1>12 DEF MergeSums
<1> QED
  BY <1>3, <1>4, <1>13, ContentMerge

\* At the start nothing was sunk and nothing is merged.
LEMMA ContentInit == AggregateInit => Content
<1> SUFFICES ASSUME AggregateInit PROVE Content
  OBVIOUS
<1>1. Shape
  BY ShapeInit
<1>2. /\ agg \in AggCases /\ PartitionIds = Parts(agg)
      /\ worker = [w \in AggWorkers |-> StartOfChunk]
      /\ stores = [w \in AggWorkers |-> [p \in PartitionIds |-> NewStore]]
      /\ global = [p \in PartitionIds |-> NewStore]
      /\ merge = [p \in PartitionIds |-> [slot |-> 1, row |-> 1]]
  BY <1>1, CaseOfModel DEF AggregateInit, Shape
<1>3. PICK s : s = NewStore
  OBVIOUS
<1>4. s.groups = <<>>
  BY <1>3 DEF NewStore
<1>5. Len(s.groups) = 0 /\ 1 .. 0 = {}
  BY <1>4
<1>6. \A p \in Parts(agg) : merge[p].slot = 1 /\ merge[p].row = 1
  BY <1>2
<1>7. ASSUME NEW w \in AggWorkers
      PROVE  LocalSums(agg, w, worker[w].chunk - 1, stores[w])
  <2>1. worker[w].chunk = 1
    BY <1>2 DEF StartOfChunk
  <2>2. \A x \in RowsIn(agg) : ~(x[2] <= 1 - 1)
    BY <1>2, RowFacts
  <2>3. \A p \in Parts(agg) : Sums(agg, w, 1 - 1, stores[w][p])
    BY <1>2, <1>3, <1>5 DEF Sums
  <2> QED
    BY <2>1, <2>2, <2>3 DEF LocalSums, Present
<1>8. ASSUME NEW p \in Parts(agg)
      PROVE  MergeSums(agg, stores, merge[p], p, global[p])
  <2>1. \A g : Merged(agg, stores, merge[p], p, g) = {}
    BY <1>2, <1>6, NothingMerged
  <2>2. merge[p].slot \in Sources(agg)
    BY <1>6, WorkerNumbers DEF Sources
  <2> QED
    BY <1>2, <1>3, <1>5, <2>1, <2>2 DEF MergeSums
<1> QED
  BY <1>6, <1>7, <1>8 DEF Content

\* Every step keeps the sums.
LEMMA ContentNext == Shape /\ Shape' /\ Content /\ [AggregateNext]_aggregateVars => Content'
<1> SUFFICES ASSUME Shape, Shape', Content, [AggregateNext]_aggregateVars PROVE Content'
  OBVIOUS
<1>1. ASSUME NEW w \in AggWorkers, SinkStep(w) PROVE Content'
  BY <1>1, SinkDirectContent, StartPartitionContent, ProbeVectorContent, EndPartitionContent,
     UpdateAggregatesContent DEF SinkStep
<1>2. ASSUME NEW p \in PartitionIds, CombineRow(p) \/ CombineNextWorker(p) PROVE Content'
  <2>1. p \in Parts(agg)
    BY CaseOfModel DEF Shape
  <2> QED
    BY <1>2, <2>1, CombineRowContent, CombineNextContent
<1>3. CASE ReadGroups
  BY <1>3 DEF ReadGroups, Content, SinkDone
<1>4. CASE UNCHANGED aggregateVars
  BY <1>4 DEF aggregateVars, Content, SinkDone
<1> QED
  BY <1>1, <1>2, <1>3, <1>4 DEF AggregateNext

------------------------------------------------------------------------------
(* The cursor: what is put out is the result up to the cursor.               *)

\* The rows of a partition, and those of all of them.
ResultRow == [group : DOMAIN Hash, rows : Bag]
StoreRows(s) == [r \in 1 .. Len(s.groups) |-> [group |-> s.groups[r], rows |-> s.aggs[r]]]
RowsOfAll(a, G) == [p \in Parts(a) |-> StoreRows(G[p])]

\* The rows of a store are those of its groups, in their order.
LEMMA StoreRowsAre ==
    ASSUME NEW s, Plain(s)
    PROVE  /\ StoreRows(s) \in Seq(ResultRow) /\ Len(StoreRows(s)) = Len(s.groups)
           /\ \A r \in 1 .. Len(s.groups) :
                 StoreRows(s)[r].group = s.groups[r] /\ StoreRows(s)[r].rows = s.aggs[r]
<1>1. PICK L \in Nat : L = Len(s.groups) /\ Len(s.aggs) = L
  BY StoreFacts DEF Plain
<1>2. \A r \in 1 .. L : s.groups[r] \in DOMAIN Hash /\ s.aggs[r] \in Bag
  BY <1>1 DEF Plain, StoreType
<1>3. PICK rows : rows = [r \in 1 .. L |-> [group |-> s.groups[r], rows |-> s.aggs[r]]]
  OBVIOUS
<1>4. rows \in [1 .. L -> ResultRow]
  BY <1>2, <1>3 DEF ResultRow
<1>5. rows \in Seq(ResultRow) /\ Len(rows) = L
  BY <1>4
<1>6. StoreRows(s) = rows
  BY <1>1, <1>3 DEF StoreRows
<1> QED
  BY <1>1, <1>3, <1>5, <1>6

\* Result is the rows of the partitions one after the other.
LEMMA ResultIs ==
    ASSUME Shape
    PROVE  /\ RowsOfAll(agg, global) \in Seq(Seq(ResultRow))
           /\ Result = FlattenSeq(RowsOfAll(agg, global)) /\ Result \in Seq(ResultRow)
           /\ Len(Result) \in Nat
<1>1. PartitionIds = Parts(agg)
  BY CaseOfModel DEF Shape
<1>2. \A p \in Parts(agg) : Plain(global[p]) /\ DOMAIN global[p].groups = 1 .. Len(global[p].groups)
  BY StoreFacts DEF Shape, GlobalOK, StoreOK
<1>3. Result = FlattenSeq(RowsOfAll(agg, global))
  BY <1>1, <1>2 DEF Result, RowsOfAll, StoreRows
<1>4. PICK n \in Nat : Parts(agg) = 1 .. n
  BY AggregateSizes DEF Parts
<1>5. RowsOfAll(agg, global) \in Seq(Seq(ResultRow))
  BY <1>2, <1>4, StoreRowsAre DEF RowsOfAll
<1>6. Result \in Seq(ResultRow)
  BY <1>3, <1>5, FlattenType
<1> QED
  BY <1>3, <1>5, <1>6, LenProperties

\* What has been put out: nothing before the end of the merge, then the result up to the cursor.
ReaderOK ==
    \/ reader = 0 /\ groups_out = <<>>
    \/ Finalized /\ reader \in 1 .. Len(Result) /\ groups_out = SubSeq(Result, 1, reader)

\* A worker that takes a step of its sink has rows left.
LEMMA SinkingIsNotDone ==
    ASSUME Shape, NEW w \in AggWorkers, SinkStep(w)
    PROVE  ~SinkDone
<1>1. PICK v : v = worker[w]
  OBVIOUS
<1>2. WorkerOK(agg, w, v, stores[w]) /\ v \in WorkerType
  BY <1>1 DEF Shape
<1>3. v.chunk \in Nat /\ Len(agg.input[w]) \in Nat /\ Partitions \in Nat \ {0} /\ v.partition \in Nat
  BY <1>2, CaseFacts, AggregateSizes DEF Shape, WorkerType
<1>4. v.chunk <= Len(agg.input[w])
  <2>1. CASE SinkDirect(w) \/ StartPartition(w)
    BY <1>1, <2>1 DEF SinkDirect, StartPartition
  <2>2. CASE v.pc = "probe" \/ v.partition > Partitions
    BY <1>2, <1>3, <2>2 DEF WorkerOK
  <2>3. CASE ProbeVector(w)
    BY <1>1, <2>2, <2>3 DEF ProbeVector
  <2>4. CASE EndPartition(w)
    BY <1>1, <2>2, <2>4 DEF EndPartition
  <2>5. CASE UpdateAggregates(w)
    BY <1>1, <2>2, <2>5 DEF UpdateAggregates
  <2> QED
    BY <2>1, <2>3, <2>4, <2>5 DEF SinkStep
<1> QED
  BY <1>1, <1>3, <1>4 DEF SinkDone

\* After the merge nothing but the cursor moves.
LEMMA Stops ==
    ASSUME Shape, Finalized, [AggregateNext]_aggregateVars
    PROVE  /\ agg' = agg /\ worker' = worker /\ global' = global /\ merge' = merge
           /\ ReadGroups \/ (reader' = reader /\ groups_out' = groups_out)
<1>1. ASSUME NEW w \in AggWorkers, SinkStep(w) PROVE FALSE
  BY <1>1, SinkingIsNotDone DEF Finalized
<1>2. ASSUME NEW p \in PartitionIds, CombineRow(p) \/ CombineNextWorker(p) PROVE FALSE
  BY <1>2 DEF Finalized, CombineRow, CombineNextWorker
<1>3. CASE ReadGroups
  BY <1>3 DEF ReadGroups
<1>4. CASE UNCHANGED aggregateVars
  BY <1>4 DEF aggregateVars
<1> QED
  BY <1>1, <1>2, <1>3, <1>4 DEF AggregateNext

\* The result does not change any more.
LEMMA ResultStays ==
    ASSUME agg' = agg, worker' = worker, global' = global, merge' = merge
    PROVE  Result' = Result /\ (Finalized => Finalized')
<1>1. Result' = Result
  BY DEF Result, PartitionIds, IsHash
<1>2. Finalized => Finalized'
  BY DEF Finalized, SinkDone, MergeDone, PartitionIds, IsHash, MergeSources, CombinedWorkers
<1> QED
  BY <1>1, <1>2

\* A chunk goes on where the last one ended.
LEMMA ReadMore ==
    ASSUME NEW S, NEW R \in Seq(S), NEW at \in 0 .. Len(R), at < Len(R),
           NEW chunk, chunk = SubSeq(R, at + 1, Min({at + EmitSize, Len(R)}))
    PROVE  /\ at + Len(chunk) \in 1 .. Len(R)
           /\ SubSeq(R, 1, at) \o chunk = SubSeq(R, 1, at + Len(chunk))
<1>1. PICK L \in Nat, k \in Nat : L = Len(R) /\ k = Min({at + EmitSize, Len(R)})
                                  /\ at < k /\ k <= L /\ at \in Nat
  <2>1. Len(R) \in Nat /\ EmitSize \in Nat \ {0} /\ at \in Nat
    BY LenProperties, AggregateSizes
  <2>2. PICK k : k = Min({at + EmitSize, Len(R)})
    OBVIOUS
  <2>3. k \in {at + EmitSize, Len(R)} /\ k <= Len(R)
    BY <2>1, <2>2, SmallerOf
  <2> QED
    BY <2>1, <2>2, <2>3
<1>2. Len(chunk) = k - at
  <2>1. \A i \in at + 1 .. k : R[i] \in S
    <3>1. \A i \in 1 .. L : R[i] \in S
      BY <1>1, ElementOfSeq
    <3> QED
      BY <1>1, <3>1
  <2>2. at + 1 \in Int /\ k \in Int /\ at + 1 <= k
    BY <1>1
  <2>3. Len(SubSeq(R, at + 1, k)) = k - (at + 1) + 1
    BY <2>1, <2>2, SubSeqProperties
  <2> QED
    BY <1>1, <2>3
<1>3. SubSeq(R, 1, at) \o SubSeq(R, at + 1, k) = SubSeq(R, 1, k)
  <2>1. 1 \in 1 .. Len(R) + 1 /\ at \in 1 - 1 .. Len(R) /\ k \in at .. Len(R)
    BY <1>1
  <2> QED
    BY <2>1, ConcatAdjacentSubSeq
<1>4. at + Len(chunk) = k
  BY <1>1, <1>2
<1>5. chunk = SubSeq(R, at + 1, k)
  BY <1>1
<1>6. k \in 1 .. Len(R)
  BY <1>1
<1> QED
  BY <1>3, <1>4, <1>5, <1>6

\* The cursor moves only when the merge is over, and nothing changes the result then.
LEMMA ReaderNext == Shape /\ ReaderOK /\ [AggregateNext]_aggregateVars => ReaderOK'
<1> SUFFICES ASSUME Shape, ReaderOK, [AggregateNext]_aggregateVars PROVE ReaderOK'
  OBVIOUS
<1>1. CASE ReadGroups
  <2>1. PICK R, chunk : R = Result /\ chunk = SubSeq(R, reader + 1, Min({reader + EmitSize, Len(R)}))
    OBVIOUS
  <2>2. /\ Finalized /\ reader < Len(R) /\ groups_out' = groups_out \o chunk
        /\ reader' = reader + Len(chunk)
        /\ agg' = agg /\ worker' = worker /\ global' = global /\ merge' = merge
    BY <1>1, <2>1 DEF ReadGroups
  <2>3. R \in Seq(ResultRow) /\ Len(R) \in Nat
    BY <2>1, ResultIs
  <2>4. reader \in 0 .. Len(R) /\ groups_out = SubSeq(R, 1, reader)
    <3>1. CASE reader = 0 /\ groups_out = <<>>
      <4>1. SubSeq(R, 1, 0) = <<>>
        BY SubSeqEmpty
      <4> QED
        BY <2>3, <3>1, <4>1
    <3>2. CASE Finalized /\ reader \in 1 .. Len(Result) /\ groups_out = SubSeq(Result, 1, reader)
      BY <2>1, <2>3, <3>2
    <3> QED
      BY <3>1, <3>2 DEF ReaderOK
  <2>5. reader' \in 1 .. Len(R) /\ groups_out' = SubSeq(R, 1, reader')
    <3>1. PICK at : at = reader
      OBVIOUS
    <3>2. /\ at + Len(chunk) \in 1 .. Len(R)
          /\ SubSeq(R, 1, at) \o chunk = SubSeq(R, 1, at + Len(chunk))
      BY <2>1, <2>2, <2>3, <2>4, <3>1, ReadMore
    <3> QED
      BY <2>2, <2>4, <3>1, <3>2
  <2>6. Result' = R /\ Finalized'
    BY <2>1, <2>2, ResultStays
  <2> QED
    BY <2>5, <2>6 DEF ReaderOK
<1>2. CASE ~ReadGroups
  <2>1. reader' = reader /\ groups_out' = groups_out
    <3>1. ASSUME NEW w \in AggWorkers, SinkStep(w)
          PROVE  reader' = reader /\ groups_out' = groups_out
      BY <3>1 DEF SinkStep, SinkDirect, StartPartition, ProbeVector, EndPartition,
                  UpdateAggregates
    <3>2. ASSUME NEW p \in PartitionIds, CombineRow(p) \/ CombineNextWorker(p)
          PROVE  reader' = reader /\ groups_out' = groups_out
      BY <3>2 DEF CombineRow, CombineNextWorker
    <3>3. CASE UNCHANGED aggregateVars
      BY <3>3 DEF aggregateVars
    <3> QED
      BY <1>2, <3>1, <3>2, <3>3 DEF AggregateNext
  <2>2. CASE reader = 0 /\ groups_out = <<>>
    BY <2>1, <2>2 DEF ReaderOK
  <2>3. CASE Finalized /\ reader \in 1 .. Len(Result) /\ groups_out = SubSeq(Result, 1, reader)
    <3>1. Result' = Result /\ Finalized'
      BY <2>3, Stops, ResultStays
    <3> QED
      BY <2>1, <2>3, <3>1 DEF ReaderOK
  <2> QED
    BY <2>2, <2>3 DEF ReaderOK
<1> QED
  BY <1>1, <1>2

------------------------------------------------------------------------------
(* The result has every row of the partitions once.                          *)

\* A sequence has the elements of the first n sequences, no others, and each once, if no
\* two places of the sequences have the same element.
Different(ss) ==
    \A p, q \in 1 .. Len(ss) : \A r \in 1 .. Len(ss[p]), t \in 1 .. Len(ss[q]) :
        ss[p][r] = ss[q][t] => p = q /\ r = t
HasFirst(ss, n, u) ==
    \A p \in 1 .. n : \A r \in 1 .. Len(ss[p]) : \E i \in 1 .. Len(u) : u[i] = ss[p][r]
FromFirst(ss, n, u) ==
    \A i \in 1 .. Len(u) : \E p \in 1 .. n : \E r \in 1 .. Len(ss[p]) : u[i] = ss[p][r]
NoneTwice(u) == \A i, j \in 1 .. Len(u) : u[i] = u[j] => i = j

\* One more sequence that has none of the elements so far.
LEMMA FlattenStep ==
    ASSUME NEW S, NEW ss \in Seq(Seq(S)), Different(ss), NEW n \in 0 .. Len(ss) - 1,
           NEW u \in Seq(S), HasFirst(ss, n, u), FromFirst(ss, n, u), NoneTwice(u),
           NEW v, v = u \o ss[n + 1]
    PROVE  HasFirst(ss, n + 1, v) /\ FromFirst(ss, n + 1, v) /\ NoneTwice(v)
<1>1. PICK N \in Nat : N = Len(ss) /\ n \in Nat /\ n + 1 \in 1 .. N /\ n <= N
  BY LenProperties
<1>2. PICK t \in Seq(S) : t = ss[n + 1]
  BY <1>1, ElementOfSeq
<1>3. PICK L \in Nat, M \in Nat : L = Len(u) /\ M = Len(t)
  BY LenProperties
<1>4. /\ v \in Seq(S) /\ Len(v) = L + M
      /\ \A i \in 1 .. L + M : v[i] = IF i <= L THEN u[i] ELSE t[i - L]
  BY <1>2, <1>3, ConcatProperties
<1>5. \A i \in 1 .. L : i \in 1 .. L + M /\ v[i] = u[i]
  BY <1>3, <1>4
<1>6. ASSUME NEW r \in 1 .. M PROVE L + r \in 1 .. L + M /\ v[L + r] = t[r]
  <2>1. L + r \in 1 .. L + M /\ ~(L + r <= L) /\ (L + r) - L = r
    BY <1>3
  <2> QED
    BY <1>4, <2>1
<1>7. ASSUME NEW i \in 1 .. L + M PROVE i \in 1 .. L \/ \E r \in 1 .. M : i = L + r
  <2>1. CASE i <= L
    BY <1>3, <2>1
  <2>2. CASE ~(i <= L)
    <3>1. i - L \in 1 .. M /\ i = L + (i - L)
      BY <1>3, <2>2
    <3> QED
      BY <3>1
  <2> QED
    BY <2>1, <2>2
<1>8. HasFirst(ss, n + 1, v)
  <2>1. SUFFICES ASSUME NEW p \in 1 .. n + 1, NEW r \in 1 .. Len(ss[p])
                 PROVE  \E i \in 1 .. Len(v) : v[i] = ss[p][r]
    BY DEF HasFirst
  <2>2. CASE p \in 1 .. n
    <3>1. PICK i \in 1 .. L : u[i] = ss[p][r]
      BY <1>3, <2>2 DEF HasFirst
    <3> QED
      BY <1>4, <1>5, <3>1
  <2>3. CASE p = n + 1
    <3>1. r \in 1 .. M /\ ss[p][r] = t[r]
      BY <1>2, <1>3, <2>3
    <3>2. PICK i : i = L + r
      OBVIOUS
    <3>3. i \in 1 .. L + M /\ v[i] = t[r]
      BY <1>6, <3>1, <3>2
    <3> QED
      BY <1>4, <3>1, <3>3
  <2>4. p \in 1 .. n \/ p = n + 1
    BY <1>1
  <2> QED
    BY <2>2, <2>3, <2>4
<1>9. ASSUME NEW i \in 1 .. L
      PROVE  \E p \in 1 .. n : \E r \in 1 .. Len(ss[p]) : v[i] = ss[p][r]
  BY <1>3, <1>5 DEF FromFirst
<1>10. FromFirst(ss, n + 1, v)
  <2>1. SUFFICES ASSUME NEW i \in 1 .. L + M
                 PROVE  \E p \in 1 .. n + 1 : \E r \in 1 .. Len(ss[p]) : v[i] = ss[p][r]
    BY <1>4 DEF FromFirst
  <2>2. CASE i \in 1 .. L
    <3>1. PICK p \in 1 .. n : \E r \in 1 .. Len(ss[p]) : v[i] = ss[p][r]
      BY <1>9, <2>2
    <3>2. p \in 1 .. n + 1
      BY <1>1
    <3> QED
      BY <3>1, <3>2
  <2>3. CASE \E r \in 1 .. M : i = L + r
    <3>1. PICK r \in 1 .. M : i = L + r
      BY <2>3
    <3>2. v[i] = ss[n + 1][r] /\ r \in 1 .. Len(ss[n + 1]) /\ n + 1 \in 1 .. n + 1
      BY <1>1, <1>2, <1>3, <1>6, <3>1
    <3> QED
      BY <3>2
  <2> QED
    BY <1>7, <2>2, <2>3
<1>11. NoneTwice(v)
  <2>1. SUFFICES ASSUME NEW i \in 1 .. L + M, NEW j \in 1 .. L + M, v[i] = v[j] PROVE i = j
    BY <1>4 DEF NoneTwice
  <2>2. ASSUME NEW x \in 1 .. L, NEW r \in 1 .. M PROVE v[x] # v[L + r]
    <3>1. SUFFICES ASSUME v[x] = v[L + r] PROVE FALSE
      OBVIOUS
    <3>2. PICK p \in 1 .. n : \E z \in 1 .. Len(ss[p]) : v[x] = ss[p][z]
      BY <1>9
    <3>3. PICK z \in 1 .. Len(ss[p]) : v[x] = ss[p][z]
      BY <3>2
    <3>4. PICK q : q = n + 1
      OBVIOUS
    <3>5. q \in 1 .. Len(ss) /\ p \in 1 .. Len(ss) /\ p # q
      BY <1>1, <3>4
    <3>6. r \in 1 .. Len(ss[q]) /\ v[L + r] = ss[q][r]
      BY <1>2, <1>3, <1>6, <3>4
    <3>7. z \in 1 .. Len(ss[p]) /\ ss[p][z] = ss[q][r]
      BY <3>1, <3>3, <3>6
    <3>8. \A k \in 1 .. Len(ss[p]), y \in 1 .. Len(ss[q]) : ss[p][k] # ss[q][y]
      BY <3>5 DEF Different
    <3> QED
      BY <3>6, <3>7, <3>8
  <2>3. CASE i \in 1 .. L /\ j \in 1 .. L
    BY <1>3, <1>5, <2>1, <2>3 DEF NoneTwice
  <2>4. ASSUME NEW r \in 1 .. M, NEW z \in 1 .. M, i = L + r, j = L + z PROVE i = j
    <3>1. t[r] = t[z]
      BY <1>6, <2>1, <2>4
    <3>2. r = z
      BY <1>1, <1>2, <1>3, <3>1 DEF Different
    <3> QED
      BY <2>4, <3>2
  <2> QED
    BY <1>7, <2>1, <2>2, <2>3, <2>4
<1> QED
  BY <1>8, <1>10, <1>11

\* Sequences with different elements, one after the other, have each element once.
LEMMA FlattenElements ==
    ASSUME NEW S, NEW ss \in Seq(Seq(S)), Different(ss)
    PROVE  /\ HasFirst(ss, Len(ss), FlattenSeq(ss)) /\ FromFirst(ss, Len(ss), FlattenSeq(ss))
           /\ NoneTwice(FlattenSeq(ss))
<1>1. PICK at \in [Nat -> Seq(S)] :
          at[0] = <<>> /\ \A n \in 0 .. Len(ss) - 1 : at[n + 1] = at[n] \o ss[n + 1]
  BY Running
<1>2. FlattenSeq(ss) = at[Len(ss)] /\ Len(ss) \in Nat
  BY <1>1, FlattenRuns, LenProperties
<1> DEFINE Good(n) == HasFirst(ss, n, at[n]) /\ FromFirst(ss, n, at[n]) /\ NoneTwice(at[n])
           T == {n \in Nat : n <= Len(ss) => Good(n)}
<1>3. 0 \in T
  <2>1. PICK u : u = at[0]
    OBVIOUS
  <2>2. Len(u) = 0 /\ 1 .. 0 = {}
    BY <1>1, <2>1
  <2>3. Good(0)
    BY <2>1, <2>2 DEF HasFirst, FromFirst, NoneTwice
  <2> QED
    BY <2>3
<1>4. ASSUME NEW n \in Nat, n \in T PROVE n + 1 \in T
  <2>1. SUFFICES ASSUME n + 1 <= Len(ss) PROVE Good(n + 1)
    OBVIOUS
  <2>2. n \in 0 .. Len(ss) - 1 /\ n <= Len(ss)
    BY <1>2, <2>1
  <2>3. PICK u, v : u = at[n] /\ v = at[n + 1]
    OBVIOUS
  <2>4. /\ u \in Seq(S) /\ v = u \o ss[n + 1]
        /\ HasFirst(ss, n, u) /\ FromFirst(ss, n, u) /\ NoneTwice(u)
    BY <1>1, <1>4, <2>2, <2>3
  <2>5. HasFirst(ss, n + 1, v) /\ FromFirst(ss, n + 1, v) /\ NoneTwice(v)
    BY <2>2, <2>4, FlattenStep
  <2> QED
    BY <2>3, <2>5
<1>5. \A n \in Nat : n \in T
  <2> HIDE DEF T
  <2> QED
    BY <1>3, <1>4, NumberInduction
<1> QED
  BY <1>2, <1>5

\* The groups of the input, and the rows of a group.
KeysIn(a) == {KeyOf(a, x) : x \in RowsIn(a)}
RowsOf(a, g) == {x \in RowsIn(a) : KeyOf(a, x) = g}

\* When the merge is over, a shared partition has its groups with all their rows.
LEMMA GlobalIsExact ==
    ASSUME Shape, Content, Finalized, \A x \in RowsIn(agg) : x[1] \in Sources(agg),
           NEW p \in Parts(agg), NEW s, s = global[p]
    PROVE  /\ Plain(s) /\ StoreOK(agg, p, s)
           /\ \A r \in 1 .. Len(s.groups) : /\ s.groups[r] \in KeysIn(agg)
                                            /\ s.aggs[r] = SetToBag(RowsOf(agg, s.groups[r]))
           /\ \A g \in KeysIn(agg) : Home(agg, g) = p => Has(s.groups, g)
<1>1. PICK m : m = merge[p]
  OBVIOUS
<1>2. MergeSums(agg, stores, m, p, s) /\ StoreOK(agg, p, s) /\ Plain(s) /\ agg \in AggCases
  BY <1>1 DEF Content, Shape, GlobalOK, StoreOK
<1>3. m.slot \notin Sources(agg)
  BY <1>1, <1>2, CaseOfModel DEF Finalized, MergeDone
<1>4. \A w \in Sources(agg) : w < m.slot
  BY <1>2, <1>3 DEF MergeSums
<1>5. ASSUME NEW g PROVE Merged(agg, stores, m, p, g) = RowsOf(agg, g)
  BY <1>4 DEF Merged, IsMerged, RowsOf
<1>6. ASSUME NEW r \in 1 .. Len(s.groups)
      PROVE  /\ s.groups[r] \in KeysIn(agg)
             /\ s.aggs[r] = SetToBag(RowsOf(agg, s.groups[r]))
  <2>1. s.groups[r] \in KeysIn(agg)
    BY <1>2 DEF StoreOK, KeysIn
  <2>2. s.aggs[r] = SetToBag(RowsOf(agg, s.groups[r]))
    BY <1>2, <1>5 DEF MergeSums
  <2> QED
    BY <2>1, <2>2
<1>7. ASSUME NEW g \in KeysIn(agg), Home(agg, g) = p PROVE Has(s.groups, g)
  <2>1. PICK x \in RowsIn(agg) : g = KeyOf(agg, x)
    BY DEF KeysIn
  <2>2. g \in DOMAIN Hash
    BY <1>2, <2>1, RowFacts
  <2>3. x \in RowsOf(agg, g)
    BY <2>1 DEF RowsOf
  <2>4. Merged(agg, stores, m, p, g) # {}
    BY <1>5, <2>3
  <2> QED
    BY <1>2, <1>7, <2>2, <2>4 DEF MergeSums
<1> QED
  BY <1>2, <1>6, <1>7

\* So has the result, each group once.
LEMMA ResultIsExact ==
    ASSUME Shape, Content, Finalized, \A x \in RowsIn(agg) : x[1] \in Sources(agg),
           NEW R, R = Result
    PROVE  /\ \A i \in 1 .. Len(R) : /\ R[i].group \in KeysIn(agg)
                                     /\ R[i].rows = SetToBag(RowsOf(agg, R[i].group))
           /\ \A g \in KeysIn(agg) : \E i \in 1 .. Len(R) : R[i].group = g
           /\ \A i, j \in 1 .. Len(R) : R[i].group = R[j].group => i = j
<1>1. PICK ss : ss = RowsOfAll(agg, global)
  OBVIOUS
<1>2. ss \in Seq(Seq(ResultRow)) /\ R = FlattenSeq(ss) /\ R \in Seq(ResultRow)
  BY <1>1, ResultIs
<1>3. agg \in AggCases
  BY DEF Shape
<1>4. Parts(agg) = 1 .. Len(ss) /\ \A p \in Parts(agg) : ss[p] = StoreRows(global[p])
  <2>1. DOMAIN ss = Parts(agg) /\ \A p \in Parts(agg) : ss[p] = StoreRows(global[p])
    BY <1>1 DEF RowsOfAll
  <2> QED
    BY <1>2, <2>1, LenProperties
<1>5. ASSUME NEW p \in Parts(agg), NEW r \in 1 .. Len(ss[p])
      PROVE  /\ r \in 1 .. Len(global[p].groups) /\ ss[p][r].group = global[p].groups[r]
             /\ ss[p][r].group \in KeysIn(agg) /\ Home(agg, ss[p][r].group) = p
             /\ ss[p][r].rows = SetToBag(RowsOf(agg, ss[p][r].group))
             /\ \A t \in 1 .. Len(ss[p]) : ss[p][t].group = ss[p][r].group => t = r
  <2>1. PICK s : s = global[p]
    OBVIOUS
  <2>2. /\ Plain(s) /\ StoreOK(agg, p, s)
        /\ \A t \in 1 .. Len(s.groups) : /\ s.groups[t] \in KeysIn(agg)
                                         /\ s.aggs[t] = SetToBag(RowsOf(agg, s.groups[t]))
    BY <2>1, GlobalIsExact
  <2>3. PICK rows : rows = StoreRows(s)
    OBVIOUS
  <2>4. /\ ss[p] = rows /\ Len(rows) = Len(s.groups)
        /\ \A t \in 1 .. Len(s.groups) : rows[t].group = s.groups[t] /\ rows[t].rows = s.aggs[t]
    BY <1>4, <2>1, <2>2, <2>3, StoreRowsAre
  <2>5. r \in 1 .. Len(s.groups)
    BY <2>4
  <2>6. Home(agg, s.groups[r]) = p /\ \A t \in 1 .. Len(s.groups) : s.groups[t] = s.groups[r] => t = r
    BY <1>3, <2>2, <2>5, HomeIs
  <2> QED
    BY <2>1, <2>2, <2>4, <2>5, <2>6
<1>6. ASSUME NEW p \in Parts(agg), NEW q \in Parts(agg), NEW r \in 1 .. Len(ss[p]),
             NEW t \in 1 .. Len(ss[q]), ss[p][r].group = ss[q][t].group
      PROVE  p = q /\ r = t
  <2>1. p = q
    BY <1>5, <1>6
  <2> QED
    BY <1>5, <1>6, <2>1
<1>7. Different(ss)
  BY <1>4, <1>6 DEF Different
<1>8. HasFirst(ss, Len(ss), R) /\ FromFirst(ss, Len(ss), R) /\ NoneTwice(R)
  BY <1>2, <1>7, FlattenElements
<1>9. ASSUME NEW i \in 1 .. Len(R)
      PROVE  \E p \in Parts(agg) : \E r \in 1 .. Len(ss[p]) : R[i] = ss[p][r]
  BY <1>4, <1>8 DEF FromFirst
<1>10. ASSUME NEW i \in 1 .. Len(R)
       PROVE  R[i].group \in KeysIn(agg) /\ R[i].rows = SetToBag(RowsOf(agg, R[i].group))
  BY <1>5, <1>9
<1>11. ASSUME NEW g \in KeysIn(agg) PROVE \E i \in 1 .. Len(R) : R[i].group = g
  <2>1. PICK p, s : p = Home(agg, g) /\ s = global[p]
    OBVIOUS
  <2>2. p \in Parts(agg)
    <3>1. g \in DOMAIN Hash
      BY <1>3, RowFacts DEF KeysIn
    <3> QED
      BY <1>3, <2>1, <3>1, HashAssumption, CaseFacts DEF Home
  <2>3. Plain(s) /\ Has(s.groups, g)
    BY <2>1, <2>2, GlobalIsExact
  <2>4. PICK r \in 1 .. Len(s.groups) : s.groups[r] = g
    BY <2>3 DEF Has
  <2>5. r \in 1 .. Len(ss[p]) /\ ss[p][r].group = g
    BY <1>4, <2>1, <2>2, <2>3, <2>4, StoreRowsAre
  <2>6. PICK i \in 1 .. Len(R) : R[i] = ss[p][r]
    BY <1>4, <1>8, <2>2, <2>5 DEF HasFirst
  <2> QED
    BY <2>5, <2>6
<1>12. ASSUME NEW i \in 1 .. Len(R), NEW j \in 1 .. Len(R), R[i].group = R[j].group
       PROVE  i = j
  <2>1. PICK p \in Parts(agg) : \E r \in 1 .. Len(ss[p]) : R[i] = ss[p][r]
    BY <1>9
  <2>2. PICK r \in 1 .. Len(ss[p]) : R[i] = ss[p][r]
    BY <2>1
  <2>3. PICK q \in Parts(agg) : \E t \in 1 .. Len(ss[q]) : R[j] = ss[q][t]
    BY <1>9
  <2>4. PICK t \in 1 .. Len(ss[q]) : R[j] = ss[q][t]
    BY <2>3
  <2>5. p = q /\ r = t
    BY <1>6, <1>12, <2>1, <2>2, <2>3, <2>4
  <2> QED
    BY <1>8, <2>1, <2>2, <2>4, <2>5 DEF NoneTwice
<1> QED
  BY <1>10, <1>11, <1>12

\* So the result has as many rows as there are groups.
LEMMA ResultCount ==
    ASSUME NEW S, NEW R \in Seq(ResultRow),
           \A i \in 1 .. Len(R) : R[i].group \in S,
           \A g \in S : \E i \in 1 .. Len(R) : R[i].group = g,
           \A i, j \in 1 .. Len(R) : R[i].group = R[j].group => i = j
    PROVE  Cardinality(S) = Len(R)
<1>1. PICK n \in Nat : n = Len(R)
  BY LenProperties
<1>2. PICK f : f = [i \in 1 .. n |-> R[i].group]
  OBVIOUS
<1>3. f \in [1 .. n -> S]
  BY <1>1, <1>2
<1>4. f \in Injection(1 .. n, S)
  BY <1>1, <1>2, <1>3 DEF Injection, IsInjective
<1>5. f \in Surjection(1 .. n, S)
  BY <1>1, <1>2, <1>3 DEF Surjection
<1>6. ExistsBijection(1 .. n, S)
  BY <1>4, <1>5 DEF ExistsBijection, Bijection
<1> QED
  BY <1>1, <1>6, FS_CountingElements

\* The groups the property names are those of the input, an aggregate without group columns
\* over no rows apart.
LEMMA GroupsAre ==
    ASSUME Shape, agg.kind = "single" => InputRows # {}
    PROVE  /\ Groups = KeysIn(agg)
           /\ \A g : {x \in InputRows : GroupOf(x[1], x[2], x[3]) = g} = RowsOf(agg, g)
<1>1. /\ InputRows = RowsIn(agg)
      /\ \A x \in RowsIn(agg) : GroupOf(x[1], x[2], x[3]) = KeyOf(agg, x)
  BY CaseOfModel DEF Shape
<1>2. {GroupOf(x[1], x[2], x[3]) : x \in InputRows} = KeysIn(agg)
  BY <1>1 DEF KeysIn
<1>3. CASE agg.kind = "single"
  <2>1. \A x : KeyOf(agg, x) = AllRows
    BY <1>3 DEF KeyOf
  <2>2. KeysIn(agg) = {AllRows}
    BY <1>1, <1>3, <2>1 DEF KeysIn
  <2> QED
    BY <1>1, <1>3, <2>2 DEF Groups, RowsOf
<1>4. CASE agg.kind # "single"
  BY <1>1, <1>2, <1>4 DEF Groups, RowsOf
<1> QED
  BY <1>3, <1>4

\* When everything is read, what was put out is the result.
LEMMA ReadIsResult ==
    ASSUME Shape, ReaderOK, Read
    PROVE  groups_out = Result
<1>1. PICK R : R = Result
  OBVIOUS
<1>2. R \in Seq(ResultRow) /\ Len(R) \in Nat
  BY <1>1, ResultIs
<1>3. reader = Len(R)
  BY <1>1 DEF Read
<1>4. CASE reader = 0 /\ groups_out = <<>>
  BY <1>1, <1>2, <1>3, <1>4, EmptySeq
<1>5. CASE reader \in 1 .. Len(R) /\ groups_out = SubSeq(R, 1, reader)
  <2>1. SubSeq(R, 1, Len(R)) = R
    BY <1>2, SubSeqFull
  <2> QED
    BY <1>1, <1>3, <1>5, <2>1
<1> QED
  BY <1>1, <1>4, <1>5 DEF ReaderOK

------------------------------------------------------------------------------
(* The theorem.                                                              *)

\* Every row is sunk by a worker whose stores are merged, and an aggregate without group
\* columns has a row: the merge of a perfect hash aggregate reads only the stores of its own
\* task, and an aggregate over no rows puts out nothing.
RowsAreMerged ==
    /\ \A x \in InputRows : x[1] \in MergeSources
    /\ agg.kind = "single" => InputRows # {}

\* At the end of the merge and of the read the sums are what the property says.
LEMMA ContentIsExact == Shape /\ Content /\ ReaderOK => (RowsAreMerged => AggregateIsExact)
<1> SUFFICES ASSUME Shape, Content, ReaderOK, RowsAreMerged, Read
             PROVE  /\ Len(groups_out) = Cardinality(Groups)
                    /\ \A g \in Groups : \E i \in DOMAIN groups_out :
                        /\ groups_out[i].group = g
                        /\ groups_out[i].rows =
                              SetToBag({x \in InputRows : GroupOf(x[1], x[2], x[3]) = g})
  BY DEF AggregateIsExact
<1>1. InputRows = RowsIn(agg) /\ MergeSources = Sources(agg)
  BY CaseOfModel DEF Shape
<1>2. (\A x \in RowsIn(agg) : x[1] \in Sources(agg)) /\ Finalized
  BY <1>1 DEF RowsAreMerged, Read
<1>3. PICK R : R = Result
  OBVIOUS
<1>4. groups_out = R /\ R \in Seq(ResultRow)
  BY <1>3, ReadIsResult, ResultIs
<1>5. /\ \A i \in 1 .. Len(R) : /\ R[i].group \in KeysIn(agg)
                                /\ R[i].rows = SetToBag(RowsOf(agg, R[i].group))
      /\ \A g \in KeysIn(agg) : \E i \in 1 .. Len(R) : R[i].group = g
      /\ \A i, j \in 1 .. Len(R) : R[i].group = R[j].group => i = j
  BY <1>2, <1>3, ResultIsExact
<1>6. /\ Groups = KeysIn(agg)
      /\ \A g : {x \in InputRows : GroupOf(x[1], x[2], x[3]) = g} = RowsOf(agg, g)
  BY GroupsAre DEF RowsAreMerged
<1>7. Len(groups_out) = Cardinality(Groups)
  BY <1>4, <1>5, <1>6, ResultCount
<1>8. ASSUME NEW g \in Groups
      PROVE  \E i \in DOMAIN groups_out :
                /\ groups_out[i].group = g
                /\ groups_out[i].rows =
                      SetToBag({x \in InputRows : GroupOf(x[1], x[2], x[3]) = g})
  <2>1. PICK i \in 1 .. Len(R) : R[i].group = g
    BY <1>5, <1>6
  <2>2. R[i].rows = SetToBag(RowsOf(agg, g)) /\ i \in DOMAIN R
    BY <1>4, <1>5, <2>1, LenProperties
  <2> QED
    BY <1>4, <1>6, <2>1, <2>2
<1> QED
  BY <1>7, <1>8

\* When everything is read, every group was put out once, made of each of its input rows once,
\* if every row is merged at all (PhysicalHashAggregate, PhysicalPerfectHashAggregate).
THEOREM AggregateExact == AggregateSpec => [](RowsAreMerged => AggregateIsExact)
<1> DEFINE Inductive == Shape /\ Content /\ ReaderOK
<1>1. AggregateInit => Inductive
  <2>1. AggregateInit => ReaderOK
    BY DEF AggregateInit, ReaderOK
  <2> QED
    BY <2>1, ShapeInit, ContentInit
<1>2. Inductive /\ [AggregateNext]_aggregateVars => Inductive'
  BY ShapeNext, ContentNext, ReaderNext
<1>3. Inductive => (RowsAreMerged => AggregateIsExact)
  BY ContentIsExact
<1> QED
  BY <1>1, <1>2, <1>3, PTL DEF AggregateSpec

(* Plans and chunks are well-formed. *)

Pipe == [ops : Seq({"filter", "projection"}), keys : Seq(SortKey), max_rows : Nat, limit : Nat]

\* The greatest number of a set of numbers up to L.
Greatest(L) == [s \in SUBSET (1 .. L) |-> Max(s)]
LEMMA GreatestIs ==
    ASSUME NEW L \in Nat
    PROVE  /\ Picks(Greatest(L), 1 .. L)
           /\ \A s \in SUBSET (1 .. L) : s # {} => Max(s) = Greatest(L)[s]
<1>1. IsFiniteSet(1 .. L)
  BY FS_Interval
<1>2. ASSUME NEW s \in SUBSET (1 .. L), s # {} PROVE Max(s) \in s
  <2>1. s \in SUBSET (0 .. L)
    OBVIOUS
  <2> QED
    BY <1>2, <2>1, MaxOfBounded
<1>3. \A s \in SUBSET (1 .. L) : Max(s) = Greatest(L)[s]
  BY DEF Greatest
<1> QED
  BY <1>1, <1>2, <1>3 DEF Picks

\* A filter or projection makes rows of rows.
LEMMA AppliedIs ==
    ASSUME NEW op, NEW rows \in Seq(SortRow)
    PROVE  ApplyOperator(op, rows) \in Seq(SortRow)
<1>1. PICK L \in Nat : L = Len(rows) /\ DOMAIN rows = 1 .. L /\ \A i \in 1 .. L : rows[i] \in SortRow
  BY LenProperties, ElementOfSeq
<1>2. CASE op = "filter"
  <2>1. PICK runs : runs = [i \in 1 .. L |-> IF rows[i][1] = 2 THEN <<>> ELSE <<rows[i]>>]
    OBVIOUS
  <2>2. \A i \in 1 .. L : runs[i] \in Seq(SortRow)
    BY <1>1, <2>1
  <2>3. runs \in Seq(Seq(SortRow))
    <3>1. PICK V : V = Seq(SortRow)
      OBVIOUS
    <3>2. runs \in [1 .. L -> V]
      BY <2>1, <2>2, <3>1
    <3>3. runs \in Seq(V)
      BY <3>2
    <3> QED
      BY <3>1, <3>3
  <2>4. FlattenSeq(runs) \in Seq(SortRow)
    BY <2>3, FlattenType
  <2> QED
    BY <1>1, <1>2, <2>1, <2>4 DEF ApplyOperator
<1>3. CASE op # "filter"
  <2>1. \A i \in 1 .. L : <<4 - rows[i][1], rows[i][2]>> \in SortRow
    BY <1>1 DEF SortRow
  <2>2. ApplyOperator(op, rows) = [i \in 1 .. L |-> <<4 - rows[i][1], rows[i][2]>>]
    BY <1>1, <1>3 DEF ApplyOperator
  <2>3. [i \in 1 .. L |-> <<4 - rows[i][1], rows[i][2]>>] \in Seq(SortRow)
    BY <2>1
  <2> QED
    BY <2>2, <2>3
<1> QED
  BY <1>2, <1>3

\* So do all the operators of a pipeline.
LEMMA AppliedAllIs ==
    ASSUME NEW S, NEW ops \in Seq(S), NEW rows \in Seq(SortRow)
    PROVE  ApplyOperators(ops, rows) \in Seq(SortRow)
<1>1. PICK L \in Nat : L = Len(ops) /\ DOMAIN ops = 1 .. L
  BY LenProperties
<1>2. PICK D : D = 1 .. L
  OBVIOUS
<1>3. PICK pick : pick = Greatest(L)
  OBVIOUS
<1>4. Picks(pick, D) /\ \A s \in SUBSET D : s # {} => Max(s) = pick[s] /\ pick[s] \in s
  BY <1>2, <1>3, GreatestIs DEF Picks
<1>5. PICK V : V = Seq(SortRow)
  OBVIOUS
<1>6. rows \in V
  BY <1>5
<1>7. PICK step \in [D \X V -> V] : \A i \in D, v \in V : step[<<i, v>>] = ApplyOperator(ops[i], v)
  <2>1. PICK f : f = [x \in D \X V |-> ApplyOperator(ops[x[1]], x[2])]
    OBVIOUS
  <2>2. \A x \in D \X V : ApplyOperator(ops[x[1]], x[2]) \in V
    BY <1>5, AppliedIs
  <2>3. f \in [D \X V -> V]
    BY <2>1, <2>2
  <2> QED
    BY <2>1, <2>3
<1> DEFINE Eq(g) == g = [s \in SUBSET D |-> IF s = {} THEN rows
                                            ELSE ApplyOperator(ops[Max(s)], g[s \ {Max(s)}])]
           iter == CHOOSE g : Eq(g)
<1>8. \E g : Eq(g)
  <2>1. PICK it \in [SUBSET D -> V] : Folds(it, pick, D, rows, step)
    BY <1>4, <1>6, SubsetRecursion
  <2>2. ASSUME NEW s \in SUBSET D, s # {} PROVE it[s] = ApplyOperator(ops[Max(s)], it[s \ {Max(s)}])
    <3>1. PICK x : x = pick[s]
      OBVIOUS
    <3>2. x \in D /\ x = Max(s) /\ s \ {x} \in SUBSET D
      BY <1>4, <2>2, <3>1
    <3>3. it[s \ {x}] \in V
      BY <3>2
    <3>4. it[s] = step[<<x, it[s \ {x}]>>]
      BY <2>1, <2>2, <3>1 DEF Folds
    <3> QED
      BY <1>7, <3>2, <3>3, <3>4
  <2>3. Eq(it)
    BY <2>1, <2>2 DEF Folds
  <2> QED
    BY <2>3
<1>9. Eq(iter)
  <2> HIDE DEF Eq
  <2> QED
    BY <1>8
<1>10. ApplyOperators(ops, rows) = iter[D]
  BY <1>1, <1>2 DEF ApplyOperators, FoldLeft, MapThenFoldSet
<1>11. PICK g : g = iter
  OBVIOUS
<1>12. Eq(g)
  <2> HIDE DEF iter, Eq
  <2> QED
    BY <1>9, <1>11
<1>13. PICK T : T = {s \in SUBSET D : g[s] \in V}
  OBVIOUS
<1>14. {} \in T
  BY <1>6, <1>12, <1>13
<1>15. ASSUME NEW s \in SUBSET D, s # {}, s \ {pick[s]} \in T PROVE s \in T
  <2>1. PICK x : x = pick[s]
    OBVIOUS
  <2>2. x = Max(s)
    BY <1>4, <1>15, <2>1
  <2>3. g[s] = ApplyOperator(ops[x], g[s \ {x}])
    BY <1>12, <1>15, <2>2
  <2>4. g[s \ {x}] \in V
    BY <1>13, <1>15, <2>1
  <2> QED
    BY <1>5, <1>13, <2>3, <2>4, AppliedIs
<1>16. D \in T
  <2>1. ClosedUnder(T, pick, D)
    BY <1>14, <1>15 DEF ClosedUnder
  <2> QED
    BY <1>4, <2>1, SubsetInduction
<1> HIDE DEF iter, Eq
<1> QED
  BY <1>5, <1>10, <1>11, <1>13, <1>16

\* The sort keys of a pipeline are those of the ORDER BY, with other directions.
LEMMA SortKeysAre ==
    ASSUME NEW plan \in Seq(PlanNode), NEW i \in 1 .. Len(plan), plan[i].op = "order"
    PROVE  BuildFinalSortKeys(plan, i) \in Seq(SortKey)
<1>1. PICK L \in Nat : L = Len(plan) /\ DOMAIN plan = 1 .. L /\ i \in 1 .. L
                       /\ \A j \in 1 .. L : plan[j] \in PlanNode
  BY LenProperties, ElementOfSeq
<1>2. plan[i].keys \in Seq(SortKey)
  BY <1>1 DEF PlanNode
<1>3. PICK keys \in Seq(SortKey) : keys = plan[i].keys
  BY <1>2
<1>4. PICK K \in Nat : K = Len(keys) /\ DOMAIN keys = 1 .. K
                       /\ \A k \in 1 .. K : keys[k] \in SortKey
  BY LenProperties, ElementOfSeq
<1>5. PICK first : first = Min({j \in DOMAIN plan : IsOrder(plan, j)})
  OBVIOUS
<1>6. first \in 1 .. L /\ plan[first].op = "order"
  <2>1. PICK Orders : Orders = {j \in DOMAIN plan : IsOrder(plan, j)}
    OBVIOUS
  <2>2. Orders \in SUBSET Nat /\ i \in Orders
    BY <1>1, <2>1 DEF IsOrder
  <2>3. first \in Orders
    BY <1>5, <2>1, <2>2, MinOfNumbers
  <2> QED
    BY <1>1, <2>1, <2>3 DEF IsOrder
<1>7. plan[first].keys \in Seq(SortKey)
  BY <1>1, <1>6 DEF PlanNode
<1>8. PICK items \in Seq(SortKey) : items = plan[first].keys
  BY <1>7
<1>9. PICK I \in Nat : I = Len(items) /\ \A k \in 1 .. I : items[k].asc \in BOOLEAN
  <2>1. \A k \in 1 .. Len(items) : items[k] \in SortKey
    BY ElementOfSeq
  <2> QED
    BY <2>1, LenProperties DEF SortKey
<1>10. PICK asc : asc = ParseOrderDirections(plan, Len(keys))
  OBVIOUS
<1>11. PICK taken : taken = IF IsTopNNode(plan, first + 1) \/ first = Len(plan)
                            THEN Len(items) ELSE Len(items) - 1
  OBVIOUS
<1>12. asc = [k \in 1 .. Len(keys) |-> k > taken \/ items[k].asc]
  BY <1>5, <1>8, <1>10, <1>11 DEF ParseOrderDirections
<1>13. \A k \in 1 .. K : asc[k] \in BOOLEAN
  <2>1. \A k \in 1 .. K : asc[k] = (k > taken \/ items[k].asc)
    BY <1>4, <1>12
  <2>2. \A k \in 1 .. K : k > taken \/ items[k].asc \in BOOLEAN
    <3>1. taken \in Int /\ taken <= I
      BY <1>9, <1>11
    <3>2. \A k \in 1 .. K : ~(k > taken) => k \in 1 .. I
      BY <1>9, <3>1
    <3> QED
      BY <1>9, <3>2
  <2> QED
    BY <2>1
<1> DEFINE Directed(key, a) == [key EXCEPT !.asc = a]
<1>14. PICK f : f = [k \in 1 .. K |-> Directed(keys[k], asc[k])]
  OBVIOUS
<1>15. \A k \in 1 .. K : f[k] \in SortKey
  <2>1. \A key \in SortKey, a \in BOOLEAN : Directed(key, a) \in SortKey
    BY DEF SortKey
  <2> HIDE DEF Directed
  <2>2. \A k \in 1 .. K : f[k] = Directed(keys[k], asc[k])
    BY <1>14
  <2> QED
    BY <1>4, <1>13, <2>1, <2>2
<1>16. f \in Seq(SortKey)
  <2> HIDE DEF Directed
  <2>1. f \in [1 .. K -> SortKey]
    BY <1>14, <1>15
  <2> QED
    BY <2>1
<1>17. BuildFinalSortKeys(plan, i) = f
  BY <1>3, <1>4, <1>10, <1>14 DEF BuildFinalSortKeys
<1> QED
  BY <1>16, <1>17

\* A node adds to the pipelines so far.
LEMMA TranslatedNode ==
    ASSUME NEW plan \in Seq(PlanNode), NEW i \in 1 .. Len(plan),
           NEW done \in Seq(Pipe), Len(done) > 0
    PROVE  /\ TranslateOptimizerNode(plan, i, done) \in Seq(Pipe)
           /\ Len(TranslateOptimizerNode(plan, i, done)) > 0
<1>1. PICK L \in Nat : L = Len(done) /\ L > 0 /\ DOMAIN done = 1 .. L /\ L \in 1 .. L
                       /\ \A k \in 1 .. L : done[k] \in Pipe
  BY LenProperties, ElementOfSeq
<1>2. plan[i] \in PlanNode
  BY ElementOfSeq
<1>3. PICK d \in Pipe : d = done[L]
  BY <1>1
<1>4. ASSUME NEW e \in Pipe
      PROVE  [done EXCEPT ![L] = e] \in Seq(Pipe) /\ Len([done EXCEPT ![L] = e]) = L
  BY <1>1, ExceptSeq
<1>5. CASE IsTopNNode(plan, i)
  <2>1. plan[i].op = "limit" /\ plan[i].n \in Nat
    BY <1>2, <1>5 DEF IsTopNNode, PlanNode
  <2>2. PICK e : e = [d EXCEPT !.max_rows = plan[i].n, !.limit = 0]
    OBVIOUS
  <2>3. e \in Pipe
    BY <2>1, <2>2 DEF Pipe
  <2>4. PICK t : t = [done EXCEPT ![L] = e]
    OBVIOUS
  <2>5. t \in Seq(Pipe) /\ Len(t) = L
    BY <1>4, <2>3, <2>4
  <2>6. OpenPipeline \in Pipe
    BY DEF OpenPipeline, Pipe
  <2>7. Append(t, OpenPipeline) \in Seq(Pipe) /\ Len(Append(t, OpenPipeline)) = L + 1
    BY <2>5, <2>6, AppendProperties
  <2>8. TranslateOptimizerNode(plan, i, done) = Append(t, OpenPipeline)
    <3>1. [done EXCEPT ![L] = [@ EXCEPT !.max_rows = plan[i].n, !.limit = 0]] = t
      BY <1>1, <1>3, <2>2, <2>4
    <3>2. PICK u : u = [done EXCEPT ![L] = [@ EXCEPT !.max_rows = plan[i].n, !.limit = 0]]
      OBVIOUS
    <3>3. TranslateOptimizerNode(plan, i, done) = Append(u, OpenPipeline)
      BY <1>1, <1>5, <2>1, <3>2 DEF TranslateOptimizerNode
    <3> QED
      BY <3>1, <3>2, <3>3
  <2> QED
    BY <1>1, <2>7, <2>8
<1>6. CASE plan[i].op = "limit" /\ ~IsTopNNode(plan, i)
  <2>1. plan[i].n \in Nat
    BY <1>2, <1>6 DEF PlanNode
  <2>2. PICK e : e = [d EXCEPT !.limit = plan[i].n]
    OBVIOUS
  <2>3. e \in Pipe
    BY <2>1, <2>2 DEF Pipe
  <2>4. TranslateOptimizerNode(plan, i, done) = [done EXCEPT ![L] = e]
    BY <1>1, <1>3, <1>6, <2>2 DEF TranslateOptimizerNode
  <2> QED
    BY <1>1, <1>4, <2>3, <2>4
<1>7. CASE plan[i].op = "order"
  <2>1. BuildFinalSortKeys(plan, i) \in Seq(SortKey)
    BY <1>7, SortKeysAre
  <2>2. PICK e : e = [d EXCEPT !.keys = BuildFinalSortKeys(plan, i)]
    OBVIOUS
  <2>3. e \in Pipe
    BY <2>1, <2>2 DEF Pipe
  <2>4. ~IsTopNNode(plan, i)
    BY <1>7 DEF IsTopNNode
  <2>5. TranslateOptimizerNode(plan, i, done) = [done EXCEPT ![L] = e]
    BY <1>1, <1>3, <1>7, <2>2, <2>4 DEF TranslateOptimizerNode
  <2> QED
    BY <1>1, <1>4, <2>3, <2>5
<1>8. CASE plan[i].op \notin {"limit", "order"}
  <2>1. plan[i].op \in {"filter", "projection"}
    BY <1>2, <1>8 DEF PlanNode
  <2>2. d.ops \in Seq({"filter", "projection"})
    BY DEF Pipe
  <2>3. PICK ops : ops = Append(d.ops, plan[i].op)
    OBVIOUS
  <2>4. ops \in Seq({"filter", "projection"})
    BY <2>1, <2>2, <2>3, AppendProperties
  <2>5. PICK e : e = [d EXCEPT !.ops = ops]
    OBVIOUS
  <2>6. e \in Pipe
    BY <2>4, <2>5 DEF Pipe
  <2>7. ~IsTopNNode(plan, i)
    BY <1>8 DEF IsTopNNode
  <2>8. TranslateOptimizerNode(plan, i, done) = [done EXCEPT ![L] = e]
    BY <1>1, <1>3, <1>8, <2>3, <2>5, <2>7 DEF TranslateOptimizerNode
  <2> QED
    BY <1>1, <1>4, <2>6, <2>8
<1> QED
  BY <1>5, <1>6, <1>7, <1>8

\* A plan becomes one pipeline or more.
LEMMA TranslatedIs ==
    ASSUME NEW plan \in Seq(PlanNode)
    PROVE  Translated(plan) \in Seq(Pipe) /\ Len(Translated(plan)) > 0
<1>1. PICK L \in Nat : L = Len(plan) /\ DOMAIN plan = 1 .. L
  BY LenProperties
<1>2. PICK D : D = 1 .. L
  OBVIOUS
<1>3. PICK pick : pick = Greatest(L)
  OBVIOUS
<1>4. Picks(pick, D) /\ \A s \in SUBSET D : s # {} => Max(s) = pick[s] /\ pick[s] \in s
  BY <1>2, <1>3, GreatestIs DEF Picks
<1>5. PICK V : V = {d \in Seq(Pipe) : Len(d) > 0}
  OBVIOUS
<1>6. PICK open : open = <<OpenPipeline>>
  OBVIOUS
<1>17. open \in V
  <2>1. OpenPipeline \in Pipe
    BY DEF OpenPipeline, Pipe
  <2> QED
    BY <1>5, <1>6, <2>1
<1>18. PICK ids : ids = [i \in DOMAIN plan |-> i]
  OBVIOUS
<1>19. DOMAIN ids = D /\ \A i \in D : ids[i] = i
  BY <1>1, <1>2, <1>18
<1> DEFINE Node(i, d) == TranslateOptimizerNode(plan, i, d)
<1>20. \A i \in D, v \in V : Node(i, v) \in V
  BY <1>1, <1>2, <1>5, TranslatedNode
<1> HIDE DEF Node
<1>7. PICK step \in [D \X V -> V] : \A i \in D, v \in V : step[<<i, v>>] = Node(i, v)
  <2>1. PICK f : f = [x \in D \X V |-> Node(x[1], x[2])]
    OBVIOUS
  <2>2. \A x \in D \X V : Node(x[1], x[2]) \in V
    BY <1>20
  <2>3. f \in [D \X V -> V]
    BY <2>1, <2>2
  <2> QED
    BY <2>1, <2>3
<1> DEFINE Eq(g) == g = [s \in SUBSET D |-> IF s = {} THEN open
                                            ELSE Node(ids[Max(s)], g[s \ {Max(s)}])]
           iter == CHOOSE g : Eq(g)
<1>8. \E g : Eq(g)
  <2>1. PICK it \in [SUBSET D -> V] : Folds(it, pick, D, open, step)
    BY <1>4, <1>17, SubsetRecursion
  <2>2. ASSUME NEW s \in SUBSET D, s # {} PROVE it[s] = Node(ids[Max(s)], it[s \ {Max(s)}])
    <3>1. PICK x : x = pick[s]
      OBVIOUS
    <3>2. x \in D /\ x = Max(s) /\ s \ {x} \in SUBSET D /\ ids[x] = x
      BY <1>4, <1>19, <2>2, <3>1
    <3>3. it[s \ {x}] \in V
      BY <3>2
    <3>4. it[s] = step[<<x, it[s \ {x}]>>]
      BY <2>1, <2>2, <3>1 DEF Folds
    <3> QED
      BY <1>7, <3>2, <3>3, <3>4
  <2>3. Eq(it)
    BY <2>1, <2>2 DEF Folds
  <2> QED
    BY <2>3
<1>9. Eq(iter)
  <2> HIDE DEF Eq
  <2> QED
    BY <1>8
<1>10. Translated(plan) = iter[D]
  BY <1>6, <1>18, <1>19 DEF Translated, FoldLeft, MapThenFoldSet, Node
<1>11. PICK g : g = iter
  OBVIOUS
<1>12. Eq(g)
  <2> HIDE DEF iter, Eq
  <2> QED
    BY <1>9, <1>11
<1>13. PICK T : T = {s \in SUBSET D : g[s] \in V}
  OBVIOUS
<1>14. {} \in T
  BY <1>17, <1>12, <1>13
<1>15. ASSUME NEW s \in SUBSET D, s # {}, s \ {pick[s]} \in T PROVE s \in T
  <2>1. PICK x : x = pick[s]
    OBVIOUS
  <2>2. x = Max(s) /\ x \in D /\ ids[x] = x
    BY <1>4, <1>15, <1>19, <2>1
  <2>3. g[s] = Node(x, g[s \ {x}])
    BY <1>12, <1>15, <2>2
  <2>4. g[s \ {x}] \in V
    BY <1>13, <1>15, <2>1
  <2> QED
    BY <1>13, <1>20, <2>2, <2>3, <2>4
<1>16. D \in T
  <2>1. ClosedUnder(T, pick, D)
    BY <1>14, <1>15 DEF ClosedUnder
  <2> QED
    BY <1>4, <2>1, SubsetInduction
<1> HIDE DEF iter, Eq
<1> QED
  BY <1>5, <1>10, <1>11, <1>13, <1>16

------------------------------------------------------------------------------
(* The order of rows. *)

\* The first column in which one of two pairs of rows differs decides.
LEMMA OrderIsWeak ==
    ASSUME NEW keys \in Seq(SortKey)
    PROVE  /\ \A r, s \in SortRow : Before(keys, r, s) => ~Before(keys, s, r)
           /\ \A r, s, t \in SortRow : ~Before(keys, r, s) /\ ~Before(keys, s, t) => ~Before(keys, r, t)
<1> DEFINE At(r, j) == r[keys[j].col]
           Less(r, s, j) == IF keys[j].asc THEN At(r, j) < At(s, j) ELSE At(r, j) > At(s, j)
           Same(r, s, k) == \A j \in 1 .. k - 1 : At(r, j) = At(s, j)
<1>1. PICK L \in Nat : L = Len(keys) /\ DOMAIN keys = 1 .. L
  BY LenProperties
<1>2. ASSUME NEW r \in SortRow, NEW j \in 1 .. L PROVE At(r, j) \in Int
  <2>1. keys[j] \in SortKey
    BY <1>1, ElementOfSeq
  <2>2. keys[j].col = 1 \/ keys[j].col = 2
    BY <2>1 DEF SortKey
  <2>3. r[1] \in Int /\ r[2] \in Int
    BY DEF SortRow
  <2> QED
    BY <2>2, <2>3
<1>3. \A r, s \in SortRow : Before(keys, r, s) <=> \E k \in 1 .. L : Same(r, s, k) /\ Less(r, s, k)
  BY <1>1 DEF Before
<1>4. ASSUME NEW r \in SortRow, NEW s \in SortRow, NEW j \in 1 .. L
      PROVE  /\ Less(r, s, j) => ~Less(s, r, j)
             /\ Less(r, s, j) => At(r, j) # At(s, j)
             /\ At(r, j) # At(s, j) => Less(r, s, j) \/ Less(s, r, j)
  <2>1. At(r, j) \in Int /\ At(s, j) \in Int
    BY <1>2
  <2> HIDE DEF At
  <2> QED
    BY <2>1
<1> HIDE DEF At, Less
<1>5. ASSUME NEW r \in SortRow, NEW s \in SortRow, Before(keys, r, s), Before(keys, s, r) PROVE FALSE
  <2>1. PICK k \in 1 .. L : Same(r, s, k) /\ Less(r, s, k)
    BY <1>3, <1>5
  <2>2. PICK l \in 1 .. L : Same(s, r, l) /\ Less(s, r, l)
    BY <1>3, <1>5
  <2>3. At(r, k) # At(s, k) /\ At(s, l) # At(r, l)
    BY <1>4, <2>1, <2>2
  <2>4. ~(k < l) /\ ~(l < k)
    BY <2>1, <2>2, <2>3
  <2>5. k = l
    BY <2>4
  <2> QED
    BY <1>4, <2>1, <2>2, <2>5
<1>6. ASSUME NEW r \in SortRow, NEW s \in SortRow, NEW t \in SortRow, Before(keys, r, t)
      PROVE  Before(keys, r, s) \/ Before(keys, s, t)
  <2>1. PICK k \in 1 .. L : Same(r, t, k) /\ Less(r, t, k)
    BY <1>3, <1>6
  <2> DEFINE D == {j \in 1 .. k : At(r, j) # At(s, j) \/ At(s, j) # At(t, j)}
  <2>2. k \in D
    <3>1. At(r, k) # At(t, k) /\ k \in 1 .. k
      BY <1>4, <2>1
    <3> QED
      BY <3>1
  <2>3. D \in SUBSET Nat
    OBVIOUS
  <2>4. PICK j \in D : \A i \in D : j <= i
    <3> HIDE DEF D
    <3> QED
      BY <2>2, <2>3, LeastNumber
  <2>5. j \in 1 .. k /\ j \in 1 .. L
    BY <2>1
  <2>6. \A i \in 1 .. j - 1 : At(r, i) = At(s, i) /\ At(s, i) = At(t, i)
    <3>1. SUFFICES ASSUME NEW i \in 1 .. j - 1 PROVE i \notin D /\ i \in 1 .. k
      OBVIOUS
    <3>2. i \in 1 .. k /\ ~(j <= i)
      BY <2>5
    <3> HIDE DEF D
    <3> QED
      BY <2>4, <3>2
  <2>7. Same(r, s, j) /\ Same(s, t, j)
    BY <2>6
  <2>8. Less(r, s, j) \/ Less(s, t, j)
    <3>1. CASE j = k
      <4>1. Less(r, t, j) /\ At(r, j) \in Int /\ At(s, j) \in Int /\ At(t, j) \in Int
        BY <1>2, <2>1, <2>5, <3>1 DEF At
      <4> QED
        BY <4>1 DEF Less
    <3>2. CASE j # k
      <4>1. At(r, j) = At(t, j)
        BY <2>1, <2>5, <3>2
      <4>2. At(r, j) # At(s, j)
        BY <2>4, <4>1
      <4>3. CASE Less(r, s, j)
        BY <4>3
      <4>4. CASE Less(s, r, j)
        BY <4>1, <4>4 DEF Less
      <4> QED
        BY <1>4, <2>5, <4>2, <4>3, <4>4
    <3> QED
      BY <3>1, <3>2
  <2> QED
    BY <1>3, <2>5, <2>7, <2>8
<1> QED
  BY <1>5, <1>6

\* FindWorst finds a row that comes before no other.
LEMMA WorstIs ==
    ASSUME NEW keys \in Seq(SortKey), NEW rows \in Seq(SortRow), Len(rows) > 0,
           NEW w, w = FindWorst(keys, rows)
    PROVE  w \in 1 .. Len(rows) /\ \A j \in 1 .. Len(rows) : ~Before(keys, rows[w], rows[j])
<1>1. PICK L \in Nat : L = Len(rows) /\ DOMAIN rows = 1 .. L /\ \A i \in 1 .. L : rows[i] \in SortRow
  BY LenProperties, ElementOfSeq
<1>2. /\ \A r, s \in SortRow : Before(keys, r, s) => ~Before(keys, s, r)
      /\ \A r, s, t \in SortRow : ~Before(keys, r, s) /\ ~Before(keys, s, t) => ~Before(keys, r, t)
  BY OrderIsWeak
<1> DEFINE NoneAfter(n, i) == \A j \in 1 .. n : ~Before(keys, rows[i], rows[j])
           T == {n \in Nat : n + 1 <= L => \E i \in 1 .. n + 1 : NoneAfter(n + 1, i)}
<1>3. 0 \in T
  <2>1. 1 <= L => ~Before(keys, rows[1], rows[1])
    BY <1>1, <1>2
  <2>2. 1 \in 1 .. 0 + 1 /\ \A j \in 1 .. 0 + 1 : j = 1
    OBVIOUS
  <2> QED
    BY <2>1, <2>2
<1>4. ASSUME NEW n \in Nat, n \in T PROVE n + 1 \in T
  <2>1. SUFFICES ASSUME (n + 1) + 1 <= L PROVE \E i \in 1 .. (n + 1) + 1 : NoneAfter((n + 1) + 1, i)
    OBVIOUS
  <2>2. PICK m \in Nat : m = n + 1
    OBVIOUS
  <2>3. m + 1 <= L /\ m <= L
    BY <2>1, <2>2
  <2>4. PICK i \in 1 .. m : NoneAfter(m, i)
    BY <1>4, <2>2, <2>3
  <2>5. /\ i \in 1 .. L /\ m + 1 \in 1 .. L /\ i \in 1 .. m + 1 /\ m + 1 \in 1 .. m + 1
        /\ \A j \in 1 .. m + 1 : j \in 1 .. L /\ (j \in 1 .. m \/ j = m + 1)
    BY <2>3
  <2>6. CASE ~Before(keys, rows[i], rows[m + 1])
    <3>1. NoneAfter(m + 1, i)
      BY <2>4, <2>5, <2>6
    <3> QED
      BY <2>2, <2>5, <3>1
  <2>7. CASE Before(keys, rows[i], rows[m + 1])
    <3>1. ASSUME NEW j \in 1 .. m + 1 PROVE ~Before(keys, rows[m + 1], rows[j])
      <4>1. rows[i] \in SortRow /\ rows[m + 1] \in SortRow /\ rows[j] \in SortRow
        BY <1>1, <2>5
      <4>2. CASE j = m + 1
        BY <1>2, <4>1, <4>2
      <4>3. CASE j \in 1 .. m
        <5>1. ~Before(keys, rows[i], rows[j]) /\ ~Before(keys, rows[m + 1], rows[i])
          BY <1>2, <2>4, <2>7, <4>1, <4>3
        <5> QED
          BY <1>2, <4>1, <5>1
      <4> QED
        BY <2>5, <4>2, <4>3
    <3>2. NoneAfter(m + 1, m + 1)
      BY <3>1
    <3> QED
      BY <2>2, <2>5, <3>2
  <2> QED
    BY <2>6, <2>7
<1>5. \A n \in Nat : n \in T
  <2> HIDE DEF T
  <2> QED
    BY <1>3, <1>4, NumberInduction
<1>6. L - 1 \in Nat /\ (L - 1) + 1 = L
  BY <1>1
<1>7. \E i \in 1 .. L : NoneAfter(L, i)
  <2>1. L - 1 \in T
    BY <1>5, <1>6
  <2>2. \E i \in 1 .. (L - 1) + 1 : NoneAfter((L - 1) + 1, i)
    BY <1>6, <2>1
  <2> QED
    BY <1>6, <2>2
<1>8. PICK Worst : Worst = {i \in 1 .. L : NoneAfter(L, i)}
  OBVIOUS
<1>9. Worst \in SUBSET Nat /\ Worst # {} /\ w = Min(Worst)
  BY <1>1, <1>7, <1>8 DEF FindWorst
<1>10. w \in Worst
  BY <1>9, MinOfNumbers
<1> QED
  BY <1>1, <1>8, <1>10

------------------------------------------------------------------------------
(* Sequences as bags. *)

Places(rows, x) == {i \in 1 .. Len(rows) : rows[i] = x}
Count(rows, x) == Cardinality(Places(rows, x))

LEMMA PlacesAre ==
    ASSUME NEW S, NEW rows \in Seq(S), NEW x
    PROVE  /\ IsFiniteSet(Places(rows, x)) /\ Count(rows, x) \in Nat
           /\ Count(rows, x) = 0 <=> x \notin Range(rows)
<1>1. PICK L \in Nat : L = Len(rows) /\ DOMAIN rows = 1 .. L
  BY LenProperties
<1>2. IsFiniteSet(1 .. L)
  BY FS_Interval
<1>3. IsFiniteSet(Places(rows, x)) /\ Count(rows, x) \in Nat
  BY <1>1, <1>2, FS_Subset, FS_CardinalityType DEF Places, Count
<1>4. Count(rows, x) = 0 <=> Places(rows, x) = {}
  BY <1>3, FS_EmptySet DEF Count
<1>5. Places(rows, x) = {} <=> x \notin Range(rows)
  BY <1>1 DEF Places, Range
<1> QED
  BY <1>3, <1>4, <1>5

LEMMA BagOfIs ==
    ASSUME NEW S, NEW rows \in Seq(S)
    PROVE  /\ DOMAIN BagOf(rows) = Range(rows)
           /\ \A x \in Range(rows) : BagOf(rows)[x] = Count(rows, x) /\ Count(rows, x) \in Nat \ {0}
<1>1. DOMAIN rows = 1 .. Len(rows)
  BY LenProperties
<1>2. BagOf(rows) = [x \in Range(rows) |-> Count(rows, x)]
  BY <1>1 DEF BagOf, Count, Places
<1>3. \A x \in Range(rows) : Count(rows, x) \in Nat \ {0}
  BY PlacesAre
<1> QED
  BY <1>2, <1>3

\* One more row.
LEMMA BagOfAppend ==
    ASSUME NEW S, NEW rows \in Seq(S), NEW row \in S
    PROVE  BagOf(Append(rows, row)) = BagOf(rows) (+) SetToBag({row})
<1>1. PICK L \in Nat : L = Len(rows) /\ DOMAIN rows = 1 .. L /\ L + 1 \notin 1 .. L
  BY LenProperties
<1>2. PICK more : more = Append(rows, row)
  OBVIOUS
<1>12. /\ more \in Seq(S) /\ Len(more) = L + 1 /\ more[L + 1] = row
       /\ \A i \in 1 .. L : more[i] = rows[i]
  BY <1>1, <1>2, AppendProperties
<1>13. DOMAIN more = 1 .. L + 1
  BY <1>12, LenProperties
<1>3. \A i \in 1 .. L + 1 : i \in 1 .. L \/ i = L + 1
  BY <1>1
<1>4. \A i \in 1 .. L : i \in 1 .. L + 1
  BY <1>1
<1>5. Range(more) = Range(rows) \cup {row}
  <2>1. L + 1 \in 1 .. L + 1
    BY <1>1
  <2> QED
    BY <1>1, <1>12, <1>13, <1>3, <1>4, <2>1 DEF Range
<1>6. ASSUME NEW x, x # row PROVE Count(more, x) = Count(rows, x)
  <2>1. Places(more, x) = Places(rows, x)
    BY <1>1, <1>12, <1>13, <1>3, <1>4, <1>6 DEF Places
  <2> QED
    BY <2>1 DEF Count
<1>7. Count(more, row) = Count(rows, row) + 1
  <2>1. Places(more, row) = Places(rows, row) \cup {L + 1}
    <3>1. L + 1 \in 1 .. L + 1
      BY <1>1
    <3> QED
      BY <1>1, <1>12, <1>13, <1>3, <1>4, <3>1 DEF Places
  <2>2. L + 1 \notin Places(rows, row)
    BY <1>1 DEF Places
  <2>3. IsFiniteSet(Places(rows, row))
    BY PlacesAre
  <2> QED
    BY <2>1, <2>2, <2>3, FS_AddElement DEF Count
<1>8. ASSUME NEW x \in Range(more)
      PROVE  BagOf(more)[x] = (IF x \in Range(rows) THEN BagOf(rows)[x] ELSE 0)
                              + (IF x \in {row} THEN 1 ELSE 0)
  <2>1. BagOf(more)[x] = Count(more, x)
    BY <1>12, BagOfIs
  <2>2. Count(rows, x) \in Nat /\ (x \notin Range(rows) => Count(rows, x) = 0)
    BY PlacesAre
  <2>3. x \in Range(rows) => BagOf(rows)[x] = Count(rows, x)
    BY BagOfIs
  <2> QED
    BY <1>6, <1>7, <2>1, <2>2, <2>3
<1>9. DOMAIN BagOf(more) = Range(more) /\ DOMAIN BagOf(rows) = Range(rows)
  BY <1>12, BagOfIs
<1>10. BagOf(more) = [x \in Range(more) |-> BagOf(more)[x]]
  BY DEF BagOf
<1>11. BagOf(rows) (+) SetToBag({row}) =
          [x \in Range(more) |-> (IF x \in Range(rows) THEN BagOf(rows)[x] ELSE 0)
                                 + (IF x \in {row} THEN 1 ELSE 0)]
  BY <1>5, <1>9 DEF (+), SetToBag
<1> QED
  BY <1>2, <1>8, <1>10, <1>11

\* A sequence has as many rows as its bag.
LEMMA CopiesAre ==
    ASSUME NEW S, NEW rows \in Seq(S)
    PROVE  Copies(BagOf(rows)) = Len(rows)
<1>1. PICK L \in Nat : L = Len(rows) /\ DOMAIN rows = 1 .. L
  BY LenProperties
<1>2. PICK D, f : D = Range(rows) /\ f = BagOf(rows)
  OBVIOUS
<1>3. IsFiniteSet(D) /\ DOMAIN f = D
  <2>1. IsFiniteSet(1 .. L)
    BY FS_Interval
  <2>2. PICK h : h = [i \in 1 .. L |-> rows[i]]
    OBVIOUS
  <2>4. h \in Surjection(1 .. L, D)
    BY <1>1, <1>2, <2>2 DEF Range, Surjection
  <2>3. IsFiniteSet(D)
    BY <2>1, <2>4, FS_Surjection
  <2> QED
    BY <1>2, <2>3, BagOfIs
<1> DEFINE In(s) == {i \in 1 .. L : rows[i] \in s}
<1>4. ASSUME NEW s PROVE IsFiniteSet(In(s)) /\ Cardinality(In(s)) \in Nat
  <2>1. IsFiniteSet(1 .. L) /\ In(s) \in SUBSET (1 .. L)
    BY FS_Interval
  <2> HIDE DEF In
  <2> QED
    BY <2>1, FS_Subset, FS_CardinalityType
<1>5. PICK pick : pick = [s \in SUBSET D |-> CHOOSE x \in s : TRUE]
  OBVIOUS
<1>6. \A s \in SUBSET D : s # {} => pick[s] \in s
  BY <1>5
<1>7. ASSUME NEW x \in D, NEW s, x \in s
      PROVE  Cardinality(In(s)) = f[x] + Cardinality(In(s \ {x}))
  <2>1. In(s) = Places(rows, x) \cup In(s \ {x}) /\ Places(rows, x) \cap In(s \ {x}) = {}
    BY <1>1, <1>7 DEF Places
  <2>2. IsFiniteSet(Places(rows, x)) /\ f[x] = Cardinality(Places(rows, x))
        /\ Cardinality(Places(rows, x)) \in Nat
    BY <1>2, PlacesAre, BagOfIs DEF Count
  <2>3. IsFiniteSet(In(s \ {x})) /\ Cardinality(In(s \ {x})) \in Nat
    BY <1>4
  <2> HIDE DEF In
  <2>4. Cardinality(In(s)) = Cardinality(Places(rows, x)) + Cardinality(In(s \ {x}))
                             - Cardinality({})
    BY <2>1, <2>2, <2>3, FS_Union
  <2> QED
    BY <2>2, <2>3, <2>4, FS_EmptySet
<1> DEFINE Eq(g) == g = [s \in SUBSET D |->
                            IF s = {} THEN 0
                            ELSE f[CHOOSE x \in s : TRUE] + g[s \ {CHOOSE x \in s : TRUE}]]
           iter == CHOOSE g : Eq(g)
<1>8. Eq([s \in SUBSET D |-> Cardinality(In(s))])
  <2>1. PICK g : g = [s \in SUBSET D |-> Cardinality(In(s))]
    OBVIOUS
  <2>2. g[{}] = 0
    <3>1. In({}) = {}
      OBVIOUS
    <3> QED
      BY <2>1, <3>1, FS_EmptySet
  <2>3. ASSUME NEW s \in SUBSET D, s # {}
        PROVE  g[s] = f[CHOOSE x \in s : TRUE] + g[s \ {CHOOSE x \in s : TRUE}]
    <3>1. PICK x : x = CHOOSE y \in s : TRUE
      OBVIOUS
    <3>2. x \in s /\ x \in D /\ s \ {x} \in SUBSET D
      BY <2>3, <3>1
    <3>3. g[s] = f[x] + g[s \ {x}]
      <4> HIDE DEF In
      <4> QED
        BY <1>7, <2>1, <3>2
    <3> QED
      BY <3>1, <3>3
  <2>4. Eq(g)
    <3> HIDE DEF In
    <3> QED
      BY <2>1, <2>2, <2>3
  <2> QED
    BY <2>1, <2>4
<1>9. Eq(iter)
  <2> HIDE DEF Eq
  <2> QED
    BY <1>8
<1>10. Copies(f) = iter[D]
  BY <1>3 DEF Copies, MapThenSumSet, MapThenFoldSet
<1>11. PICK g : g = iter
  OBVIOUS
<1>12. \A s \in SUBSET D : s \in {t \in SUBSET D : g[t] = Cardinality(In(t))}
  <2> DEFINE T == {t \in SUBSET D : g[t] = Cardinality(In(t))}
  <2>1. Eq(g)
    <3> HIDE DEF iter, Eq
    <3> QED
      BY <1>9, <1>11
  <2>2. {} \in T
    <3>1. In({}) = {} /\ g[{}] = 0
      BY <2>1
    <3> QED
      BY <3>1, FS_EmptySet
  <2>3. ASSUME NEW s \in SUBSET D, s # {}, s \ {pick[s]} \in T PROVE s \in T
    <3>1. PICK x : x = pick[s]
      OBVIOUS
    <3>2. x \in s /\ x \in D /\ x = CHOOSE y \in s : TRUE
      BY <1>5, <1>6, <2>3, <3>1
    <3>3. g[s] = f[x] + g[s \ {x}]
      BY <2>1, <2>3, <3>2
    <3>4. g[s \ {x}] = Cardinality(In(s \ {x}))
      BY <2>3, <3>1
    <3> HIDE DEF In
    <3> QED
      BY <1>7, <3>2, <3>3, <3>4
  <2> HIDE DEF T
  <2>5. \A s \in SUBSET D : s # {} /\ s \ {pick[s]} \in T => s \in T
    BY <2>3
  <2>4. \A s \in SUBSET D : s \in T
    <3>1. IsFiniteSet(D)
      BY <1>3
    <3>2. PICK U : U = T
      OBVIOUS
    <3>3. {} \in U /\ \A s \in SUBSET D : s # {} /\ s \ {pick[s]} \in U => s \in U
      BY <2>2, <2>5, <3>2
    <3> HIDE DEF In, iter
    <3>4. \A s \in SUBSET D : s \in U
      <4>1. Picks(pick, D)
        BY <1>6, <3>1 DEF Picks
      <4>2. ClosedUnder(U, pick, D)
        BY <3>3 DEF ClosedUnder
      <4> QED
        BY <4>1, <4>2, SubsetInduction
    <3> QED
      BY <3>2, <3>4
  <2> QED
    BY <2>4 DEF T
<1>13. g[D] = Cardinality(In(D))
  BY <1>12
<1>14. In(D) = 1 .. L /\ Cardinality(1 .. L) = L
  <2>1. In(D) = 1 .. L
    BY <1>1, <1>2 DEF Range
  <2>2. Cardinality(1 .. L) = L
    <3>1. Cardinality(1 .. L) = IF 1 > L THEN 0 ELSE L - 1 + 1
      BY FS_Interval
    <3> QED
      BY <1>1, <3>1
  <2> QED
    BY <2>1, <2>2
<1> QED
  BY <1>1, <1>2, <1>10, <1>11, <1>13, <1>14

------------------------------------------------------------------------------
(* What a sink keeps. *)

\* Every row kept is one of all rows, at a place of its own.
Held(q, n, i) == \E j \in 1 .. n : q[j] = i
Chosen(all, rows, q) ==
    /\ q \in [1 .. Len(rows) -> 1 .. Len(all)]
    /\ \A i, j \in 1 .. Len(rows) : q[i] = q[j] => i = j
    /\ \A i \in 1 .. Len(rows) : rows[i] = all[q[i]]
\* All rows are kept, or the sink is full, and no row it has dropped is before one of its.
BestOf(keys, max, rows, all, q) ==
    /\ Chosen(all, rows, q)
    /\ \A i \in 1 .. Len(all) : ~Held(q, Len(rows), i) =>
          \A j \in 1 .. Len(rows) : ~Before(keys, all[i], rows[j])
    /\ max > 0 => Len(rows) <= max
    /\ \/ \A i \in 1 .. Len(all) : Held(q, Len(rows), i)
       \/ max > 0 /\ Len(rows) = max
BestRows(keys, max, rows, bag) ==
    \E all \in Seq(SortRow) : bag = BagOf(all) /\ \E q : BestOf(keys, max, rows, all, q)

\* Nothing of nothing.
LEMMA BestOfNone ==
    ASSUME NEW keys, NEW max \in Nat
    PROVE  BestRows(keys, max, <<>>, EmptyBag)
<1>1. PICK none : none = <<>>
  OBVIOUS
<1>2. none \in Seq(SortRow) /\ Len(none) = 0 /\ 1 .. 0 = {} /\ DOMAIN none = {}
  BY <1>1
<1>3. BagOf(none) = EmptyBag
  BY <1>2 DEF BagOf, EmptyBag, SetToBag, Range
<1>4. PICK q : q = [i \in {} |-> 1]
  OBVIOUS
<1>5. BestOf(keys, max, none, none, q)
  BY <1>2, <1>4 DEF BestOf, Chosen
<1> QED
  BY <1>1, <1>2, <1>3, <1>5 DEF BestRows

\* A row for a sink that is not full.
LEMMA BestOfMore ==
    ASSUME NEW keys, NEW max \in Nat, NEW rows \in Seq(SortRow), NEW bag,
           BestRows(keys, max, rows, bag), max = 0 \/ Len(rows) < max, NEW row \in SortRow
    PROVE  BestRows(keys, max, Append(rows, row), bag (+) SetToBag({row}))
<1>1. PICK all \in Seq(SortRow) : bag = BagOf(all) /\ \E q : BestOf(keys, max, rows, all, q)
  BY DEF BestRows
<1>2. PICK q : BestOf(keys, max, rows, all, q)
  BY <1>1
<1>3. PICK L \in Nat, M \in Nat : L = Len(rows) /\ M = Len(all)
  BY LenProperties
<1>4. PICK rows2, all2 : rows2 = Append(rows, row) /\ all2 = Append(all, row)
  OBVIOUS
<1>5. /\ rows2 \in Seq(SortRow) /\ Len(rows2) = L + 1 /\ rows2[L + 1] = row
      /\ \A i \in 1 .. L : rows2[i] = rows[i]
  BY <1>3, <1>4, AppendProperties
<1>6. /\ all2 \in Seq(SortRow) /\ Len(all2) = M + 1 /\ all2[M + 1] = row
      /\ \A i \in 1 .. M : all2[i] = all[i]
  BY <1>3, <1>4, AppendProperties
<1>7. /\ \A i \in 1 .. M : Held(q, L, i)
      /\ q \in [1 .. L -> 1 .. M] /\ \A i, j \in 1 .. L : q[i] = q[j] => i = j
      /\ \A i \in 1 .. L : rows[i] = all[q[i]]
  BY <1>2, <1>3 DEF BestOf, Chosen
<1>8. PICK q2 : q2 = [i \in 1 .. L + 1 |-> IF i = L + 1 THEN M + 1 ELSE q[i]]
  OBVIOUS
<1>9. /\ \A i \in 1 .. L + 1 : i \in 1 .. L \/ i = L + 1
      /\ \A i \in 1 .. L : i \in 1 .. L + 1 /\ i # L + 1
      /\ \A i \in 1 .. M : i \in 1 .. M + 1 /\ i # M + 1
      /\ \A i \in 1 .. M + 1 : i \in 1 .. M \/ i = M + 1
      /\ L + 1 \in 1 .. L + 1 /\ M + 1 \in 1 .. M + 1
  BY <1>3
<1>10. (\A i \in 1 .. L : q2[i] = q[i] /\ q[i] \in 1 .. M) /\ q2[L + 1] = M + 1
  BY <1>7, <1>8, <1>9
<1>11. q2 \in [1 .. L + 1 -> 1 .. M + 1]
  BY <1>8, <1>9, <1>10
<1>12. \A i, j \in 1 .. L + 1 : q2[i] = q2[j] => i = j
  BY <1>7, <1>9, <1>10
<1>13. \A i \in 1 .. L + 1 : rows2[i] = all2[q2[i]]
  <2>1. ASSUME NEW i \in 1 .. L PROVE rows2[i] = all2[q2[i]]
    <3>1. q[i] \in 1 .. M /\ q2[i] = q[i]
      BY <1>10
    <3>2. all2[q[i]] = all[q[i]]
      BY <1>6, <3>1
    <3> QED
      BY <1>5, <1>7, <3>1, <3>2
  <2>2. rows2[L + 1] = all2[q2[L + 1]]
    BY <1>5, <1>6, <1>10
  <2> QED
    BY <1>9, <2>1, <2>2
<1>14. \A i \in 1 .. M + 1 : Held(q2, L + 1, i)
  <2>1. ASSUME NEW i \in 1 .. M PROVE Held(q2, L + 1, i)
    <3>1. PICK j \in 1 .. L : q[j] = i
      BY <1>7 DEF Held
    <3> QED
      BY <1>9, <1>10, <3>1 DEF Held
  <2>2. Held(q2, L + 1, M + 1)
    BY <1>9, <1>10 DEF Held
  <2> QED
    BY <1>9, <2>1, <2>2
<1>15. max > 0 => L + 1 <= max
  BY <1>3
<1>16. BestOf(keys, max, rows2, all2, q2)
  BY <1>5, <1>6, <1>11, <1>12, <1>13, <1>14, <1>15 DEF BestOf, Chosen
<1>17. bag (+) SetToBag({row}) = BagOf(all2)
  BY <1>1, <1>4, BagOfAppend
<1> QED
  BY <1>4, <1>6, <1>16, <1>17 DEF BestRows

\* A row that comes before none, for a full sink.
LEMMA BestOfSame ==
    ASSUME NEW keys, NEW max \in Nat, NEW rows \in Seq(SortRow), NEW bag,
           BestRows(keys, max, rows, bag), max > 0, Len(rows) = max, NEW row \in SortRow,
           \A j \in 1 .. Len(rows) : ~Before(keys, row, rows[j])
    PROVE  BestRows(keys, max, rows, bag (+) SetToBag({row}))
<1>1. PICK all \in Seq(SortRow) : bag = BagOf(all) /\ \E q : BestOf(keys, max, rows, all, q)
  BY DEF BestRows
<1>2. PICK q : BestOf(keys, max, rows, all, q)
  BY <1>1
<1>3. PICK L \in Nat, M \in Nat : L = Len(rows) /\ M = Len(all)
  BY LenProperties
<1>4. PICK all2 : all2 = Append(all, row)
  OBVIOUS
<1>5. /\ all2 \in Seq(SortRow) /\ Len(all2) = M + 1 /\ all2[M + 1] = row
      /\ \A i \in 1 .. M : all2[i] = all[i]
  BY <1>3, <1>4, AppendProperties
<1>6. /\ \A i \in 1 .. M : ~Held(q, L, i) => \A j \in 1 .. L : ~Before(keys, all[i], rows[j])
      /\ q \in [1 .. L -> 1 .. M] /\ \A i, j \in 1 .. L : q[i] = q[j] => i = j
      /\ \A i \in 1 .. L : rows[i] = all[q[i]]
  BY <1>2, <1>3 DEF BestOf, Chosen
<1>7. /\ \A i \in 1 .. M + 1 : i \in 1 .. M \/ i = M + 1
      /\ \A i \in 1 .. M : i \in 1 .. M + 1
  BY <1>3
<1>8. q \in [1 .. L -> 1 .. M + 1] /\ \A i \in 1 .. L : rows[i] = all2[q[i]]
  BY <1>5, <1>6, <1>7
<1>9. \A i \in 1 .. M + 1 : ~Held(q, L, i) => \A j \in 1 .. L : ~Before(keys, all2[i], rows[j])
  BY <1>3, <1>5, <1>6, <1>7
<1>10. BestOf(keys, max, rows, all2, q)
  BY <1>3, <1>5, <1>6, <1>8, <1>9 DEF BestOf, Chosen
<1>11. bag (+) SetToBag({row}) = BagOf(all2)
  BY <1>1, <1>4, BagOfAppend
<1> QED
  BY <1>5, <1>10, <1>11 DEF BestRows

\* A sequence without its element at w.
Skip(w, i) == IF i < w THEN i ELSE i + 1
LEMMA RemoveIs ==
    ASSUME NEW S, NEW rows \in Seq(S), NEW w \in 1 .. Len(rows)
    PROVE  /\ RemoveAt(rows, w) \in Seq(S) /\ Len(RemoveAt(rows, w)) = Len(rows) - 1
           /\ \A i \in 1 .. Len(rows) - 1 : RemoveAt(rows, w)[i] = rows[Skip(w, i)]
<1>1. PICK L \in Nat : L = Len(rows) /\ w \in 1 .. L /\ w \in Nat
  BY LenProperties
<1>2. PICK a : a = SubSeq(rows, 1, w - 1)
  OBVIOUS
<1>3. PICK b : b = SubSeq(rows, w + 1, L)
  OBVIOUS
<1>4. a \in Seq(S) /\ Len(a) = w - 1 /\ \A i \in 1 .. w - 1 : a[i] = rows[i]
  <2>1. w - 1 \in 1 - 1 .. L /\ 1 \in 1 .. L + 1
    BY <1>1
  <2>2. Len(a) = (w - 1) - 1 + 1 /\ a \in Seq(S)
        /\ \A i \in 1 .. (w - 1) - 1 + 1 : a[i] = rows[1 + i - 1]
    BY <1>1, <1>2, <2>1, SubSeqProperties
  <2>3. (w - 1) - 1 + 1 = w - 1 /\ \A i \in 1 .. w - 1 : 1 + i - 1 = i
    BY <1>1
  <2> QED
    BY <2>2, <2>3
<1>5. b \in Seq(S) /\ Len(b) = L - w /\ \A i \in 1 .. L - w : b[i] = rows[w + i]
  <2>1. w + 1 \in 1 .. L + 1 /\ L \in (w + 1) - 1 .. L
    BY <1>1
  <2>2. Len(b) = L - (w + 1) + 1 /\ b \in Seq(S)
        /\ \A i \in 1 .. L - (w + 1) + 1 : b[i] = rows[(w + 1) + i - 1]
    BY <1>1, <1>3, <2>1, SubSeqProperties
  <2>3. L - (w + 1) + 1 = L - w /\ \A i \in 1 .. L - w : (w + 1) + i - 1 = w + i
    BY <1>1
  <2> QED
    BY <2>2, <2>3
<1>6. PICK t : t = a \o b
  OBVIOUS
<1>7. t \in Seq(S) /\ Len(t) = L - 1
      /\ \A i \in 1 .. L - 1 : t[i] = IF i <= w - 1 THEN a[i] ELSE b[i - (w - 1)]
  <2>1. (w - 1) + (L - w) = L - 1
    BY <1>1
  <2>2. /\ t \in Seq(S) /\ Len(t) = Len(a) + Len(b)
        /\ \A i \in 1 .. Len(a) + Len(b) : t[i] = IF i <= Len(a) THEN a[i] ELSE b[i - Len(a)]
    BY <1>4, <1>5, <1>6, ConcatProperties
  <2> QED
    BY <1>4, <1>5, <2>1, <2>2
<1>8. ASSUME NEW i \in 1 .. L - 1 PROVE t[i] = rows[Skip(w, i)]
  <2>1. CASE i < w
    <3>1. i \in 1 .. w - 1 /\ i <= w - 1
      BY <1>1, <2>1
    <3> QED
      BY <1>4, <1>7, <2>1, <3>1 DEF Skip
  <2>2. CASE ~(i < w)
    <3>1. i - (w - 1) \in 1 .. L - w /\ w + (i - (w - 1)) = i + 1 /\ ~(i <= w - 1)
      BY <1>1, <2>2
    <3>2. t[i] = b[i - (w - 1)]
      BY <1>7, <3>1
    <3>3. t[i] = rows[i + 1]
      BY <1>5, <3>1, <3>2
    <3> QED
      BY <2>2, <3>3 DEF Skip
  <2> QED
    BY <2>1, <2>2
<1>9. RemoveAt(rows, w) = t
  BY <1>1, <1>2, <1>3, <1>6 DEF RemoveAt
<1> QED
  BY <1>1, <1>7, <1>8, <1>9

\* A row in the place of the worst one.
LEMMA BestOfExchange ==
    ASSUME NEW keys \in Seq(SortKey), NEW max \in Nat, NEW rows \in Seq(SortRow), NEW bag,
           BestRows(keys, max, rows, bag), max > 0, Len(rows) = max, NEW row \in SortRow,
           NEW w \in 1 .. Len(rows), Before(keys, row, rows[w]),
           \A j \in 1 .. Len(rows) : ~Before(keys, rows[w], rows[j])
    PROVE  BestRows(keys, max, Append(RemoveAt(rows, w), row), bag (+) SetToBag({row}))
<1>1. PICK all \in Seq(SortRow) : bag = BagOf(all) /\ \E q : BestOf(keys, max, rows, all, q)
  BY DEF BestRows
<1>2. PICK q : BestOf(keys, max, rows, all, q)
  BY <1>1
<1>3. PICK L \in Nat, M \in Nat : L = Len(rows) /\ M = Len(all) /\ w \in 1 .. L /\ L = max
  BY LenProperties
<1>4. PICK rest : rest = RemoveAt(rows, w)
  OBVIOUS
<1>5. /\ rest \in Seq(SortRow) /\ Len(rest) = L - 1 /\ L - 1 \in Nat /\ (L - 1) + 1 = L
      /\ \A i \in 1 .. L - 1 : rest[i] = rows[Skip(w, i)]
  <2>1. /\ rest \in Seq(SortRow) /\ Len(rest) = Len(rows) - 1
        /\ \A i \in 1 .. Len(rows) - 1 : rest[i] = rows[Skip(w, i)]
    BY <1>4, RemoveIs
  <2>2. L - 1 \in Nat /\ (L - 1) + 1 = L
    BY <1>3
  <2> QED
    BY <1>3, <2>1, <2>2
<1>6. PICK rows2, all2 : rows2 = Append(rest, row) /\ all2 = Append(all, row)
  OBVIOUS
<1>7. /\ rows2 \in Seq(SortRow) /\ Len(rows2) = L /\ rows2[L] = row
      /\ \A i \in 1 .. L - 1 : rows2[i] = rows[Skip(w, i)]
  <2>1. /\ rows2 \in Seq(SortRow) /\ Len(rows2) = Len(rest) + 1 /\ rows2[Len(rest) + 1] = row
        /\ \A i \in 1 .. Len(rest) : rows2[i] = rest[i]
    BY <1>5, <1>6, AppendProperties
  <2> QED
    BY <1>5, <2>1
<1>8. /\ all2 \in Seq(SortRow) /\ Len(all2) = M + 1 /\ all2[M + 1] = row
      /\ \A i \in 1 .. M : all2[i] = all[i]
  BY <1>3, <1>6, AppendProperties
<1>9. /\ \A i \in 1 .. M : ~Held(q, L, i) => \A j \in 1 .. L : ~Before(keys, all[i], rows[j])
      /\ q \in [1 .. L -> 1 .. M] /\ \A i, j \in 1 .. L : q[i] = q[j] => i = j
      /\ \A i \in 1 .. L : rows[i] = all[q[i]]
  BY <1>2, <1>3 DEF BestOf, Chosen
<1>10. /\ \A i \in 1 .. L - 1 : Skip(w, i) \in 1 .. L /\ Skip(w, i) # w /\ i \in 1 .. L /\ i # L
       /\ \A i, j \in 1 .. L - 1 : Skip(w, i) = Skip(w, j) => i = j
       /\ \A i \in 1 .. L : i \in 1 .. L - 1 \/ i = L
       /\ \A i \in 1 .. L : i # w => \E j \in 1 .. L - 1 : Skip(w, j) = i
  <2>1. ASSUME NEW i \in 1 .. L, i # w PROVE \E j \in 1 .. L - 1 : Skip(w, j) = i
    <3>1. CASE i < w
      <4>1. i \in 1 .. L - 1
        BY <1>3, <3>1
      <4> QED
        BY <3>1, <4>1 DEF Skip
    <3>2. CASE ~(i < w)
      <4>1. i - 1 \in 1 .. L - 1 /\ ~(i - 1 < w) /\ (i - 1) + 1 = i
        BY <1>3, <2>1, <3>2
      <4>2. Skip(w, i - 1) = i
        BY <4>1 DEF Skip
      <4> QED
        BY <4>1, <4>2
    <3> QED
      BY <3>1, <3>2
  <2>2. \A i \in 1 .. L - 1 : Skip(w, i) \in 1 .. L /\ Skip(w, i) # w /\ i \in 1 .. L /\ i # L
    BY <1>3 DEF Skip
  <2>3. \A i, j \in 1 .. L - 1 : Skip(w, i) = Skip(w, j) => i = j
    BY <1>3 DEF Skip
  <2>4. \A i \in 1 .. L : i \in 1 .. L - 1 \/ i = L
    BY <1>3
  <2> QED
    BY <2>1, <2>2, <2>3, <2>4
<1>11. /\ \A i \in 1 .. M + 1 : i \in 1 .. M \/ i = M + 1
       /\ \A i \in 1 .. M : i \in 1 .. M + 1 /\ i # M + 1
       /\ M + 1 \in 1 .. M + 1 /\ L \in 1 .. L
  BY <1>3
<1>12. PICK q2 : q2 = [i \in 1 .. L |-> IF i = L THEN M + 1 ELSE q[Skip(w, i)]]
  OBVIOUS
<1>13. (\A i \in 1 .. L - 1 : q2[i] = q[Skip(w, i)] /\ q2[i] \in 1 .. M) /\ q2[L] = M + 1
  BY <1>9, <1>10, <1>11, <1>12
<1>14. q2 \in [1 .. L -> 1 .. M + 1]
  <2>1. \A i \in 1 .. L : q2[i] \in 1 .. M + 1
    BY <1>10, <1>11, <1>13
  <2> QED
    BY <1>12, <2>1
<1>15. \A i, j \in 1 .. L : q2[i] = q2[j] => i = j
  <2>1. ASSUME NEW i \in 1 .. L - 1, NEW j \in 1 .. L - 1, q2[i] = q2[j] PROVE i = j
    <3>1. Skip(w, i) = Skip(w, j)
      BY <1>9, <1>10, <1>13, <2>1
    <3> QED
      BY <1>10, <3>1
  <2>2. \A i \in 1 .. L - 1 : q2[i] # q2[L]
    BY <1>11, <1>13
  <2> QED
    BY <1>10, <2>1, <2>2
<1>16. \A i \in 1 .. L : rows2[i] = all2[q2[i]]
  <2>1. ASSUME NEW i \in 1 .. L - 1 PROVE rows2[i] = all2[q2[i]]
    <3>1. q2[i] \in 1 .. M /\ q2[i] = q[Skip(w, i)] /\ Skip(w, i) \in 1 .. L
      BY <1>10, <1>13
    <3>2. all2[q2[i]] = all[q2[i]]
      BY <1>8, <3>1
    <3> QED
      BY <1>7, <1>9, <3>1, <3>2
  <2>2. rows2[L] = all2[q2[L]]
    BY <1>7, <1>8, <1>13
  <2> QED
    BY <1>10, <2>1, <2>2
<1>17. ASSUME NEW i \in 1 .. M + 1, ~Held(q2, L, i), NEW j \in 1 .. L
       PROVE  ~Before(keys, all2[i], rows2[j])
  <2>1. i \in 1 .. M /\ all2[i] = all[i] /\ all[i] \in SortRow
    <3>1. i # M + 1
      BY <1>11, <1>13, <1>17 DEF Held
    <3>2. i \in 1 .. M
      BY <1>11, <3>1
    <3> QED
      BY <1>3, <1>8, <3>2, ElementOfSeq
  <2>2. /\ \A r, s \in SortRow : Before(keys, r, s) => ~Before(keys, s, r)
        /\ \A r, s, t \in SortRow : ~Before(keys, r, s) /\ ~Before(keys, s, t) => ~Before(keys, r, t)
    BY OrderIsWeak
  <2>3. rows[w] \in SortRow /\ w \in 1 .. L /\ \A k \in 1 .. L : rows[k] \in SortRow
    BY <1>3, ElementOfSeq
  <2>4. ~Before(keys, all[i], rows[w])
    <3>1. CASE Held(q, L, i)
      <4>1. PICK k \in 1 .. L : q[k] = i
        BY <3>1 DEF Held
      <4>2. k = w
        <5>1. SUFFICES ASSUME k # w PROVE FALSE
          OBVIOUS
        <5>2. PICK l \in 1 .. L - 1 : Skip(w, l) = k
          BY <1>10, <5>1
        <5>3. q2[l] = i /\ l \in 1 .. L
          BY <1>10, <1>13, <4>1, <5>2
        <5> QED
          BY <1>17, <5>3 DEF Held
      <4>3. all[i] = rows[w]
        BY <1>9, <4>1, <4>2
      <4> QED
        BY <2>2, <2>3, <4>3
    <3>2. CASE ~Held(q, L, i)
      BY <1>9, <2>1, <2>3, <3>2
    <3> QED
      BY <3>1, <3>2
  <2>5. CASE j = L
    <3>1. ~Before(keys, rows[w], row)
      BY <2>2, <2>3
    <3> QED
      BY <1>7, <2>1, <2>2, <2>3, <2>4, <2>5, <3>1
  <2>6. CASE j \in 1 .. L - 1
    <3>1. Skip(w, j) \in 1 .. L /\ rows2[j] = rows[Skip(w, j)]
      BY <1>7, <1>10, <2>6
    <3>2. ~Before(keys, rows[w], rows[Skip(w, j)]) /\ rows[Skip(w, j)] \in SortRow
      BY <1>3, <2>3, <3>1
    <3>3. ~Before(keys, all[i], rows[Skip(w, j)])
      BY <2>1, <2>2, <2>3, <2>4, <3>2
    <3> QED
      BY <2>1, <3>1, <3>3
  <2> QED
    BY <1>10, <2>5, <2>6
<1>18. BestOf(keys, max, rows2, all2, q2)
  BY <1>3, <1>7, <1>8, <1>14, <1>15, <1>16, <1>17 DEF BestOf, Chosen
<1>19. bag (+) SetToBag({row}) = BagOf(all2)
  BY <1>1, <1>6, BagOfAppend
<1> QED
  BY <1>4, <1>6, <1>8, <1>18, <1>19 DEF BestRows

\* The rows chosen are no more than all, and all of them if every place is held.
LEMMA ChosenCount ==
    ASSUME NEW S, NEW all \in Seq(S), NEW rows \in Seq(S), NEW q, Chosen(all, rows, q)
    PROVE  /\ Len(rows) <= Len(all)
           /\ (\A i \in 1 .. Len(all) : Held(q, Len(rows), i)) => Len(rows) = Len(all)
<1>1. PICK L \in Nat, M \in Nat : L = Len(rows) /\ M = Len(all)
  BY LenProperties
<1>2. q \in Injection(1 .. L, 1 .. M)
  BY <1>1 DEF Chosen, Injection, IsInjective
<1>3. IsFiniteSet(1 .. L) /\ IsFiniteSet(1 .. M)
  BY FS_Interval
<1>4. Cardinality(1 .. L) = L /\ Cardinality(1 .. M) = M
  <2>1. Cardinality(1 .. L) = IF 1 > L THEN 0 ELSE L - 1 + 1
    BY FS_Interval
  <2>2. Cardinality(1 .. M) = IF 1 > M THEN 0 ELSE M - 1 + 1
    BY FS_Interval
  <2> QED
    BY <2>1, <2>2
<1>5. L <= M
  BY <1>2, <1>3, <1>4, FS_Injection
<1>6. ASSUME \A i \in 1 .. M : Held(q, L, i) PROVE L = M
  <2>1. q \in Surjection(1 .. L, 1 .. M)
    BY <1>2, <1>6 DEF Held, Injection, Surjection
  <2>2. M <= L
    BY <1>3, <1>4, <2>1, FS_Surjection
  <2> QED
    BY <1>5, <2>2
<1> QED
  BY <1>1, <1>5, <1>6

\* A row is in all rows as often as in those chosen, and more often only if one of its places
\* is not held.
LEMMA ChosenCopies ==
    ASSUME NEW S, NEW all \in Seq(S), NEW rows \in Seq(S), NEW q, Chosen(all, rows, q), NEW x
    PROVE  /\ Count(rows, x) <= Count(all, x)
           /\ Count(rows, x) < Count(all, x) =>
                 \E i \in 1 .. Len(all) : ~Held(q, Len(rows), i) /\ all[i] = x
<1>1. PICK A, B : A = Places(rows, x) /\ B = Places(all, x)
  OBVIOUS
<1>2. IsFiniteSet(A) /\ IsFiniteSet(B) /\ Count(rows, x) = Cardinality(A)
      /\ Count(all, x) = Cardinality(B) /\ Cardinality(A) \in Nat /\ Cardinality(B) \in Nat
  BY <1>1, PlacesAre DEF Count
<1>3. PICK f : f = [i \in A |-> q[i]]
  OBVIOUS
<1>4. A \subseteq 1 .. Len(rows)
  BY <1>1 DEF Places
<1>5. f \in [A -> B]
  BY <1>1, <1>3 DEF Places, Chosen
<1>6. f \in Injection(A, B)
  BY <1>3, <1>4, <1>5 DEF Chosen, Injection, IsInjective
<1>7. Cardinality(A) <= Cardinality(B) /\ (f \in Surjection(A, B) => Cardinality(A) = Cardinality(B))
  BY <1>2, <1>6, FS_Injection
<1>8. ASSUME \A i \in 1 .. Len(all) : all[i] = x => Held(q, Len(rows), i)
      PROVE  f \in Surjection(A, B)
  <2>1. ASSUME NEW i \in B PROVE \E j \in A : f[j] = i
    <3>1. i \in 1 .. Len(all) /\ all[i] = x
      BY <1>1, <2>1 DEF Places
    <3>2. PICK j \in 1 .. Len(rows) : q[j] = i
      BY <1>8, <3>1 DEF Held
    <3>3. rows[j] = x
      BY <3>1, <3>2 DEF Chosen
    <3>4. j \in A
      BY <1>1, <3>3 DEF Places
    <3> QED
      BY <1>3, <3>2, <3>4
  <2> QED
    BY <1>5, <2>1 DEF Surjection
<1>9. Count(rows, x) <= Count(all, x)
  BY <1>2, <1>7
<1>10. ASSUME Count(rows, x) < Count(all, x)
       PROVE  \E i \in 1 .. Len(all) : ~Held(q, Len(rows), i) /\ all[i] = x
  <2>1. ~(f \in Surjection(A, B))
    BY <1>2, <1>7, <1>10
  <2> QED
    BY <1>8, <2>1
<1> QED
  BY <1>9, <1>10

\* The rows kept are the best.
LEMMA BestIsKept ==
    ASSUME NEW keys, NEW max \in Nat, NEW rows \in Seq(SortRow), BestRows(keys, max, rows, given)
    PROVE  KeepsBest(keys, max, BagOf(rows))
<1>1. PICK all \in Seq(SortRow) : given = BagOf(all) /\ \E q : BestOf(keys, max, rows, all, q)
  BY DEF BestRows
<1>2. PICK q : BestOf(keys, max, rows, all, q)
  BY <1>1
<1>3. Chosen(all, rows, q)
  BY <1>2 DEF BestOf
<1>4. \A x : /\ Count(rows, x) <= Count(all, x)
             /\ Count(rows, x) \in Nat /\ Count(all, x) \in Nat
             /\ Count(rows, x) = 0 <=> x \notin Range(rows)
             /\ Count(all, x) = 0 <=> x \notin Range(all)
             /\ Count(rows, x) < Count(all, x) =>
                   \E i \in 1 .. Len(all) : ~Held(q, Len(rows), i) /\ all[i] = x
  BY <1>3, ChosenCopies, PlacesAre
<1>5. PICK kept : kept = BagOf(rows)
  OBVIOUS
<1>6. /\ DOMAIN kept = Range(rows) /\ \A x \in Range(rows) : kept[x] = Count(rows, x)
      /\ DOMAIN given = Range(all) /\ \A x \in Range(all) : given[x] = Count(all, x)
  BY <1>1, <1>5, BagOfIs
<1>7. Range(rows) \subseteq Range(all)
  <2>1. ASSUME NEW x \in Range(rows), x \notin Range(all) PROVE FALSE
    <3>1. Count(rows, x) # 0 /\ Count(all, x) = 0 /\ Count(rows, x) <= Count(all, x)
          /\ Count(rows, x) \in Nat
      BY <1>4, <2>1
    <3> QED
      BY <3>1
  <2> QED
    BY <2>1
<1>8. kept \sqsubseteq given
  BY <1>4, <1>6, <1>7 DEF \sqsubseteq
<1>9. Copies(kept) = IF max = 0 THEN Copies(given) ELSE Min({max, Copies(given)})
  <2>1. PICK L \in Nat, M \in Nat : L = Len(rows) /\ M = Len(all)
    BY LenProperties
  <2>2. Copies(kept) = L /\ Copies(given) = M
    BY <1>1, <1>5, <2>1, CopiesAre
  <2>3. L <= M /\ (L = M \/ (max > 0 /\ L = max)) /\ (max > 0 => L <= max)
    <3> DEFINE Full == \A i \in 1 .. Len(all) : Held(q, Len(rows), i)
    <3>1. Len(rows) <= Len(all) /\ (Full => Len(rows) = Len(all))
      BY <1>3, ChosenCount
    <3>2. (max > 0 => Len(rows) <= max) /\ (Full \/ (max > 0 /\ Len(rows) = max))
      BY <1>2 DEF BestOf
    <3> HIDE DEF Full
    <3> QED
      BY <2>1, <3>1, <3>2
  <2>4. CASE max = 0
    BY <2>2, <2>3, <2>4
  <2>5. CASE max # 0
    <3>1. PICK m : m = Min({max, M})
      OBVIOUS
    <3>2. {max, M} \in SUBSET Nat /\ {max, M} # {}
      OBVIOUS
    <3>3. m \in {max, M} /\ m <= max /\ m <= M
      BY <3>1, <3>2, MinOfNumbers
    <3>4. L = m
      BY <2>3, <2>5, <3>3
    <3> QED
      BY <2>2, <2>5, <3>1, <3>4
  <2> QED
    BY <2>4, <2>5
<1>10. ASSUME NEW r \in BagToSet(given (-) kept), NEW s \in BagToSet(kept)
       PROVE  ~Before(keys, r, s)
  <2>1. r \in Range(all) /\ Count(rows, r) < Count(all, r)
    <3>1. r \in DOMAIN given /\ (IF r \in DOMAIN kept THEN given[r] - kept[r] ELSE given[r]) > 0
      BY <1>10 DEF BagToSet, (-)
    <3>2. CASE r \in DOMAIN kept
      <4>1. Count(all, r) - Count(rows, r) > 0 /\ r \in Range(all)
        BY <1>6, <3>1, <3>2
      <4> QED
        BY <1>4, <4>1
    <3>3. CASE r \notin DOMAIN kept
      <4>1. Count(all, r) > 0 /\ r \in Range(all) /\ Count(rows, r) = 0
        BY <1>4, <1>6, <3>1, <3>3
      <4> QED
        BY <1>4, <4>1
    <3> QED
      BY <3>2, <3>3
  <2>2. PICK i \in 1 .. Len(all) : ~Held(q, Len(rows), i) /\ all[i] = r
    BY <1>4, <2>1
  <2>3. PICK j \in 1 .. Len(rows) : rows[j] = s
    <3>1. s \in Range(rows) /\ DOMAIN rows = 1 .. Len(rows)
      BY <1>6, <1>10, LenProperties DEF BagToSet
    <3> QED
      BY <3>1 DEF Range
  <2> QED
    BY <1>2, <2>2, <2>3 DEF BestOf
<1> QED
  BY <1>5, <1>8, <1>9, <1>10 DEF KeepsBest

------------------------------------------------------------------------------
(* The inductive invariant. *)

Sorter == [at : {"none", "read", "push", "sink", "done"}, partition : Nat, cursor : Nat,
           chunk : Seq(SortRow), sheet : Nat]
IsSheet(s) ==
    s = [rows |-> s.rows, capacity |-> s.capacity, heap |-> s.heap] /\ s.rows \in Seq(SortRow)

\* The query, what was made of it and where the run is.
PlanIsRun ==
    /\ SortInputs
    /\ query \in Queries
    /\ pipelines \in Seq(Pipe) /\ Segments > 0
    /\ segment \in 1 .. Segments + 1
    /\ sorted \in [1 .. Segments -> Seq(SortRow)]
\* A worker w in the state f: it runs only a task of this pipeline, and none once all have
\* run; that of the output sink has the collection there is.
SorterIs(w, f) ==
    /\ f.partition <= Len(query.partitions)
    /\ f.at = "sink" => f.chunk # <<>>
    /\ segment \in 2 .. Segments => f.cursor <= Len(sorted[segment - 1])
    /\ segment <= Segments /\ f.at # "none" => w \in Tasks(segment)
    /\ segment > Segments => f.at \in {"none", "done"}
    /\ IsOutput(segment) /\ f.at # "none" => f.sheet = published[segment]
SortersRun ==
    /\ sorter \in [Sorters -> Sorter] /\ claims \in Nat
    /\ \A w \in Sorters : SorterIs(w, sorter[w])
\* The collections: those published are there, each once.
SheetsAreThere ==
    /\ published \in [1 .. Segments -> Nat]
    /\ \A k, l \in 1 .. Segments : published[k] = published[l] => k = l
    /\ \A k \in 1 .. Segments : published[k] \in DOMAIN sheets
    /\ \E n \in Nat : DOMAIN sheets \subseteq 0 .. n
    /\ \A id \in DOMAIN sheets : IsSheet(sheets[id])
    /\ \A k \in 1 .. Segments : k > segment => sheets[published[k]].rows = <<>>
SinkHasBest ==
    segment <= Segments =>
        BestRows(SinkKeys(segment), Kept(pipelines[segment]), sheets[published[segment]].rows, given)
SortInv == PlanIsRun /\ SortersRun /\ SheetsAreThere /\ SinkHasBest

\* The parts of SortInputs that a step uses.
LEMMA SortTypes ==
    ASSUME PlanIsRun
    PROVE  /\ \A k \in 1 .. Segments : pipelines[k] \in Pipe
           /\ Segments \in Nat \ {0} /\ segment \in Nat /\ SortChunk \in Nat \ {0}
           /\ query.partitions \in Seq(Seq(SortRow)) /\ query.plan \in Seq(PlanNode)
           /\ \A w \in Sorters : w \in Nat \ {0}
<1>1. /\ query \in [plan : Seq(PlanNode), partitions : Seq(Seq(SortRow))]
      /\ SortChunk \in Nat \ {0}
  BY DEF PlanIsRun, SortInputs
<1>2. pipelines \in Seq(Pipe) /\ Segments = Len(pipelines) /\ Segments > 0
  BY DEF PlanIsRun, Segments
<1>3. Segments \in Nat \ {0} /\ \A k \in 1 .. Segments : pipelines[k] \in Pipe
  BY <1>2, LenProperties, ElementOfSeq
<1>4. segment \in Nat
  BY <1>3 DEF PlanIsRun
<1>5. \A w \in Sorters : w \in Nat \ {0}
  <2>1. IsFiniteSet(Sorters) /\ Sorters = 1 .. Cardinality(Sorters)
    BY DEF PlanIsRun, SortInputs
  <2>2. PICK n \in Nat : n = Cardinality(Sorters)
    BY <2>1, FS_CardinalityType
  <2> QED
    BY <2>1, <2>2
<1> QED
  BY <1>1, <1>3, <1>4, <1>5

\* The rows a sink keeps are a number.
LEMMA KeptIs ==
    ASSUME NEW pipe \in Pipe
    PROVE  Kept(pipe) \in Nat /\ pipe.keys \in Seq(SortKey) /\ pipe.ops \in Seq({"filter", "projection"})
BY DEF Kept, Pipe

\* Whoever stores a row: the rows stored are the best.
LEMMA StoredIs ==
    ASSUME NEW pipe \in Pipe, NEW sheet, IsSheet(sheet), NEW row \in SortRow, NEW bag,
           BestRows(pipe.keys, Kept(pipe), sheet.rows, bag)
    PROVE  /\ IsSheet(Stored(pipe, sheet, row).to)
           /\ Stored(pipe, sheet, row).new \in BOOLEAN
           /\ BestRows(pipe.keys, Kept(pipe), Stored(pipe, sheet, row).to.rows,
                       bag (+) SetToBag({row}))
<1>1. PICK max \in Nat, keys \in Seq(SortKey) : max = Kept(pipe) /\ keys = pipe.keys
  BY KeptIs
<1>2. PICK rows \in Seq(SortRow) : rows = sheet.rows
  BY DEF IsSheet
<1>3. PICK L \in Nat : L = Len(rows)
  BY LenProperties
<1>4. PICK more : more = bag (+) SetToBag({row})
  OBVIOUS
<1>5. BestRows(keys, max, rows, bag)
  BY <1>1, <1>2
<1>6. max > 0 => L <= max
  BY <1>3, <1>5 DEF BestRows, BestOf
<1>7. PICK stored : stored = Stored(pipe, sheet, row)
  OBVIOUS
<1>8. CASE max > 0 /\ L >= max
  <2>1. L = max /\ L > 0
    BY <1>6, <1>8
  <2>2. PICK w : w = FindWorst(keys, rows)
    OBVIOUS
  <2>3. w \in 1 .. Len(rows) /\ \A j \in 1 .. Len(rows) : ~Before(keys, rows[w], rows[j])
    BY <1>3, <2>1, <2>2, WorstIs
  <2>4. stored = Exchanged(keys, sheet, w, row)
    BY <1>1, <1>2, <1>3, <1>7, <1>8, <2>2 DEF Stored
  <2>5. CASE Before(keys, row, rows[w])
    <3>1. stored = [new |-> TRUE, to |-> Rebuilt(sheet, w, row)]
      BY <1>2, <2>4, <2>5 DEF Exchanged
    <3>2. PICK kept : kept = Append(RemoveAt(rows, w), row)
      OBVIOUS
    <3>3. kept \in Seq(SortRow)
      <4>1. RemoveAt(rows, w) \in Seq(SortRow)
        BY <2>3, RemoveIs
      <4> QED
        BY <3>2, <4>1, AppendProperties
    <3>4. w # 0
      BY <1>3, <2>3
    <3>5. /\ stored.to.rows = kept /\ stored.new = TRUE
          /\ stored.to = [rows |-> stored.to.rows, capacity |-> stored.to.capacity,
                          heap |-> stored.to.heap]
      BY <1>2, <3>1, <3>2, <3>4 DEF Rebuilt
    <3>6. BestRows(keys, max, kept, more)
      BY <1>3, <1>4, <1>5, <1>8, <2>1, <2>3, <2>5, <3>2, BestOfExchange
    <3> QED
      BY <1>1, <1>4, <1>7, <3>3, <3>5, <3>6 DEF IsSheet
  <2>6. CASE ~Before(keys, row, rows[w])
    <3>1. stored = [new |-> FALSE, to |-> sheet]
      BY <1>2, <2>4, <2>6 DEF Exchanged
    <3>2. \A j \in 1 .. Len(rows) : ~Before(keys, row, rows[j])
      <4>1. \A r, s, t \in SortRow : ~Before(keys, r, s) /\ ~Before(keys, s, t) => ~Before(keys, r, t)
        BY OrderIsWeak
      <4>2. rows[w] \in SortRow /\ \A j \in 1 .. Len(rows) : rows[j] \in SortRow
        BY <2>3, ElementOfSeq
      <4> QED
        BY <2>3, <2>6, <4>1, <4>2
    <3>3. BestRows(keys, max, rows, more)
      BY <1>3, <1>4, <1>5, <1>8, <2>1, <3>2, BestOfSame
    <3> QED
      BY <1>1, <1>2, <1>4, <1>7, <3>1, <3>3
  <2> QED
    BY <2>5, <2>6
<1>9. CASE ~(max > 0 /\ L >= max)
  <2>1. PICK kept : kept = Append(rows, row)
    OBVIOUS
  <2>2. kept \in Seq(SortRow)
    BY <2>1, AppendProperties
  <2>3. BestRows(keys, max, kept, more)
    <3>1. max = 0 \/ Len(rows) < max
      BY <1>3, <1>9
    <3> QED
      BY <1>4, <1>5, <2>1, <3>1, BestOfMore
  <2>4. /\ stored.to.rows = kept /\ stored.new \in BOOLEAN
        /\ stored.to = [rows |-> stored.to.rows, capacity |-> stored.to.capacity,
                        heap |-> stored.to.heap]
    <3>1. stored = IF HasSpaceForAppend(sheet, row)
                   THEN [new |-> FALSE, to |-> [sheet EXCEPT !.rows = Append(@, row)]]
                   ELSE IF pipe.max_rows = 0 THEN [new |-> TRUE, to |-> GrowOutputTdc(sheet, row)]
                   ELSE [new |-> TRUE, to |-> Rebuilt(sheet, 0, row)]
      BY <1>1, <1>2, <1>3, <1>7, <1>9 DEF Stored
    <3>2. CASE HasSpaceForAppend(sheet, row)
      <4>1. PICK capacity, heap : sheet = [rows |-> rows, capacity |-> capacity, heap |-> heap]
        BY <1>2 DEF IsSheet
      <4>2. stored = [new |-> FALSE, to |-> [rows |-> kept, capacity |-> capacity, heap |-> heap]]
        BY <2>1, <3>1, <3>2, <4>1
      <4> QED
        BY <4>2
    <3>3. CASE ~HasSpaceForAppend(sheet, row) /\ pipe.max_rows = 0
      BY <1>2, <2>1, <3>1, <3>3 DEF GrowOutputTdc
    <3>4. CASE ~HasSpaceForAppend(sheet, row) /\ pipe.max_rows # 0
      BY <1>2, <2>1, <3>1, <3>4 DEF Rebuilt
    <3> QED
      BY <3>2, <3>3, <3>4
  <2> QED
    BY <1>1, <1>4, <1>7, <2>2, <2>3, <2>4 DEF IsSheet
<1> QED
  BY <1>8, <1>9

\* The first states.
LEMMA SortStarts ==
    ASSUME SortInputs, SortInit
    PROVE  SortInv
<1>1. query.plan \in Seq(PlanNode) /\ query.partitions \in Seq(Seq(SortRow))
  BY DEF SortInit, SortInputs
<1>2. pipelines \in Seq(Pipe) /\ Len(pipelines) > 0
  <2>1. pipelines = Translated(query.plan)
    BY DEF SortInit
  <2> QED
    BY <1>1, <2>1, TranslatedIs
<1>3. PICK N \in Nat : N = Len(pipelines) /\ N = Segments /\ N > 0 /\ DOMAIN pipelines = 1 .. N
  BY <1>2, LenProperties DEF Segments
<1>4. segment = 1 /\ 1 \in 1 .. N + 1 /\ 1 \in 1 .. N
  BY <1>3 DEF SortInit
<1>5. sorted = [k \in 1 .. N |-> <<>>] /\ published = [k \in 1 .. N |-> k]
      /\ sheets = [k \in 1 .. N |-> FirstSheet(pipelines[k])]
  BY <1>3 DEF SortInit
<1>6. PlanIsRun
  <2>1. sorted \in [1 .. N -> Seq(SortRow)]
    BY <1>5
  <2>2. query \in Queries
    BY DEF SortInit
  <2> QED
    BY <1>2, <1>3, <1>4, <2>1, <2>2 DEF PlanIsRun
<1>7. SortersRun
  <2>1. sorter = [w \in Sorters |-> NoSorter] /\ claims = 0
    BY DEF SortInit
  <2>2. NoSorter \in Sorter
    BY DEF NoSorter, Sorter
  <2>3. ASSUME NEW w \in Sorters PROVE SorterIs(w, sorter[w])
    <3>1. sorter[w] = NoSorter
      BY <2>1
    <3>2. 0 <= Len(query.partitions)
      BY <1>1, LenProperties
    <3>3. ~(segment \in 2 .. Segments) /\ ~(segment > Segments)
      BY <1>3, <1>4
    <3> QED
      BY <3>1, <3>2, <3>3 DEF SorterIs, NoSorter
  <2>4. sorter \in [Sorters -> Sorter]
    BY <2>1, <2>2
  <2> QED
    BY <2>1, <2>3, <2>4 DEF SortersRun
<1>8. \A k \in 1 .. N : IsSheet(sheets[k]) /\ sheets[k].rows = <<>>
  <2>1. ASSUME NEW k \in 1 .. N PROVE IsSheet(sheets[k]) /\ sheets[k].rows = <<>>
    <3>1. sheets[k] = FirstSheet(pipelines[k])
      BY <1>5
    <3>2. PICK capacity : sheets[k] = NewSheet(capacity)
      BY <3>1 DEF FirstSheet
    <3>3. PICK s : s = sheets[k]
      OBVIOUS
    <3>4. s = [rows |-> <<>>, capacity |-> capacity, heap |-> DefaultHeap(capacity)]
      BY <3>2, <3>3 DEF NewSheet
    <3>5. <<>> \in Seq(SortRow)
      OBVIOUS
    <3>6. IsSheet(s) /\ s.rows = <<>>
      BY <3>4, <3>5 DEF IsSheet
    <3> QED
      BY <3>3, <3>6
  <2> QED
    BY <2>1
<1>9. SheetsAreThere
  <2>1. published \in [1 .. Segments -> Nat] /\ \A k \in 1 .. Segments : published[k] = k
    BY <1>3, <1>5
  <2>2. DOMAIN sheets = 1 .. N /\ 1 .. N \subseteq 0 .. N
    BY <1>3, <1>5
  <2> QED
    BY <1>3, <1>8, <2>1, <2>2 DEF SheetsAreThere
<1>10. SinkHasBest
  <2>1. published[1] = 1 /\ sheets[1].rows = <<>> /\ given = EmptyBag
    BY <1>4, <1>5, <1>8 DEF SortInit
  <2>2. pipelines[1] \in Pipe
    BY <1>2, <1>3, <1>4, ElementOfSeq
  <2>3. Kept(pipelines[1]) \in Nat
    BY <2>2, KeptIs
  <2>4. BestRows(SinkKeys(1), Kept(pipelines[1]), <<>>, EmptyBag)
    BY <2>3, BestOfNone
  <2> QED
    BY <1>4, <2>1, <2>4 DEF SinkHasBest
<1> QED
  BY <1>6, <1>7, <1>9, <1>10 DEF SortInv

\* A step that only changes the state of one worker.
LEMMA GoKeeps ==
    ASSUME SortInv, NEW w \in Sorters, NEW f \in Sorter, Go(w, f), SorterIs(w, f), claims' \in Nat,
           UNCHANGED <<query, pipelines, segment, sheets, published, sorted, given>>
    PROVE  SortInv'
<1>1. PlanIsRun /\ SortersRun /\ SheetsAreThere /\ SinkHasBest
  BY DEF SortInv
<1>2. PlanIsRun'
  BY <1>1 DEF PlanIsRun, Segments
<1>3. SheetsAreThere'
  BY <1>1 DEF SheetsAreThere, Segments
<1>4. SinkHasBest'
  BY <1>1 DEF SinkHasBest, Segments, SinkKeys
<1>5. SortersRun'
  <2>1. sorter \in [Sorters -> Sorter] /\ sorter' = [sorter EXCEPT ![w] = f]
    BY <1>1 DEF SortersRun, Go
  <2>2. sorter' \in [Sorters -> Sorter] /\ sorter'[w] = f
    BY <2>1
  <2>3. \A v \in Sorters : v # w => sorter'[v] = sorter[v]
    BY <2>1
  <2>4. ASSUME NEW v \in Sorters, SorterIs(v, sorter'[v]) PROVE SorterIs(v, sorter[v])'
    BY <2>4 DEF SorterIs, Segments, IsOutput, Tasks, Threads
  <2>5. \A v \in Sorters : SorterIs(v, sorter'[v])
    BY <1>1, <2>2, <2>3 DEF SortersRun
  <2> QED
    BY <2>2, <2>4, <2>5 DEF SortersRun
<1> QED
  BY <1>2, <1>3, <1>4, <1>5 DEF SortInv

\* Begin: the collection of the pipeline.
LEMMA BeginKeeps ==
    ASSUME SortInv, NEW w \in Sorters, Begin(w)
    PROVE  SortInv'
<1>1. PICK f : f = [sorter[w] EXCEPT !.at = "read", !.sheet = published[segment]]
  OBVIOUS
<1>2. sorter[w] \in Sorter /\ SorterIs(w, sorter[w]) /\ claims \in Nat
  BY DEF SortInv, SortersRun
<1>3. segment \in 1 .. Segments /\ w \in Tasks(segment) /\ sorter[w].at = "none"
  BY DEF Begin, SortInv, PlanIsRun
<1>4. published[segment] \in Nat
  BY <1>3 DEF SortInv, SheetsAreThere
<1>5. f \in Sorter /\ f.at = "read" /\ f.sheet = published[segment]
      /\ f.partition = sorter[w].partition /\ f.cursor = sorter[w].cursor
  BY <1>1, <1>2, <1>4 DEF Sorter
<1>6. SorterIs(w, f)
  <2>1. segment \in Nat /\ Segments \in Nat
    BY SortTypes DEF SortInv
  <2>2. ~(segment > Segments)
    BY <1>3, <2>1
  <2> QED
    BY <1>2, <1>3, <1>5, <2>2 DEF SorterIs
<1> QED
  BY <1>1, <1>2, <1>5, <1>6, GoKeeps DEF Begin

\* While a worker is busy, its pipeline runs.
LEMMA Busy ==
    ASSUME SortInv, NEW w \in Sorters, sorter[w].at \notin {"none", "done"}
    PROVE  /\ segment \in 1 .. Segments /\ ~(segment > Segments) /\ w \in Tasks(segment)
           /\ sorter[w] \in Sorter /\ SorterIs(w, sorter[w]) /\ claims \in Nat
<1>1. sorter[w] \in Sorter /\ SorterIs(w, sorter[w]) /\ claims \in Nat
  BY DEF SortInv, SortersRun
<1>2. segment \in Nat /\ Segments \in Nat /\ segment \in 1 .. Segments + 1
  BY SortTypes DEF SortInv, PlanIsRun
<1>3. ~(segment > Segments)
  BY <1>1 DEF SorterIs
<1>4. segment \in 1 .. Segments
  BY <1>2, <1>3
<1>5. w \in Tasks(segment)
  BY <1>1, <1>2, <1>3 DEF SorterIs
<1> QED
  BY <1>1, <1>3, <1>4, <1>5

\* A busy worker stays one with its collection when its position or its chunk changes.
LEMMA BusyStays ==
    ASSUME SortInv, NEW w \in Sorters, sorter[w].at \notin {"none", "done"}, NEW f \in Sorter,
           f.sheet = sorter[w].sheet, f.partition <= Len(query.partitions),
           f.at = "sink" => f.chunk # <<>>,
           segment \in 2 .. Segments => f.cursor <= Len(sorted[segment - 1])
    PROVE  SorterIs(w, f)
BY Busy DEF SorterIs

\* ClaimPartition: the next partition, or the end of the chunk.
LEMMA ClaimKeeps ==
    ASSUME SortInv, NEW w \in Sorters, ClaimPartition(w)
    PROVE  SortInv'
<1>1. PICK f : f = IF claims < Len(query.partitions)
                   THEN [sorter[w] EXCEPT !.partition = claims + 1, !.cursor = 0]
                   ELSE [sorter[w] EXCEPT !.at = IF sorter[w].chunk = <<>> THEN "done" ELSE "push"]
  OBVIOUS
<1>2. sorter[w].at = "read" /\ segment = 1
  BY DEF ClaimPartition
<1>3. sorter[w] \in Sorter /\ SorterIs(w, sorter[w]) /\ claims \in Nat
  BY <1>2, Busy
<1>4. PICK P \in Nat : P = Len(query.partitions)
  <2>1. query.partitions \in Seq(Seq(SortRow))
    BY SortTypes DEF SortInv
  <2> QED
    BY <2>1, LenProperties
<1>5. PICK s \in Sorter : s = sorter[w]
  BY <1>3
<1>6. s.partition <= P /\ s.at = "read"
  BY <1>2, <1>3, <1>4, <1>5 DEF SorterIs
<1>7. /\ f \in Sorter /\ f.sheet = s.sheet /\ f.partition <= P /\ f.at # "sink"
  <2>1. CASE claims < P
    <3>1. PICK c \in Nat : c = claims + 1 /\ c <= P
      BY <1>3, <1>4, <2>1
    <3>2. f = [s EXCEPT !.partition = c, !.cursor = 0]
      BY <1>1, <1>4, <1>5, <2>1, <3>1
    <3> QED
      BY <1>6, <3>1, <3>2 DEF Sorter
  <2>2. CASE ~(claims < P)
    <3>1. PICK at \in {"done", "push"} : f = [s EXCEPT !.at = at]
      BY <1>1, <1>4, <1>5, <2>2
    <3> QED
      BY <1>6, <3>1 DEF Sorter
  <2> QED
    BY <2>1, <2>2
<1>8. SorterIs(w, f)
  <2>1. ~(segment \in 2 .. Segments)
    BY <1>2
  <2> QED
    BY <1>2, <1>4, <1>5, <1>7, <2>1, BusyStays
<1>9. claims' \in Nat /\ Go(w, f)
  BY <1>1, <1>3 DEF ClaimPartition
<1> QED
  BY <1>7, <1>8, <1>9, GoKeeps DEF ClaimPartition

\* GatherRow: a row of the partition.
LEMMA GatherKeeps ==
    ASSUME SortInv, NEW w \in Sorters, GatherRow(w)
    PROVE  SortInv'
<1>1. sorter[w].at = "read" /\ segment = 1 /\ sorter[w].cursor < Len(PartitionRows(w))
  BY DEF GatherRow
<1>2. sorter[w] \in Sorter /\ SorterIs(w, sorter[w]) /\ claims \in Nat
  BY <1>1, Busy
<1>3. PICK s \in Sorter : s = sorter[w]
  BY <1>2
<1>4. PICK partition \in Seq(SortRow) : partition = PartitionRows(w)
  <2>1. query.partitions \in Seq(Seq(SortRow))
    BY SortTypes DEF SortInv
  <2>2. PICK P \in Nat : P = Len(query.partitions)
    BY <2>1, LenProperties
  <2>3. s.partition \in Nat /\ s.partition <= P
    BY <1>2, <1>3, <2>2 DEF SorterIs, Sorter
  <2>4. CASE s.partition = 0
    <3>1. PartitionRows(w) = <<>>
      BY <1>3, <2>4 DEF PartitionRows
    <3>2. <<>> \in Seq(SortRow)
      OBVIOUS
    <3> QED
      BY <3>1, <3>2
  <2>5. CASE s.partition # 0
    <3>1. s.partition \in 1 .. P
      BY <2>3, <2>5
    <3>2. query.partitions[s.partition] \in Seq(SortRow)
      BY <2>1, <2>2, <3>1, ElementOfSeq
    <3> QED
      BY <1>3, <2>5, <3>2 DEF PartitionRows
  <2> QED
    BY <2>4, <2>5
<1>5. PICK c \in Nat : c = s.cursor + 1 /\ partition[c] \in SortRow
  <2>1. PICK L \in Nat : L = Len(partition)
    BY LenProperties
  <2>2. s.cursor \in Nat /\ s.cursor < L
    BY <1>1, <1>3, <1>4, <2>1 DEF Sorter
  <2>3. s.cursor + 1 \in 1 .. L
    BY <2>2
  <2> QED
    BY <2>1, <2>3, ElementOfSeq
<1>6. PICK chunk : chunk = Append(s.chunk, partition[c])
  OBVIOUS
<1>7. chunk \in Seq(SortRow)
  BY <1>5, <1>6, AppendProperties DEF Sorter
<1>8. PICK f : f = [s EXCEPT !.cursor = c, !.chunk = chunk]
  OBVIOUS
<1>9. f \in Sorter /\ f.sheet = s.sheet /\ f.partition = s.partition /\ f.at = "read"
  BY <1>1, <1>3, <1>7, <1>8 DEF Sorter
<1>10. SorterIs(w, f)
  <2>1. ~(segment \in 2 .. Segments)
    BY <1>1
  <2>2. s.partition <= Len(query.partitions)
    BY <1>2, <1>3 DEF SorterIs
  <2> QED
    BY <1>1, <1>3, <1>9, <2>1, <2>2, BusyStays
<1>11. Go(w, f)
  BY <1>3, <1>4, <1>5, <1>6, <1>8 DEF GatherRow
<1>12. claims' \in Nat
  BY <1>2 DEF GatherRow
<1> QED
  BY <1>9, <1>10, <1>11, <1>12, GoKeeps DEF GatherRow

\* ChunkIsFull: what was gathered goes on.
LEMMA FullKeeps ==
    ASSUME SortInv, NEW w \in Sorters, ChunkIsFull(w)
    PROVE  SortInv'
<1>1. sorter[w].at = "read" /\ segment = 1
  BY DEF ChunkIsFull
<1>2. sorter[w] \in Sorter /\ SorterIs(w, sorter[w]) /\ claims \in Nat
  BY <1>1, Busy
<1>3. PICK f : f = [sorter[w] EXCEPT !.at = "push"]
  OBVIOUS
<1>4. /\ f \in Sorter /\ f.sheet = sorter[w].sheet /\ f.partition = sorter[w].partition
      /\ f.at = "push"
  BY <1>2, <1>3 DEF Sorter
<1>5. SorterIs(w, f)
  <2>1. ~(segment \in 2 .. Segments)
    BY <1>1
  <2>2. f.partition <= Len(query.partitions)
    BY <1>2, <1>4 DEF SorterIs
  <2> QED
    BY <1>1, <1>4, <2>1, <2>2, BusyStays
<1> QED
  BY <1>2, <1>3, <1>4, <1>5, GoKeeps DEF ChunkIsFull

\* Push: what the operators make of the chunk.
LEMMA PushKeeps ==
    ASSUME SortInv, NEW w \in Sorters, Push(w)
    PROVE  SortInv'
<1>1. sorter[w].at = "push"
  BY DEF Push
<1>2. /\ sorter[w] \in Sorter /\ SorterIs(w, sorter[w]) /\ claims \in Nat
      /\ segment \in 1 .. Segments
  BY <1>1, Busy
<1>3. PICK s \in Sorter : s = sorter[w]
  BY <1>2
<1>4. PICK rows : rows = ApplyOperators(pipelines[segment].ops, s.chunk)
  OBVIOUS
<1>5. rows \in Seq(SortRow)
  <2>1. pipelines[segment] \in Pipe
    BY <1>2, SortTypes DEF SortInv
  <2>2. pipelines[segment].ops \in Seq({"filter", "projection"})
    BY <2>1, KeptIs
  <2>3. s.chunk \in Seq(SortRow)
    BY DEF Sorter
  <2> QED
    BY <1>4, <2>2, <2>3, AppliedAllIs
<1>6. PICK at \in {"read", "sink"} : at = (IF rows = <<>> THEN "read" ELSE "sink")
  OBVIOUS
<1>7. PICK f : f = [s EXCEPT !.chunk = rows, !.at = at]
  OBVIOUS
<1>8. /\ f \in Sorter /\ f.sheet = s.sheet /\ f.partition = s.partition /\ f.cursor = s.cursor
      /\ f.chunk = rows /\ f.at = at
  BY <1>5, <1>6, <1>7 DEF Sorter
<1>9. SorterIs(w, f)
  <2>1. s.partition <= Len(query.partitions)
        /\ (segment \in 2 .. Segments => s.cursor <= Len(sorted[segment - 1]))
    BY <1>2, <1>3 DEF SorterIs
  <2>2. f.at = "sink" => f.chunk # <<>>
    BY <1>6, <1>8
  <2> QED
    BY <1>1, <1>3, <1>8, <2>1, <2>2, BusyStays
<1>10. Go(w, f)
  BY <1>3, <1>4, <1>6, <1>7 DEF Push
<1>11. claims' \in Nat
  BY <1>2 DEF Push
<1> QED
  BY <1>8, <1>9, <1>10, <1>11, GoKeeps DEF Push

\* ReadTopN: the next rows of the top-N before.
LEMMA ReadKeeps ==
    ASSUME SortInv, NEW w \in Sorters, ReadTopN(w)
    PROVE  SortInv'
<1>1. sorter[w].at = "read" /\ segment > 1
  BY DEF ReadTopN
<1>2. /\ sorter[w] \in Sorter /\ SorterIs(w, sorter[w]) /\ claims \in Nat
      /\ segment \in 1 .. Segments
  BY <1>1, Busy
<1>3. segment \in 2 .. Segments /\ segment - 1 \in 1 .. Segments /\ SortChunk \in Nat \ {0}
  <2>1. segment \in Nat /\ Segments \in Nat /\ SortChunk \in Nat \ {0}
    BY SortTypes DEF SortInv
  <2> QED
    BY <1>1, <1>2, <2>1
<1>4. PICK s \in Sorter : s = sorter[w]
  BY <1>2
<1>5. PICK rows \in Seq(SortRow) : rows = sorted[segment - 1]
  BY <1>3 DEF SortInv, PlanIsRun
<1>6. PICK L \in Nat : L = Len(rows)
  BY LenProperties
<1>7. PICK from \in Nat : from = s.cursor /\ from <= L
  BY <1>2, <1>3, <1>4, <1>5, <1>6 DEF SorterIs, Sorter
<1>8. PICK to : to = Min({from + SortChunk, L})
  OBVIOUS
<1>9. to \in Nat /\ from <= to /\ to <= L
  <2>1. {from + SortChunk, L} \in SUBSET Nat /\ {from + SortChunk, L} # {}
    BY <1>3
  <2>2. to \in {from + SortChunk, L} /\ to <= L
    BY <1>8, <2>1, MinOfNumbers
  <2> QED
    BY <1>3, <1>7, <2>1, <2>2
<1>10. PICK chunk : chunk = SubSeq(rows, from + 1, to)
  OBVIOUS
<1>11. chunk \in Seq(SortRow)
  <2>1. from + 1 \in 1 .. L + 1 /\ to \in (from + 1) - 1 .. L
    BY <1>7, <1>9
  <2> QED
    BY <1>6, <1>10, <2>1, SubSeqProperties
<1>12. PICK f : f = IF from = to THEN [s EXCEPT !.at = "done"]
                    ELSE [s EXCEPT !.at = "push", !.cursor = to, !.chunk = chunk]
  OBVIOUS
<1>13. /\ f \in Sorter /\ f.sheet = s.sheet /\ f.partition = s.partition /\ f.cursor <= L
       /\ f.at # "sink"
  <2>1. CASE from = to
    BY <1>7, <1>12, <2>1 DEF Sorter
  <2>2. CASE from # to
    <3>1. f = [s EXCEPT !.at = "push", !.cursor = to, !.chunk = chunk]
      BY <1>12, <2>2
    <3> QED
      BY <1>9, <1>11, <3>1 DEF Sorter
  <2> QED
    BY <2>1, <2>2
<1>14. SorterIs(w, f)
  <2>1. s.partition <= Len(query.partitions)
    BY <1>2, <1>4 DEF SorterIs
  <2> QED
    BY <1>1, <1>4, <1>5, <1>6, <1>13, <2>1, BusyStays
<1>15. Go(w, f)
  BY <1>4, <1>5, <1>6, <1>7, <1>8, <1>10, <1>12 DEF ReadTopN
<1>16. claims' \in Nat
  BY <1>2 DEF ReadTopN
<1> QED
  BY <1>13, <1>14, <1>15, <1>16, GoKeeps DEF ReadTopN

\* A worker that sinks has the collection of the pipeline.
LEMMA SinkSheetIs ==
    ASSUME SortInv, NEW w \in Sorters, sorter[w].at = "sink"
    PROVE  /\ SinkSheet(w) = published[segment]
           /\ published[segment] \in DOMAIN sheets /\ published[segment] \in Nat
           /\ IsSheet(sheets[published[segment]])
           /\ Sheet(published[segment]) = sheets[published[segment]]
<1>1. SorterIs(w, sorter[w]) /\ segment \in 1 .. Segments
  BY Busy
<1>2. SinkSheet(w) = published[segment]
  BY <1>1 DEF SorterIs, SinkSheet
<1>3. /\ published[segment] \in DOMAIN sheets /\ published[segment] \in Nat
      /\ IsSheet(sheets[published[segment]])
  BY <1>1 DEF SortInv, SheetsAreThere
<1> QED
  BY <1>2, <1>3 DEF Sheet

\* The output sink has one task.
LEMMA OneTask ==
    ASSUME SortInv, IsOutput(segment), NEW v \in Tasks(segment), NEW w \in Tasks(segment)
    PROVE  v = w
<1>1. IsFiniteSet(Sorters) /\ Sorters = 1 .. Cardinality(Sorters)
  BY DEF SortInv, PlanIsRun, SortInputs
<1>2. PICK n \in Nat : n = Cardinality(Sorters)
  BY <1>1, FS_CardinalityType
<1>3. ASSUME NEW u \in Tasks(segment) PROVE u = 1
  <2>1. u \in 1 .. n /\ Cardinality({x \in Sorters : x <= u}) <= 1
    BY <1>1, <1>2, <1>3 DEF Tasks, Threads
  <2>2. {x \in Sorters : x <= u} = 1 .. u
    BY <1>1, <1>2, <2>1
  <2>3. Cardinality(1 .. u) = IF 1 > u THEN 0 ELSE u - 1 + 1
    <3>1. PICK m \in Nat : m = u
      BY <2>1
    <3>2. Cardinality(1 .. m) = IF 1 > m THEN 0 ELSE m - 1 + 1
      BY FS_Interval
    <3> QED
      BY <3>1, <3>2
  <2>4. Cardinality(1 .. u) <= 1
    BY <2>1, <2>2
  <2>5. PICK c : c = Cardinality(1 .. u)
    OBVIOUS
  <2>6. u \in Nat /\ u >= 1 /\ c <= 1 /\ c = IF 1 > u THEN 0 ELSE u - 1 + 1
    BY <2>1, <2>3, <2>4, <2>5
  <2> QED
    BY <2>6
<1> QED
  BY <1>3

\* SinkChunkRow: the sink takes a row, in a collection that may replace the one before.
LEMMA SinkKeeps ==
    ASSUME SortInv, NEW w \in Sorters, SinkChunkRow(w)
    PROVE  SortInv'
<1>1. sorter[w].at = "sink"
  BY DEF SinkChunkRow
<1>2. /\ sorter[w] \in Sorter /\ SorterIs(w, sorter[w]) /\ claims \in Nat
      /\ segment \in 1 .. Segments /\ ~(segment > Segments) /\ w \in Tasks(segment)
  BY <1>1, Busy
<1>3. PICK s \in Sorter : s = sorter[w]
  BY <1>2
<1>4. PICK pipe \in Pipe : pipe = pipelines[segment]
  BY <1>2, SortTypes DEF SortInv
<1>5. PICK old \in Nat : old = published[segment]
  BY <1>1, SinkSheetIs
<1>6. PICK sheet : sheet = sheets[old]
  OBVIOUS
<1>7. IsSheet(sheet) /\ old = SinkSheet(w) /\ sheet = Sheet(old) /\ old \in DOMAIN sheets
  BY <1>1, <1>5, <1>6, SinkSheetIs
<1>8. s.chunk \in Seq(SortRow) /\ s.chunk # <<>>
  BY <1>1, <1>2, <1>3 DEF SorterIs, Sorter
<1>9. PICK row : row = Head(s.chunk)
  OBVIOUS
<1>10. PICK rest : rest = Tail(s.chunk)
  OBVIOUS
<1>11. row \in SortRow /\ rest \in Seq(SortRow)
  BY <1>8, <1>9, <1>10, HeadTailProperties
<1>12. PICK stored : stored = Stored(pipe, sheet, row)
  OBVIOUS
<1>13. BestRows(pipe.keys, Kept(pipe), sheet.rows, given)
  <2>1. segment <= Segments
    BY <1>2, SortTypes DEF SortInv
  <2> QED
    BY <1>4, <1>5, <1>6, <2>1 DEF SortInv, SinkHasBest, SinkKeys
<1>14. /\ IsSheet(stored.to) /\ stored.new \in BOOLEAN
       /\ BestRows(pipe.keys, Kept(pipe), stored.to.rows, given (+) SetToBag({row}))
  <2>1. PICK bag : bag = given
    OBVIOUS
  <2>2. BestRows(pipe.keys, Kept(pipe), sheet.rows, bag)
    BY <1>13, <2>1
  <2>3. /\ IsSheet(stored.to) /\ stored.new \in BOOLEAN
        /\ BestRows(pipe.keys, Kept(pipe), stored.to.rows, bag (+) SetToBag({row}))
    BY <1>7, <1>11, <1>12, <2>2, StoredIs
  <2> QED
    BY <2>1, <2>3
<1>15. Publish(w, old, stored, rest) /\ given' = given (+) SetToBag({row})
  BY <1>3, <1>4, <1>7, <1>9, <1>10, <1>12 DEF SinkChunkRow
<1>16. UNCHANGED <<query, pipelines, segment, claims, sorted>>
  BY DEF SinkChunkRow
<1>17. PICK n \in Nat : DOMAIN sheets \subseteq 0 .. n
  BY DEF SortInv, SheetsAreThere
<1>18. PICK ids : ids = DOMAIN sheets
  OBVIOUS
<1>19. Max(ids) \in 0 .. n /\ \A i \in ids : i <= Max(ids)
  <2>1. ids \in SUBSET (0 .. n) /\ ids # {}
    BY <1>7, <1>17, <1>18
  <2>2. Max(ids) \in ids /\ \A i \in ids : i <= Max(ids)
    BY <2>1, MaxOfBounded
  <2> QED
    BY <2>1, <2>2
<1>20. PICK id \in Nat : id = IF stored.new THEN Max(DOMAIN sheets) + 1 ELSE old
  BY <1>18, <1>19
<1>21. /\ id \in 0 .. n + 1 /\ (id # old => id \notin ids)
  <2>1. CASE stored.new
    <3>1. id = Max(ids) + 1
      BY <1>18, <1>20, <2>1
    <3>2. \A i \in ids : i \in Nat
      BY <1>17, <1>18
    <3> QED
      BY <1>19, <3>1, <3>2
  <2>2. CASE ~stored.new
    BY <1>7, <1>17, <1>20, <2>2
  <2> QED
    BY <1>14, <2>1, <2>2
<1>22. /\ sheets' = [i \in (ids \ {old}) \cup {id} |-> IF i = id THEN stored.to ELSE sheets[i]]
       /\ published' = [published EXCEPT ![segment] = id]
  <2>1. stored.new \in BOOLEAN /\ (~stored.new => id = published[segment])
    BY <1>5, <1>14, <1>20
  <2>2. sheets' = [i \in (ids \ {old}) \cup {id} |-> IF i = id THEN stored.to ELSE sheets[i]]
    BY <1>15, <1>18, <1>20 DEF Publish
  <2>3. published' = [published EXCEPT ![segment] =
                         IF stored.new THEN Max(DOMAIN sheets) + 1 ELSE published[segment]]
    BY <1>15 DEF Publish
  <2>4. id = IF stored.new THEN Max(DOMAIN sheets) + 1 ELSE published[segment]
    BY <1>5, <1>20
  <2> QED
    BY <2>2, <2>3, <2>4
<1>23. /\ published \in [1 .. Segments -> Nat]
       /\ \A k, l \in 1 .. Segments : published[k] = published[l] => k = l
       /\ \A k \in 1 .. Segments : published[k] \in ids
       /\ \A i \in ids : IsSheet(sheets[i])
       /\ \A k \in 1 .. Segments : k > segment => sheets[published[k]].rows = <<>>
  BY <1>18 DEF SortInv, SheetsAreThere
<1>24. PICK N \in Nat : N = Segments /\ Segments' = N
  BY <1>16, SortTypes DEF SortInv, Segments
<1>25. /\ published'[segment] = id /\ published' \in [1 .. N -> Nat]
       /\ \A k \in 1 .. N : k # segment => published'[k] = published[k]
  BY <1>2, <1>22, <1>23, <1>24
<1>26. /\ id \in DOMAIN sheets' /\ sheets'[id] = stored.to
       /\ \A i \in DOMAIN sheets' : i = id \/ i \in ids
       /\ \A i \in ids : i # old /\ i # id => i \in DOMAIN sheets' /\ sheets'[i] = sheets[i]
       /\ \A i \in DOMAIN sheets' : i # id => i # old
  BY <1>22
<1>27. \A k \in 1 .. N : k # segment => published[k] # old /\ published[k] # id
  BY <1>2, <1>5, <1>21, <1>23, <1>24
<1>28. SheetsAreThere'
  <2>1. \A k, l \in 1 .. N : published'[k] = published'[l] => k = l
    BY <1>23, <1>24, <1>25, <1>27
  <2>2. ASSUME NEW k \in 1 .. N PROVE published'[k] \in DOMAIN sheets'
    <3>1. CASE k = segment
      BY <1>25, <1>26, <3>1
    <3>2. CASE k # segment
      BY <1>23, <1>24, <1>25, <1>26, <1>27, <3>2
    <3> QED
      BY <3>1, <3>2
  <2>3. \E m \in Nat : DOMAIN sheets' \subseteq 0 .. m
    <3>1. \A i \in ids : i \in 0 .. n + 1
      BY <1>17, <1>18
    <3>2. DOMAIN sheets' \subseteq 0 .. n + 1
      BY <1>21, <1>26, <3>1
    <3> QED
      BY <3>2
  <2>4. \A i \in DOMAIN sheets' : IsSheet(sheets'[i])
    BY <1>14, <1>23, <1>26
  <2>5. ASSUME NEW k \in 1 .. N, k > segment PROVE sheets'[published'[k]].rows = <<>>
    <3>1. k # segment
      <4>1. segment \in Nat
        BY SortTypes DEF SortInv
      <4> QED
        BY <2>5, <4>1
    <3>2. sheets'[published'[k]] = sheets[published[k]]
      BY <1>23, <1>24, <1>25, <1>26, <1>27, <3>1
    <3> QED
      BY <1>23, <1>24, <2>5, <3>2
  <2>6. \A i \in DOMAIN sheets' : IsSheet(sheets[i])'
    BY <2>4 DEF IsSheet
  <2> QED
    BY <1>16, <1>24, <1>25, <2>1, <2>2, <2>3, <2>5, <2>6 DEF SheetsAreThere
<1>29. SinkHasBest'
  <2>1. sheets'[published'[segment]].rows = stored.to.rows
    BY <1>25, <1>26
  <2>2. BestRows(pipe.keys, Kept(pipe), sheets'[published'[segment]].rows, given')
    BY <1>14, <1>15, <2>1
  <2>3. SinkKeys(segment)' = pipe.keys /\ pipelines'[segment'] = pipe /\ segment' = segment
    BY <1>4, <1>16 DEF SinkKeys
  <2> QED
    BY <2>2, <2>3 DEF SinkHasBest
<1>30. PlanIsRun'
  BY <1>16 DEF SortInv, PlanIsRun, Segments
<1>31. SortersRun'
  <2>1. PICK at \in {"read", "sink"} : at = (IF rest = <<>> THEN "read" ELSE "sink")
    OBVIOUS
  <2>2. PICK f : f = [s EXCEPT !.chunk = rest, !.sheet = id, !.at = at]
    OBVIOUS
  <2>3. /\ f \in Sorter /\ f.sheet = id /\ f.partition = s.partition /\ f.cursor = s.cursor
        /\ f.chunk = rest /\ f.at = at
    BY <1>11, <2>1, <2>2 DEF Sorter
  <2>4. sorter' = [sorter EXCEPT ![w] = f]
    BY <1>3, <1>15, <1>20, <2>1, <2>2 DEF Publish, Go
  <2>5. sorter \in [Sorters -> Sorter] /\ \A v \in Sorters : SorterIs(v, sorter[v])
    BY DEF SortInv, SortersRun
  <2>6. sorter' \in [Sorters -> Sorter] /\ sorter'[w] = f
        /\ \A v \in Sorters : v # w => sorter'[v] = sorter[v]
    BY <2>3, <2>4, <2>5
  <2>7. SorterIs(w, sorter[w])'
    <3>1. f.partition <= Len(query.partitions)
          /\ (segment \in 2 .. Segments => f.cursor <= Len(sorted[segment - 1]))
      BY <1>2, <1>3, <2>3 DEF SorterIs
    <3>2. f.at = "sink" => f.chunk # <<>>
      BY <2>1, <2>3
    <3>3. w \in Tasks(segment)'
      BY <1>2, <1>16 DEF Tasks, Threads, IsOutput, Segments
    <3>4. published'[segment'] = f.sheet /\ segment' = segment /\ ~(segment' > Segments')
      BY <1>2, <1>16, <1>24, <1>25, <2>3
    <3> QED
      BY <1>16, <1>24, <2>6, <3>1, <3>2, <3>3, <3>4 DEF SorterIs
  <2>8. ASSUME NEW v \in Sorters, v # w PROVE SorterIs(v, sorter[v])'
    <3>1. PICK g : g = sorter[v]
      OBVIOUS
    <3>2. SorterIs(v, g) /\ sorter'[v] = g
      BY <2>5, <2>6, <2>8, <3>1
    <3>3. ~(IsOutput(segment) /\ g.at # "none")
      BY <1>2, <1>3, <2>8, <3>2, OneTask DEF SorterIs
    <3>4. Tasks(segment)' = Tasks(segment) /\ IsOutput(segment)' = IsOutput(segment)
      BY <1>16 DEF Tasks, Threads, IsOutput, Segments
    <3> QED
      BY <1>16, <1>24, <3>2, <3>3, <3>4 DEF SorterIs
  <2> QED
    BY <1>2, <1>16, <2>6, <2>7, <2>8 DEF SortersRun
<1> QED
  BY <1>28, <1>29, <1>30, <1>31 DEF SortInv

\* The next pipeline has sunk nothing yet.
LEMMA FinalizeKeeps ==
    ASSUME SortInv, FinalizeTopN
    PROVE  SortInv'
<1>1. PICK N \in Nat : N = Segments /\ N > 0
  BY SortTypes DEF SortInv
<1>2. segment \in 1 .. N /\ segment # N /\ segment \in Nat
  <2>1. segment <= N /\ segment # N
    BY <1>1 DEF FinalizeTopN, SegmentDone, IsOutput
  <2>2. segment \in 1 .. N + 1
    BY <1>1 DEF SortInv, PlanIsRun
  <2> QED
    BY <1>1, <2>1, <2>2
<1>3. PICK next \in Nat : next = segment + 1 /\ next \in 1 .. N /\ next \in 1 .. N + 1
                          /\ next > segment
  BY <1>2
<1>4. UNCHANGED <<query, pipelines, claims, sheets, published>> /\ segment' = next
      /\ sorter' = [w \in Sorters |-> NoSorter] /\ given' = EmptyBag
  BY <1>3 DEF FinalizeTopN
<1>5. Segments' = N
  BY <1>1, <1>4 DEF Segments
<1>6. PICK rows \in Seq(SortRow) : rows = Sheet(published[segment]).rows
  <2>1. published[segment] \in DOMAIN sheets /\ IsSheet(sheets[published[segment]])
    BY <1>1, <1>2 DEF SortInv, SheetsAreThere
  <2> QED
    BY <2>1 DEF Sheet, IsSheet
<1>7. PICK order \in Sortings(SinkKeys(segment), rows) : sorted' = [sorted EXCEPT ![segment] = order]
  BY <1>6 DEF FinalizeTopN
<1>8. order \in Seq(SortRow)
  <2>1. PICK L \in Nat : L = Len(rows) /\ DOMAIN rows = 1 .. L
                         /\ \A i \in 1 .. L : rows[i] \in SortRow
    BY LenProperties, ElementOfSeq
  <2>2. PICK p \in [1 .. L -> 1 .. L] : order = [i \in 1 .. L |-> rows[p[i]]]
    BY <1>7, <2>1 DEF Sortings
  <2>3. \A i \in 1 .. L : rows[p[i]] \in SortRow
    BY <2>1
  <2> QED
    BY <2>2, <2>3
<1>9. sorted' \in [1 .. N -> Seq(SortRow)]
  <2>1. sorted \in [1 .. N -> Seq(SortRow)]
    BY <1>1 DEF SortInv, PlanIsRun
  <2> QED
    BY <1>2, <1>7, <1>8, <2>1
<1>10. PlanIsRun'
  BY <1>1, <1>3, <1>4, <1>5, <1>9 DEF SortInv, PlanIsRun
<1>11. SortersRun'
  <2>1. NoSorter \in Sorter
    BY DEF NoSorter, Sorter
  <2>2. sorter' \in [Sorters -> Sorter] /\ claims' \in Nat
    BY <1>4, <2>1 DEF SortInv, SortersRun
  <2>3. ASSUME NEW w \in Sorters PROVE SorterIs(w, sorter[w])'
    <3>1. sorter'[w] = NoSorter
      BY <1>4
    <3>2. 0 <= Len(query.partitions)
      <4>1. query.partitions \in Seq(Seq(SortRow))
        BY SortTypes DEF SortInv
      <4> QED
        BY <4>1, LenProperties
    <3>3. segment' \in 2 .. Segments' => 0 <= Len(sorted'[segment' - 1])
      <4>1. segment' - 1 = segment
        BY <1>2, <1>3, <1>4
      <4>2. sorted'[segment] \in Seq(SortRow)
        BY <1>2, <1>9
      <4> QED
        BY <4>1, <4>2, LenProperties
    <3> QED
      BY <1>4, <3>1, <3>2, <3>3 DEF SorterIs, NoSorter
  <2> QED
    BY <2>2, <2>3 DEF SortersRun
<1>12. SheetsAreThere'
  <2>1. \A k \in 1 .. N : k > next => k > segment
    BY <1>2, <1>3
  <2>2. \A id \in DOMAIN sheets : IsSheet(sheets[id])'
    BY <1>4 DEF SortInv, SheetsAreThere, IsSheet
  <2> QED
    BY <1>1, <1>4, <1>5, <2>1, <2>2 DEF SortInv, SheetsAreThere
<1>13. SinkHasBest'
  <2>1. sheets[published[next]].rows = <<>>
    BY <1>1, <1>3 DEF SortInv, SheetsAreThere
  <2>2. pipelines[next] \in Pipe
    BY <1>1, <1>3, SortTypes DEF SortInv
  <2>3. BestRows(SinkKeys(next), Kept(pipelines[next]), <<>>, EmptyBag)
    BY <2>2, KeptIs, BestOfNone
  <2>4. SinkKeys(segment)' = SinkKeys(next) /\ pipelines'[segment'] = pipelines[next]
        /\ sheets'[published'[segment']].rows = <<>>
    BY <1>4, <2>1 DEF SinkKeys
  <2> QED
    BY <1>4, <2>3, <2>4 DEF SinkHasBest
<1> QED
  BY <1>10, <1>11, <1>12, <1>13 DEF SortInv

\* After the output nobody works.
LEMMA EmitKeeps ==
    ASSUME SortInv, EmitGlobalTdcToDest
    PROVE  SortInv'
<1>1. PICK N \in Nat : N = Segments /\ N > 0
  BY SortTypes DEF SortInv
<1>2. segment = N /\ \A w \in Tasks(segment) : sorter[w].at = "done"
  BY <1>1 DEF EmitGlobalTdcToDest, SegmentDone, IsOutput
<1>3. UNCHANGED <<query, pipelines, claims, sorter, sheets, published, sorted, given>>
      /\ segment' = N + 1
  BY <1>2 DEF EmitGlobalTdcToDest
<1>4. Segments' = N
  BY <1>1, <1>3 DEF Segments
<1>5. PlanIsRun'
  BY <1>1, <1>3, <1>4 DEF SortInv, PlanIsRun
<1>6. SortersRun'
  <2>1. sorter \in [Sorters -> Sorter] /\ claims \in Nat
    BY DEF SortInv, SortersRun
  <2>2. ASSUME NEW w \in Sorters PROVE SorterIs(w, sorter[w])'
    <3>1. SorterIs(w, sorter[w])
      BY DEF SortInv, SortersRun
    <3>2. segment <= Segments
      BY <1>1, <1>2
    <3>3. sorter[w].at \in {"none", "done"}
      BY <1>2, <3>1, <3>2 DEF SorterIs
    <3>4. ~(segment' \in 2 .. Segments') /\ ~(segment' <= Segments') /\ segment' # Segments'
      BY <1>3, <1>4
    <3> QED
      BY <1>3, <3>1, <3>3, <3>4 DEF SorterIs, IsOutput
  <2> QED
    BY <1>3, <2>1, <2>2 DEF SortersRun
<1>7. SheetsAreThere'
  <2>1. \A k \in 1 .. N : ~(k > N + 1)
    OBVIOUS
  <2>2. \A id \in DOMAIN sheets : IsSheet(sheets[id])'
    BY <1>3 DEF SortInv, SheetsAreThere, IsSheet
  <2> QED
    BY <1>1, <1>3, <1>4, <2>1, <2>2 DEF SortInv, SheetsAreThere
<1>8. SinkHasBest'
  BY <1>3, <1>4 DEF SinkHasBest
<1> QED
  BY <1>5, <1>6, <1>7, <1>8 DEF SortInv

\* Nothing happens.
LEMMA SortStutters ==
    ASSUME SortInv, UNCHANGED sortVars
    PROVE  SortInv'
<1>1. UNCHANGED <<query, pipelines, segment, claims, sorter, sheets, published, sorted, given>>
  BY DEF sortVars
<1>2. PlanIsRun'
  BY <1>1 DEF SortInv, PlanIsRun, Segments
<1>3. SheetsAreThere'
  BY <1>1 DEF SortInv, SheetsAreThere, Segments, IsSheet
<1>4. SinkHasBest'
  BY <1>1 DEF SortInv, SinkHasBest, Segments, SinkKeys
<1>5. SortersRun'
  BY <1>1 DEF SortInv, SortersRun, SorterIs, Segments, IsOutput, Tasks, Threads
<1> QED
  BY <1>2, <1>3, <1>4, <1>5 DEF SortInv

\* In a state of the invariant the rows kept are the best.
LEMMA SortInvIsEnough ==
    ASSUME SortInv
    PROVE  BestRowsAreKept
<1>1. SUFFICES ASSUME segment <= Segments
               PROVE  KeepsBest(SinkKeys(segment), Kept(pipelines[segment]),
                                BagOf(Sheet(published[segment]).rows))
  BY DEF BestRowsAreKept
<1>2. segment \in 1 .. Segments
  <2>1. segment \in 1 .. Segments + 1 /\ Segments \in Nat
    BY SortTypes DEF SortInv, PlanIsRun
  <2> QED
    BY <1>1, <2>1
<1>3. published[segment] \in DOMAIN sheets /\ IsSheet(sheets[published[segment]])
  BY <1>2 DEF SortInv, SheetsAreThere
<1>4. PICK rows \in Seq(SortRow) : rows = Sheet(published[segment]).rows
                               /\ rows = sheets[published[segment]].rows
  BY <1>3 DEF Sheet, IsSheet
<1>5. PICK keys, max : keys = SinkKeys(segment) /\ max = Kept(pipelines[segment])
  OBVIOUS
<1>6. max \in Nat
  BY <1>2, <1>5, SortTypes, KeptIs DEF SortInv
<1>7. BestRows(keys, max, rows, given)
  BY <1>1, <1>4, <1>5 DEF SortInv, SinkHasBest
<1>8. KeepsBest(keys, max, BagOf(rows))
  BY <1>6, <1>7, BestIsKept
<1> QED
  BY <1>4, <1>5, <1>8

\* What a top-N or the output sink keeps of the rows it was given, whoever gave them and
\* whatever collection was replaced meanwhile, are as many as it counts to and none that
\* comes after one it dropped (PhysicalTopN::SinkChunk, OutputSink::SinkChunk).
THEOREM BestRowsKept == SortSpec => []BestRowsAreKept
<1>1. SortInit => SortInv
  BY SortAssumption, SortStarts
<1>2. SortInv /\ [SortNext]_sortVars => SortInv'
  <2>1. SUFFICES ASSUME SortInv, [SortNext]_sortVars PROVE SortInv'
    OBVIOUS
  <2>2. ASSUME NEW w \in Sorters, SorterStep(w) PROVE SortInv'
    BY <2>1, <2>2, BeginKeeps, ClaimKeeps, GatherKeeps, FullKeeps, ReadKeeps, PushKeeps, SinkKeeps
       DEF SorterStep
  <2> QED
    BY <2>1, <2>2, FinalizeKeeps, EmitKeeps, SortStutters DEF SortNext
<1>3. SortInv => BestRowsAreKept
  BY SortInvIsEnough
<1> QED
  BY <1>1, <1>2, <1>3, PTL DEF SortSpec
=============================================================================
