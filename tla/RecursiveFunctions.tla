------------------------- MODULE RecursiveFunctions -------------------------
(****************************************************************************)
(* Facts about natural numbers, sequences and functions that are defined by  *)
(* recursion, for the proofs about the operators.                            *)
(****************************************************************************)
EXTENDS Integers, FiniteSetsExt, SequencesExt, SequenceTheorems, FiniteSetTheorems,
        WellFoundedInduction, TLAPS

------------------------------------------------------------------------------
(* Natural numbers and recursive functions.  A statement about every natural *)
(* number is proved by its least counterexample.                             *)

\* A set of natural numbers has a least element.
LEMMA LeastNumber ==
    ASSUME NEW T \in SUBSET Nat, T # {}
    PROVE  \E n \in T : \A m \in T : n <= m
<1>1. \E n \in T : \A m \in T : ~(<<m, n>> \in OpToRel(<, Nat))
  BY WFMin, NatLessThanWellFounded
<1>2. PICK n \in T : \A m \in T : ~(<<m, n>> \in OpToRel(<, Nat))
  BY <1>1
<1>3. ASSUME NEW m \in T PROVE n <= m
  <2>1. ~(<<m, n>> \in OpToRel(<, Nat))
    BY <1>2
  <2>2. m \in Nat /\ n \in Nat
    OBVIOUS
  <2>3. m < n => <<m, n>> \in OpToRel(<, Nat)
    BY <2>2 DEF OpToRel
  <2>4. ~(m < n)
    BY <2>1, <2>3, Zenon
  <2> QED
    BY <2>2, <2>4
<1> QED
  BY <1>3

\* Induction over the members of a set.
LEMMA NumberInduction ==
    ASSUME NEW T, 0 \in T, \A n \in Nat : n \in T => n + 1 \in T
    PROVE  \A n \in Nat : n \in T
<1> DEFINE Rest == Nat \ T
<1>1. SUFFICES ASSUME Rest # {} PROVE FALSE
  OBVIOUS
<1>2. PICK n \in Rest : \A m \in Rest : n <= m
  <2>1. Rest \in SUBSET Nat
    OBVIOUS
  <2> HIDE DEF Rest
  <2> QED
    BY <1>1, <2>1, LeastNumber
<1>3. n # 0 /\ n \in Nat
  OBVIOUS
<1>4. n - 1 \in Nat /\ (n - 1) + 1 = n /\ ~(n <= n - 1)
  BY <1>3
<1>5. n - 1 \in T
  BY <1>2, <1>4
<1>6. n \in T
  BY <1>4, <1>5
<1> QED
  BY <1>6

\* A bounded set of natural numbers has a greatest element, which is its Max.
LEMMA MaxOfBounded ==
    ASSUME NEW N \in Nat, NEW T \in SUBSET (0 .. N), T # {}
    PROVE  Max(T) \in T /\ \A m \in T : m <= Max(T)
<1> DEFINE Gaps == {N - m : m \in T}
<1>1. Gaps \in SUBSET Nat /\ Gaps # {}
  <2>1. \A m \in T : N - m \in Nat
    OBVIOUS
  <2> QED
    BY <2>1
<1>2. PICK g \in Gaps : \A h \in Gaps : g <= h
  BY <1>1, LeastNumber
<1>3. PICK x \in T : g = N - x
  BY <1>2
<1>4. ASSUME NEW m \in T PROVE x >= m
  <2>1. N - m \in Gaps
    OBVIOUS
  <2>2. g <= N - m
    BY <1>2, <2>1
  <2> QED
    BY <2>2, <1>3
<1>5. Max(T) \in T /\ \A m \in T : Max(T) >= m
  BY <1>4, <1>3 DEF Max
<1> QED
  BY <1>5

\* A set of natural numbers has a Min.
LEMMA MinOfNumbers ==
    ASSUME NEW T \in SUBSET Nat, T # {}
    PROVE  Min(T) \in T /\ \A m \in T : Min(T) <= m
<1>1. PICK n \in T : \A m \in T : n <= m
  BY LeastNumber
<1> QED
  BY <1>1 DEF Min

\* A function of the natural numbers is determined by its first value and a step.
Iterates(at, i, step) == at[0] = i /\ \A n \in Nat : at[n + 1] = step[<<n, at[n]>>]

\* A step function can be iterated from any start.
LEMMA Iteration ==
    ASSUME NEW S, NEW i \in S, NEW step \in [Nat \X S -> S]
    PROVE  \E at \in [Nat -> S] : Iterates(at, i, step)
<1> DEFINE Upto(k) == {f \in [0 .. k -> S] :
                          f[0] = i /\ \A n \in 0 .. k - 1 : f[n + 1] = step[<<n, f[n]>>]}
<1>1. ASSUME NEW k \in Nat PROVE Upto(k) # {}
  <2> DEFINE T == {m \in Nat : Upto(m) = {}}
  <2>1. SUFFICES ASSUME T # {} PROVE FALSE
    OBVIOUS
  <2>2. PICK m \in T : \A l \in T : m <= l
    BY <2>1, LeastNumber
  <2>3. m # 0
    <3>1. [n \in 0 .. 0 |-> i] \in Upto(0)
      OBVIOUS
    <3> QED
      BY <3>1
  <2>4. m - 1 \in Nat /\ Upto(m - 1) # {}
    BY <2>2, <2>3
  <2>5. PICK f \in Upto(m - 1) : TRUE
    BY <2>4
  <2> DEFINE x == step[<<m - 1, f[m - 1]>>]
             g == [n \in 0 .. m |-> IF n = m THEN x ELSE f[n]]
  <2>6. f \in [0 .. m - 1 -> S] /\ f[m - 1] \in S
    BY <2>4, <2>5
  <2>7. <<m - 1, f[m - 1]>> \in Nat \X S
    BY <2>4, <2>6
  <2>8. x \in S
    BY <2>7
  <2>9. g \in [0 .. m -> S]
    BY <2>6, <2>8
  <2>10. g[0] = i
    BY <2>3, <2>5
  <2>11. ASSUME NEW n \in 0 .. m - 1 PROVE g[n + 1] = step[<<n, g[n]>>]
    <3>1. CASE n = m - 1
      <4>1. n + 1 = m /\ n + 1 \in 0 .. m /\ n \in 0 .. m /\ n # m
        BY <3>1
      <4>2. g[n + 1] = x /\ g[n] = f[n]
        BY <4>1
      <4> QED
        BY <4>2, <3>1
    <3>2. CASE n # m - 1
      <4>1. n \in 0 .. (m - 1) - 1 /\ n + 1 # m /\ n # m /\ n + 1 \in 0 .. m /\ n \in 0 .. m
        BY <3>2
      <4>2. f[n + 1] = step[<<n, f[n]>>]
        BY <4>1, <2>5
      <4>3. g[n + 1] = f[n + 1] /\ g[n] = f[n]
        BY <4>1
      <4> QED
        BY <4>2, <4>3
    <3> QED
      BY <3>1, <3>2
  <2>12. g \in Upto(m)
    BY <2>9, <2>10, <2>11
  <2> QED
    BY <2>12, <2>2
<1>2. ASSUME NEW k \in Nat, NEW l \in Nat, NEW f \in Upto(k), NEW g \in Upto(l),
             NEW n \in Nat, n <= k, n <= l
      PROVE  f[n] = g[n]
  <2> DEFINE T == {m \in Nat : m <= k /\ m <= l /\ f[m] # g[m]}
  <2>1. SUFFICES ASSUME T # {} PROVE FALSE
    BY <1>2
  <2>2. PICK m \in T : \A j \in T : m <= j
    BY <2>1, LeastNumber
  <2>3. m # 0
    OBVIOUS
  <2>4. m - 1 \in Nat /\ m - 1 \in 0 .. k - 1 /\ m - 1 \in 0 .. l - 1 /\ (m - 1) + 1 = m
    BY <2>2, <2>3
  <2>5. f[m - 1] = g[m - 1]
    BY <2>2, <2>4
  <2>6. f[m] = step[<<m - 1, f[m - 1]>>] /\ g[m] = step[<<m - 1, g[m - 1]>>]
    BY <2>4
  <2> QED
    BY <2>5, <2>6, <2>2
<1> DEFINE Some(k) == CHOOSE f \in Upto(k) : TRUE
           at == [n \in Nat |-> Some(n)[n]]
<1>3. ASSUME NEW k \in Nat PROVE Some(k) \in Upto(k)
  BY <1>1, <1>3
<1> HIDE DEF Some
<1>4. at \in [Nat -> S]
  <2>1. ASSUME NEW n \in Nat PROVE Some(n)[n] \in S
    <3>1. Some(n) \in [0 .. n -> S]
      BY <1>3
    <3> QED
      BY <3>1
  <2> QED
    BY <2>1
<1>5. at[0] = i
  BY <1>3
<1>6. ASSUME NEW n \in Nat PROVE at[n + 1] = step[<<n, at[n]>>]
  <2>1. n + 1 \in Nat /\ n \in 0 .. (n + 1) - 1
    OBVIOUS
  <2>2. Some(n + 1)[n + 1] = step[<<n, Some(n + 1)[n]>>]
    BY <2>1, <1>3
  <2>3. Some(n + 1)[n] = Some(n)[n]
    <3>1. Some(n + 1) \in Upto(n + 1) /\ Some(n) \in Upto(n) /\ n <= n + 1 /\ n <= n
      BY <1>3, <2>1
    <3> HIDE DEF Upto
    <3> QED
      BY <1>2, <3>1, <2>1
  <2> QED
    BY <2>1, <2>2, <2>3
<1> QED
  BY <1>4, <1>5, <1>6 DEF Iterates

------------------------------------------------------------------------------
(* FlattenSeq. *)

\* FlattenSeq is the last of the running concatenations.
LEMMA FlattenRuns ==
    ASSUME NEW S, NEW s \in Seq(Seq(S)), NEW at \in [Nat -> Seq(S)], at[0] = <<>>,
           \A n \in 0 .. Len(s) - 1 : at[n + 1] = at[n] \o s[n + 1]
    PROVE  FlattenSeq(s) = at[Len(s)]
<1> DEFINE flatten == CHOOSE f : f = [i \in 1 .. Len(s) |->
                                         IF i = 1 THEN s[i] ELSE f[i - 1] \o s[i]]
           g == [i \in 1 .. Len(s) |-> at[i]]
<1>1. CASE Len(s) = 0
  <2>1. s = <<>>
    BY <1>1, EmptySeq
  <2> QED
    BY <1>1, <2>1 DEF FlattenSeq
<1>2. CASE Len(s) # 0
  <2>1. Len(s) \in Nat /\ \A i \in 1 .. Len(s) : s[i] \in Seq(S)
    BY ElementOfSeq, LenProperties
  <2>2. ASSUME NEW i \in 1 .. Len(s)
        PROVE  at[i] = IF i = 1 THEN s[i] ELSE g[i - 1] \o s[i]
    <3>1. i - 1 \in 0 .. Len(s) - 1 /\ (i - 1) + 1 = i
      BY <2>1
    <3>2. at[i] = at[i - 1] \o s[i]
      BY <3>1
    <3>3. CASE i = 1
      <4>1. i - 1 = 0
        BY <3>3
      <4>2. at[i] = at[0] \o s[i]
        BY <3>2, <4>1
      <4>3. <<>> \o s[i] = s[i]
        BY <2>1, ConcatEmptySeq
      <4> QED
        BY <3>3, <4>2, <4>3
    <3>4. CASE i # 1
      <4>1. i - 1 \in 1 .. Len(s)
        BY <2>1, <3>4
      <4> QED
        BY <3>2, <3>4, <4>1
    <3> QED
      BY <3>3, <3>4
  <2>3. g = [i \in 1 .. Len(s) |-> IF i = 1 THEN s[i] ELSE g[i - 1] \o s[i]]
    <3> HIDE DEF g
    <3>1. g = [i \in 1 .. Len(s) |-> at[i]]
      BY DEF g
    <3> QED
      BY <2>2, <3>1
  <2> HIDE DEF g
  <2>4. flatten = [i \in 1 .. Len(s) |-> IF i = 1 THEN s[i] ELSE flatten[i - 1] \o s[i]]
    BY <2>3
  <2>5. FlattenSeq(s) = flatten[Len(s)]
    BY <1>2 DEF FlattenSeq
  <2> HIDE DEF flatten
  <2> DEFINE T == {n \in Nat : n + 1 \in 1 .. Len(s) => flatten[n + 1] = at[n + 1]}
  <2>6. 0 \in T
    <3>1. 0 \in 0 .. Len(s) - 1 /\ 0 + 1 = 1 /\ 1 \in 1 .. Len(s)
      BY <1>2, <2>1
    <3>2. at[1] = s[1]
      BY <2>2, <3>1
    <3>3. flatten[1] = s[1]
      BY <2>4, <3>1
    <3> QED
      BY <3>1, <3>2, <3>3
  <2>7. ASSUME NEW n \in Nat, n \in T PROVE n + 1 \in T
    <3>1. SUFFICES ASSUME (n + 1) + 1 \in 1 .. Len(s)
                   PROVE  flatten[(n + 1) + 1] = at[(n + 1) + 1]
      OBVIOUS
    <3>2. n + 1 \in 1 .. Len(s) /\ n + 1 \in 0 .. Len(s) - 1 /\ (n + 1) + 1 # 1
          /\ ((n + 1) + 1) - 1 = n + 1
      BY <2>1, <3>1
    <3>3. flatten[n + 1] = at[n + 1]
      BY <2>7, <3>2
    <3>4. flatten[(n + 1) + 1] = flatten[n + 1] \o s[(n + 1) + 1]
      BY <2>4, <3>1, <3>2
    <3>5. at[(n + 1) + 1] = at[n + 1] \o s[(n + 1) + 1]
      BY <3>2
    <3> QED
      BY <3>3, <3>4, <3>5
  <2>8. \A n \in Nat : n \in T
    <3> HIDE DEF T
    <3> QED
      BY <2>6, <2>7, NumberInduction
  <2>9. Len(s) - 1 \in Nat /\ (Len(s) - 1) + 1 = Len(s) /\ Len(s) \in 1 .. Len(s)
    BY <1>2, <2>1
  <2>10. Len(s) - 1 \in T
    <3> HIDE DEF T
    <3> QED
      BY <2>8, <2>9
  <2>11. flatten[(Len(s) - 1) + 1] = at[(Len(s) - 1) + 1]
    BY <2>9, <2>10
  <2> QED
    BY <2>5, <2>9, <2>11
<1> QED
  BY <1>1, <1>2

\* There are running concatenations.
LEMMA Running ==
    ASSUME NEW S, NEW s \in Seq(Seq(S))
    PROVE  \E at \in [Nat -> Seq(S)] :
               at[0] = <<>> /\ \A n \in 0 .. Len(s) - 1 : at[n + 1] = at[n] \o s[n + 1]
<1> DEFINE step == [x \in Nat \X Seq(S) |->
                       IF x[1] + 1 \in 1 .. Len(s) THEN x[2] \o s[x[1] + 1] ELSE x[2]]
<1>1. step \in [Nat \X Seq(S) -> Seq(S)]
  <2>1. \A x \in Nat \X Seq(S) : x[1] + 1 \in 1 .. Len(s) => x[2] \o s[x[1] + 1] \in Seq(S)
    BY ElementOfSeq, ConcatProperties
  <2> QED
    BY <2>1
<1>2. <<>> \in Seq(S)
  OBVIOUS
<1>3. \A n \in Nat, x \in Seq(S) : n + 1 \in 1 .. Len(s) => step[<<n, x>>] = x \o s[n + 1]
  OBVIOUS
<1> HIDE DEF step
<1>4. PICK at \in [Nat -> Seq(S)] : Iterates(at, <<>>, step)
  BY <1>1, <1>2, Iteration
<1>5. at[0] = <<>> /\ \A n \in Nat : at[n + 1] = step[<<n, at[n]>>]
  BY <1>4 DEF Iterates
<1>6. ASSUME NEW n \in 0 .. Len(s) - 1 PROVE at[n + 1] = at[n] \o s[n + 1]
  <2>1. n \in Nat /\ n + 1 \in 1 .. Len(s) /\ at[n] \in Seq(S)
    BY LenProperties
  <2> QED
    BY <1>3, <1>5, <2>1
<1> QED
  BY <1>5, <1>6

LEMMA FlattenType ==
    ASSUME NEW S, NEW s \in Seq(Seq(S))
    PROVE  FlattenSeq(s) \in Seq(S)
<1>1. PICK at \in [Nat -> Seq(S)] :
           at[0] = <<>> /\ \A n \in 0 .. Len(s) - 1 : at[n + 1] = at[n] \o s[n + 1]
  BY Running
<1>2. FlattenSeq(s) = at[Len(s)] /\ Len(s) \in Nat
  BY <1>1, FlattenRuns, LenProperties
<1> QED
  BY <1>2

LEMMA FlattenAppend ==
    ASSUME NEW S, NEW s \in Seq(Seq(S)), NEW x \in Seq(S)
    PROVE  FlattenSeq(Append(s, x)) = FlattenSeq(s) \o x
<1> DEFINE t == Append(s, x)
<1>1. /\ t \in Seq(Seq(S)) /\ Len(t) = Len(s) + 1 /\ Len(s) \in Nat
      /\ \A i \in 1 .. Len(s) : t[i] = s[i]
      /\ t[Len(s) + 1] = x
  BY AppendProperties, LenProperties
<1> HIDE DEF t
<1>2. PICK at \in [Nat -> Seq(S)] :
           at[0] = <<>> /\ \A n \in 0 .. Len(t) - 1 : at[n + 1] = at[n] \o t[n + 1]
  BY <1>1, Running
<1>3. FlattenSeq(t) = at[Len(s) + 1]
  <2>1. FlattenSeq(t) = at[Len(t)]
    BY <1>1, <1>2, FlattenRuns
  <2> QED
    BY <1>1, <2>1
<1>4. FlattenSeq(s) = at[Len(s)]
  <2>1. ASSUME NEW n \in 0 .. Len(s) - 1 PROVE at[n + 1] = at[n] \o s[n + 1]
    <3>1. n \in 0 .. Len(t) - 1 /\ n + 1 \in 1 .. Len(s)
      BY <1>1
    <3>2. at[n + 1] = at[n] \o t[n + 1]
      BY <1>2, <3>1
    <3> QED
      BY <1>1, <3>1, <3>2
  <2>2. at \in [Nat -> Seq(S)] /\ at[0] = <<>>
    BY <1>2
  <2> QED
    BY <2>1, <2>2, FlattenRuns
<1>5. at[Len(s) + 1] = at[Len(s)] \o x
  <2>1. Len(s) \in 0 .. Len(t) - 1
    BY <1>1
  <2>2. at[Len(s) + 1] = at[Len(s)] \o t[Len(s) + 1]
    BY <1>2, <2>1
  <2> QED
    BY <1>1, <2>2
<1> QED
  BY <1>3, <1>4, <1>5 DEF t

LEMMA FlattenEmpty == FlattenSeq(<<>>) = <<>>
BY DEF FlattenSeq

\* A sequence is empty or one that is longer by one element.
LEMMA FlattenConcat ==
    ASSUME NEW S, NEW s \in Seq(Seq(S)), NEW t \in Seq(Seq(S))
    PROVE  FlattenSeq(s \o t) = FlattenSeq(s) \o FlattenSeq(t)
<1> DEFINE T == {n \in Nat : \A u \in Seq(Seq(S)) :
                     Len(u) = n => FlattenSeq(s \o u) = FlattenSeq(s) \o FlattenSeq(u)}
<1>1. 0 \in T
  <2>1. SUFFICES ASSUME NEW u \in Seq(Seq(S)), Len(u) = 0
                 PROVE  FlattenSeq(s \o u) = FlattenSeq(s) \o FlattenSeq(u)
    OBVIOUS
  <2>2. u = <<>>
    BY <2>1, EmptySeq
  <2>3. s \o u = s /\ FlattenSeq(u) = <<>> /\ FlattenSeq(s) \in Seq(S)
    BY <2>2, ConcatEmptySeq, FlattenEmpty, FlattenType
  <2> QED
    BY <2>3, ConcatEmptySeq
<1>2. ASSUME NEW n \in Nat, n \in T PROVE n + 1 \in T
  <2>1. SUFFICES ASSUME NEW u \in Seq(Seq(S)), Len(u) = n + 1
                 PROVE  FlattenSeq(s \o u) = FlattenSeq(s) \o FlattenSeq(u)
    OBVIOUS
  <2>2. u # <<>>
    BY <2>1, EmptySeq
  <2>3. PICK v \in Seq(Seq(S)), x \in Seq(S) : u = Append(v, x)
    BY <2>2, SequenceEmptyOrAppend
  <2>4. Len(v) = n
    <3>1. Len(u) = Len(v) + 1 /\ Len(v) \in Nat
      BY <2>3, AppendProperties, LenProperties
    <3> QED
      BY <2>1, <3>1
  <2>5. FlattenSeq(s \o v) = FlattenSeq(s) \o FlattenSeq(v)
    BY <1>2, <2>4
  <2>6. s \o u = Append(s \o v, x) /\ s \o v \in Seq(Seq(S))
    BY <2>3
  <2>7. FlattenSeq(s \o u) = FlattenSeq(s \o v) \o x
    BY <2>6, FlattenAppend
  <2>8. FlattenSeq(u) = FlattenSeq(v) \o x
    BY <2>3, FlattenAppend
  <2>9. FlattenSeq(s) \in Seq(S) /\ FlattenSeq(v) \in Seq(S) /\ x \in Seq(S)
    BY <2>3, FlattenType
  <2>10. (FlattenSeq(s) \o FlattenSeq(v)) \o x = FlattenSeq(s) \o (FlattenSeq(v) \o x)
    BY <2>9, ConcatAssociative
  <2> QED
    BY <2>5, <2>7, <2>8, <2>10
<1>3. Len(t) \in T
  <2>1. \A n \in Nat : n \in T
    <3> HIDE DEF T
    <3> QED
      BY <1>1, <1>2, NumberInduction
  <2> QED
    BY <2>1, LenProperties
<1> QED
  BY <1>3

------------------------------------------------------------------------------
(* Subsets of a finite set. *)

\* An element is picked of each subset of a finite set; a set of subsets is closed under
\* adding the picked ones.
Picks(pick, S) == IsFiniteSet(S) /\ \A s \in SUBSET S : s # {} => pick[s] \in s
ClosedUnder(T, pick, S) ==
    {} \in T /\ \A s \in SUBSET S : s # {} /\ s \ {pick[s]} \in T => s \in T

\* Induction over the subsets of a finite set, along the element picked of each.
LEMMA SubsetInduction ==
    ASSUME NEW S, NEW pick, Picks(pick, S), NEW T, ClosedUnder(T, pick, S)
    PROVE  \A s \in SUBSET S : s \in T
<1> USE DEF Picks, ClosedUnder
<1> DEFINE N == {n \in Nat : \A s \in SUBSET S : Cardinality(s) = n => s \in T}
<1>1. 0 \in N
  BY FS_Subset, FS_EmptySet
<1>2. ASSUME NEW n \in Nat, n \in N PROVE n + 1 \in N
  <2>1. SUFFICES ASSUME NEW s \in SUBSET S, Cardinality(s) = n + 1 PROVE s \in T
    OBVIOUS
  <2>2. IsFiniteSet(s)
    BY FS_Subset
  <2>3. s # {}
    BY <1>2, <2>1, <2>2, FS_EmptySet
  <2>4. pick[s] \in s
    BY <2>3
  <2>5. Cardinality(s \ {pick[s]}) = n
    <3>1. Cardinality(s \ {pick[s]}) = Cardinality(s) - 1
      BY <2>2, <2>4, FS_RemoveElement
    <3> QED
      BY <1>2, <2>1, <3>1
  <2>6. s \ {pick[s]} \in T
    BY <1>2, <2>5
  <2> QED
    BY <2>3, <2>6
<1>3. \A n \in Nat : n \in N
  <2> HIDE DEF N
  <2> QED
    BY <1>1, <1>2, NumberInduction
<1>4. ASSUME NEW s \in SUBSET S PROVE s \in T
  <2>1. Cardinality(s) \in Nat
    BY FS_Subset, FS_CardinalityType
  <2> QED
    BY <1>3, <2>1
<1> QED
  BY <1>4

\* A function of these subsets is determined by its value for {} and a step.
Folds(it, pick, S, base, step) ==
    /\ it[{}] = base
    /\ \A s \in SUBSET S : s # {} => it[s] = step[<<pick[s], it[s \ {pick[s]}]>>]

\* There is a function of the subsets that follows the step.
LEMMA SubsetRecursion ==
    ASSUME NEW S, NEW pick, Picks(pick, S), NEW V, NEW base \in V, NEW step \in [S \X V -> V]
    PROVE  \E it \in [SUBSET S -> V] : Folds(it, pick, S, base, step)
<1> USE DEF Picks, Folds
<1> DEFINE F == [SUBSET S -> V]
           More(f) == [s \in SUBSET S |-> IF s = {} THEN base
                                          ELSE step[<<pick[s], f[s \ {pick[s]}]>>]]
           big == [x \in Nat \X F |-> More(x[2])]
           start == [s \in SUBSET S |-> base]
<1>1. ASSUME NEW f \in F PROVE More(f) \in F
  OBVIOUS
<1>2. big \in [Nat \X F -> F] /\ start \in F
  <2> HIDE DEF F
  <2>1. \A x \in Nat \X F : More(x[2]) \in F
    BY <1>1
  <2>2. start \in F
    BY DEF F
  <2> HIDE DEF More
  <2> QED
    BY <2>1, <2>2
<1>3. PICK at \in [Nat -> F] : Iterates(at, start, big)
  <2> HIDE DEF big, start, F
  <2> QED
    BY <1>2, Iteration
<1>4. at[0] = start /\ \A n \in Nat : at[n] \in F /\ at[n + 1] = More(at[n])
  <2>1. \A n \in Nat : at[n] \in F
    OBVIOUS
  <2> HIDE DEF F, More
  <2>2. ASSUME NEW n \in Nat PROVE at[n + 1] = More(at[n])
    <3>1. at[n + 1] = big[<<n, at[n]>>] /\ <<n, at[n]>> \in Nat \X F
      BY <1>3, <2>1 DEF Iterates
    <3> QED
      BY <3>1
  <2> QED
    BY <1>3, <2>1, <2>2 DEF Iterates
<1>12. \A n \in Nat : at[n][{}] = base
  <2>1. ASSUME NEW n \in Nat, n # 0 PROVE at[n][{}] = base
    <3>0. n - 1 \in Nat /\ n = (n - 1) + 1
      BY <2>1
    <3>1. PICK m \in Nat : n = m + 1
      BY <3>0
    <3>2. at[n] = More(at[m])
      BY <1>4, <3>1
    <3> QED
      BY <3>2
  <2> QED
    BY <1>4, <2>1
<1> DEFINE Fixed(n) == \A s \in SUBSET S : Cardinality(s) <= n => at[n + 1][s] = at[n][s]
           T == {n \in Nat : Fixed(n)}
<1>5. 0 \in T
  <2>1. ASSUME NEW s \in SUBSET S, Cardinality(s) <= 0 PROVE s = {}
    <3>1. IsFiniteSet(s) /\ Cardinality(s) \in Nat
      BY FS_Subset, FS_CardinalityType
    <3> QED
      BY <2>1, <3>1, FS_EmptySet
  <2>2. at[0 + 1][{}] = base /\ at[0][{}] = base
    BY <1>12
  <2> QED
    BY <2>1, <2>2
<1>6. ASSUME NEW n \in Nat, n \in T PROVE n + 1 \in T
  <2>1. SUFFICES ASSUME NEW s \in SUBSET S, Cardinality(s) <= n + 1
                 PROVE  at[(n + 1) + 1][s] = at[n + 1][s]
    OBVIOUS
  <2>2. at[(n + 1) + 1] = More(at[n + 1]) /\ at[n + 1] = More(at[n])
    <3> HIDE DEF More
    <3>1. PICK m \in Nat : m = n + 1
      OBVIOUS
    <3> QED
      BY <1>4, <3>1
  <2>3. CASE s = {}
    BY <2>2, <2>3
  <2>4. CASE s # {}
    <3>1. pick[s] \in s /\ IsFiniteSet(s) /\ Cardinality(s) \in Nat
      BY <2>4, FS_Subset, FS_CardinalityType
    <3>2. PICK t \in SUBSET S : t = s \ {pick[s]}
      OBVIOUS
    <3>3. Cardinality(t) <= n
      <4>1. Cardinality(t) = Cardinality(s) - 1
        BY <3>1, <3>2, FS_RemoveElement
      <4> QED
        BY <2>1, <3>1, <4>1
    <3>4. at[n + 1][t] = at[n][t]
      BY <1>6, <3>3
    <3>5. /\ More(at[n + 1])[s] = step[<<pick[s], at[n + 1][t]>>]
          /\ More(at[n])[s] = step[<<pick[s], at[n][t]>>]
      BY <2>4, <3>2
    <3> QED
      BY <2>2, <3>4, <3>5
  <2> QED
    BY <2>3, <2>4
<1>7. \A n \in Nat : n \in T
  <2> HIDE DEF T
  <2> QED
    BY <1>5, <1>6, NumberInduction
<1>8. PICK n \in Nat : n = Cardinality(S)
  BY FS_CardinalityType
<1>9. PICK it \in F : it = at[n]
  BY <1>4
<1>10. it[{}] = base
  BY <1>9, <1>12
<1>11. ASSUME NEW s \in SUBSET S, s # {} PROVE it[s] = step[<<pick[s], it[s \ {pick[s]}]>>]
  <2>1. Cardinality(s) <= n
    BY <1>8, FS_Subset
  <2>2. at[n + 1][s] = at[n][s]
    BY <1>7, <2>1
  <2>3. at[n + 1] = More(at[n])
    BY <1>4
  <2> QED
    BY <1>9, <1>11, <2>2, <2>3
<1> QED
  BY <1>10, <1>11
==============================================================================
