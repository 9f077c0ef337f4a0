------------------------ MODULE PipelineDrainProofs ------------------------
(****************************************************************************)
(* Chunks pushed through the operators of a pipeline reach the sink complete *)
(* and in order, for every plan in which no input is overwritten, all chunks *)
(* and all budgets.  The argument keeps an account of what is still to come: *)
(* each operator that is not done with its input owes the rest of its output *)
(* to the operators after it, and the source owes its other chunks.          *)
(****************************************************************************)
EXTENDS PipelineDrain, RecursiveFunctions, TLAPS

PipelineRows == Seq(PipelineRow)

------------------------------------------------------------------------------
(* Division. *)

LEMMA DivisionFacts ==
    ASSUME NEW a \in Nat, NEW n \in Nat \ {0}
    PROVE  /\ a \div n \in Nat /\ a % n \in 0 .. n - 1
           /\ a = (a \div n) * n + (a % n)
<1>1. a \div n \in Int /\ a % n \in 0 .. n - 1
  OBVIOUS
<1>2. a = (a \div n) * n + (a % n)
  OBVIOUS
<1>3. a \div n >= 0
  OBVIOUS
<1> QED
  BY <1>1, <1>2, <1>3

LEMMA ProductMonotone ==
    ASSUME NEW p \in Nat, NEW q \in Nat, NEW n \in Nat, p < q
    PROVE  p * n + n <= q * n
<1>1. PICK d \in Nat : q = p + 1 + d
  <2>1. q - p - 1 \in Nat /\ q = p + 1 + (q - p - 1)
    OBVIOUS
  <2> QED
    BY <2>1
<1>2. q * n = p * n + n + d * n
  BY <1>1
<1>3. d * n \in Nat /\ p * n \in Nat
  OBVIOUS
<1> QED
  BY <1>2, <1>3

LEMMA DivisionUnique ==
    ASSUME NEW n \in Nat \ {0}, NEW q \in Nat, NEW r \in 0 .. n - 1
    PROVE  (q * n + r) \div n = q /\ (q * n + r) % n = r
<1> DEFINE a == q * n + r
           p == a \div n
           s == a % n
<1>1. q * n \in Nat /\ a \in Nat
  OBVIOUS
<1>2. p \in Nat /\ s \in 0 .. n - 1 /\ a = p * n + s
  BY <1>1, DivisionFacts
<1> HIDE DEF p, s
<1>3. ~(p < q)
  BY <1>2, ProductMonotone
<1>4. ~(q < p)
  BY <1>2, ProductMonotone
<1>5. p = q
  BY <1>2, <1>3, <1>4
<1>6. s = r
  BY <1>2, <1>5
<1> QED
  BY <1>5, <1>6 DEF p, s

------------------------------------------------------------------------------
(* What an operator makes of rows. *)

LEMMA RowsConcat ==
    ASSUME NEW a \in PipelineRows, NEW b \in PipelineRows
    PROVE  /\ a \o b \in PipelineRows /\ Len(a \o b) = Len(a) + Len(b)
           /\ Len(a) \in Nat /\ Len(b) \in Nat
           /\ \A k \in 1 .. Len(a) + Len(b) :
                  (a \o b)[k] = IF k <= Len(a) THEN a[k] ELSE b[k - Len(a)]
<1>1. a \in Seq(PipelineRow) /\ b \in Seq(PipelineRow)
  BY DEF PipelineRows
<1>2. /\ a \o b \in Seq(PipelineRow) /\ Len(a \o b) = Len(a) + Len(b)
      /\ \A k \in 1 .. Len(a) + Len(b) :
             (a \o b)[k] = IF k <= Len(a) THEN a[k] ELSE b[k - Len(a)]
  BY <1>1, ConcatProperties, Zenon
<1>3. Len(a) \in Nat /\ Len(b) \in Nat
  BY <1>1, LenProperties
<1> QED
  BY <1>2, <1>3, Zenon DEF PipelineRows

LEMMA SequenceOf ==
    ASSUME NEW S, NEW n \in Nat, NEW f \in [1 .. n -> S]
    PROVE  f \in Seq(S) /\ Len(f) = n
OBVIOUS

\* A row becomes rows; at most one, but in a cross product.
LEMMA OutputsType ==
    ASSUME NEW op \in Operator, NEW row \in PipelineRow
    PROVE  /\ Outputs(op, row) \in PipelineRows
           /\ op.kind # "cross" => Len(Outputs(op, row)) <= 1
           /\ op.kind = "cross" => /\ Len(Outputs(op, row)) = op.rows
                                   /\ \A i \in 1 .. op.rows : Outputs(op, row)[i] = Append(row, i)
<1>1. ASSUME NEW x \in Nat PROVE Append(row, x) \in PipelineRow
  BY AppendProperties DEF PipelineRow
<1>2. CASE op.kind = "filter"
  <2>1. /\ <<row>> \in PipelineRows /\ Len(<<row>>) <= 1
        /\ <<>> \in PipelineRows /\ Len(<<>>) <= 1
    BY DEF PipelineRows
  <2>2. Outputs(op, row) = <<row>> \/ Outputs(op, row) = <<>>
    BY <1>2 DEF Outputs
  <2>3. Outputs(op, row) \in PipelineRows /\ Len(Outputs(op, row)) <= 1
    BY <2>1, <2>2
  <2> QED
    BY <1>2, <2>3
<1>3. CASE op.kind = "projection"
  <2>1. Outputs(op, row) = <<Append(row, 0)>>
    BY <1>3 DEF Outputs
  <2>2. Append(row, 0) \in PipelineRow
    BY <1>1
  <2> QED
    BY <1>3, <2>1, <2>2 DEF PipelineRows
<1>4. CASE op.kind = "cross"
  <2>1. Outputs(op, row) = [i \in 1 .. op.rows |-> Append(row, i)]
    BY <1>4 DEF Outputs
  <2>2. op.rows \in Nat
    BY DEF Operator
  <2>3. \A i \in 1 .. op.rows : Append(row, i) \in PipelineRow
    BY <1>1, <2>2
  <2>4. [i \in 1 .. op.rows |-> Append(row, i)] \in PipelineRows
        /\ Len([i \in 1 .. op.rows |-> Append(row, i)]) = op.rows
    <3>1. [i \in 1 .. op.rows |-> Append(row, i)] \in [1 .. op.rows -> PipelineRow]
      BY <2>3
    <3> QED
      BY <2>2, <3>1, SequenceOf DEF PipelineRows
  <2>5. \A i \in 1 .. op.rows : Outputs(op, row)[i] = Append(row, i)
    BY <2>1
  <2> QED
    BY <1>4, <2>1, <2>4, <2>5
<1> QED
  BY <1>2, <1>3, <1>4 DEF Operator

Mapped(rows, op) == [i \in 1 .. Len(rows) |-> Outputs(op, rows[i])]

LEMMA MappedType ==
    ASSUME NEW rows \in PipelineRows, NEW op \in Operator
    PROVE  /\ Mapped(rows, op) \in Seq(PipelineRows)
           /\ Len(Mapped(rows, op)) = Len(rows)
           /\ Applied(rows, op) = FlattenSeq(Mapped(rows, op))
           /\ Applied(rows, op) \in PipelineRows
<1>1. Len(rows) \in Nat /\ \A i \in 1 .. Len(rows) : rows[i] \in PipelineRow
  BY DEF PipelineRows
<1>2. \A i \in 1 .. Len(rows) : Outputs(op, rows[i]) \in PipelineRows
  BY <1>1, OutputsType
<1>3. Mapped(rows, op) \in Seq(PipelineRows) /\ Len(Mapped(rows, op)) = Len(rows)
  BY <1>1, <1>2 DEF Mapped
<1>4. Applied(rows, op) = FlattenSeq(Mapped(rows, op))
  BY DEF Applied, Mapped
<1>5. FlattenSeq(Mapped(rows, op)) \in PipelineRows
  BY <1>3, FlattenType DEF PipelineRows
<1> QED
  BY <1>3, <1>4, <1>5

LEMMA AppliedEmpty ==
    ASSUME NEW op
    PROVE  Applied(<<>>, op) = <<>>
<1>1. [i \in 1 .. Len(<<>>) |-> Outputs(op, <<>>[i])] = <<>>
  OBVIOUS
<1> QED
  BY <1>1, FlattenEmpty DEF Applied

LEMMA AppliedAppend ==
    ASSUME NEW rows \in PipelineRows, NEW row \in PipelineRow, NEW op \in Operator
    PROVE  Applied(Append(rows, row), op) = Applied(rows, op) \o Outputs(op, row)
<1>1. Append(rows, row) \in PipelineRows /\ Len(rows) \in Nat
  BY AppendProperties DEF PipelineRows
<1>2. Mapped(Append(rows, row), op) = Append(Mapped(rows, op), Outputs(op, row))
  BY <1>1, AppendProperties DEF Mapped, PipelineRows
<1>3. Mapped(rows, op) \in Seq(PipelineRows) /\ Outputs(op, row) \in PipelineRows
  BY MappedType, OutputsType
<1>4. FlattenSeq(Append(Mapped(rows, op), Outputs(op, row)))
        = FlattenSeq(Mapped(rows, op)) \o Outputs(op, row)
  BY <1>3, FlattenAppend DEF PipelineRows
<1> QED
  BY <1>1, <1>2, <1>4, MappedType

\* An operator works row by row.
LEMMA AppliedConcat ==
    ASSUME NEW a \in PipelineRows, NEW b \in PipelineRows, NEW op \in Operator
    PROVE  Applied(a \o b, op) = Applied(a, op) \o Applied(b, op)
<1>1. a \o b \in PipelineRows /\ Len(a) \in Nat /\ Len(b) \in Nat /\ Len(a \o b) = Len(a) + Len(b)
  BY RowsConcat
<1>2. Mapped(a, op) \in Seq(PipelineRows) /\ Mapped(b, op) \in Seq(PipelineRows)
      /\ Len(Mapped(a, op)) = Len(a) /\ Len(Mapped(b, op)) = Len(b)
      /\ Mapped(a \o b, op) \in Seq(PipelineRows) /\ Len(Mapped(a \o b, op)) = Len(a) + Len(b)
  BY <1>1, MappedType
<1>3. Mapped(a, op) \o Mapped(b, op) \in Seq(PipelineRows)
      /\ Len(Mapped(a, op) \o Mapped(b, op)) = Len(a) + Len(b)
  <2>1. ASSUME NEW s \in Seq(PipelineRows), NEW t \in Seq(PipelineRows)
        PROVE  s \o t \in Seq(PipelineRows) /\ Len(s \o t) = Len(s) + Len(t)
    BY ConcatProperties
  <2> QED
    BY <1>2, <2>1
<1>4. ASSUME NEW i \in 1 .. Len(a) + Len(b)
      PROVE  Mapped(a \o b, op)[i] = (Mapped(a, op) \o Mapped(b, op))[i]
  <2>1. Mapped(a \o b, op)[i] = Outputs(op, (a \o b)[i])
    BY <1>1 DEF Mapped
  <2>2. CASE i <= Len(a)
    <3>1. (a \o b)[i] = a[i] /\ Mapped(a, op)[i] = Outputs(op, a[i])
      BY <1>1, <2>2, RowsConcat DEF Mapped
    <3>2. (Mapped(a, op) \o Mapped(b, op))[i] = Mapped(a, op)[i]
      BY <1>1, <1>2, <2>2, ConcatProperties
    <3> QED
      BY <2>1, <3>1, <3>2
  <2>3. CASE i > Len(a)
    <3>1. i - Len(a) \in 1 .. Len(b)
      BY <1>1, <2>3
    <3>2. (a \o b)[i] = b[i - Len(a)] /\ Mapped(b, op)[i - Len(a)] = Outputs(op, b[i - Len(a)])
      BY <1>1, <2>3, <3>1, RowsConcat DEF Mapped
    <3>3. (Mapped(a, op) \o Mapped(b, op))[i] = Mapped(b, op)[i - Len(a)]
      BY <1>1, <1>2, <2>3, ConcatProperties
    <3> QED
      BY <2>1, <3>2, <3>3
  <2>4. i <= Len(a) \/ i > Len(a)
    BY <1>1
  <2> QED
    BY <2>2, <2>3, <2>4
<1>5. Mapped(a \o b, op) = Mapped(a, op) \o Mapped(b, op)
  BY <1>1, <1>2, <1>3, <1>4, SeqEqual
<1>6. FlattenSeq(Mapped(a, op) \o Mapped(b, op))
        = FlattenSeq(Mapped(a, op)) \o FlattenSeq(Mapped(b, op))
  BY <1>2, FlattenConcat DEF PipelineRows
<1> QED
  BY <1>1, <1>5, <1>6, MappedType

LEMMA AppliedNotCross ==
    ASSUME NEW rows \in PipelineRows, NEW op \in Operator, op.kind # "cross"
    PROVE  Len(Applied(rows, op)) <= Len(rows)
<1> DEFINE T == {n \in Nat : \A s \in PipelineRows :
                     Len(s) = n => Len(Applied(s, op)) <= n}
<1>1. 0 \in T
  <2>1. SUFFICES ASSUME NEW s \in PipelineRows, Len(s) = 0
                 PROVE  Len(Applied(s, op)) <= 0
    OBVIOUS
  <2>2. s = <<>>
    BY <2>1, EmptySeq DEF PipelineRows
  <2> QED
    BY <2>2, AppliedEmpty
<1>2. ASSUME NEW n \in Nat, n \in T PROVE n + 1 \in T
  <2>1. SUFFICES ASSUME NEW s \in PipelineRows, Len(s) = n + 1
                 PROVE  Len(Applied(s, op)) <= n + 1
    OBVIOUS
  <2>2. PICK u \in PipelineRows, row \in PipelineRow : s = Append(u, row)
    <3>1. s # <<>>
      BY <2>1
    <3> QED
      BY <3>1, SequenceEmptyOrAppend DEF PipelineRows
  <2>3. Len(u) = n
    BY <2>1, <2>2, AppendProperties, LenProperties DEF PipelineRows
  <2>4. Applied(s, op) = Applied(u, op) \o Outputs(op, row)
    BY <2>2, AppliedAppend
  <2>5. /\ Applied(u, op) \in PipelineRows /\ Outputs(op, row) \in PipelineRows
        /\ Len(Outputs(op, row)) <= 1 /\ Len(Applied(u, op)) <= n
    BY <1>2, <2>3, MappedType, OutputsType
  <2>6. Len(Applied(s, op)) = Len(Applied(u, op)) + Len(Outputs(op, row))
    BY <2>4, <2>5, RowsConcat
  <2>7. Len(Applied(u, op)) \in Nat /\ Len(Outputs(op, row)) \in Nat
    BY <2>5, LenProperties DEF PipelineRows
  <2> QED
    BY <2>5, <2>6, <2>7
<1>3. \A n \in Nat : n \in T
  <2> HIDE DEF T
  <2> QED
    BY <1>1, <1>2, NumberInduction
<1>4. Len(rows) \in Nat
  BY LenProperties DEF PipelineRows
<1> QED
  BY <1>3, <1>4

\* A cross product combines the k-th row and the i-th build row at (k - 1) * n + i.
Combination(rows, n, k) == Append(rows[((k - 1) \div n) + 1], ((k - 1) % n) + 1)

LEMMA AppliedCross ==
    ASSUME NEW rows \in PipelineRows, NEW op \in Operator, op.kind = "cross"
    PROVE  /\ Len(Applied(rows, op)) = Len(rows) * op.rows
           /\ \A k \in 1 .. Len(rows) * op.rows :
                  Applied(rows, op)[k] = Combination(rows, op.rows, k)
<1> DEFINE n == op.rows
           T == {m \in Nat : \A s \in PipelineRows : Len(s) = m =>
                    /\ Len(Applied(s, op)) = m * n
                    /\ \A k \in 1 .. m * n : Applied(s, op)[k] = Combination(s, n, k)}
<1>0. n \in Nat
  BY DEF Operator
<1> HIDE DEF n
<1>1. 0 \in T
  <2>1. SUFFICES ASSUME NEW s \in PipelineRows, Len(s) = 0
                 PROVE  Len(Applied(s, op)) = 0 * n
                        /\ \A k \in 1 .. 0 * n : Applied(s, op)[k] = Combination(s, n, k)
    OBVIOUS
  <2>2. s = <<>>
    BY <2>1, EmptySeq DEF PipelineRows
  <2>3. 0 * n = 0
    BY <1>0
  <2> QED
    BY <2>2, <2>3, AppliedEmpty
<1>2. ASSUME NEW m \in Nat, m \in T PROVE m + 1 \in T
  <2>1. SUFFICES ASSUME NEW s \in PipelineRows, Len(s) = m + 1
                 PROVE  Len(Applied(s, op)) = (m + 1) * n
                        /\ \A k \in 1 .. (m + 1) * n : Applied(s, op)[k] = Combination(s, n, k)
    OBVIOUS
  <2>2. PICK u \in PipelineRows, row \in PipelineRow : s = Append(u, row)
    <3>1. s # <<>>
      BY <2>1
    <3> QED
      BY <3>1, SequenceEmptyOrAppend DEF PipelineRows
  <2>3. Len(u) = m
    BY <2>1, <2>2, AppendProperties, LenProperties DEF PipelineRows
  <2>4. Applied(s, op) = Applied(u, op) \o Outputs(op, row)
    BY <2>2, AppliedAppend
  <2>5. /\ Applied(u, op) \in PipelineRows /\ Outputs(op, row) \in PipelineRows
        /\ Len(Outputs(op, row)) = n /\ Len(Applied(u, op)) = m * n
        /\ \A i \in 1 .. n : Outputs(op, row)[i] = Append(row, i)
        /\ \A k \in 1 .. m * n : Applied(u, op)[k] = Combination(u, n, k)
    BY <1>2, <2>3, MappedType, OutputsType DEF n
  <2>6. m * n \in Nat /\ (m + 1) * n = m * n + n
    BY <1>0
  <2>7. Len(Applied(s, op)) = m * n + n
        /\ \A k \in 1 .. m * n + n : Applied(s, op)[k] =
               IF k <= m * n THEN Applied(u, op)[k] ELSE Outputs(op, row)[k - m * n]
    <3> DEFINE a == Applied(u, op)
               b == Outputs(op, row)
    <3>1. a \in PipelineRows /\ b \in PipelineRows /\ Len(a) = m * n /\ Len(b) = n
      BY <2>5
    <3> HIDE DEF a, b
    <3>2. /\ Len(a \o b) = Len(a) + Len(b)
          /\ \A k \in 1 .. Len(a) + Len(b) :
                (a \o b)[k] = IF k <= Len(a) THEN a[k] ELSE b[k - Len(a)]
      BY <3>1, RowsConcat, Zenon
    <3>3. /\ Len(a \o b) = m * n + n
          /\ \A k \in 1 .. m * n + n :
                (a \o b)[k] = IF k <= m * n THEN a[k] ELSE b[k - m * n]
      BY <3>1, <3>2, Zenon
    <3>4. Applied(s, op) = a \o b
      BY <2>4 DEF a, b
    <3> QED
      BY <3>3, <3>4, Zenon DEF a, b
  <2>8. s[m + 1] = row /\ \A i \in 1 .. m : s[i] = u[i]
    BY <2>2, <2>3, AppendProperties DEF PipelineRows
  <2>9. ASSUME NEW k \in 1 .. m * n, n # 0 PROVE Combination(s, n, k) = Combination(u, n, k)
    <3>1. k - 1 \in Nat /\ n \in Nat \ {0} /\ k - 1 < m * n
      BY <1>0, <2>6, <2>9
    <3>2. (k - 1) \div n \in Nat /\ (k - 1) % n \in Nat
            /\ k - 1 = ((k - 1) \div n) * n + ((k - 1) % n)
      BY <3>1, DivisionFacts
    <3>3. (k - 1) \div n < m
      <4>1. m < (k - 1) \div n => m * n + n <= ((k - 1) \div n) * n
        BY <1>0, <3>2, ProductMonotone
      <4>2. ((k - 1) \div n) * n \in Nat
        BY <1>0, <3>2
      <4>3. ((k - 1) \div n) * n < m * n
        BY <2>6, <3>1, <3>2, <4>2
      <4>4. ~(m < (k - 1) \div n) /\ m # (k - 1) \div n
        BY <1>0, <2>6, <4>1, <4>2, <4>3
      <4> QED
        BY <3>2, <4>4
    <3>4. ((k - 1) \div n) + 1 \in 1 .. m
      BY <3>2, <3>3
    <3> QED
      BY <2>8, <3>4 DEF Combination
  <2>10. ASSUME NEW k \in m * n + 1 .. m * n + n
         PROVE  Combination(s, n, k) = Outputs(op, row)[k - m * n]
    <3>1. n \in Nat \ {0} /\ (k - m * n) - 1 \in 0 .. n - 1 /\ k - m * n \in 1 .. n
            /\ k - 1 = m * n + ((k - m * n) - 1)
      BY <1>0, <2>6
    <3>2. (k - 1) \div n = m /\ (k - 1) % n = (k - m * n) - 1
      BY <3>1, DivisionUnique
    <3>3. Combination(s, n, k) = Append(row, k - m * n)
      BY <2>8, <3>1, <3>2 DEF Combination
    <3> QED
      BY <2>5, <3>1, <3>3
  <2>11. ASSUME NEW k \in 1 .. m * n + n PROVE Applied(s, op)[k] = Combination(s, n, k)
    <3>1. CASE k <= m * n
      <4>1. k \in 1 .. m * n /\ n # 0
        BY <1>0, <2>6, <3>1
      <4> QED
        BY <2>5, <2>7, <2>9, <3>1, <4>1
    <3>2. CASE k > m * n
      <4>1. k \in m * n + 1 .. m * n + n /\ ~(k <= m * n)
        BY <1>0, <2>6, <3>2
      <4> QED
        BY <2>7, <2>10, <4>1
    <3> QED
      BY <2>6, <3>1, <3>2
  <2> QED
    BY <2>6, <2>7, <2>11
<1>3. \A m \in Nat : m \in T
  <2> HIDE DEF T
  <2> QED
    BY <1>1, <1>2, NumberInduction
<1>4. Len(rows) \in Nat
  BY LenProperties DEF PipelineRows
<1> QED
  BY <1>3, <1>4 DEF n

------------------------------------------------------------------------------
(* The chunks that the operators work on. *)

\* The first operator gets the chunk of the source, every other the scratch chunk that the
\* one before it has written.
LEMMA RegisterFacts ==
    /\ InputRegister[1] = "src_chunk"
    /\ \A d \in Nat \ {0} :
          /\ InputRegister[d + 1] = OutputRegister(InputRegister[d])
          /\ InputRegister[d] \in Registers
          /\ d # 1 => InputRegister[d] # "src_chunk"
          /\ OutputRegister(InputRegister[d]) \in Registers
          /\ OutputRegister(InputRegister[d]) # "src_chunk"
          /\ OutputRegister(InputRegister[d]) # InputRegister[d]
<1> DEFINE step == [y \in Nat \X Registers |-> OutputRegister(y[2])]
           Rest(f) == [d \in Nat \ {0} |->
                          IF d = 1 THEN "src_chunk" ELSE OutputRegister(f[d - 1])]
<1>1. \A r : /\ OutputRegister(r) \in Registers /\ OutputRegister(r) # "src_chunk"
             /\ OutputRegister(r) # r
  BY DEF OutputRegister, OutputOf, Registers
<1>2. PICK at \in [Nat -> Registers] : Iterates(at, "src_chunk", step)
  <2>1. step \in [Nat \X Registers -> Registers] /\ "src_chunk" \in Registers
    BY <1>1 DEF Registers
  <2> HIDE DEF step
  <2> QED
    BY <2>1, Iteration
<1>3. at[0] = "src_chunk" /\ \A n \in Nat : at[n + 1] = OutputRegister(at[n])
  BY <1>2 DEF Iterates
<1> DEFINE g == [d \in Nat \ {0} |-> at[d - 1]]
<1>4. g = Rest(g)
  <2>1. ASSUME NEW d \in Nat \ {0}
        PROVE  at[d - 1] = IF d = 1 THEN "src_chunk" ELSE OutputRegister(g[d - 1])
    <3>1. CASE d = 1
      <4>1. d - 1 = 0
        BY <3>1
      <4> QED
        BY <1>3, <3>1, <4>1
    <3>2. CASE d # 1
      <4>1. d - 2 \in Nat /\ (d - 2) + 1 = d - 1 /\ d - 1 \in Nat \ {0} /\ (d - 1) - 1 = d - 2
        BY <3>2
      <4>2. at[d - 1] = OutputRegister(at[d - 2])
        BY <1>3, <4>1
      <4> QED
        BY <3>2, <4>1, <4>2
    <3> QED
      BY <3>1, <3>2
  <2> QED
    BY <2>1
<1> HIDE DEF g
<1>5. InputRegister = Rest(InputRegister)
  BY <1>4 DEF InputRegister
<1>6. InputRegister[1] = "src_chunk"
  BY <1>5
<1>7. ASSUME NEW d \in Nat \ {0}
      PROVE  InputRegister[d + 1] = OutputRegister(InputRegister[d])
  <2>1. d + 1 \in Nat \ {0} /\ d + 1 # 1 /\ (d + 1) - 1 = d
    OBVIOUS
  <2> QED
    BY <1>5, <2>1
<1>8. ASSUME NEW d \in Nat \ {0}
      PROVE  InputRegister[d] \in Registers /\ (d # 1 => InputRegister[d] # "src_chunk")
  <2>1. CASE d = 1
    BY <1>6, <2>1 DEF Registers
  <2>2. CASE d # 1
    <3>1. d - 1 \in Nat \ {0} /\ (d - 1) + 1 = d
      BY <2>2
    <3>2. InputRegister[d] = OutputRegister(InputRegister[d - 1])
      BY <1>7, <3>1
    <3> QED
      BY <1>1, <3>2
  <2> QED
    BY <2>1, <2>2
<1> QED
  BY <1>1, <1>6, <1>7, <1>8

------------------------------------------------------------------------------
(* The operators from one of them to the sink. *)

IsPush(P, plan) ==
    /\ P \in [1 .. Len(plan) + 1 -> [PipelineRows -> PipelineRows]]
    /\ \A x \in PipelineRows : P[Len(plan) + 1][x] = x
    /\ \A d \in 1 .. Len(plan) : \A x \in PipelineRows : P[d][x] = P[d + 1][Applied(x, plan[d])]
Push(plan) == CHOOSE P : IsPush(P, plan)

LEMMA PushDefined ==
    ASSUME NEW plan \in Seq(Operator)
    PROVE  IsPush(Push(plan), plan)
<1> DEFINE L == Len(plan)
           F == [PipelineRows -> PipelineRows]
           id == [x \in PipelineRows |-> x]
           Before(n, f) == [x \in PipelineRows |-> f[Applied(x, plan[L - n])]]
           step == [y \in Nat \X F |-> IF y[1] + 1 <= L THEN Before(y[1], y[2]) ELSE y[2]]
<1>1. L \in Nat /\ \A d \in 1 .. L : plan[d] \in Operator
  BY LenProperties, ElementOfSeq
<1> HIDE DEF L
<1>2. ASSUME NEW n \in Nat, NEW f \in F, n + 1 <= L
      PROVE  Before(n, f) \in F
  <2>1. L - n \in 1 .. L
    BY <1>1, <1>2
  <2>2. \A x \in PipelineRows : Applied(x, plan[L - n]) \in PipelineRows
    BY <1>1, <2>1, MappedType
  <2> QED
    BY <2>2
<1> HIDE DEF Before, F
<1>3. step \in [Nat \X F -> F]
  BY <1>2
<1>4. \A n \in Nat, f \in F : n + 1 <= L => step[<<n, f>>] = Before(n, f)
  OBVIOUS
<1>5. id \in F
  BY DEF F
<1> HIDE DEF step, id
<1>6. PICK at \in [Nat -> F] : Iterates(at, id, step)
  BY <1>3, <1>5, Iteration
<1>7. at[0] = id /\ \A n \in Nat : n + 1 <= L => at[n + 1] = Before(n, at[n])
  BY <1>4, <1>6 DEF Iterates
<1> DEFINE P == [d \in 1 .. L + 1 |-> at[(L + 1) - d]]
<1>8. P \in [1 .. L + 1 -> F]
  <2>1. \A d \in 1 .. L + 1 : (L + 1) - d \in Nat
    BY <1>1
  <2> QED
    BY <1>6, <2>1
<1>9. P[L + 1] = id
  <2>1. L + 1 \in 1 .. L + 1 /\ (L + 1) - (L + 1) = 0
    BY <1>1
  <2> QED
    BY <1>7, <2>1
<1>10. ASSUME NEW d \in 1 .. L, NEW x \in PipelineRows
       PROVE  P[d][x] = P[d + 1][Applied(x, plan[d])]
  <2>1. /\ d \in 1 .. L + 1 /\ d + 1 \in 1 .. L + 1 /\ L - d \in Nat
        /\ (L + 1) - d = (L - d) + 1 /\ (L + 1) - (d + 1) = L - d /\ (L - d) + 1 <= L
        /\ L - (L - d) = d
    BY <1>1
  <2>2. P[d] = Before(L - d, P[d + 1])
    BY <1>7, <2>1
  <2> QED
    BY <2>1, <2>2 DEF Before
<1> HIDE DEF P
<1>11. IsPush(P, plan)
  BY <1>8, <1>9, <1>10 DEF IsPush, L, F, id
<1> QED
  BY <1>11 DEF Push

LEMMA PushFacts ==
    ASSUME NEW plan \in Seq(Operator)
    PROVE  /\ \A d \in 1 .. Len(plan) + 1 : \A x \in PipelineRows : Push(plan)[d][x] \in PipelineRows
           /\ \A x \in PipelineRows : Push(plan)[Len(plan) + 1][x] = x
           /\ \A d \in 1 .. Len(plan) : \A x \in PipelineRows :
                  Push(plan)[d][x] = Push(plan)[d + 1][Applied(x, plan[d])]
<1>1. IsPush(Push(plan), plan)
  BY PushDefined
<1>2. ASSUME NEW d \in 1 .. Len(plan) + 1, NEW x \in PipelineRows
      PROVE  Push(plan)[d][x] \in PipelineRows
  <2>1. Push(plan)[d] \in [PipelineRows -> PipelineRows]
    BY <1>1 DEF IsPush
  <2> QED
    BY <2>1
<1> QED
  BY <1>1, <1>2 DEF IsPush

\* The operators work row by row.
LEMMA PushConcat ==
    ASSUME NEW plan \in Seq(Operator), NEW d \in 1 .. Len(plan) + 1,
           NEW a \in PipelineRows, NEW b \in PipelineRows
    PROVE  Push(plan)[d][a \o b] = Push(plan)[d][a] \o Push(plan)[d][b]
<1> DEFINE L == Len(plan)
           T == {n \in Nat : \A e \in 1 .. L + 1 : e + n = L + 1 =>
                    \A x \in PipelineRows, y \in PipelineRows :
                        Push(plan)[e][x \o y] = Push(plan)[e][x] \o Push(plan)[e][y]}
<1>1. L \in Nat /\ \A e \in 1 .. L : plan[e] \in Operator
  BY LenProperties, ElementOfSeq
<1>2. /\ \A x \in PipelineRows : Push(plan)[L + 1][x] = x
      /\ \A e \in 1 .. L : \A x \in PipelineRows :
            Push(plan)[e][x] = Push(plan)[e + 1][Applied(x, plan[e])]
  BY PushFacts
<1>3. \A x \in PipelineRows, y \in PipelineRows : x \o y \in PipelineRows
  BY RowsConcat
<1> HIDE DEF L
<1>4. 0 \in T
  <2>1. \A e \in 1 .. L + 1 : e + 0 = L + 1 => e = L + 1
    BY <1>1
  <2> QED
    BY <1>2, <1>3, <2>1
<1>5. ASSUME NEW n \in Nat, n \in T PROVE n + 1 \in T
  <2>1. ASSUME NEW e \in 1 .. L + 1, e + (n + 1) = L + 1,
               NEW x \in PipelineRows, NEW y \in PipelineRows
        PROVE  Push(plan)[e][x \o y] = Push(plan)[e][x] \o Push(plan)[e][y]
    <3>1. e \in 1 .. L /\ e + 1 \in 1 .. L + 1 /\ (e + 1) + n = L + 1
      BY <1>1, <2>1
    <3>2. \A u \in PipelineRows, v \in PipelineRows :
              Push(plan)[e + 1][u \o v] = Push(plan)[e + 1][u] \o Push(plan)[e + 1][v]
      BY <1>5, <3>1
    <3>3. Applied(x \o y, plan[e]) = Applied(x, plan[e]) \o Applied(y, plan[e])
      BY <1>1, <3>1, AppliedConcat
    <3>4. Applied(x, plan[e]) \in PipelineRows /\ Applied(y, plan[e]) \in PipelineRows
      BY <1>1, <3>1, MappedType
    <3>5. Push(plan)[e + 1][Applied(x, plan[e]) \o Applied(y, plan[e])]
            = Push(plan)[e + 1][Applied(x, plan[e])] \o Push(plan)[e + 1][Applied(y, plan[e])]
      BY <3>2, <3>4
    <3>6. /\ Push(plan)[e][x] = Push(plan)[e + 1][Applied(x, plan[e])]
          /\ Push(plan)[e][y] = Push(plan)[e + 1][Applied(y, plan[e])]
          /\ Push(plan)[e][x \o y] = Push(plan)[e + 1][Applied(x \o y, plan[e])]
      <4>1. x \o y \in PipelineRows
        BY <1>3
      <4> QED
        BY <1>2, <3>1, <4>1
    <3> QED
      BY <3>3, <3>5, <3>6
  <2>2. \A e \in 1 .. L + 1 : e + (n + 1) = L + 1 =>
            \A x \in PipelineRows, y \in PipelineRows :
                Push(plan)[e][x \o y] = Push(plan)[e][x] \o Push(plan)[e][y]
    BY <2>1
  <2>3. n + 1 \in Nat
    OBVIOUS
  <2> QED
    BY <2>2, <2>3, Zenon
<1>6. \A n \in Nat : n \in T
  <2> HIDE DEF T
  <2> QED
    BY <1>4, <1>5, NumberInduction
<1>7. (L + 1) - d \in Nat /\ d + ((L + 1) - d) = L + 1 /\ d \in 1 .. L + 1
  BY <1>1 DEF L
<1>8. (L + 1) - d \in T
  BY <1>6, <1>7
<1> QED
  BY <1>7, <1>8

LEMMA PushEmpty ==
    ASSUME NEW plan \in Seq(Operator), NEW d \in 1 .. Len(plan) + 1
    PROVE  Push(plan)[d][<<>>] = <<>>
<1>1. <<>> \in PipelineRows /\ <<>> \o <<>> = <<>>
  BY DEF PipelineRows
<1>2. Push(plan)[d][<<>>] = Push(plan)[d][<<>>] \o Push(plan)[d][<<>>]
  BY <1>1, PushConcat
<1>3. Push(plan)[d][<<>>] \in PipelineRows
  BY <1>1, PushFacts
<1> QED
  BY <1>2, <1>3, ConcatEqualIffEmpty DEF PipelineRows

\* The whole pipeline.
LEMMA AppliedAllIsPush ==
    ASSUME NEW plan \in Seq(Operator), NEW start \in PipelineRows
    PROVE  AppliedAll(start, plan) = Push(plan)[1][start] /\ AppliedAll(start, plan) \in PipelineRows
<1> DEFINE L == Len(plan)
           step == [y \in Nat \X PipelineRows |->
                       IF y[1] + 1 <= L THEN Applied(y[2], plan[y[1] + 1]) ELSE y[2]]
           Rest(f) == [d \in 0 .. L |-> IF d = 0 THEN start ELSE Applied(f[d - 1], plan[d])]
           after == CHOOSE f : f = Rest(f)
<1>1. L \in Nat /\ start \in PipelineRows /\ \A d \in 1 .. L : plan[d] \in Operator
  BY LenProperties, ElementOfSeq
<1>2. AppliedAll(start, plan) = after[L]
  BY DEF AppliedAll
<1> HIDE DEF L
<1>3. \A d \in 1 .. L, x \in PipelineRows : Applied(x, plan[d]) \in PipelineRows
  BY <1>1, MappedType
<1>4. step \in [Nat \X PipelineRows -> PipelineRows]
  <2>1. ASSUME NEW n \in Nat, n + 1 <= L PROVE n + 1 \in 1 .. L
    BY <1>1, <2>1
  <2> QED
    BY <1>3, <2>1
<1>5. \A n \in Nat, x \in PipelineRows : n + 1 <= L => step[<<n, x>>] = Applied(x, plan[n + 1])
  OBVIOUS
<1> HIDE DEF step
<1>6. PICK at \in [Nat -> PipelineRows] : Iterates(at, start, step)
  BY <1>1, <1>4, Iteration
<1>7. at[0] = start /\ \A n \in Nat : n + 1 <= L => at[n + 1] = Applied(at[n], plan[n + 1])
  BY <1>5, <1>6 DEF Iterates
<1> DEFINE g == [d \in 0 .. L |-> at[d]]
<1>8. g = Rest(g)
  <2>1. ASSUME NEW d \in 0 .. L
        PROVE  at[d] = IF d = 0 THEN start ELSE Applied(g[d - 1], plan[d])
    <3>1. CASE d # 0
      <4>1. d - 1 \in 0 .. L /\ d - 1 \in Nat /\ (d - 1) + 1 = d /\ d <= L
        BY <1>1, <3>1
      <4>2. at[d] = Applied(at[d - 1], plan[d])
        BY <1>7, <4>1
      <4> QED
        BY <3>1, <4>1, <4>2
    <3> QED
      BY <1>7, <3>1
  <2> QED
    BY <2>1
<1> HIDE DEF g
<1>9. after = Rest(after)
  BY <1>8
<1> HIDE DEF after
<1>10. after[0] = start /\ \A d \in 1 .. L : after[d] = Applied(after[d - 1], plan[d])
  <2>1. \A d \in 1 .. L : d \in 0 .. L /\ d # 0
    BY <1>1
  <2> QED
    BY <1>1, <1>9, <2>1
<1> HIDE DEF Rest
<1> DEFINE T == {n \in Nat : n <= L =>
                    after[n] \in PipelineRows /\ Push(plan)[n + 1][after[n]] = Push(plan)[1][start]}
<1>11. 0 \in T
  BY <1>1, <1>10
<1>12. ASSUME NEW n \in Nat, n \in T PROVE n + 1 \in T
  <2>1. SUFFICES ASSUME n + 1 <= L
                 PROVE  /\ after[n + 1] \in PipelineRows
                        /\ Push(plan)[(n + 1) + 1][after[n + 1]] = Push(plan)[1][start]
    OBVIOUS
  <2>2. n + 1 \in 1 .. L /\ (n + 1) - 1 = n /\ n <= L
    BY <1>1, <2>1
  <2>3. after[n] \in PipelineRows /\ Push(plan)[n + 1][after[n]] = Push(plan)[1][start]
    BY <1>12, <2>2
  <2>4. after[n + 1] = Applied(after[n], plan[n + 1])
    BY <1>10, <2>2
  <2>5. Push(plan)[n + 1][after[n]] = Push(plan)[(n + 1) + 1][Applied(after[n], plan[n + 1])]
    BY <2>2, <2>3, PushFacts DEF L
  <2> QED
    BY <1>3, <2>2, <2>3, <2>4, <2>5
<1>13. L \in T
  <2> HIDE DEF T
  <2>1. \A n \in Nat : n \in T
    BY <1>11, <1>12, NumberInduction
  <2> QED
    BY <1>1, <2>1
<1>14. after[L] \in PipelineRows /\ Push(plan)[L + 1][after[L]] = Push(plan)[1][start]
  BY <1>1, <1>13
<1>15. Push(plan)[L + 1][after[L]] = after[L]
  BY <1>14, PushFacts DEF L
<1> QED
  BY <1>2, <1>14, <1>15

------------------------------------------------------------------------------
(* One call of an operator. *)

CursorType == [probe : 1 .. OutputSize, build : Nat \ {0}, drained : BOOLEAN]
Chunks == {rows \in PipelineRows : Len(rows) <= OutputSize}

\* Where a cursor points to, and the rows the operator still puts out for its input.
Place(at, op) == (at.probe - 1) * op.rows + at.build - 1
Rest(rows, p) == SubSeq(rows, p + 1, Len(rows))
Unread(at, in, op) ==
    IF at.drained THEN <<>> ELSE Rest(Applied(in, op), Place(at, op))

LEMMA FreshFacts ==
    ASSUME NEW op \in Operator
    PROVE  Fresh \in CursorType /\ ~Fresh.drained /\ Place(Fresh, op) = 0
<1>1. op.rows \in Nat
  BY DEF Operator
<1>2. 1 \in 1 .. OutputSize
  BY BudgetAssumption
<1> QED
  BY <1>1, <1>2 DEF Fresh, CursorType, Place

LEMMA PlaceType ==
    ASSUME NEW op \in Operator, NEW at \in CursorType
    PROVE  Place(at, op) \in Nat
<1>1. op.rows \in Nat /\ at.probe - 1 \in Nat /\ at.build - 1 \in Nat
  BY BudgetAssumption DEF Operator, CursorType
<1>2. (at.probe - 1) * op.rows \in Nat
  BY <1>1
<1>3. at.probe \in Int /\ at.build \in Int
  BY BudgetAssumption DEF CursorType
<1> QED
  BY <1>1, <1>2, <1>3 DEF Place

LEMMA RestFacts ==
    ASSUME NEW rows \in PipelineRows, NEW p \in 0 .. Len(rows)
    PROVE  /\ Rest(rows, p) \in PipelineRows
           /\ Len(Rest(rows, p)) = Len(rows) - p
           /\ \A k \in 1 .. Len(rows) - p : Rest(rows, p)[k] = rows[p + k]
           /\ p = 0 => Rest(rows, p) = rows
           /\ p = Len(rows) => Rest(rows, p) = <<>>
<1>1. Len(rows) \in Nat
  BY LenProperties DEF PipelineRows
<1>2. \A i \in p + 1 .. Len(rows) : rows[i] \in PipelineRow
  <2>1. \A i \in p + 1 .. Len(rows) : i \in 1 .. Len(rows)
    BY <1>1
  <2> QED
    BY <2>1, ElementOfSeq DEF PipelineRows
<1>3. p + 1 \in Int /\ Len(rows) \in Int
  BY <1>1
<1>4. /\ SubSeq(rows, p + 1, Len(rows)) \in Seq(PipelineRow)
      /\ Len(SubSeq(rows, p + 1, Len(rows)))
            = IF p + 1 <= Len(rows) THEN Len(rows) - (p + 1) + 1 ELSE 0
      /\ \A i \in 1 .. Len(rows) - (p + 1) + 1 :
            SubSeq(rows, p + 1, Len(rows))[i] = rows[(p + 1) + i - 1]
  BY <1>2, <1>3, SubSeqProperties
<1>5. \A k \in 1 .. Len(rows) - p : Rest(rows, p)[k] = rows[p + k]
  <2>1. \A k \in 1 .. Len(rows) - p : k \in 1 .. Len(rows) - (p + 1) + 1 /\ (p + 1) + k - 1 = p + k
    BY <1>1
  <2> QED
    BY <1>4, <2>1 DEF Rest
<1>6. Rest(rows, p) \in PipelineRows /\ Len(Rest(rows, p)) = Len(rows) - p
  BY <1>1, <1>4 DEF Rest, PipelineRows
<1>7. p = 0 => Rest(rows, p) = rows
  BY SubSeqFull DEF Rest, PipelineRows
<1>8. p = Len(rows) => Rest(rows, p) = <<>>
  BY <1>1, SubSeqEmpty DEF Rest
<1> QED
  BY <1>5, <1>6, <1>7, <1>8

\* Rows put out next to each other.
LEMMA RestSplit ==
    ASSUME NEW rows \in PipelineRows, NEW p \in 0 .. Len(rows), NEW q \in p .. Len(rows),
           NEW out \in PipelineRows, Len(out) = q - p,
           \A k \in 1 .. q - p : out[k] = rows[p + k]
    PROVE  Rest(rows, p) = out \o Rest(rows, q)
<1>1. Len(rows) \in Nat /\ q \in 0 .. Len(rows)
  BY LenProperties DEF PipelineRows
<1>2. /\ Rest(rows, p) \in PipelineRows /\ Len(Rest(rows, p)) = Len(rows) - p
      /\ \A k \in 1 .. Len(rows) - p : Rest(rows, p)[k] = rows[p + k]
      /\ Rest(rows, q) \in PipelineRows /\ Len(Rest(rows, q)) = Len(rows) - q
      /\ \A k \in 1 .. Len(rows) - q : Rest(rows, q)[k] = rows[q + k]
  BY <1>1, RestFacts
<1>3. /\ out \o Rest(rows, q) \in PipelineRows
      /\ Len(out \o Rest(rows, q)) = (q - p) + (Len(rows) - q)
      /\ \A k \in 1 .. (q - p) + (Len(rows) - q) : (out \o Rest(rows, q))[k] =
            IF k <= q - p THEN out[k] ELSE Rest(rows, q)[k - (q - p)]
  <2>1. ASSUME NEW t \in PipelineRows
        PROVE  /\ out \o t \in PipelineRows /\ Len(out \o t) = (q - p) + Len(t)
               /\ \A k \in 1 .. (q - p) + Len(t) : (out \o t)[k] =
                      IF k <= q - p THEN out[k] ELSE t[k - (q - p)]
    <3>1. /\ out \o t \in PipelineRows /\ Len(out \o t) = Len(out) + Len(t)
          /\ \A k \in 1 .. Len(out) + Len(t) : (out \o t)[k] =
                IF k <= Len(out) THEN out[k] ELSE t[k - Len(out)]
      BY RowsConcat, Zenon
    <3>2. Len(out) = q - p
      OBVIOUS
    <3> QED
      BY <3>1, <3>2, Zenon
  <2> HIDE DEF Rest
  <2> QED
    BY <1>2, <2>1
<1>4. ASSUME NEW k \in 1 .. Len(rows) - p
      PROVE  Rest(rows, p)[k] = (out \o Rest(rows, q))[k]
  <2>1. k \in 1 .. (q - p) + (Len(rows) - q)
    BY <1>1
  <2>2. CASE k <= q - p
    <3>1. k \in 1 .. q - p
      BY <1>1, <2>2
    <3> QED
      BY <1>2, <1>3, <2>1, <2>2, <3>1
  <2>3. CASE ~(k <= q - p)
    <3>1. k - (q - p) \in 1 .. Len(rows) - q /\ q + (k - (q - p)) = p + k
      BY <1>1, <2>3
    <3>2. Rest(rows, q)[k - (q - p)] = rows[p + k]
      BY <1>2, <3>1
    <3> QED
      BY <1>2, <1>3, <2>1, <2>3, <3>2
  <2> QED
    BY <2>2, <2>3
<1>5. (q - p) + (Len(rows) - q) = Len(rows) - p
  BY <1>1
<1> QED
  BY <1>2, <1>3, <1>4, <1>5, SeqEqual DEF PipelineRows

\* A filter or a projection takes all of its input at once.
LEMMA CopyFacts ==
    ASSUME NEW d, ops[d] \in Operator, ops[d].kind # "cross", NEW in \in Chunks
    PROVE  /\ Call(d, in) = [rows |-> Applied(in, ops[d]), at |-> Fresh]
           /\ Applied(in, ops[d]) \in Chunks
<1>1. in \in PipelineRows /\ Len(in) <= OutputSize /\ Len(in) \in Nat
  BY LenProperties DEF Chunks, PipelineRows
<1>2. Applied(in, ops[d]) \in PipelineRows /\ Len(Applied(in, ops[d])) <= Len(in)
  BY <1>1, MappedType, AppliedNotCross
<1>3. Len(Applied(in, ops[d])) \in Nat
  BY <1>2, LenProperties DEF PipelineRows
<1>4. Applied(in, ops[d]) \in Chunks
  BY <1>1, <1>2, <1>3, BudgetAssumption DEF Chunks
<1>5. Call(d, in) = [rows |-> Applied(in, ops[d]), at |-> Fresh]
  BY DEF Call, CopyAndApply, Applied
<1> QED
  BY <1>4, <1>5

LEMMA QuotientBound ==
    ASSUME NEW a \in Nat, NEW n \in Nat, NEW m \in Nat, a < m * n
    PROVE  n # 0 /\ a \div n \in 0 .. m - 1 /\ a % n \in 0 .. n - 1
<1>1. m * n \in Nat
  OBVIOUS
<1>2. n # 0
  <2>1. m * 0 = 0
    OBVIOUS
  <2> QED
    BY <2>1
<1>3. a \div n \in Nat /\ a % n \in 0 .. n - 1 /\ a = (a \div n) * n + (a % n)
  BY <1>2, DivisionFacts
<1> DEFINE q == a \div n
<1> HIDE DEF q
<1>4. q \in Nat /\ q * n \in Nat /\ q * n <= a
  BY <1>3 DEF q
<1>5. q < m
  <2>1. m < q => m * n + n <= q * n
    BY <1>4, ProductMonotone
  <2>2. m # q
    BY <1>1, <1>4
  <2> QED
    BY <1>1, <1>4, <2>1, <2>2
<1> QED
  BY <1>2, <1>3, <1>4, <1>5 DEF q

\* What one call of a cross product does, from any place.
LEMMA CrossTypes ==
    ASSUME NEW first \in Nat, NEW n \in Nat, NEW in \in Chunks
    PROVE  LET call == CrossFrom(first, OutputSize, n, in)
           IN  /\ call.rows \in Chunks
               /\ call.at \in CursorType /\ ~call.at.drained
<1> DEFINE total == Len(in) * n
           last == IF first + OutputSize < total THEN first + OutputSize ELSE total
           out == [k \in 1 .. last - first |->
                      Append(in[((first + k - 1) \div n) + 1], ((first + k - 1) % n) + 1)]
           at == IF last >= total THEN Fresh
                 ELSE [Fresh EXCEPT !.probe = (last \div n) + 1, !.build = (last % n) + 1]
<1>1. in \in PipelineRows /\ Len(in) \in Nat /\ Len(in) <= OutputSize /\ OutputSize \in Nat \ {0}
  BY LenProperties, BudgetAssumption DEF Chunks, PipelineRows
<1>2. total \in Nat
  BY <1>1
<1> HIDE DEF total
<1>3. last \in Nat /\ last <= total /\ last - first \in Int /\ last - first <= OutputSize
  BY <1>1, <1>2
<1> HIDE DEF last
<1>4. ASSUME NEW k \in 1 .. last - first
      PROVE  Append(in[((first + k - 1) \div n) + 1], ((first + k - 1) % n) + 1) \in PipelineRow
  <2>1. first + k - 1 \in Nat /\ first + k - 1 < Len(in) * n
    BY <1>3 DEF total
  <2>2. ((first + k - 1) \div n) + 1 \in 1 .. Len(in) /\ ((first + k - 1) % n) + 1 \in Nat
    <3>1. ASSUME NEW a \in Nat, a < Len(in) * n
          PROVE  (a \div n) + 1 \in 1 .. Len(in) /\ (a % n) + 1 \in Nat
      BY <1>1, <3>1, QuotientBound
    <3> QED
      BY <2>1, <3>1
  <2>3. ASSUME NEW i \in 1 .. Len(in), NEW x \in Nat PROVE Append(in[i], x) \in PipelineRow
    <3>1. in[i] \in PipelineRow
      BY <1>1, ElementOfSeq DEF PipelineRows
    <3> QED
      BY <3>1, AppendProperties DEF PipelineRow
  <2> QED
    BY <2>2, <2>3
<1>5. out \in Chunks
  <2> DEFINE m == IF last - first >= 0 THEN last - first ELSE 0
  <2>1. m \in Nat /\ 1 .. last - first = 1 .. m /\ m <= OutputSize
    BY <1>1, <1>3
  <2>2. out \in [1 .. m -> PipelineRow]
    BY <1>4, <2>1
  <2> HIDE DEF out, m
  <2>3. out \in Seq(PipelineRow) /\ Len(out) = m
    BY <2>1, <2>2, SequenceOf
  <2> QED
    BY <2>1, <2>3 DEF Chunks, PipelineRows
<1>6. at \in CursorType /\ ~at.drained
  <2>1. CASE last >= total
    <3>1. 1 \in 1 .. OutputSize
      BY <1>1
    <3> QED
      BY <2>1, <3>1 DEF Fresh, CursorType
  <2>2. CASE ~(last >= total)
    <3>1. last < Len(in) * n
      BY <1>2, <1>3, <2>2 DEF total
    <3>2. last \div n \in 0 .. Len(in) - 1 /\ last % n \in 0 .. n - 1
      BY <1>1, <1>3, <3>1, QuotientBound
    <3>3. (last \div n) + 1 \in 1 .. OutputSize /\ (last % n) + 1 \in Nat \ {0}
      BY <1>1, <3>2
    <3> QED
      BY <2>2, <3>3 DEF Fresh, CursorType
  <2> QED
    BY <2>1, <2>2
<1> QED
  BY <1>5, <1>6 DEF CrossFrom, total, last

\* Called at a place in its input, it puts out the rows from there to the new place; a call
\* that does not get to the end puts some out, and has more than one build row.
LEMMA CrossFacts ==
    ASSUME NEW op \in Operator, op.kind = "cross", NEW in \in Chunks,
           NEW first \in 0 .. Len(in) * op.rows
    PROVE  LET call == CrossFrom(first, OutputSize, op.rows, in)
               all == Applied(in, op)
           IN  /\ call.at = Fresh => Rest(all, first) = call.rows
               /\ call.at # Fresh =>
                     /\ op.rows > 1 /\ call.rows # <<>>
                     /\ Place(call.at, op) <= Len(in) * op.rows
                     /\ Rest(all, first) = call.rows \o Rest(all, Place(call.at, op))
<1> DEFINE n == op.rows
           total == Len(in) * n
           last == IF first + OutputSize < total THEN first + OutputSize ELSE total
           out == [k \in 1 .. last - first |->
                      Append(in[((first + k - 1) \div n) + 1], ((first + k - 1) % n) + 1)]
           at == IF last >= total THEN Fresh
                 ELSE [Fresh EXCEPT !.probe = (last \div n) + 1, !.build = (last % n) + 1]
           all == Applied(in, op)
<1>1. in \in PipelineRows /\ Len(in) \in Nat /\ Len(in) <= OutputSize /\ OutputSize \in Nat \ {0}
        /\ n \in Nat
  BY LenProperties, BudgetAssumption DEF Chunks, PipelineRows, Operator
<1>2. total \in Nat /\ first \in 0 .. total
  BY <1>1
<1>3. /\ all \in PipelineRows /\ Len(all) = total
      /\ \A k \in 1 .. total : all[k] = Combination(in, n, k)
  BY <1>1, MappedType, AppliedCross
<1>4. CrossFrom(first, OutputSize, n, in) = [rows |-> out, at |-> at]
  BY DEF CrossFrom
<1>5. out \in PipelineRows
  <2>1. CrossFrom(first, OutputSize, n, in).rows \in Chunks
    BY <1>1, <1>2, CrossTypes
  <2> HIDE DEF out, at
  <2> QED
    BY <1>4, <2>1 DEF Chunks
<1> HIDE DEF total, all
<1>6. last \in first .. total /\ last - first \in Nat
  BY <1>1, <1>2
<1>7. Len(out) = last - first
  <2> HIDE DEF last
  <2> QED
    BY <1>6
<1>8. ASSUME NEW k \in 1 .. last - first PROVE out[k] = all[first + k]
  <2>1. first + k \in 1 .. total /\ (first + k) - 1 = first + k - 1
    BY <1>2, <1>6
  <2>2. out[k] = Combination(in, n, first + k)
    BY <2>1 DEF Combination
  <2> QED
    BY <1>3, <2>1, <2>2
<1> HIDE DEF out
<1>9. Rest(all, first) = out \o Rest(all, last)
  <2> HIDE DEF last
  <2>1. first \in 0 .. Len(all) /\ last \in first .. Len(all)
    BY <1>2, <1>3, <1>6
  <2> QED
    BY <1>3, <1>5, <1>7, <1>8, <2>1, RestSplit
<1>10. CASE last >= total
  <2>1. at = Fresh
    BY <1>10
  <2>2. last = total
    BY <1>2, <1>6, <1>10
  <2>3. Rest(all, last) = <<>>
    BY <1>2, <1>3, <2>2, RestFacts
  <2>4. out \o <<>> = out
    BY <1>5, ConcatEmptySeq DEF PipelineRows
  <2> HIDE DEF at, last
  <2>5. Rest(all, first) = out
    BY <1>9, <2>3, <2>4
  <2>6. CrossFrom(first, OutputSize, n, in).at = Fresh /\ CrossFrom(first, OutputSize, n, in).rows = out
    BY <1>4, <2>1
  <2> QED
    BY <2>5, <2>6 DEF all
<1>11. CASE ~(last >= total)
  <2>1. last = first + OutputSize /\ last < total /\ last # 0
    BY <1>1, <1>2, <1>11
  <2> HIDE DEF last
  <2>2. last \in Nat /\ last < Len(in) * n
    BY <1>2, <1>6, <2>1 DEF total
  <2>3. n # 0 /\ last \div n \in Nat /\ last % n \in Nat /\ last = (last \div n) * n + (last % n)
    <3>1. n # 0
      BY <1>1, <2>2, QuotientBound
    <3>2. ASSUME NEW a \in Nat
          PROVE  a \div n \in Nat /\ a % n \in Nat /\ a = (a \div n) * n + (a % n)
      <4>1. n \in Nat \ {0}
        BY <1>1, <3>1
      <4> HIDE DEF n
      <4>2. a \div n \in Nat /\ a % n \in 0 .. n - 1 /\ a = (a \div n) * n + (a % n)
        BY <4>1, DivisionFacts
      <4>3. a % n \in Nat
        BY <4>1, <4>2
      <4> QED
        BY <4>2, <4>3
    <3> QED
      BY <2>2, <3>1, <3>2
  <2>4. n > 1
    <3>1. Len(in) * 1 = Len(in)
      BY <1>1
    <3>2. n # 1
      <4>1. SUFFICES ASSUME n = 1 PROVE FALSE
        OBVIOUS
      <4>2. last < Len(in)
        BY <2>2, <3>1, <4>1
      <4>3. first \in Nat /\ Len(in) \in Nat /\ OutputSize \in Nat
              /\ Len(in) <= OutputSize /\ last = first + OutputSize
        BY <1>1, <1>2, <2>1
      <4> QED
        BY <4>2, <4>3
    <3>3. n \in Nat /\ n # 0
      BY <1>1, <2>3
    <3> HIDE DEF n
    <3> QED
      BY <3>2, <3>3
  <2>5. at.probe = (last \div n) + 1 /\ at.build = (last % n) + 1
    BY <1>11 DEF Fresh
  <2> HIDE DEF at
  <2>6. Place(at, op) = last
    <3>1. ASSUME NEW q \in Nat, NEW r \in Nat, at.probe = q + 1, at.build = r + 1
          PROVE  Place(at, op) = q * n + r
      <4>1. (q + 1) - 1 = q /\ q * n \in Nat
        BY <1>1
      <4> QED
        BY <3>1, <4>1 DEF Place
    <3> QED
      BY <2>3, <2>5, <3>1
  <2>7. out # <<>>
    <3>1. last - first > 0
      BY <1>1, <1>2, <2>1
    <3>2. Len(<<>>) = 0
      OBVIOUS
    <3> QED
      BY <1>7, <3>1, <3>2
  <2>8. at # Fresh
    BY <2>1, <2>6, FreshFacts
  <2>9. last <= Len(in) * n
    BY <1>2, <2>1 DEF total
  <2> QED
    BY <1>4, <1>9, <2>4, <2>6, <2>7, <2>8, <2>9 DEF all
<1> QED
  BY <1>10, <1>11

------------------------------------------------------------------------------
(* Types, for all plans. *)

TypeInv ==
    /\ ops \in Plans /\ source \in Sources
    /\ next_chunk \in 1 .. Len(source) + 1
    /\ chunk \in [Registers -> Chunks]
    /\ cursor \in [1 .. Len(ops) -> CursorType]
    /\ depth \in 0 .. Len(ops) + 1
    /\ chunks_done \in 0 .. ChunkBudget
    /\ depth >= 1 => chunks_done < ChunkBudget
    /\ sunk \in PipelineRows

LEMMA ConstantFacts ==
    ASSUME TypeInv
    PROVE  /\ ops \in Seq(Operator) /\ Len(ops) \in Nat
           /\ \A d \in 1 .. Len(ops) : ops[d] \in Operator
           /\ source \in Seq(PipelineRows) /\ Len(source) \in Nat
           /\ \A k \in 1 .. Len(source) : source[k] \in Chunks
<1>1. ops \in Seq(Operator)
  BY PlansAssumption DEF TypeInv
<1>2. Len(ops) \in Nat /\ \A d \in 1 .. Len(ops) : ops[d] \in Operator
  BY <1>1, LenProperties, ElementOfSeq
<1> DEFINE C == {rows \in Seq(PipelineRow) : Len(rows) \in 1 .. OutputSize}
<1>3. source \in Seq(C)
  BY SourcesAssumption DEF TypeInv
<1>4. C \subseteq Chunks /\ C \subseteq PipelineRows
  BY BudgetAssumption DEF Chunks, PipelineRows
<1> HIDE DEF C
<1>5. Len(source) \in Nat /\ \A k \in 1 .. Len(source) : source[k] \in Chunks
  BY <1>3, <1>4, LenProperties, ElementOfSeq
<1>6. source \in Seq(PipelineRows)
  BY <1>3, <1>4, SeqMonotonic
<1> QED
  BY <1>1, <1>2, <1>5, <1>6

LEMMA CallTypes ==
    ASSUME TypeInv, NEW d \in 1 .. Len(ops), NEW in \in Chunks
    PROVE  /\ Call(d, in).rows \in Chunks
           /\ Call(d, in).at \in CursorType /\ ~Call(d, in).at.drained
           /\ [Call(d, in).at EXCEPT !.drained = SetDrained(Call(d, in))] \in CursorType
<1>1. ops[d] \in Operator /\ cursor[d] \in CursorType
  BY ConstantFacts DEF TypeInv
<1>2. Call(d, in).rows \in Chunks /\ Call(d, in).at \in CursorType /\ ~Call(d, in).at.drained
  <2>1. CASE ops[d].kind = "cross"
    <3>1. Position(d) \in Nat /\ ops[d].rows \in Nat
      BY <1>1, PlaceType DEF Position, Place, Operator
    <3> DEFINE first == Position(d)
               n == ops[d].rows
    <3> HIDE DEF first, n
    <3>2. /\ CrossFrom(first, OutputSize, n, in).rows \in Chunks
          /\ CrossFrom(first, OutputSize, n, in).at \in CursorType
          /\ ~CrossFrom(first, OutputSize, n, in).at.drained
      BY <3>1, CrossTypes DEF first, n
    <3>3. Call(d, in) = CrossFrom(first, OutputSize, n, in)
      BY <2>1 DEF Call, CrossRows, first, n
    <3> QED
      BY <3>2, <3>3
  <2>2. CASE ops[d].kind # "cross"
    BY <1>1, <2>2, CopyFacts, FreshFacts
  <2> QED
    BY <2>1, <2>2
<1>3. SetDrained(Call(d, in)) \in BOOLEAN
  BY DEF SetDrained, Drained
<1>4. ASSUME NEW at \in CursorType, NEW b \in BOOLEAN
      PROVE  [at EXCEPT !.drained = b] \in CursorType
  BY DEF CursorType
<1> QED
  BY <1>2, <1>3, <1>4

LEMMA RegistersOfDepth ==
    ASSUME TypeInv, depth # 0
    PROVE  /\ InputRegister[depth] \in Registers /\ chunk[InputRegister[depth]] \in Chunks
           /\ OutputRegister(InputRegister[depth]) \in Registers
<1>1. depth \in Nat \ {0}
  BY ConstantFacts DEF TypeInv
<1> QED
  BY <1>1, RegisterFacts DEF TypeInv

LEMMA InitTypes == TaskInit => TypeInv
<1> SUFFICES ASSUME TaskInit PROVE TypeInv
  OBVIOUS
<1>1. ops \in Seq(Operator) /\ Len(ops) \in Nat
  BY PlansAssumption, LenProperties DEF TaskInit
<1>2. Len(source) \in Nat
  BY SourcesAssumption, LenProperties DEF TaskInit
<1>3. <<>> \in PipelineRows /\ <<>> \in Chunks
  BY BudgetAssumption DEF PipelineRows, Chunks
<1>4. Fresh \in CursorType
  BY BudgetAssumption DEF Fresh, CursorType
<1>5. chunk \in [Registers -> Chunks] /\ cursor \in [1 .. Len(ops) -> CursorType]
  BY <1>3, <1>4 DEF TaskInit
<1>6. next_chunk \in 1 .. Len(source) + 1 /\ depth \in 0 .. Len(ops) + 1
        /\ chunks_done \in 0 .. ChunkBudget /\ (depth >= 1 => chunks_done < ChunkBudget)
  BY <1>1, <1>2, BudgetAssumption DEF TaskInit
<1> QED
  BY <1>3, <1>5, <1>6 DEF TaskInit, TypeInv

\* NEED_MORE_INPUT.
LEMMA BackTypes ==
    ASSUME TypeInv, NEW d \in 1 .. Len(ops) + 1, depth = d, Back(d)
    PROVE  /\ depth' \in 0 .. Len(ops) + 1 /\ chunks_done' \in 0 .. ChunkBudget
           /\ depth' >= 1 => chunks_done' < ChunkBudget
<1>1. Len(ops) \in Nat /\ ChunkBudget \in Nat /\ chunks_done \in 0 .. ChunkBudget
        /\ chunks_done < ChunkBudget
  BY ConstantFacts, BudgetAssumption DEF TypeInv
<1> QED
  BY <1>1 DEF Back

LEMMA StepTypes == TypeInv /\ [TaskNext]_taskVars => TypeInv'
<1> SUFFICES ASSUME TypeInv, [TaskNext]_taskVars PROVE TypeInv'
  OBVIOUS
<1>0. Len(ops) \in Nat /\ Len(source) \in Nat /\ ChunkBudget \in Nat \ {0}
  BY ConstantFacts, BudgetAssumption
<1>1. CASE GetData
  <2>1. source[next_chunk] \in Chunks
    <3>1. next_chunk \in 1 .. Len(source)
      BY <1>0, <1>1 DEF TypeInv, GetData
    <3> QED
      BY <3>1, ConstantFacts
  <2>2. chunk' \in [Registers -> Chunks]
    BY <1>1, <2>1 DEF TypeInv, GetData
  <2>3. next_chunk' \in 1 .. Len(source) + 1 /\ depth' \in 0 .. Len(ops) + 1
          /\ chunks_done' < ChunkBudget
    BY <1>0, <1>1 DEF TypeInv, GetData
  <2> QED
    BY <1>1, <2>2, <2>3 DEF TypeInv, GetData
<1>2. CASE Yield
  BY <1>0, <1>2 DEF TypeInv, Yield
<1>3. ASSUME NEW d \in 1 .. Len(ops), AskForMore(d) PROVE TypeInv'
  <2>1. d \in 1 .. Len(ops) + 1 /\ depth = d /\ Back(d) /\ depth # 0
    BY <1>0, <1>3 DEF AskForMore
  <2>2. cursor' \in [1 .. Len(ops) -> CursorType]
    BY <1>3 DEF TypeInv, AskForMore, CursorType
  <2>3. chunk' \in [Registers -> Chunks]
    <3>1. <<>> \in Chunks
      BY BudgetAssumption DEF Chunks, PipelineRows
    <3> QED
      BY <1>3, <2>1, <3>1, RegistersOfDepth DEF TypeInv, AskForMore
  <2> QED
    BY <1>3, <2>1, <2>2, <2>3, BackTypes DEF TypeInv, AskForMore
<1>4. ASSUME NEW d \in 1 .. Len(ops), ExecuteOperator(d) PROVE TypeInv'
  <2> DEFINE call == Call(d, chunk[InputRegister[d]])
  <2>1. d \in 1 .. Len(ops) + 1 /\ depth = d /\ depth # 0
    BY <1>0, <1>4 DEF ExecuteOperator
  <2>2. /\ call.rows \in Chunks
        /\ [call.at EXCEPT !.drained = SetDrained(call)] \in CursorType
    BY <2>1, RegistersOfDepth, CallTypes
  <2>3. /\ cursor' = [cursor EXCEPT ![d] = [call.at EXCEPT !.drained = SetDrained(call)]]
        /\ chunk' = [chunk EXCEPT ![OutputRegister(InputRegister[d])] = call.rows]
        /\ IF call.rows = <<>> THEN Back(d) ELSE depth' = d + 1 /\ chunks_done' = chunks_done
        /\ UNCHANGED <<ops, source, next_chunk, sunk>>
    BY <1>4 DEF ExecuteOperator
  <2> HIDE DEF call
  <2>4. cursor' \in [1 .. Len(ops) -> CursorType] /\ chunk' \in [Registers -> Chunks]
    BY <2>1, <2>2, <2>3, RegistersOfDepth DEF TypeInv
  <2>5. /\ depth' \in 0 .. Len(ops) + 1 /\ chunks_done' \in 0 .. ChunkBudget
        /\ depth' >= 1 => chunks_done' < ChunkBudget
    <3>1. CASE call.rows = <<>>
      BY <2>1, <2>3, <3>1, BackTypes
    <3>2. CASE call.rows # <<>>
      BY <1>0, <2>1, <2>3, <3>2 DEF TypeInv
    <3> QED
      BY <3>1, <3>2
  <2> QED
    BY <2>3, <2>4, <2>5 DEF TypeInv
<1>5. CASE SinkChunk
  <2>1. Len(ops) + 1 \in 1 .. Len(ops) + 1 /\ depth = Len(ops) + 1 /\ depth # 0 /\ Back(depth)
    BY <1>0, <1>5 DEF SinkChunk
  <2>2. chunk[InputRegister[depth]] \in PipelineRows
    BY <2>1, RegistersOfDepth DEF Chunks
  <2>3. sunk' \in PipelineRows
    BY <1>5, <2>2, RowsConcat DEF TypeInv, SinkChunk
  <2> QED
    BY <1>5, <2>1, <2>3, BackTypes DEF TypeInv, SinkChunk
<1>6. CASE UNCHANGED taskVars
  BY <1>6 DEF TypeInv, taskVars
<1> QED
  BY <1>1, <1>2, <1>3, <1>4, <1>5, <1>6 DEF TaskNext

\* The chunks never hold more than they have room for, and cursors stay in their chunks,
\* whatever the plan is.
THEOREM TaskTypes == TaskSpec => []TaskTypeOK
<1>1. TypeInv => TaskTypeOK
  BY DEF TypeInv, TaskTypeOK, Chunks, CursorType
<1> QED
  BY <1>1, InitTypes, StepTypes, PTL DEF TaskSpec

------------------------------------------------------------------------------
(* Cursors and the account. *)

Used == [Fresh EXCEPT !.drained = TRUE]

LEMMA UsedFacts == [Used EXCEPT !.drained = FALSE] = Fresh
<1>1. ASSUME NEW c \in CursorType, NEW b \in BOOLEAN, ~c.drained
      PROVE  [[c EXCEPT !.drained = b] EXCEPT !.drained = FALSE] = c
  <2>1. ASSUME NEW a \in CursorType PROVE [a EXCEPT !.drained = FALSE] \in CursorType
    BY DEF CursorType
  <2>2. [c EXCEPT !.drained = b] \in CursorType
    BY DEF CursorType
  <2> QED
    BY <1>1, <2>1, <2>2 DEF CursorType
<1>2. Fresh \in CursorType /\ ~Fresh.drained
  BY BudgetAssumption DEF Fresh, CursorType
<1> HIDE DEF Fresh
<1> QED
  BY <1>1, <1>2 DEF Used

\* The cursors behind the running operator are fresh; one before it that is not done with
\* its input belongs to a cross product that puts out more than a chunk.
CursorsInv ==
    \A e \in 1 .. Len(ops) :
        /\ e > depth => cursor[e] = Fresh
        /\ cursor[e].drained => cursor[e] = Used
        /\ ops[e].kind # "cross" => cursor[e].probe = 1 /\ cursor[e].build = 1
        /\ e <= depth /\ ~cursor[e].drained /\ ops[e].kind = "cross" =>
              Place(cursor[e], ops[e]) <= Len(chunk[InputRegister[e]]) * ops[e].rows
        /\ e < depth /\ ~cursor[e].drained => ops[e].kind = "cross" /\ ops[e].rows > 1

\* What an operator still puts out for its input, and what the running one or the sink is
\* about to make of its own.
Left(e) == Unread(cursor[e], chunk[InputRegister[e]], ops[e])
Ahead == IF depth = Len(ops) + 1 THEN chunk[InputRegister[depth]]
         ELSE Push(ops)[depth + 1][Left(depth)]

\* todo[e] is what is still to reach the sink once the operators after e have used
\* everything they have: the rest of e, then what comes after it from the operators before.
Account(todo) ==
    /\ todo[0] = Push(ops)[1][FlattenSeq(SubSeq(source, next_chunk, Len(source)))]
    /\ \A e \in 1 .. Len(ops) : e < depth => todo[e] = Push(ops)[e + 1][Left(e)] \o todo[e - 1]
    /\ Reference = sunk \o (IF depth = 0 THEN todo[0] ELSE Ahead \o todo[depth - 1])
AccountInv == \E todo \in [0 .. Len(ops) -> PipelineRows] : Account(todo)

FlowInv == TypeInv /\ CursorsInv /\ AccountInv

\* The operator is called in a place of its input, or anew.
InPlace(at, in, op) ==
    /\ ~at.drained
    /\ op.kind # "cross" => at.probe = 1 /\ at.build = 1
    /\ op.kind = "cross" => Place(at, op) <= Len(in) * op.rows

LEMMA CallOutcome ==
    ASSUME TypeInv, NEW d \in 1 .. Len(ops), NEW in \in Chunks, InPlace(cursor[d], in, ops[d])
    PROVE  LET call == Call(d, in)
               unread == Unread(cursor[d], in, ops[d])
           IN  \/ call.at = Fresh /\ unread = call.rows
               \/ /\ call.at # Fresh /\ call.rows # <<>>
                  /\ ops[d].kind = "cross" /\ ops[d].rows > 1
                  /\ Place(call.at, ops[d]) <= Len(in) * ops[d].rows
                  /\ unread = call.rows \o Unread(call.at, in, ops[d])
<1> DEFINE op == ops[d]
           at == cursor[d]
           first == Place(at, op)
           all == Applied(in, op)
           call == Call(d, in)
<1>1. op \in Operator /\ at \in CursorType /\ in \in PipelineRows
  BY ConstantFacts DEF TypeInv, Chunks
<1>2. first \in Nat
  BY <1>1, PlaceType
<1>3. Unread(at, in, op) = Rest(all, first)
  BY DEF Unread, InPlace
<1>4. CASE op.kind # "cross"
  <2>1. first = 0
    <3>1. at.probe = 1 /\ at.build = 1 /\ op.rows \in Nat
      BY <1>1, <1>4 DEF InPlace, Operator
    <3> HIDE DEF at, op
    <3> QED
      BY <3>1 DEF Place
  <2>2. call = [rows |-> all, at |-> Fresh] /\ all \in PipelineRows
    BY <1>1, <1>4, CopyFacts DEF Chunks
  <2>3. Rest(all, 0) = all
    <3>1. 0 \in 0 .. Len(all)
      BY <2>2, LenProperties DEF PipelineRows
    <3> QED
      BY <2>2, <3>1, RestFacts
  <2> QED
    BY <1>3, <2>1, <2>2, <2>3
<1>5. CASE op.kind = "cross"
  <2>1. call = CrossFrom(first, OutputSize, op.rows, in)
    BY <1>5 DEF Call, CrossRows, Position, Place
  <2>2. Len(in) * op.rows \in Nat /\ first \in 0 .. Len(in) * op.rows
    <3>1. Len(in) \in Nat /\ op.rows \in Nat
      BY <1>1, LenProperties DEF PipelineRows, Operator
    <3>2. Len(in) * op.rows \in Nat
      BY <3>1
    <3> QED
      BY <1>2, <1>5, <3>2 DEF InPlace
  <2>3. ~call.at.drained
    BY CallTypes
  <2>4. Unread(call.at, in, op) = Rest(all, Place(call.at, op))
    BY <2>3 DEF Unread
  <2> HIDE DEF op, first, at
  <2>5. /\ call.at = Fresh => Rest(all, first) = call.rows
        /\ call.at # Fresh =>
              /\ op.rows > 1 /\ call.rows # <<>>
              /\ Place(call.at, op) <= Len(in) * op.rows
              /\ Rest(all, first) = call.rows \o Rest(all, Place(call.at, op))
    BY <1>1, <1>5, <2>1, <2>2, CrossFacts
  <2> HIDE DEF call, all
  <2> QED
    BY <1>3, <1>5, <2>4, <2>5 DEF op, at, call
<1> QED
  BY <1>4, <1>5

\* A call puts out a part of what the operator owes and leaves the rest to the next one.
LEMMA CallConserves ==
    ASSUME TypeInv, NEW d \in 1 .. Len(ops), NEW in \in Chunks, InPlace(cursor[d], in, ops[d])
    PROVE  LET call == Call(d, in)
               next == [call.at EXCEPT !.drained = SetDrained(call)]
               unread == Unread(cursor[d], in, ops[d])
           IN  /\ call.rows = <<>> => next = Fresh /\ unread = <<>>
               /\ call.rows # <<>> => unread = call.rows \o Unread(next, in, ops[d])
               /\ next.drained => next = Used
               /\ ops[d].kind # "cross" => next.probe = 1 /\ next.build = 1
               /\ ~next.drained /\ call.rows # <<>> =>
                     /\ ops[d].kind = "cross" /\ ops[d].rows > 1
                     /\ Place(next, ops[d]) <= Len(in) * ops[d].rows
<1> DEFINE call == Call(d, in)
           next == [call.at EXCEPT !.drained = SetDrained(call)]
           unread == Unread(cursor[d], in, ops[d])
<1>1. call.at \in CursorType /\ ~call.at.drained /\ call.rows \in PipelineRows
  BY CallTypes DEF Chunks
<1>2. \/ call.at = Fresh /\ unread = call.rows
      \/ /\ call.at # Fresh /\ call.rows # <<>>
         /\ ops[d].kind = "cross" /\ ops[d].rows > 1
         /\ Place(call.at, ops[d]) <= Len(in) * ops[d].rows
         /\ unread = call.rows \o Unread(call.at, in, ops[d])
  BY CallOutcome
<1>3. SetDrained(call) = (call.at = Fresh /\ call.rows # <<>>)
  BY DEF SetDrained, Drained
<1>4. ASSUME NEW c \in CursorType, ~c.drained
      PROVE  [c EXCEPT !.drained = FALSE] = c
  BY <1>4 DEF CursorType
<1> HIDE DEF call, unread
<1>5. CASE call.at = Fresh /\ call.rows = <<>>
  <2>1. SetDrained(call) = FALSE
    BY <1>3, <1>5
  <2>2. next = Fresh
    BY <1>1, <1>4, <1>5, <2>1
  <2>3. Fresh.probe = 1 /\ Fresh.build = 1 /\ ~Fresh.drained
    BY DEF Fresh
  <2> HIDE DEF next
  <2> QED
    BY <1>2, <1>5, <2>2, <2>3 DEF next, call, unread
<1>6. CASE call.at = Fresh /\ call.rows # <<>>
  <2>1. SetDrained(call) = TRUE
    BY <1>3, <1>6
  <2>2. next = Used
    BY <1>6, <2>1 DEF Used
  <2>3. Used.probe = 1 /\ Used.build = 1 /\ Used.drained
    BY DEF Used, Fresh
  <2>4. Unread(Used, in, ops[d]) = <<>> /\ call.rows \o <<>> = call.rows
    BY <1>1, <2>3, ConcatEmptySeq DEF Unread, PipelineRows
  <2> HIDE DEF next
  <2> QED
    BY <1>2, <1>6, <2>2, <2>3, <2>4 DEF next, call, unread
<1>7. CASE call.at # Fresh
  <2>1. SetDrained(call) = FALSE
    BY <1>3, <1>7
  <2>2. next = call.at
    BY <1>1, <1>4, <2>1
  <2> HIDE DEF next
  <2> QED
    BY <1>1, <1>2, <1>7, <2>2 DEF next, call, unread
<1> QED
  BY <1>5, <1>6, <1>7

LEMMA UnreadType ==
    ASSUME NEW op \in Operator, NEW at \in CursorType, NEW in \in PipelineRows
    PROVE  Unread(at, in, op) \in PipelineRows
<1> DEFINE all == Applied(in, op)
           p == Place(at, op)
<1>1. all \in PipelineRows /\ Len(all) \in Nat /\ p \in Nat
  BY MappedType, PlaceType, LenProperties DEF PipelineRows
<1>2. <<>> \in PipelineRows
  BY DEF PipelineRows
<1> HIDE DEF all, p
<1>3. \A i \in p + 1 .. Len(all) : all[i] \in PipelineRow
  <2>1. \A i \in p + 1 .. Len(all) : i \in 1 .. Len(all)
    BY <1>1
  <2> QED
    BY <1>1, <2>1, ElementOfSeq DEF PipelineRows
<1>4. Rest(all, p) \in PipelineRows
  <2>1. p + 1 \in Int /\ Len(all) \in Int
    BY <1>1
  <2> QED
    BY <1>3, <2>1, SubSeqProperties DEF Rest, PipelineRows
<1> QED
  BY <1>2, <1>4 DEF Unread, all, p

\* An operator that gets a chunk owes the sink what the rest of the plan makes of it.
LEMMA Entered ==
    ASSUME NEW plan \in Seq(Operator), NEW e \in 1 .. Len(plan) + 1, NEW rows \in PipelineRows
    PROVE  (IF e = Len(plan) + 1 THEN rows ELSE Push(plan)[e + 1][Unread(Fresh, rows, plan[e])])
             = Push(plan)[e][rows]
<1>1. Len(plan) \in Nat
  BY LenProperties
<1>2. CASE e = Len(plan) + 1
  BY <1>2, PushFacts
<1>3. CASE e # Len(plan) + 1
  <2>1. e \in 1 .. Len(plan) /\ plan[e] \in Operator
    BY <1>1, <1>3, ElementOfSeq
  <2>2. Unread(Fresh, rows, plan[e]) = Rest(Applied(rows, plan[e]), 0)
    BY <2>1, FreshFacts DEF Unread
  <2>3. Rest(Applied(rows, plan[e]), 0) = Applied(rows, plan[e])
    <3>1. Applied(rows, plan[e]) \in PipelineRows
      BY <2>1, MappedType
    <3>2. 0 \in 0 .. Len(Applied(rows, plan[e]))
      BY <3>1, LenProperties DEF PipelineRows
    <3> QED
      BY <3>1, <3>2, RestFacts
  <2>4. Push(plan)[e][rows] = Push(plan)[e + 1][Applied(rows, plan[e])]
    BY <2>1, PushFacts
  <2> QED
    BY <1>3, <2>2, <2>3, <2>4
<1> QED
  BY <1>2, <1>3

\* What the running operator writes is not the input of an operator before it that is not
\* done with its own.
LEMMA KeptBelow ==
    ASSUME TypeInv, CursorsInv, ~InputIsOverwritten(ops),
           NEW d \in 1 .. Len(ops), depth = d, ops' = ops,
           NEW at, cursor' = [cursor EXCEPT ![d] = at],
           NEW rows, chunk' = [chunk EXCEPT ![OutputRegister(InputRegister[d])] = rows]
    PROVE  /\ \A e \in 1 .. Len(ops) : e < d =>
                  /\ cursor'[e] = cursor[e] /\ Left(e)' = Left(e)
                  /\ ~cursor[e].drained => chunk'[InputRegister[e]] = chunk[InputRegister[e]]
           /\ \A e \in 1 .. Len(ops) : e # d => cursor'[e] = cursor[e]
           /\ cursor'[d] = at
           /\ chunk'[InputRegister[d]] = chunk[InputRegister[d]]
           /\ chunk'[InputRegister[d + 1]] = rows
<1>1. Len(ops) \in Nat /\ d \in Nat \ {0}
  BY ConstantFacts
<1>2. /\ \A e \in 1 .. Len(ops) : e # d => cursor'[e] = cursor[e]
      /\ cursor'[d] = at
  BY DEF TypeInv
<1>3. /\ chunk'[InputRegister[d]] = chunk[InputRegister[d]]
      /\ chunk'[InputRegister[d + 1]] = rows
      /\ chunk'["src_chunk"] = chunk["src_chunk"]
  <2>1. /\ InputRegister[d] \in Registers /\ "src_chunk" \in Registers
        /\ OutputRegister(InputRegister[d]) \in Registers
        /\ OutputRegister(InputRegister[d]) # InputRegister[d]
        /\ OutputRegister(InputRegister[d]) # "src_chunk"
        /\ InputRegister[d + 1] = OutputRegister(InputRegister[d])
    BY <1>1, RegisterFacts DEF Registers
  <2> QED
    BY <2>1 DEF TypeInv
<1>4. ASSUME NEW e \in 1 .. Len(ops), e < d, ~cursor[e].drained
      PROVE  chunk'[InputRegister[e]] = chunk[InputRegister[e]]
  <2>1. ops[e].kind = "cross" /\ ops[e].rows > 1
    BY <1>4 DEF CursorsInv
  <2>2. e \notin 2 .. Len(ops) - 1
    BY <2>1 DEF InputIsOverwritten
  <2>3. e = 1
    BY <1>1, <1>4, <2>2
  <2> QED
    BY <1>3, <2>3, RegisterFacts
<1>5. ASSUME NEW e \in 1 .. Len(ops), e < d PROVE cursor'[e] = cursor[e] /\ Left(e)' = Left(e)
  <2>1. cursor'[e] = cursor[e]
    BY <1>1, <1>2, <1>5
  <2>2. CASE cursor[e].drained
    BY <2>1, <2>2 DEF Left, Unread
  <2>3. CASE ~cursor[e].drained
    <3>1. chunk'[InputRegister[e]] = chunk[InputRegister[e]]
      BY <1>4, <1>5, <2>3
    <3> QED
      BY <2>1, <3>1 DEF Left
  <2> QED
    BY <2>1, <2>2, <2>3
<1> QED
  BY <1>2, <1>3, <1>4, <1>5

LEMMA RunningIsInPlace ==
    ASSUME TypeInv, CursorsInv, NEW d \in 1 .. Len(ops), depth = d, ~cursor[d].drained
    PROVE  InPlace(cursor[d], chunk[InputRegister[d]], ops[d])
<1>1. d <= depth
  BY ConstantFacts
<1> QED
  BY <1>1 DEF CursorsInv, InPlace

------------------------------------------------------------------------------
(* The cursors are kept. *)

LEMMA CursorsKept ==
    ASSUME TypeInv, CursorsInv, ~InputIsOverwritten(ops), TypeInv', [TaskNext]_taskVars
    PROVE  CursorsInv'
<1>0. /\ Len(ops) \in Nat /\ depth \in 0 .. Len(ops) + 1
      /\ \A e \in 1 .. Len(ops) : ops[e] \in Operator
  BY ConstantFacts DEF TypeInv
<1>1. CASE GetData
  <2>1. ops' = ops /\ cursor' = cursor /\ depth = 0 /\ depth' = 1
    BY <1>1 DEF GetData
  <2>2. ASSUME NEW e \in 1 .. Len(ops)
        PROVE  /\ cursor[e] = Fresh /\ ~Fresh.drained /\ Fresh.probe = 1 /\ Fresh.build = 1
               /\ 0 <= Len(chunk'[InputRegister[e]]) * ops[e].rows /\ Place(Fresh, ops[e]) = 0
    <3>1. cursor[e] = Fresh
      BY <1>0, <2>1 DEF CursorsInv
    <3>2. Place(Fresh, ops[e]) = 0 /\ ops[e].rows \in Nat
      BY <1>0, FreshFacts DEF Operator
    <3>3. Len(chunk'[InputRegister[e]]) \in Nat
      <4>1. e \in Nat \ {0}
        BY <1>0
      <4>2. chunk'[InputRegister[e]] \in Chunks
        BY <4>1, RegisterFacts DEF TypeInv
      <4> QED
        BY <4>2, LenProperties DEF Chunks, PipelineRows
    <3>4. Len(chunk'[InputRegister[e]]) * ops[e].rows \in Nat
      BY <3>2, <3>3
    <3>5. ~Fresh.drained /\ Fresh.probe = 1 /\ Fresh.build = 1
      BY DEF Fresh
    <3> QED
      BY <3>1, <3>2, <3>4, <3>5
  <2>3. \A e \in 1 .. Len(ops) : ~(e < 1)
    BY <1>0
  <2> QED
    BY <2>1, <2>2, <2>3 DEF CursorsInv
<1>2. CASE Yield
  BY <1>2 DEF CursorsInv, Yield
<1>3. ASSUME NEW d \in 1 .. Len(ops), AskForMore(d) PROVE CursorsInv'
  <2>1. /\ depth = d /\ cursor[d].drained /\ depth' = d - 1 /\ ops' = ops
        /\ cursor' = [cursor EXCEPT ![d].drained = FALSE]
        /\ chunk' = [chunk EXCEPT ![OutputRegister(InputRegister[d])] = <<>>]
    BY <1>3 DEF AskForMore, Back
  <2>2. cursor' = [cursor EXCEPT ![d] = Fresh]
    <3>1. cursor[d] = Used
      BY <2>1 DEF CursorsInv
    <3>2. [cursor[d] EXCEPT !.drained = FALSE] = Fresh
      BY <3>1, UsedFacts
    <3>3. [cursor EXCEPT ![d].drained = FALSE]
            = [cursor EXCEPT ![d] = [cursor[d] EXCEPT !.drained = FALSE]]
      OBVIOUS
    <3> QED
      BY <2>1, <3>2, <3>3
  <2>3. /\ \A e \in 1 .. Len(ops) : e # d => cursor'[e] = cursor[e]
        /\ cursor'[d] = Fresh
        /\ \A e \in 1 .. Len(ops) : e < d /\ ~cursor[e].drained =>
               chunk'[InputRegister[e]] = chunk[InputRegister[e]]
    BY <2>1, <2>2, KeptBelow
  <2>4. Fresh.probe = 1 /\ Fresh.build = 1 /\ ~Fresh.drained
    BY DEF Fresh
  <2>5. ASSUME NEW e \in 1 .. Len(ops), e # d
        PROVE  /\ e > depth' => cursor[e] = Fresh
               /\ cursor[e].drained => cursor[e] = Used
               /\ ops[e].kind # "cross" => cursor[e].probe = 1 /\ cursor[e].build = 1
               /\ e <= depth' /\ ~cursor[e].drained /\ ops[e].kind = "cross" =>
                     Place(cursor[e], ops[e]) <= Len(chunk'[InputRegister[e]]) * ops[e].rows
               /\ e < depth' /\ ~cursor[e].drained => ops[e].kind = "cross" /\ ops[e].rows > 1
    <3>1. /\ e > depth' => e > depth
          /\ e <= depth' => e < d /\ e <= depth
          /\ e < depth' => e < depth
      BY <1>0, <2>1, <2>5
    <3> QED
      BY <2>3, <3>1 DEF CursorsInv
  <2>6. ~(d <= depth') /\ ~(d < depth')
    BY <1>0, <2>1
  <2> HIDE DEF Place
  <2>7. ASSUME NEW e \in 1 .. Len(ops)
        PROVE  /\ e > depth' => cursor'[e] = Fresh
               /\ cursor'[e].drained => cursor'[e] = Used
               /\ ops[e].kind # "cross" => cursor'[e].probe = 1 /\ cursor'[e].build = 1
               /\ e <= depth' /\ ~cursor'[e].drained /\ ops[e].kind = "cross" =>
                     Place(cursor'[e], ops[e]) <= Len(chunk'[InputRegister[e]]) * ops[e].rows
               /\ e < depth' /\ ~cursor'[e].drained => ops[e].kind = "cross" /\ ops[e].rows > 1
    <3>1. CASE e = d
      BY <2>3, <2>4, <2>6, <3>1
    <3>2. CASE e # d
      BY <2>3, <2>5, <3>2
    <3> QED
      BY <3>1, <3>2
  <2> QED
    BY <2>1, <2>7 DEF CursorsInv
<1>4. ASSUME NEW d \in 1 .. Len(ops), ExecuteOperator(d) PROVE CursorsInv'
  <2> DEFINE in == chunk[InputRegister[d]]
             call == Call(d, in)
             next == [call.at EXCEPT !.drained = SetDrained(call)]
  <2>1. /\ depth = d /\ ~cursor[d].drained /\ ops' = ops
        /\ cursor' = [cursor EXCEPT ![d] = next]
        /\ chunk' = [chunk EXCEPT ![OutputRegister(InputRegister[d])] = call.rows]
        /\ call.rows = <<>> => depth' = d - 1
        /\ call.rows # <<>> => depth' = d + 1
    BY <1>4 DEF ExecuteOperator, Back
  <2>2. in \in Chunks /\ InPlace(cursor[d], in, ops[d])
    <3>1. depth # 0
      BY <1>0, <2>1
    <3> QED
      BY <2>1, <3>1, RegistersOfDepth, RunningIsInPlace
  <2>3. /\ call.rows = <<>> => next = Fresh
        /\ next.drained => next = Used
        /\ ops[d].kind # "cross" => next.probe = 1 /\ next.build = 1
        /\ ~next.drained /\ call.rows # <<>> =>
              /\ ops[d].kind = "cross" /\ ops[d].rows > 1
              /\ Place(next, ops[d]) <= Len(in) * ops[d].rows
    BY <2>2, CallConserves
  <2> HIDE DEF next, call
  <2>4. /\ \A e \in 1 .. Len(ops) : e # d => cursor'[e] = cursor[e]
        /\ cursor'[d] = next /\ chunk'[InputRegister[d]] = in
        /\ \A e \in 1 .. Len(ops) : e < d /\ ~cursor[e].drained =>
               chunk'[InputRegister[e]] = chunk[InputRegister[e]]
    BY <2>1, KeptBelow
  <2>5. Fresh.probe = 1 /\ Fresh.build = 1 /\ ~Fresh.drained
    BY DEF Fresh
  <2> HIDE DEF in
  <2>6. ASSUME NEW e \in 1 .. Len(ops)
        PROVE  Place(Fresh, ops[e]) <= Len(chunk'[InputRegister[e]]) * ops[e].rows
    <3>1. e \in Nat \ {0} /\ ops[e].rows \in Nat /\ Place(Fresh, ops[e]) = 0
      BY <1>0, FreshFacts DEF Operator
    <3>2. chunk'[InputRegister[e]] \in PipelineRows
      BY <3>1, RegisterFacts DEF TypeInv, Chunks
    <3>3. Len(chunk'[InputRegister[e]]) \in Nat
      BY <3>2, LenProperties DEF PipelineRows
    <3>4. Len(chunk'[InputRegister[e]]) * ops[e].rows \in Nat
      BY <3>1, <3>3
    <3> QED
      BY <3>1, <3>4
  <2>7. ASSUME NEW e \in 1 .. Len(ops)
        PROVE  /\ e > depth' => cursor'[e] = Fresh
               /\ cursor'[e].drained => cursor'[e] = Used
               /\ ops[e].kind # "cross" => cursor'[e].probe = 1 /\ cursor'[e].build = 1
               /\ e <= depth' /\ ~cursor'[e].drained /\ ops[e].kind = "cross" =>
                     Place(cursor'[e], ops[e]) <= Len(chunk'[InputRegister[e]]) * ops[e].rows
               /\ e < depth' /\ ~cursor'[e].drained => ops[e].kind = "cross" /\ ops[e].rows > 1
    <3>1. CASE e = d
      <4>1. CASE call.rows = <<>>
        <5>1. cursor'[e] = Fresh /\ ~(e <= depth') /\ ~(e < depth')
          BY <1>0, <2>1, <2>3, <2>4, <3>1, <4>1
        <5> QED
          BY <2>3, <2>4, <2>5, <3>1, <4>1, <5>1
      <4>2. CASE call.rows # <<>>
        <5>1. cursor'[e] = next /\ ~(e > depth') /\ chunk'[InputRegister[e]] = in
          BY <1>0, <2>1, <2>4, <3>1, <4>2
        <5> QED
          BY <2>3, <3>1, <4>2, <5>1
      <4> QED
        BY <4>1, <4>2
    <3>2. CASE e > d
      <4>1. cursor'[e] = Fresh /\ ~(e < depth')
        <5>1. e # d /\ e > depth /\ ~(e < depth')
          BY <1>0, <2>1, <3>2
        <5> QED
          BY <2>4, <5>1 DEF CursorsInv
      <4> QED
        BY <2>5, <2>6, <4>1
    <3>3. CASE e < d
      <4>1. e # d /\ e <= depth /\ e < depth /\ ~(e > depth')
        BY <1>0, <2>1, <3>3
      <4>2. /\ cursor'[e] = cursor[e]
            /\ ~cursor[e].drained => chunk'[InputRegister[e]] = chunk[InputRegister[e]]
        BY <2>4, <3>3, <4>1
      <4> QED
        BY <4>1, <4>2 DEF CursorsInv
    <3>4. e < d \/ e = d \/ e > d
      BY <1>0
    <3> QED
      BY <3>1, <3>2, <3>3, <3>4
  <2> QED
    BY <2>1, <2>7 DEF CursorsInv
<1>5. CASE SinkChunk
  <2>1. /\ ops' = ops /\ cursor' = cursor /\ chunk' = chunk
        /\ depth = Len(ops) + 1 /\ depth' = depth - 1
    BY <1>5 DEF SinkChunk, Back
  <2>2. \A e \in 1 .. Len(ops) : ~(e > depth') /\ e <= depth /\ e < depth
    BY <1>0, <2>1
  <2> QED
    BY <2>1, <2>2 DEF CursorsInv
<1>6. CASE UNCHANGED taskVars
  BY <1>6 DEF CursorsInv, taskVars
<1> QED
  BY <1>1, <1>2, <1>3, <1>4, <1>5, <1>6 DEF TaskNext

------------------------------------------------------------------------------
(* The account is kept. *)

LEMMA SourceFacts ==
    ASSUME NEW chunks \in Seq(PipelineRows), NEW n \in 1 .. Len(chunks) + 1
    PROVE  /\ FlattenSeq(SubSeq(chunks, n, Len(chunks))) \in PipelineRows
           /\ n <= Len(chunks) => FlattenSeq(SubSeq(chunks, n, Len(chunks)))
                                    = chunks[n] \o FlattenSeq(SubSeq(chunks, n + 1, Len(chunks)))
           /\ n > Len(chunks) => FlattenSeq(SubSeq(chunks, n, Len(chunks))) = <<>>
<1>1. Len(chunks) \in Nat
  BY LenProperties
<1>2. ASSUME NEW m \in 1 .. Len(chunks) + 1
      PROVE  SubSeq(chunks, m, Len(chunks)) \in Seq(PipelineRows)
  <2>1. \A i \in m .. Len(chunks) : chunks[i] \in PipelineRows
    <3>1. \A i \in m .. Len(chunks) : i \in 1 .. Len(chunks)
      BY <1>1
    <3> QED
      BY <3>1, ElementOfSeq
  <2>2. m \in Int /\ Len(chunks) \in Int
    BY <1>1
  <2> QED
    BY <2>1, <2>2, SubSeqProperties
<1>3. ASSUME NEW m \in 1 .. Len(chunks) + 1
      PROVE  FlattenSeq(SubSeq(chunks, m, Len(chunks))) \in PipelineRows
  BY <1>2, FlattenType DEF PipelineRows
<1>4. CASE n <= Len(chunks)
  <2>1. /\ n \in 1 .. Len(chunks) /\ n + 1 \in 1 .. Len(chunks) + 1
        /\ Len(chunks) \in n .. Len(chunks) /\ ~(n > Len(chunks))
    BY <1>1, <1>4
  <2>2. chunks[n] \in PipelineRows
    BY <2>1, ElementOfSeq
  <2>3. SubSeq(chunks, n, Len(chunks)) = <<chunks[n]>> \o SubSeq(chunks, n + 1, Len(chunks))
    BY <2>1, SubSeqRecursiveFirst
  <2>4. <<chunks[n]>> \in Seq(PipelineRows)
    BY <2>2
  <2>5. FlattenSeq(<<chunks[n]>>) = chunks[n]
    <3>1. <<>> \in Seq(PipelineRows) /\ Append(<<>>, chunks[n]) = <<chunks[n]>>
      BY <2>2
    <3>2. FlattenSeq(Append(<<>>, chunks[n])) = FlattenSeq(<<>>) \o chunks[n]
      BY <2>2, <3>1, FlattenAppend DEF PipelineRows
    <3> QED
      BY <2>2, <3>1, <3>2, FlattenEmpty, ConcatEmptySeq DEF PipelineRows
  <2>6. SubSeq(chunks, n + 1, Len(chunks)) \in Seq(PipelineRows)
    BY <1>2, <2>1
  <2>7. FlattenSeq(<<chunks[n]>> \o SubSeq(chunks, n + 1, Len(chunks)))
          = FlattenSeq(<<chunks[n]>>) \o FlattenSeq(SubSeq(chunks, n + 1, Len(chunks)))
    BY <2>4, <2>6, FlattenConcat DEF PipelineRows
  <2> QED
    BY <1>3, <2>1, <2>3, <2>5, <2>7
<1>5. CASE n > Len(chunks)
  <2>1. SubSeq(chunks, n, Len(chunks)) = <<>> /\ ~(n <= Len(chunks))
    BY <1>1, <1>5, SubSeqEmpty
  <2> QED
    BY <1>3, <1>5, <2>1, FlattenEmpty
<1>6. n <= Len(chunks) \/ n > Len(chunks)
  BY <1>1
<1> QED
  BY <1>4, <1>5, <1>6

LEMMA AheadType ==
    ASSUME TypeInv, depth # 0
    PROVE  Ahead \in PipelineRows
<1>1. /\ ops \in Seq(Operator) /\ Len(ops) \in Nat /\ chunk[InputRegister[depth]] \in PipelineRows
  BY ConstantFacts, RegistersOfDepth DEF Chunks
<1>2. CASE depth # Len(ops) + 1
  <2>1. depth \in 1 .. Len(ops) /\ depth + 1 \in 1 .. Len(ops) + 1
    BY <1>1, <1>2 DEF TypeInv
  <2>2. ops[depth] \in Operator /\ cursor[depth] \in CursorType
    BY <2>1, ConstantFacts DEF TypeInv
  <2>3. Left(depth) \in PipelineRows
    BY <1>1, <2>2, UnreadType DEF Left
  <2> QED
    BY <1>1, <1>2, <2>1, <2>3, PushFacts DEF Ahead
<1> QED
  BY <1>1, <1>2 DEF Ahead

\* A chunk has been handed on to the next operator or the sink.
LEMMA AheadEntered ==
    ASSUME ops \in Seq(Operator), ops' = ops, depth' \in 1 .. Len(ops) + 1,
           NEW rows \in PipelineRows, chunk'[InputRegister[depth']] = rows,
           depth' <= Len(ops) => cursor'[depth'] = Fresh
    PROVE  Ahead' = Push(ops)[depth'][rows]
<1>1. Len(ops) \in Nat
  BY LenProperties
<1>2. CASE depth' = Len(ops) + 1
  <2>1. Ahead' = rows
    BY <1>2 DEF Ahead
  <2> QED
    BY <1>2, <2>1, PushFacts
<1>3. CASE depth' # Len(ops) + 1
  <2>1. cursor'[depth'] = Fresh
    BY <1>1, <1>3
  <2>2. Ahead' = Push(ops)[depth' + 1][Unread(Fresh, rows, ops[depth'])]
    BY <1>3, <2>1 DEF Ahead, Left
  <2> QED
    BY <1>3, <2>2, Entered
<1> QED
  BY <1>2, <1>3

\* Control is back at an operator that is not done, or at the source.
LEMMA AccountOfReturn ==
    ASSUME TypeInv, NEW todo \in [0 .. Len(ops) -> PipelineRows], Account(todo),
           ops' = ops, source' = source, next_chunk' = next_chunk,
           depth > 0, depth' = depth - 1,
           \A e \in 1 .. Len(ops) : e < depth => Left(e)' = Left(e),
           Reference = sunk' \o todo[depth - 1]
    PROVE  Account(todo)'
<1>0. Len(ops) \in Nat /\ depth \in 1 .. Len(ops) + 1
  BY ConstantFacts DEF TypeInv
<1>1. todo[0] = Push(ops')[1][FlattenSeq(SubSeq(source', next_chunk', Len(source')))]
  BY DEF Account
<1>2. \A e \in 1 .. Len(ops) : e < depth => todo[e] = Push(ops)[e + 1][Left(e)'] \o todo[e - 1]
  BY DEF Account
<1>3. \A e \in 1 .. Len(ops) : e < depth' => todo[e] = Push(ops)[e + 1][Left(e)'] \o todo[e - 1]
  <2>1. \A e \in 1 .. Len(ops) : e < depth' => e < depth
    BY <1>0
  <2> QED
    BY <1>2, <2>1
<1>4. Reference' = Reference
  BY DEF Reference
<1>5. CASE depth' = 0
  <2>1. Reference' = sunk' \o todo[0]
    BY <1>4, <1>5
  <2> QED
    BY <1>1, <1>3, <1>5, <2>1 DEF Account
<1>6. CASE depth' # 0
  <2>1. PICK k \in 1 .. Len(ops) : k = depth' /\ k < depth /\ k # Len(ops) + 1
    BY <1>0, <1>6
  <2>2. todo[k] = Push(ops)[k + 1][Left(k)'] \o todo[k - 1]
    BY <1>2, <2>1
  <2>3. Ahead' = Push(ops)[k + 1][Left(k)']
    BY <2>1 DEF Ahead, Left
  <2>4. Reference' = sunk' \o (Ahead' \o todo[depth' - 1])
    BY <1>4, <2>1, <2>2, <2>3
  <2> QED
    BY <1>1, <1>3, <1>6, <2>4 DEF Account
<1> QED
  BY <1>5, <1>6

LEMMA RowsInOrder ==
    ASSUME NEW a \in PipelineRows, NEW b \in PipelineRows, NEW c \in PipelineRows
    PROVE  (a \o b) \o c = a \o (b \o c)
BY ConcatAssociative DEF PipelineRows

LEMMA AccountOfGetData ==
    ASSUME TypeInv, TypeInv', CursorsInv, AccountInv, GetData
    PROVE  AccountInv'
<1> DEFINE P == Push(ops)[1]
           r == FlattenSeq(SubSeq(source, next_chunk + 1, Len(source)))
           first == source[next_chunk]
<1>0. /\ Len(ops) \in Nat /\ ops \in Seq(Operator) /\ source \in Seq(PipelineRows)
      /\ Len(source) \in Nat /\ sunk \in PipelineRows
  BY ConstantFacts DEF TypeInv
<1>1. /\ depth = 0 /\ depth' = 1 /\ next_chunk <= Len(source) /\ next_chunk' = next_chunk + 1
      /\ chunk' = [chunk EXCEPT !["src_chunk"] = source[next_chunk]]
      /\ ops' = ops /\ source' = source /\ cursor' = cursor /\ sunk' = sunk
  BY DEF GetData
<1>2. PICK todo \in [0 .. Len(ops) -> PipelineRows] : Account(todo)
  BY DEF AccountInv
<1>3. next_chunk \in 1 .. Len(source) /\ next_chunk + 1 \in 1 .. Len(source) + 1
  BY <1>0, <1>1 DEF TypeInv
<1>4. /\ first \in PipelineRows /\ r \in PipelineRows
      /\ FlattenSeq(SubSeq(source, next_chunk, Len(source))) = first \o r
  <2>1. first \in PipelineRows
    BY <1>0, <1>3, ElementOfSeq
  <2>2. next_chunk \in 1 .. Len(source) + 1
    BY <1>0, <1>3
  <2> QED
    BY <1>0, <1>1, <1>3, <2>1, <2>2, SourceFacts
<1> HIDE DEF r, first
<1>5. 1 \in 1 .. Len(ops) + 1
  BY <1>0
<1>6. /\ P[first] \in PipelineRows /\ P[r] \in PipelineRows
      /\ P[first \o r] = P[first] \o P[r]
  BY <1>0, <1>4, <1>5, PushFacts, PushConcat
<1>7. Ahead' = P[first]
  <2>1. chunk'[InputRegister[1]] = first
    BY <1>1, RegisterFacts DEF TypeInv, Registers, first
  <2>2. 1 <= Len(ops) => cursor'[1] = Fresh
    <3>1. 1 <= Len(ops) => 1 \in 1 .. Len(ops) /\ 1 > depth
      BY <1>0, <1>1
    <3> QED
      BY <1>1, <3>1 DEF CursorsInv
  <2>3. depth' \in 1 .. Len(ops) + 1
    BY <1>1, <1>5
  <2> QED
    BY <1>0, <1>1, <1>4, <2>1, <2>2, <2>3, AheadEntered
<1>8. Reference = sunk \o (P[first] \o P[r])
  BY <1>1, <1>2, <1>4, <1>6 DEF Account
<1>9. 0 \in 0 .. Len(ops)
  BY <1>0
<1>10. PICK next \in [0 .. Len(ops) -> PipelineRows] : next[0] = P[r]
  <2>1. [todo EXCEPT ![0] = P[r]] \in [0 .. Len(ops) -> PipelineRows]
          /\ [todo EXCEPT ![0] = P[r]][0] = P[r]
    BY <1>6, <1>9
  <2> QED
    BY <2>1
<1>11. next[0] = Push(ops')[1][FlattenSeq(SubSeq(source', next_chunk', Len(source')))]
  BY <1>1, <1>10 DEF r
<1>12. \A e \in 1 .. Len(ops) : ~(e < depth')
  BY <1>0, <1>1
<1>13. Reference' = Reference
  BY <1>1 DEF Reference
<1>14. Reference' = sunk' \o (IF depth' = 0 THEN next[0] ELSE Ahead' \o next[depth' - 1])
  <2>1. depth' # 0 /\ depth' - 1 = 0
    BY <1>1
  <2> QED
    BY <1>1, <1>7, <1>8, <1>10, <1>13, <2>1
<1>15. Account(next)'
  BY <1>1, <1>11, <1>12, <1>14 DEF Account
<1> QED
  BY <1>1, <1>10, <1>15 DEF AccountInv

LEMMA AccountOfAskForMore ==
    ASSUME TypeInv, CursorsInv, AccountInv, ~InputIsOverwritten(ops),
           NEW d \in 1 .. Len(ops), AskForMore(d)
    PROVE  AccountInv'
<1>0. /\ Len(ops) \in Nat /\ ops \in Seq(Operator) /\ sunk \in PipelineRows
      /\ d + 1 \in 1 .. Len(ops) + 1 /\ d \in Nat \ {0} /\ d # Len(ops) + 1 /\ d - 1 \in 0 .. Len(ops)
  BY ConstantFacts DEF TypeInv
<1>1. /\ depth = d /\ cursor[d].drained /\ depth' = d - 1
      /\ cursor' = [cursor EXCEPT ![d].drained = FALSE]
      /\ chunk' = [chunk EXCEPT ![OutputRegister(InputRegister[d])] = <<>>]
      /\ ops' = ops /\ source' = source /\ next_chunk' = next_chunk /\ sunk' = sunk
  BY DEF AskForMore, Back
<1>2. PICK todo \in [0 .. Len(ops) -> PipelineRows] : Account(todo)
  BY DEF AccountInv
<1>3. cursor' = [cursor EXCEPT ![d] = [cursor[d] EXCEPT !.drained = FALSE]]
  BY <1>1
<1>4. \A e \in 1 .. Len(ops) : e < depth => Left(e)' = Left(e)
  BY <1>1, <1>3, KeptBelow
<1>5. Left(d) = <<>>
  BY <1>1 DEF Left, Unread
<1>6. Ahead = <<>>
  BY <1>0, <1>1, <1>5, PushEmpty DEF Ahead
<1>7. Reference = sunk' \o todo[depth - 1]
  <2>1. Reference = sunk \o (Ahead \o todo[depth - 1])
    BY <1>0, <1>1, <1>2 DEF Account
  <2>2. todo[depth - 1] \in PipelineRows
    BY <1>0, <1>1
  <2> QED
    BY <1>1, <1>6, <2>1, <2>2, ConcatEmptySeq DEF PipelineRows
<1>8. Account(todo)'
  <2>1. depth > 0 /\ depth' = depth - 1
    BY <1>0, <1>1
  <2> QED
    BY <1>1, <1>2, <1>4, <1>7, <2>1, AccountOfReturn
<1> QED
  BY <1>1, <1>2, <1>8 DEF AccountInv

LEMMA AccountOfSinkChunk ==
    ASSUME TypeInv, AccountInv, SinkChunk
    PROVE  AccountInv'
<1>0. Len(ops) \in Nat /\ sunk \in PipelineRows
  BY ConstantFacts DEF TypeInv
<1>1. /\ depth = Len(ops) + 1 /\ depth' = depth - 1
      /\ sunk' = sunk \o chunk[InputRegister[depth]]
      /\ ops' = ops /\ source' = source /\ next_chunk' = next_chunk
      /\ chunk' = chunk /\ cursor' = cursor
  BY DEF SinkChunk, Back
<1>2. PICK todo \in [0 .. Len(ops) -> PipelineRows] : Account(todo)
  BY DEF AccountInv
<1>3. \A e \in 1 .. Len(ops) : e < depth => Left(e)' = Left(e)
  BY <1>1 DEF Left
<1>4. Ahead = chunk[InputRegister[depth]] /\ depth # 0 /\ depth > 0 /\ depth - 1 \in 0 .. Len(ops)
  BY <1>0, <1>1 DEF Ahead
<1>5. Ahead \in PipelineRows /\ todo[depth - 1] \in PipelineRows
  BY <1>4, AheadType
<1>6. Reference = sunk \o (Ahead \o todo[depth - 1])
  BY <1>2, <1>4 DEF Account
<1>7. Reference = sunk' \o todo[depth - 1]
  <2>1. (sunk \o Ahead) \o todo[depth - 1] = sunk \o (Ahead \o todo[depth - 1])
    BY <1>0, <1>5, RowsInOrder
  <2>2. sunk' = sunk \o Ahead
    BY <1>1, <1>4
  <2> QED
    BY <1>6, <2>1, <2>2
<1>8. Account(todo)'
  BY <1>1, <1>2, <1>3, <1>4, <1>7, AccountOfReturn
<1> QED
  BY <1>1, <1>2, <1>8 DEF AccountInv

LEMMA AccountOfExecute ==
    ASSUME TypeInv, CursorsInv, AccountInv, ~InputIsOverwritten(ops),
           NEW d \in 1 .. Len(ops), ExecuteOperator(d)
    PROVE  AccountInv'
<1> DEFINE in == chunk[InputRegister[d]]
           call == Call(d, in)
           next == [call.at EXCEPT !.drained = SetDrained(call)]
           P == Push(ops)[d + 1]
<1>0. /\ Len(ops) \in Nat /\ ops \in Seq(Operator) /\ sunk \in PipelineRows
      /\ d + 1 \in 1 .. Len(ops) + 1 /\ d \in Nat \ {0} /\ d # Len(ops) + 1
      /\ d - 1 \in 0 .. Len(ops) /\ d \in 0 .. Len(ops) /\ ops[d] \in Operator
  BY ConstantFacts DEF TypeInv
<1>1. /\ depth = d /\ ~cursor[d].drained
      /\ cursor' = [cursor EXCEPT ![d] = next]
      /\ chunk' = [chunk EXCEPT ![OutputRegister(InputRegister[d])] = call.rows]
      /\ ops' = ops /\ source' = source /\ next_chunk' = next_chunk /\ sunk' = sunk
      /\ call.rows = <<>> => depth' = d - 1
      /\ call.rows # <<>> => depth' = d + 1
  BY DEF ExecuteOperator, Back
<1>2. PICK todo \in [0 .. Len(ops) -> PipelineRows] : Account(todo)
  BY DEF AccountInv
<1>3. in \in Chunks /\ InPlace(cursor[d], in, ops[d]) /\ depth # 0
  <2>1. depth # 0
    BY <1>0, <1>1
  <2> QED
    BY <1>1, <2>1, RegistersOfDepth, RunningIsInPlace
<1>4. /\ call.rows = <<>> => Left(d) = <<>>
      /\ call.rows # <<>> => Left(d) = call.rows \o Unread(next, in, ops[d])
      /\ call.rows \in PipelineRows /\ next \in CursorType
  BY <1>3, CallConserves, CallTypes DEF Left, Chunks
<1> HIDE DEF next, call
<1>5. /\ \A e \in 1 .. Len(ops) : e < d => Left(e)' = Left(e)
      /\ \A e \in 1 .. Len(ops) : e # d => cursor'[e] = cursor[e]
      /\ cursor'[d] = next /\ chunk'[InputRegister[d]] = in
      /\ chunk'[InputRegister[d + 1]] = call.rows
  BY <1>1, KeptBelow
<1> HIDE DEF in
<1>6. Reference = sunk \o (P[Left(d)] \o todo[d - 1])
  <2>1. Ahead = P[Left(d)]
    BY <1>0, <1>1 DEF Ahead
  <2> QED
    BY <1>0, <1>1, <1>2, <1>3, <2>1 DEF Account
<1>7. todo[d - 1] \in PipelineRows
  BY <1>0
<1>8. CASE call.rows = <<>>
  <2>1. Reference = sunk' \o todo[depth - 1]
    <3>1. P[Left(d)] = <<>>
      BY <1>0, <1>4, <1>8, PushEmpty
    <3>2. <<>> \o todo[d - 1] = todo[d - 1]
      BY <1>7, ConcatEmptySeq DEF PipelineRows
    <3> QED
      BY <1>1, <1>6, <3>1, <3>2
  <2>2. depth' = depth - 1 /\ depth > 0
    BY <1>0, <1>1, <1>8
  <2>3. Account(todo)'
    BY <1>1, <1>2, <1>5, <2>1, <2>2, AccountOfReturn
  <2> QED
    BY <1>1, <1>2, <2>3 DEF AccountInv
<1>9. CASE call.rows # <<>>
  <2> DEFINE rest == Unread(next, in, ops[d])
  <2>1. depth' = d + 1 /\ Left(d) = call.rows \o rest
    BY <1>1, <1>4, <1>9
  <2>2. rest \in PipelineRows
    BY <1>0, <1>3, <1>4, UnreadType DEF Chunks
  <2>3. Left(d)' = rest
    BY <1>1, <1>5 DEF Left
  <2> HIDE DEF rest
  <2>4. /\ P[call.rows] \in PipelineRows /\ P[rest] \in PipelineRows
        /\ P[Left(d)] = P[call.rows] \o P[rest]
    <3>1. ASSUME NEW a \in PipelineRows, NEW b \in PipelineRows
          PROVE  P[a] \in PipelineRows /\ P[a \o b] = P[a] \o P[b]
      BY <1>0, PushFacts, PushConcat
    <3> HIDE DEF P
    <3> QED
      BY <1>4, <2>1, <2>2, <3>1
  <2>5. Ahead' = P[call.rows]
    <3>1. depth' <= Len(ops) => cursor'[depth'] = Fresh
      <4>1. d + 1 <= Len(ops) => d + 1 \in 1 .. Len(ops) /\ d + 1 # d /\ d + 1 > depth
        BY <1>0, <1>1
      <4> QED
        BY <1>5, <2>1, <4>1 DEF CursorsInv
    <3>2. depth' \in 1 .. Len(ops) + 1 /\ chunk'[InputRegister[depth']] = call.rows
      BY <1>0, <1>5, <2>1
    <3> QED
      BY <1>0, <1>1, <1>4, <2>1, <3>1, <3>2, AheadEntered
  <2>6. P[rest] \o todo[d - 1] \in PipelineRows
    BY <1>7, <2>4, RowsConcat
  <2>7. PICK more \in [0 .. Len(ops) -> PipelineRows] :
            /\ more[d] = P[rest] \o todo[d - 1]
            /\ \A e \in 0 .. Len(ops) : e # d => more[e] = todo[e]
    <3> DEFINE m == [todo EXCEPT ![d] = P[rest] \o todo[d - 1]]
    <3>1. /\ m \in [0 .. Len(ops) -> PipelineRows]
          /\ m[d] = P[rest] \o todo[d - 1]
          /\ \A e \in 0 .. Len(ops) : e # d => m[e] = todo[e]
      BY <1>0, <2>6
    <3> QED
      BY <3>1
  <2>8. Reference' = sunk' \o (Ahead' \o more[depth' - 1])
    <3>1. Reference' = Reference
      BY <1>1 DEF Reference
    <3>2. (P[call.rows] \o P[rest]) \o todo[d - 1] = P[call.rows] \o (P[rest] \o todo[d - 1])
      BY <1>7, <2>4, RowsInOrder
    <3>3. depth' - 1 = d
      BY <1>0, <2>1
    <3> QED
      BY <1>1, <1>6, <2>4, <2>5, <2>7, <3>1, <3>2, <3>3
  <2>9. ASSUME NEW e \in 1 .. Len(ops), e < depth'
        PROVE  more[e] = Push(ops)[e + 1][Left(e)'] \o more[e - 1]
    <3>1. e \in 0 .. Len(ops) /\ e - 1 \in 0 .. Len(ops) /\ e - 1 # d /\ (e = d \/ e < d)
      BY <1>0, <2>1, <2>9
    <3>2. more[e - 1] = todo[e - 1]
      BY <2>7, <3>1
    <3>3. CASE e = d
      <4>1. Left(e)' = rest
        BY <2>3, <3>3
      <4> QED
        BY <2>7, <3>2, <3>3, <4>1
    <3>4. CASE e < d
      <4>1. e # d /\ more[e] = todo[e] /\ Left(e)' = Left(e)
        BY <1>0, <1>5, <2>7, <3>1, <3>4
      <4>2. todo[e] = Push(ops)[e + 1][Left(e)] \o todo[e - 1]
        BY <1>1, <1>2, <3>4 DEF Account
      <4> QED
        BY <3>2, <4>1, <4>2
    <3> QED
      BY <3>1, <3>3, <3>4
  <2>10. more[0] = Push(ops')[1][FlattenSeq(SubSeq(source', next_chunk', Len(source')))]
    <3>1. 0 \in 0 .. Len(ops) /\ 0 # d
      BY <1>0
    <3> QED
      BY <1>1, <1>2, <2>7, <3>1 DEF Account
  <2>11. Account(more)'
    <3>1. depth' # 0
      BY <1>0, <2>1
    <3> QED
      BY <1>1, <2>8, <2>9, <2>10, <3>1 DEF Account
  <2> QED
    BY <1>1, <2>7, <2>11 DEF AccountInv
<1> QED
  BY <1>8, <1>9

LEMMA AccountKept ==
    ASSUME TypeInv, CursorsInv, AccountInv, ~InputIsOverwritten(ops), TypeInv', [TaskNext]_taskVars
    PROVE  AccountInv'
<1>1. CASE Yield
  BY <1>1 DEF Yield, AccountInv, Account, Ahead, Left, Reference
<1>2. CASE UNCHANGED taskVars
  BY <1>2 DEF taskVars, AccountInv, Account, Ahead, Left, Reference
<1> QED
  BY <1>1, <1>2, AccountOfGetData, AccountOfAskForMore, AccountOfExecute, AccountOfSinkChunk
  DEF TaskNext

LEMMA InitFlow == TaskInit => FlowInv
<1> SUFFICES ASSUME TaskInit PROVE FlowInv
  OBVIOUS
<1>1. TypeInv
  BY InitTypes
<1>2. /\ ops \in Seq(Operator) /\ Len(ops) \in Nat /\ source \in Seq(PipelineRows)
      /\ \A e \in 1 .. Len(ops) : ops[e] \in Operator
  BY <1>1, ConstantFacts
<1>3. depth = 0 /\ next_chunk = 1 /\ sunk = <<>> /\ cursor = [d \in 1 .. Len(ops) |-> Fresh]
  BY DEF TaskInit
<1>4. CursorsInv
  <2>1. Fresh.probe = 1 /\ Fresh.build = 1 /\ ~Fresh.drained
    BY DEF Fresh
  <2>2. \A e \in 1 .. Len(ops) : cursor[e] = Fresh /\ ~(e <= depth) /\ ~(e < depth)
    BY <1>2, <1>3
  <2> QED
    BY <2>1, <2>2 DEF CursorsInv
<1>5. AccountInv
  <2> DEFINE all == FlattenSeq(source)
             todo == [e \in 0 .. Len(ops) |-> Push(ops)[1][all]]
  <2>1. SubSeq(source, 1, Len(source)) = source
    BY <1>2, SubSeqFull
  <2>2. all \in PipelineRows
    BY <1>2, FlattenType DEF PipelineRows
  <2>3. /\ Push(ops)[1][all] \in PipelineRows /\ Reference = Push(ops)[1][all]
        /\ 1 \in 1 .. Len(ops) + 1 /\ 0 \in 0 .. Len(ops)
    <3>1. 1 \in 1 .. Len(ops) + 1 /\ 0 \in 0 .. Len(ops)
      BY <1>2
    <3> QED
      BY <1>2, <2>2, <3>1, PushFacts, AppliedAllIsPush DEF Reference
  <2>4. todo \in [0 .. Len(ops) -> PipelineRows] /\ todo[0] = Push(ops)[1][all]
    BY <2>3
  <2> HIDE DEF todo
  <2>5. \A e \in 1 .. Len(ops) : ~(e < depth)
    BY <1>2, <1>3
  <2>6. <<>> \o todo[0] = todo[0]
    BY <2>3, <2>4, ConcatEmptySeq DEF PipelineRows
  <2>7. Account(todo)
    BY <1>3, <2>1, <2>3, <2>4, <2>5, <2>6 DEF Account
  <2> QED
    BY <2>4, <2>7 DEF AccountInv
<1> QED
  BY <1>1, <1>4, <1>5 DEF FlowInv

LEMMA StepFlow ==
    ASSUME \A plan \in Plans : ~InputIsOverwritten(plan)
    PROVE  FlowInv /\ [TaskNext]_taskVars => FlowInv'
<1> SUFFICES ASSUME FlowInv, [TaskNext]_taskVars PROVE FlowInv'
  OBVIOUS
<1>1. TypeInv /\ CursorsInv /\ AccountInv /\ ~InputIsOverwritten(ops)
  BY DEF FlowInv, TypeInv
<1>2. TypeInv'
  BY <1>1, StepTypes
<1>3. CursorsInv' /\ AccountInv'
  BY <1>1, <1>2, CursorsKept, AccountKept
<1> QED
  BY <1>2, <1>3 DEF FlowInv

\* What has reached the sink and what is still to come are the reference.
LEMMA FlowIsComplete == FlowInv => RowsReachTheSink
<1> SUFFICES ASSUME FlowInv PROVE RowsReachTheSink
  OBVIOUS
<1>1. TypeInv /\ AccountInv
  BY DEF FlowInv
<1>2. PICK todo \in [0 .. Len(ops) -> PipelineRows] : Account(todo)
  BY <1>1 DEF AccountInv
<1>3. /\ Len(ops) \in Nat /\ depth \in 0 .. Len(ops) + 1 /\ sunk \in PipelineRows
      /\ ops \in Seq(Operator) /\ source \in Seq(PipelineRows) /\ Len(source) \in Nat
  BY <1>1, ConstantFacts DEF TypeInv
<1> DEFINE coming == IF depth = 0 THEN todo[0] ELSE Ahead \o todo[depth - 1]
<1>4. coming \in PipelineRows /\ Reference = sunk \o coming
  <2>1. depth # 0 => Ahead \in PipelineRows /\ todo[depth - 1] \in PipelineRows
    <3>1. depth # 0 => depth - 1 \in 0 .. Len(ops)
      BY <1>3
    <3> QED
      BY <1>1, <3>1, AheadType
  <2>2. todo[0] \in PipelineRows
    BY <1>3
  <2>3. coming \in PipelineRows
    BY <2>1, <2>2, RowsConcat
  <2> QED
    BY <1>2, <2>3 DEF Account
<1> HIDE DEF coming
<1>5. IsPrefix(sunk, Reference)
  <2>1. /\ Len(sunk) \in Nat /\ Len(coming) \in Nat /\ Reference \in PipelineRows
        /\ Len(Reference) = Len(sunk) + Len(coming)
        /\ \A i \in 1 .. Len(sunk) : Reference[i] = sunk[i]
    BY <1>3, <1>4, RowsConcat
  <2>2. SubSeq(Reference, 1, Len(sunk)) = sunk
    <3>1. \A i \in 1 .. Len(sunk) : Reference[i] \in PipelineRow
      BY <1>3, <2>1, ElementOfSeq DEF PipelineRows
    <3>2. 1 \in Int /\ Len(sunk) \in Int
      BY <2>1
    <3>3. /\ SubSeq(Reference, 1, Len(sunk)) \in Seq(PipelineRow)
          /\ Len(SubSeq(Reference, 1, Len(sunk)))
                = IF 1 <= Len(sunk) THEN Len(sunk) - 1 + 1 ELSE 0
          /\ \A i \in 1 .. Len(sunk) - 1 + 1 :
                SubSeq(Reference, 1, Len(sunk))[i] = Reference[1 + i - 1]
      BY <3>1, <3>2, SubSeqProperties
    <3>4. Len(SubSeq(Reference, 1, Len(sunk))) = Len(sunk)
      BY <2>1, <3>3
    <3>5. \A i \in 1 .. Len(sunk) : SubSeq(Reference, 1, Len(sunk))[i] = sunk[i]
      <4>1. \A i \in 1 .. Len(sunk) : i \in 1 .. Len(sunk) - 1 + 1 /\ 1 + i - 1 = i
        BY <2>1
      <4> QED
        BY <2>1, <3>3, <4>1
    <3> QED
      BY <1>3, <3>3, <3>4, <3>5, SeqEqual DEF PipelineRows
  <2>3. SubSeq(sunk, 1, Len(sunk)) = sunk
    BY <1>3, SubSeqFull DEF PipelineRows
  <2> QED
    BY <2>1, <2>2, <2>3 DEF IsPrefix
<1>6. TaskDone => sunk = Reference
  <2>1. SUFFICES ASSUME depth = 0, next_chunk > Len(source) PROVE sunk = Reference
    BY DEF TaskDone
  <2>2. FlattenSeq(SubSeq(source, next_chunk, Len(source))) = <<>>
    BY <1>1, <1>3, <2>1, SourceFacts DEF TypeInv
  <2>3. 1 \in 1 .. Len(ops) + 1
    BY <1>3
  <2>4. todo[0] = <<>>
    BY <1>2, <1>3, <2>2, <2>3, PushEmpty DEF Account
  <2>5. coming = <<>>
    BY <2>1, <2>4 DEF coming
  <2> QED
    BY <1>3, <1>4, <2>5, ConcatEmptySeq DEF PipelineRows
<1> QED
  BY <1>5, <1>6 DEF RowsReachTheSink

\* In whatever order the operators are called, what the sink has, what is on its way and what
\* is still to come of every operator and of the source add up (task.cpp,
\* DrainOperatorSuffix).
THEOREM FlowIsInvariant ==
    ASSUME \A plan \in Plans : ~InputIsOverwritten(plan)
    PROVE  TaskSpec => []FlowInv
BY StepFlow, InitFlow, PTL DEF TaskSpec

\* In every plan in which only the first or the last operator puts out several chunks for an
\* input, the sink takes the rows of the reference in its order and all of them: no operator
\* loses, repeats or mixes up rows, however many operators, chunks and yields there are
\* (task.cpp, DrainOperatorSuffix).
THEOREM RowsReach ==
    ASSUME \A plan \in Plans : ~InputIsOverwritten(plan)
    PROVE  TaskSpec => []RowsReachTheSink
BY FlowIsInvariant, FlowIsComplete, PTL
=============================================================================
