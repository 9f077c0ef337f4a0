----------------------------- MODULE FilterTape ------------------------------
(****************************************************************************)
(* WHERE clauses on one table: the translator turns the expression trees     *)
(* into a tape of steps over Boolean registers                               *)
(* (yaap_opt_translator_filters.cpp), which the scan or the filter operator  *)
(* runs for every row (physical_seq_scan.cpp, physical_filter.cpp).          *)
(*                                                                          *)
(* A column is its attribute number.  A value is <<>> for NULL or <<v>>: v   *)
(* is an integer, the digits of a numeric without its point, or a string, a  *)
(* sequence of letters.  A numeric literal is given in hundredths, so that   *)
(* it may have more digits than a column keeps.                              *)
(****************************************************************************)
EXTENDS Integers, Sequences, FiniteSets

LOCAL INSTANCE FiniteSetsExt
LOCAL INSTANCE SequencesExt

CONSTANTS
    Table,        \* of each column: [kind, scale, side], a side of the join if there is one
    MaxRegs,      \* FILTER_MAX_BOOL_REGS
    MaxInputs,    \* FILTER_MAX_INPUTS
    Word          \* 2^32, beyond every value of a column

Kind(c) == Table[c].kind
Integral == {"int4", "int8"}
NumericFamily == Integral \cup {"numeric"}

\* Letters of a pattern that are no letters.
Percent == 0
Underscore == -1

------------------------------------------------------------------------------
(* LIKE. *)

Positions(pattern, letter) == {i \in DOMAIN pattern : pattern[i] = letter}

\* A pattern that is one string, at the start of the text or anywhere in it; one with a
\* % in the middle is left to MatchPercentLikePattern.
TryExtractLikePattern(p) ==
    LET percents == Positions(p, Percent)
        n == Len(p)
        found(op, match) == [ok |-> TRUE, op |-> op, match |-> match]
    IN  IF Positions(p, Underscore) # {} THEN [ok |-> FALSE]
        ELSE IF percents = {} THEN found("prefix", p)
        ELSE IF percents = {n} THEN found("prefix", Front(p))
        ELSE IF percents = {1} THEN found("contains", Tail(p))
        ELSE IF percents = {1, n} /\ n > 2 THEN found("contains", SubSeq(p, 2, n - 1))
        ELSE [ok |-> FALSE]

\* Where a word begins in the text after `from' letters.
Occurrences(text, word, from) ==
    {k \in from .. Len(text) - Len(word) : SubSeq(text, k + 1, k + Len(word)) = word}

\* The words between the % of a pattern.
Words(p) ==
    LET starts == {i \in DOMAIN p : p[i] # Percent /\ (i = 1 \/ p[i - 1] = Percent)}
        end(i) == Min({j \in i .. Len(p) : j = Len(p) \/ p[j + 1] = Percent})
    IN  [k \in 1 .. Cardinality(starts) |->
            LET i == CHOOSE s \in starts : Cardinality({t \in starts : t < s}) = k - 1
            IN  SubSeq(p, i, end(i))]

\* Every word at its first occurrence behind the one before it.  At the end the filter
\* operator looks for the letters behind the end of the pattern, and finds none.
MatchPercentLikePattern(site, text, p) ==
    LET words == Words(p)
        \* Letters of the text used up by the first k words, or -1.
        used[k \in 0 .. Len(words)] ==
            IF k = 0 THEN 0
            ELSE IF used[k - 1] < 0 THEN -1
            ELSE LET from == IF k = 1 /\ p[1] # Percent
                             THEN Occurrences(text, words[k], 0) \cap {0}
                             ELSE Occurrences(text, words[k], used[k - 1])
                 IN  IF from = {} THEN -1 ELSE Min(from) + Len(words[k])
        last == used[Len(words)]
    IN  IF p = <<>> THEN text = <<>>
        ELSE last >= 0 /\ (p[Len(p)] = Percent \/ (site # "filter" /\ last = Len(text)))

------------------------------------------------------------------------------
(* The translator.  A builder is the tape so far: [ok, next, inputs, steps, reg], where    *)
(* reg is the register with the value of the expression lowered last.                      *)

\* value * 10^to / 10^from, rounded to the nearest, halves away from 0.
Rescale(value, from, to) ==
    IF to >= from THEN value * 10 ^ (to - from)
    ELSE LET unit == 10 ^ (from - to)
         IN  IF value >= 0 THEN (2 * value + unit) \div (2 * unit)
             ELSE -((-2 * value + unit) \div (2 * unit))

Found(inputs, input) == {i \in DOMAIN inputs : inputs[i] = input}
Added(inputs, input) ==
    IF Found(inputs, input) # {}
    THEN [ok |-> TRUE, inputs |-> inputs, at |-> CHOOSE i \in Found(inputs, input) : TRUE]
    ELSE [ok |-> Len(inputs) < MaxInputs, inputs |-> Append(inputs, input), at |-> Len(inputs) + 1]

LookupOrAddScanFilterInput(inputs, c) ==
    Added(inputs, [column |-> c, decode |-> Kind(c), scale |-> Table[c].scale])

\* A column read as a numeric with `scale' digits; one that is numeric keeps its own.
LookupOrAddScanFilterInputAs(inputs, c, scale) ==
    LET input == [column |-> c, decode |-> "numeric",
                  scale |-> IF Kind(c) = "numeric" THEN Table[c].scale ELSE scale]
    IN  IF Len(inputs) >= MaxInputs THEN [ok |-> FALSE] ELSE Added(inputs, input)

Step(op, cmp, left, right, const, out) ==
    [op |-> op, cmp |-> cmp, left |-> left, right |-> right, const |-> const, out |-> out]
Rejected == [ok |-> FALSE]

Orders == {"<", "<=", "=", ">=", ">", "<>"}
Likes == {"~~", "!~~"}
\* Mutant of Mirror: the comparison is negated.
Negated == [cmp \in Orders |-> CASE cmp = "<" -> ">=" [] cmp = "<=" -> ">"
                                 [] cmp = ">" -> "<=" [] cmp = ">=" -> "<" [] OTHER -> cmp]

\* The comparison with its operands swapped.
Mirror == [cmp \in Orders |-> CASE cmp = "<" -> ">" [] cmp = "<=" -> ">="
                                [] cmp = ">" -> "<" [] cmp = ">=" -> "<=" [] OTHER -> cmp]

\* The step for a column and a constant, with left and out still to be filled in.
ConstantStep(cmp, c, const) ==
    LET step(op, v) == [ok |-> TRUE, step |-> Step(op, cmp, 0, 0, v, 0)]
        like == TryExtractLikePattern(const[1])
    IN  IF const = <<>> THEN Rejected
        ELSE IF Kind(c) \in NumericFamily /\ cmp \in Orders
             THEN IF Kind(c) = "numeric"
                  THEN step("cmp_const", Rescale(const[1], 2, Table[c].scale))
                  ELSE IF const[1] % 100 = 0 THEN step("cmp_const", const[1] \div 100)
                  ELSE Rejected                          \* int4in raises an ERROR
        ELSE IF Kind(c) # "string" \/ cmp \in Orders \ {"=", "<>"} THEN Rejected
        ELSE IF cmp \in {"=", "<>"} THEN step("cmp_string", const[1])
        ELSE IF like.ok THEN step(like.op, like.match)
        ELSE IF Positions(const[1], Underscore) # {} THEN Rejected
        ELSE step("sql_like", const[1])

\* prefix_slice(column, length) = constant is a prefix match of as many letters.
PrefixStep(cmp, prefix, const) ==
    IF cmp # "=" \/ const = <<>> THEN Rejected
    ELSE IF Kind(prefix.column) # "string" \/ Len(const[1]) < prefix.length THEN Rejected
    ELSE [ok |-> TRUE,
          step |-> Step("prefix", cmp, 0, 0, SubSeq(const[1], 1, prefix.length), 0)]

\* Two columns: of one kind, or numbers, which are brought to one scale.
ColumnsStep(inputs, cmp, c, d) ==
    LET scale == Max({Table[c].scale, Table[d].scale})
        left == IF Kind(c) = Kind(d) THEN LookupOrAddScanFilterInput(inputs, c)
                ELSE LookupOrAddScanFilterInputAs(inputs, c, scale)
        right == IF Kind(c) = Kind(d) THEN LookupOrAddScanFilterInput(left.inputs, d)
                 ELSE LookupOrAddScanFilterInputAs(left.inputs, d, scale)
    IN  IF cmp \notin Orders \/ ~({Kind(c), Kind(d)} \subseteq NumericFamily) THEN Rejected
        ELSE IF ~left.ok THEN Rejected
        ELSE IF ~right.ok THEN Rejected
        ELSE [ok |-> TRUE, inputs |-> right.inputs,
              step |-> Step("cmp_columns", cmp, left.at, right.at, 0, 0)]

\* A step into the next register.
Emitted(b, inputs, step) ==
    [b EXCEPT !.next = @ + 1, !.reg = b.next, !.inputs = inputs,
              !.steps = Append(@, [step EXCEPT !.out = b.next])]

\* The register is taken without a look at MaxRegs; NOT LIKE is a LIKE and a NOT.
Compared(cmp, b, lowered) ==
    IF ~lowered.ok \/ (cmp = "!~~" /\ b.next + 1 >= MaxRegs) THEN Rejected
    ELSE FoldLeft(LAMBDA tape, step : Emitted(tape, lowered.inputs, step), b,
            <<lowered.step>> \o
            IF cmp = "!~~" THEN <<Step("not", "=", b.next, 0, 0, 0)>> ELSE <<>>)

\* The column becomes the input of the step.
WithColumn(inputs, c, s) ==
    LET input == LookupOrAddScanFilterInput(inputs, c)
    IN  IF ~s.ok THEN Rejected
        ELSE [ok |-> input.ok, inputs |-> input.inputs, step |-> [s.step EXCEPT !.left = input.at]]

LowerScanFilterCompare(e, b) ==
    LET l == e.left
        r == e.right
        column == IF l.is = "constant" THEN r ELSE l
        const == IF l.is = "constant" THEN l ELSE r
        cmp == IF l.is = "constant" /\ e.cmp \in Orders THEN Mirror[e.cmp] ELSE e.cmp
    IN  Compared(e.cmp, b,
            CASE column.is = "column" /\ const.is = "constant" ->
                    WithColumn(b.inputs, column.column, ConstantStep(cmp, column.column, const.value))
              [] column.is = "prefix" /\ const.is = "constant" ->
                    WithColumn(b.inputs, column.column, PrefixStep(e.cmp, column, const.value))
              [] l.is = "column" /\ r.is = "column" ->
                    ColumnsStep(b.inputs, e.cmp, l.column, r.column)
              [] OTHER -> Rejected)

\* The last two registers into a new one.
Combine(op, b, left) ==
    [b EXCEPT !.next = @ + 1, !.reg = b.next,
              !.steps = Append(@, Step(op, "=", left, b.reg, 0, b.next))]

\* What was lowered after `before', joined with it; MaxRegs is checked where `limited'.
Joined(op, before, one, limited) ==
    IF ~one.ok \/ (limited /\ one.next >= MaxRegs) THEN Rejected
    ELSE Combine(op, one, before.reg)

\* column cmp ANY (array), and ALL: a comparison per member, joined as they come; members
\* of a prefix become LIKE patterns, and must be as long as the prefix.
LowerScanFilterAnyOrAll(e, b) ==
    LET op == IF e.op = "all" THEN "and" ELSE "or"
        member(m) ==
            IF e.left.is # "prefix"
            THEN [op |-> "compare", cmp |-> e.cmp, left |-> e.left, right |-> m]
            ELSE [op |-> "compare", cmp |-> "~~",
                  left |-> [is |-> "column", column |-> e.left.column],
                  right |-> [is |-> "constant", value |-> <<m.value[1] \o <<Percent>>>>]]
        refused(m) ==
            \/ m.value = <<>>
            \/ e.left.is = "prefix" /\ (e.cmp # "=" \/ Len(m.value[1]) # e.left.length)
        lower(before, m, first) ==
            IF ~before.ok THEN Rejected
            ELSE IF refused(m) THEN Rejected
            ELSE IF first THEN LowerScanFilterCompare(member(m), before)
            ELSE Joined(op, before, LowerScanFilterCompare(member(m), before), TRUE)
    IN  IF e.members = <<>> THEN Rejected
        ELSE FoldLeft(LAMBDA before, m : lower(before, m, FALSE),
                      lower(b, Head(e.members), TRUE), Tail(e.members))

\* NOT of what was lowered last.
Negate(b) == IF b.ok THEN Emitted(b, b.inputs, Step("not", "=", b.reg, 0, 0, 0)) ELSE Rejected

\* MaxRegs is checked before a child is lowered, not after.
RECURSIVE LowerScanFilterBoolExpr(_, _)
LowerScanFilterBoolExpr(e, b) ==
    CASE e.op = "compare" -> LowerScanFilterCompare(e, b)
      [] e.op \in {"any", "all"} -> LowerScanFilterAnyOrAll(e, b)
      [] e.op \in {"and", "or"} ->
            FoldLeft(LAMBDA before, child :
                        IF ~before.ok \/ before.next >= MaxRegs THEN Rejected
                        ELSE Joined(e.op, before, LowerScanFilterBoolExpr(child, before), FALSE),
                     LowerScanFilterBoolExpr(Head(e.children), b), Tail(e.children))
      [] e.op = "not" ->
            IF b.next >= MaxRegs THEN Rejected
            ELSE Negate(LowerScanFilterBoolExpr(e.children[1], b))
      [] OTHER -> Rejected

\* A filter ends: its steps, and the register of its value.
Closed(before, b) ==
    IF ~b.ok THEN Rejected
    ELSE [b EXCEPT !.exprs = Append(@,
            [first |-> Len(before.steps) + 1, last |-> Len(b.steps), out |-> b.reg])]

\* The tape of a list of filters, all of which a row must pass.
LowerScanFilters(filters) ==
    FoldLeft(LAMBDA before, f :
                IF ~before.ok THEN Rejected
                ELSE IF Len(before.exprs) >= MaxInputs THEN Rejected
                ELSE Closed(before, LowerScanFilterBoolExpr(f, before)),
             [ok |-> TRUE, next |-> 0, inputs |-> <<>>, steps |-> <<>>, reg |-> 0, exprs |-> <<>>],
             filters)

------------------------------------------------------------------------------
(* Running a tape. *)

Compares(cmp, x, y) ==
    CASE cmp = "<" -> x < y [] cmp = "<=" -> x <= y [] cmp = "=" -> x = y
      [] cmp = ">=" -> x >= y [] cmp = ">" -> x > y [] cmp = "<>" -> x # y

\* What a step reads of a row.  The scan decodes by the kind of the column: an int4 that is
\* to be numeric fills half of its 64-bit slot, and `high' is in the other half.  The
\* filter operator scales integers up (PopulateFilterChunk), a join scales them below.
Decoded(site, input, row, high) ==
    LET v == row[input.column]
    IN  CASE v = <<>> \/ Kind(input.column) = input.decode -> v
          [] site = "filter" -> <<v[1] * 10 ^ input.scale>>
          [] site = "join" -> v
          [] Kind(input.column) = "int4" -> <<v[1] + high * Word>>
          [] OTHER -> v

\* EvalFilterStep, EvalFilterStepAtRow: NULL is FALSE.  The scan does not bring two numerics
\* to one scale.
Evaluate(site, tape, s, bools, row, high) ==
    LET value(i) == Decoded(site, tape.inputs[i], row, high)
        l == value(s.left)
        r == value(s.right)
        scale(i) == tape.inputs[i].scale
        rescaled(v, i) ==
            IF site # "scan" /\ tape.inputs[i].decode = "numeric"
            THEN Rescale(v[1], scale(i), Max({scale(s.left), scale(s.right)})) ELSE v[1]
    IN  CASE s.op = "and" -> bools[s.left] /\ bools[s.right]
          [] s.op = "or" -> bools[s.left] \/ bools[s.right]
          [] s.op = "not" -> ~bools[s.left]
          [] s.op = "cmp_columns" ->
                l # <<>> /\ r # <<>> /\ Compares(s.cmp, rescaled(l, s.left), rescaled(r, s.right))
          [] OTHER ->
                /\ l # <<>>
                /\ CASE s.op \in {"cmp_const", "cmp_string"} -> Compares(s.cmp, l[1], s.const)
                     [] s.op = "prefix" -> IsPrefix(s.const, l[1])
                     [] s.op = "contains" -> Occurrences(l[1], s.const, 0) # {}
                     [] s.op = "sql_like" -> MatchPercentLikePattern(site, l[1], s.const)

\* The descriptor names no more registers than there are (TranslateTableScanNode), and a
\* filter whose value is in another one accepts nothing.
BoolRegs(tape) ==
    IF tape.exprs = <<>> THEN 0 ELSE Min({MaxRegs, tape.steps[Len(tape.steps)].out + 1})

\* The filters in order, until one rejects the row.
Accepts(site, tape, row, high) ==
    LET regs == 0 .. Len(tape.steps)
        bools[i \in 0 .. Len(tape.steps)] ==
            IF i = 0 THEN [k \in regs |-> FALSE]
            ELSE [bools[i - 1] EXCEPT ![tape.steps[i].out] =
                    Evaluate(site, tape, tape.steps[i], bools[i - 1], row, high)]
    IN  \A k \in DOMAIN tape.exprs :
            /\ tape.exprs[k].out < BoolRegs(tape)
            /\ bools[tape.exprs[k].last][tape.exprs[k].out]

------------------------------------------------------------------------------
(* What SQL says of an expression and a row: "true", "false" or "null". *)

RECURSIVE Like(_, _)
Like(text, p) ==
    CASE p = <<>> -> text = <<>>
      [] p # <<>> /\ Head(p) = Percent ->
            \E k \in 0 .. Len(text) : Like(SubSeq(text, k + 1, Len(text)), Tail(p))
      [] OTHER ->
            /\ text # <<>> /\ Head(p) \in {Underscore, Head(text)}
            /\ Like(Tail(text), Tail(p))

\* Numbers in hundredths.
SqlValue(operand, row) ==
    IF operand.is = "constant" THEN operand.value
    ELSE LET v == row[operand.column]
         IN  CASE v = <<>> -> v
               [] operand.is = "prefix" -> <<SubSeq(v[1], 1, Min({operand.length, Len(v[1])}))>>
               [] Kind(operand.column) \in NumericFamily ->
                    <<v[1] * 10 ^ (2 - Table[operand.column].scale)>>
               [] OTHER -> v

Ternary(b) == IF b THEN "true" ELSE "false"
AndOf(s) == IF "false" \in s THEN "false" ELSE IF "null" \in s THEN "null" ELSE "true"
NotOf(t) == CASE t = "true" -> "false" [] t = "false" -> "true" [] OTHER -> t
OrOf(s) == NotOf(AndOf({NotOf(t) : t \in s}))

SqlCompare(cmp, left, right, row) ==
    LET l == SqlValue(left, row)
        r == SqlValue(right, row)
    IN  IF l = <<>> \/ r = <<>> THEN "null"
        ELSE IF cmp = "~~" THEN Ternary(Like(l[1], r[1]))
        ELSE IF cmp = "!~~" THEN Ternary(~Like(l[1], r[1]))
        ELSE Ternary(Compares(cmp, l[1], r[1]))

RECURSIVE Truth(_, _)
Truth(e, row) ==
    CASE e.op = "compare" -> SqlCompare(e.cmp, e.left, e.right, row)
      [] e.op = "any" -> OrOf({SqlCompare(e.cmp, e.left, m, row) : m \in Range(e.members)})
      [] e.op = "all" -> AndOf({SqlCompare(e.cmp, e.left, m, row) : m \in Range(e.members)})
      [] e.op = "and" -> AndOf({Truth(c, row) : c \in Range(e.children)})
      [] e.op = "or" -> OrOf({Truth(c, row) : c \in Range(e.children)})
      [] e.op = "not" -> NotOf(Truth(e.children[1], row))

------------------------------------------------------------------------------
(* Where the code is known to differ from SQL. *)

RECURSIVE Subexpressions(_)
Subexpressions(e) ==
    {e} \cup
    CASE e.op = "compare" -> {}
      [] e.op \in {"any", "all"} ->
            {[op |-> "compare", cmp |-> e.cmp, left |-> e.left, right |-> m] : m \in Range(e.members)}
      [] OTHER -> UNION {Subexpressions(c) : c \in Range(e.children)}

\* NULL is FALSE, and its negation TRUE.
NegatesNull(e, row) ==
    \E s \in Subexpressions(e) :
        \/ s.op = "not" /\ Truth(s, row) = "null"
        \/ s.op = "compare" /\ s.cmp = "!~~" /\ Truth(s, row) = "null"

\* The end of the text: 'ab' matches all that begins with ab, '%ab' all that contains it,
\* and in 'a%b' only the first b after the a counts, or none.  Text and pattern are
\* swapped where the pattern is the column.
MisreadsLike(e) ==
    \E s \in Subexpressions(e) :
        /\ s.op = "compare" /\ s.cmp \in Likes
        /\ \/ s.left.is = "constant"
           \/ s.right.value[1] = <<>> \/ Last(s.right.value[1]) # Percent

\* Columns of different scales in a scan, and literals with digits the column has not.
MisreadsScale(site, e) ==
    \E s \in Subexpressions(e) : s.op = "compare" /\
        LET columns == {o.column : o \in {x \in {s.left, s.right} : x.is = "column"}}
            literals == {o.value[1] : o \in {x \in {s.left, s.right} : x.is = "constant"}}
        IN  \/ site = "scan" /\ Cardinality({Table[c].scale : c \in columns}) > 1
            \/ \E c \in columns : Kind(c) = "numeric" /\
                    \E v \in literals : v % 10 ^ (2 - Table[c].scale) # 0
            \/ site = "scan" /\ {"int4", "int8"} = {Kind(c) : c \in columns}

\* A constant longer than the prefix it is compared with.
CutsConstant(e) ==
    \E s \in Subexpressions(e) : s.op = "compare" /\
        \/ s.left.is = "prefix" /\ Len(s.right.value[1]) > s.left.length
        \/ s.right.is = "prefix" /\ Len(s.left.value[1]) > s.right.length

\* A register that does not exist.
RunsOutOfRegisters(tape) == \E k \in DOMAIN tape.exprs : tape.exprs[k].out >= MaxRegs

\* A join looks at no NULL flag: it reads what the slot held before.
ReadsNull(site, tape, row) ==
    site = "join" /\ \E i \in DOMAIN tape.inputs : row[tape.inputs[i].column] = <<>>

KnownWrong(site, filters, tape, row) ==
    \/ RunsOutOfRegisters(tape)
    \/ ReadsNull(site, tape, row)
    \/ \E k \in DOMAIN filters :
        \/ NegatesNull(filters[k], row)
        \/ MisreadsLike(filters[k])
        \/ MisreadsScale(site, filters[k])
        \/ CutsConstant(filters[k])
=============================================================================
