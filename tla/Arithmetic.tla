------------------------------ MODULE Arithmetic ------------------------------
(***************************************************************************)
(* What the calculation tool promises, without its parser: the meaning of  *)
(* an expression is found by cutting it at its last operator of lowest     *)
(* precedence, a statistic from the whole list, an interval by counting    *)
(* parts of a second, a shown decimal by its distance to the exact value.  *)
(***************************************************************************)
EXTENDS Calculation, FiniteSetsExt, SequencesExt

Undefined == [ok |-> FALSE]
Defined(v, deep) == [ok |-> TRUE, value |-> v, deep |-> deep]

Places(text, words) == {i \in 1..Len(text) : text[i] \in words}
Before(text, i)     == SubSeq(text, 1, i - 1)
After(text, i)      == SubSeq(text, i + 1, Len(text))

\* How many parentheses are open in front of position i.
Level(text, i) ==
    Cardinality(Places(Before(text, i), {"("})) - Cardinality(Places(Before(text, i), {")"}))

Balanced(text) ==
    /\ \A i \in 1..Len(text) : Level(text, i) >= 0
    /\ Level(text, Len(text) + 1) = 0

\* The operators of a set between two operands, outside of all parentheses.
Binary(text, ops) ==
    {i \in Places(text, ops) :
        i > 1 /\ text[i - 1] \in Numbers \cup {")", "%"} /\ Level(text, i) = 0}

Enclosed(text) ==
    /\ Len(text) > 1
    /\ text[1] = "("
    /\ text[Len(text)] = ")"
    /\ Balanced(SubSeq(text, 2, Len(text) - 1))

Applied(op, left, right) ==
    IF /\ left.ok /\ right.ok
       /\ ~(op = "/" /\ right.value = Zero)
       /\ BoundedRat(Combined(op, left.value, right.value))
    THEN Defined(Combined(op, left.value, right.value), Wider(left.deep, right.deep))
    ELSE Undefined

RECURSIVE Meaning(_)
Meaning(text) ==
    LET Cut(i)    == Applied(text[i], Meaning(Before(text, i)), Meaning(After(text, i)))
        operand   == Meaning(Tail(text))
        inner     == Meaning(SubSeq(text, 2, Len(text) - 1))
        part      == Meaning(Front(text))
        primary   == Len(text) = 2 \/ Enclosed(Front(text))
    IN IF text = <<>> THEN Undefined
       ELSE IF Binary(text, {"+", "-"}) # {} THEN Cut(Max(Binary(text, {"+", "-"})))
       ELSE IF Binary(text, {"*", "/"}) # {} THEN Cut(Max(Binary(text, {"*", "/"})))
       ELSE IF text[1] \in {"+", "-"}
            THEN IF operand.ok
                 THEN Defined(IF text[1] = "-" THEN Neg(operand.value) ELSE operand.value,
                              operand.deep + 1)
                 ELSE Undefined
       ELSE IF Last(text) = "%"
            THEN IF primary /\ part.ok
                 THEN Defined(Mul(part.value, Fraction(1, 100)), part.deep) ELSE Undefined
       ELSE IF Enclosed(text)
            THEN IF inner.ok THEN Defined(inner.value, inner.deep + 1) ELSE Undefined
       ELSE IF Len(text) = 1 /\ text[1] \in DOMAIN ValueOf
            THEN Defined(ValueOf[text[1]], 1)
       ELSE Undefined

\* A factor begins at a number, at an opening parenthesis and at a sign that is
\* not between two operands.
Begins(text) ==
    {i \in Places(text, Numbers \cup {"(", "+", "-"}) :
        text[i] \in {"+", "-"} => i = 1 \/ text[i - 1] \notin Numbers \cup {")", "%"}}

ExpressionMeaning(text) ==
    LET meaning == Meaning(text)
    IN IF /\ Len(text) \in 1..MaxText
          /\ meaning.ok
          /\ meaning.deep <= MaxDepth
          /\ \A i \in Begins(text) : i - 1 <= MaxTokens
       THEN meaning ELSE Undefined

Total(values) == FoldLeft(LAMBDA v, word : Add(v, ValueOf[word]), Zero, values)

Extreme(operation, numbers) ==
    CHOOSE v \in numbers :
        \A w \in numbers : IF operation = "min" THEN ~Less(w, v) ELSE ~Less(v, w)

Statistical(operation, values) ==
    IF operation \in {"min", "max"}
    THEN Extreme(operation, {ValueOf[word] : word \in Range(values)})
    ELSE FoldLeft(LAMBDA v, word : Add(v, ValueOf[word]), Zero, values)

\* The value of every beginning of the list stays within the limit.
StatisticMeaning(operation, values) ==
    IF /\ operation \in {"sum", "mean", "min", "max"}
       /\ Len(values) \in 1..MaxValues
       /\ Range(values) \subseteq DOMAIN ValueOf
       /\ \A n \in 1..Len(values) : BoundedRat(Statistical(operation, SubSeq(values, 1, n)))
    THEN Defined(Mul(Statistical(operation, values),
                     Fraction(1, IF operation = "mean" THEN Len(values) ELSE 1)), 0)
    ELSE Undefined

Parts(instant) == instant.second * Subseconds + instant.part

IntervalMeaning(start, end) ==
    IF start.form # end.form \/ start.form = "none" THEN Undefined
    ELSE IF start.form = "date" THEN Defined(Fraction(end.day - start.day, 1), 0)
    ELSE Defined(Fraction(Parts(end) - Parts(start), Subseconds), 0)

IntervalUnit(start) == IF start.form = "date" THEN "calendar_days" ELSE "elapsed_seconds"

\* A call gives the inputs of its operation and no other.
Stray(in) ==
    \/ in.operation # "expression" /\ in.expression # <<>>
    \/ in.operation \notin {"sum", "mean", "min", "max"} /\ in.values # <<>>
    \/ in.operation # "date_interval" /\ (in.start # NoTime \/ in.end # NoTime)
    \/ in.operation = "date_interval" /\ in.unit \notin {"", IntervalUnit(in.start)}

MeaningOf(in) ==
    CASE in.operation = "expression"    -> ExpressionMeaning(in.expression)
      [] in.operation = "date_interval" -> IntervalMeaning(in.start, in.end)
      [] OTHER                          -> StatisticMeaning(in.operation, in.values)

-----------------------------------------------------------------------------

\* CalculateConversation: an answer is given exactly to the calls that have a
\* meaning within the limits, and its exact fraction is that meaning. The limits
\* count: no factor starts deeper than MaxDepth or after more than MaxTokens
\* tokens, and no operation of it yields a fraction of more than MaxBits bits.
AnswerIsExact(in, answer) ==
    LET meaning == MeaningOf(in)
    IN /\ answer.ok <=> /\ ~Stray(in)
                        /\ meaning.ok
                        /\ BoundedRat(meaning.value)
                        /\ (in.given => in.places \in 0..MaxPrecision)
                        /\ in.rounding \in Roundings \cup {""}
                        /\ in.unit \notin LongUnits
       /\ answer.ok => answer.exact = meaning.value

\* DecimalParser, BoundedRat: whatever the text, accepted or not, no operand of
\* the parse is wider than the wider of a literal and MaxBits, plus the seven
\* bits of each percent sign that is applied to it, of which there are at most
\* MaxDepth. A percent is applied without a check of the size.
OperandsStayBounded(in) ==
    LET literal  == Max({0} \cup {Bits(ValueOf[n]) : n \in Range(in.expression) \cap DOMAIN ValueOf})
        percents == Min({MaxDepth, Cardinality(Places(in.expression, {"%"}))})
    IN in.expression # <<>> =>
          Parse(in.expression).widest <= Wider(literal, MaxBits) + 7 * percents

RECURSIVE Read(_)
Read(digits) == IF digits = <<>> THEN 0 ELSE 10 * Read(Front(digits)) + Last(digits)

\* DecimalRound: the digits that are shown, read back, are the nearest multiple of
\* the last place, a tie goes to the even one or away from zero as asked, and
\* toward_zero never goes past the exact value. There is a digit before the
\* point and as many after it as were asked for, zero has no sign, and
\* "rounded" tells whether the decimal differs from the exact value.
ShownIsNearest(answer) ==
    LET shown  == answer.shown
        units  == Read(shown.whole \o shown.fraction)
        unit   == Power10(answer.precision)
        signed == IF shown.minus THEN -units ELSE units
    IN answer.ok =>
        /\ Len(shown.whole) >= 1
        /\ Len(shown.whole) > 1 => shown.whole[1] # 0
        /\ Len(shown.fraction) = answer.precision
        /\ shown.minus <=> answer.exact.num < 0 /\ units # 0
        /\ shown.rounded <=> Fraction(signed, unit) # answer.exact
        /\ Nearest(Abs(answer.exact.num), answer.exact.den, unit, answer.rounding, units)
=============================================================================
