------------------------------ MODULE Calculation ------------------------------
(***************************************************************************)
(* The calculation tool (calculation/calculation.go): exact rational       *)
(* arithmetic on a small expression grammar, on lists of decimals and on   *)
(* two dates or instants, and the decimal that is shown.                   *)
(*                                                                         *)
(* An expression is the sequence of its lexemes: a number is one lexeme,   *)
(* white space only separates lexemes. The recursive descent is kept with  *)
(* its position, token count and depth, since the limits of the parser     *)
(* depend on them.                                                         *)
(*                                                                         *)
(* An operator Bug_X is the definition X with a plausible bug in it.       *)
(***************************************************************************)
EXTENDS Rounding, Sequences

CONSTANTS
    Numbers,      \* lexemes that spell a number
    ValueOf,      \* the exact value of each well-formed one
    MaxDepth,     \* of nested factors; 32 in the code
    MaxTokens,    \* consumed before a factor starts; 256 in the code
    MaxBits,      \* of a numerator or denominator; 4096 in the code
    MaxText,      \* lexemes of an expression; 2048 bytes in the code
    MaxValues,    \* values of a statistic; 256 in the code
    LongUnits,    \* names of units over 64 bytes
    MaxPrecision, \* decimal places; 12 in the code
    Subseconds    \* parts of a second; 10^9 in the code

ASSUME ConstantsAssumption ==
    /\ DOMAIN ValueOf \subseteq Numbers
    /\ {MaxDepth, MaxTokens, MaxBits, MaxText, MaxValues, Subseconds} \subseteq Nat \ {0}
    /\ MaxPrecision \in Nat

-----------------------------------------------------------------------------
(* Exact fractions (math/big): in lowest terms, with a positive            *)
(* denominator.                                                            *)

RECURSIVE GreatestDivisor(_, _)
GreatestDivisor(m, n) == IF n = 0 THEN m ELSE GreatestDivisor(n, m % n)

\* -7 \div 2 rounds down in TLA+; the divisor divides here.
Fraction(num, den) ==
    LET divisor == GreatestDivisor(Abs(num), Abs(den))
        sign    == IF den < 0 THEN -1 ELSE 1
    IN [num |-> sign * (num \div divisor), den |-> Abs(den) \div divisor]

Zero == Fraction(0, 1)

Neg(v)    == [v EXCEPT !.num = -v.num]
Add(v, w) == Fraction(v.num * w.den + w.num * v.den, v.den * w.den)
Sub(v, w) == Add(v, Neg(w))
Mul(v, w) == Fraction(v.num * w.num, v.den * w.den)
Quo(v, w) == Fraction(v.num * w.den, v.den * w.num)
Less(v, w) == v.num * w.den < w.num * v.den

RECURSIVE BitLen(_)
BitLen(n) == IF n = 0 THEN 0 ELSE 1 + BitLen(n \div 2)

Bits(v) == LET n == BitLen(Abs(v.num)) d == BitLen(v.den) IN IF n < d THEN d ELSE n

BoundedRat(v) == Bits(v) <= MaxBits

-----------------------------------------------------------------------------
(* The parser. A step returns where it stopped, how many tokens were       *)
(* consumed, the value, and whether it succeeded; `widest' is a history:   *)
(* the bits of the widest operand so far.                                  *)

Wider(m, n) == IF m < n THEN n ELSE m
At(text, p) == IF p.at <= Len(text) THEN text[p.at] ELSE "end"
Fail(p)     == [p EXCEPT !.ok = FALSE]
Give(p, v)  == [p EXCEPT !.value = v, !.widest = Wider(@, Bits(v))]
Take(p)     == [p EXCEPT !.at = @ + 1, !.tokens = @ + 1]

Start == [at |-> 1, tokens |-> 0, ok |-> TRUE, value |-> Zero, widest |-> 0]

Combined(op, v, w) ==
    CASE op = "+" -> Add(v, w)
      [] op = "-" -> Sub(v, w)
      [] op = "*" -> Mul(v, w)
      [] op = "/" -> Quo(v, w)

RECURSIVE Sum(_, _, _)

Percent(text, p) ==
    IF p.ok /\ At(text, p) = "%" THEN Give(Take(p), Quo(p.value, Fraction(100, 1))) ELSE p

\* The lexeme that a number is expected at; nothing is read when it is none.
Literal(text, p) ==
    LET word == At(text, p)
        read == IF word \in Numbers THEN Take(p) ELSE p
    IN IF word \in DOMAIN ValueOf THEN Give(read, ValueOf[word]) ELSE Fail(read)

Parenthesized(text, p, depth) ==
    LET inner == Sum(text, Take(p), depth)
    IN IF inner.ok /\ At(text, inner) = ")" THEN Take(inner) ELSE Fail(inner)

Bug_OverLimit(p, depth) == depth > MaxDepth \/ p.tokens >= MaxTokens
OverLimit(p, depth) == depth > MaxDepth \/ p.tokens > MaxTokens

RECURSIVE Factor(_, _, _)
Factor(text, p, above) ==
    LET depth == above + 1
        word  == At(text, p)
        minus == Factor(text, Take(p), depth)
    IN CASE OverLimit(p, depth) -> Fail(p)
         [] ~OverLimit(p, depth) /\ word = "+" -> Factor(text, Take(p), depth)
         [] ~OverLimit(p, depth) /\ word = "-" ->
                IF minus.ok THEN Give(minus, Neg(minus.value)) ELSE minus
         [] ~OverLimit(p, depth) /\ word = "(" ->
                Percent(text, Parenthesized(text, p, depth))
         [] OTHER -> Percent(text, Literal(text, p))

\* The value so far combined with the operand that follows an operator.
Bug_Combine(op, left, right) ==
    IF op = "/" /\ right.value = Zero THEN Fail(right)
    ELSE Give(right, Combined(op, left.value, right.value))
Combine(op, left, right) ==
    IF op = "/" /\ right.value = Zero THEN Fail(right)
    ELSE IF BoundedRat(Combined(op, left.value, right.value))
         THEN Give(right, Combined(op, left.value, right.value))
         ELSE Fail(right)

\* value (op operand)*, for the operators of one level.
RECURSIVE Factors(_, _, _)
Factors(text, left, depth) ==
    LET right == Factor(text, Take(left), depth)
    IN IF left.ok /\ At(text, left) \in {"*", "/"}
       THEN IF right.ok
            THEN Factors(text, Combine(At(text, left), left, right), depth)
            ELSE right
       ELSE left

Product(text, p, depth) == Factors(text, Factor(text, p, depth), depth)

RECURSIVE Terms(_, _, _)
Terms(text, left, depth) ==
    LET right == Product(text, Take(left), depth)
    IN IF left.ok /\ At(text, left) \in {"+", "-"}
       THEN IF right.ok
            THEN Terms(text, Combine(At(text, left), left, right), depth)
            ELSE right
       ELSE left

Sum(text, p, depth) == Terms(text, Product(text, p, depth), depth)

Parse(text) == Sum(text, Start, 0)

-----------------------------------------------------------------------------
(* A statistic over a list of values, and the time between two dates or    *)
(* instants.                                                               *)

Refused == [ok |-> FALSE]
Exact(v, unit) == [ok |-> TRUE, value |-> v, unit |-> unit]

RECURSIVE Accumulated(_, _, _)
Accumulated(operation, values, n) ==
    LET so_far == Accumulated(operation, values, n - 1)
        word   == values[n]
        value  == ValueOf[word]
        next   ==
            CASE operation \in {"sum", "mean"} -> Add(so_far.value, value)
              [] operation = "min" -> IF n = 1 \/ Less(value, so_far.value) THEN value ELSE so_far.value
              [] operation = "max" -> IF n = 1 \/ Less(so_far.value, value) THEN value ELSE so_far.value
    IN IF n = 0 THEN Exact(Zero, "")
       ELSE IF so_far.ok /\ word \in DOMAIN ValueOf /\ BoundedRat(next) THEN Exact(next, "") ELSE Refused

Averaged(operation, values, all) ==
    IF all.ok /\ operation = "mean"
    THEN Exact(Quo(all.value, Fraction(Len(values), 1)), "")
    ELSE all

Statistic(operation, values) ==
    Averaged(operation, values, Accumulated(operation, values, Len(values)))

\* A date is the day it names, an instant the second and the part of it.
Interval(start, end) ==
    CASE start.form = "date" /\ end.form = "date" ->
             Exact(Fraction(end.day - start.day, 1), "calendar_days")
      [] start.form = "instant" /\ end.form = "instant" ->
             Exact(Add(Fraction(end.second - start.second, 1),
                       Fraction(end.part - start.part, Subseconds)), "elapsed_seconds")
      [] OTHER -> Refused

-----------------------------------------------------------------------------
(* The decimal that is shown, and whether anything was rounded away.       *)

RECURSIVE Power10(_)
Power10(n) == IF n = 0 THEN 1 ELSE 10 * Power10(n - 1)

RECURSIVE Digits(_)
Digits(n) == IF n < 10 THEN <<n>> ELSE Append(Digits(n \div 10), n % 10)

Zeros(n) == [i \in 1..n |-> 0]

Padded(digits, precision) ==
    IF Len(digits) <= precision THEN Zeros(precision - Len(digits) + 1) \o digits ELSE digits

\* The sign, the whole digits and the digits after the point.
Decimal(negative, integer, digits, precision, rounded) ==
    LET whole == Len(digits) - precision
    IN [minus    |-> negative /\ integer # 0,
        whole    |-> SubSeq(digits, 1, whole),
        fraction |-> SubSeq(digits, whole + 1, Len(digits)),
        rounded  |-> rounded]

Written(v, integer, precision, rounded) ==
    Decimal(v.num < 0, integer, Padded(Digits(integer), precision), precision, rounded)

DecimalRound(v, precision, rounding) ==
    LET unit == Power10(precision)
        num  == Abs(v.num)
    IN Written(v, RoundedUnits(num, v.den, unit, rounding), precision,
               RoundedAway(num, v.den, unit))

-----------------------------------------------------------------------------
(* The tool. *)

NoTime == [form |-> "none"]

Precision(in) == IF in.given THEN in.places ELSE 2
Rounding(in)  == IF in.rounding = "" THEN "half_even" ELSE in.rounding

ExpressionAnswer(in, parsed) ==
    IF /\ Len(in.expression) \in 1..MaxText
       /\ in.values = <<>> /\ in.start = NoTime /\ in.end = NoTime
       /\ parsed.ok /\ parsed.at = Len(in.expression) + 1
    THEN Exact(parsed.value, in.unit) ELSE Refused

StatisticAnswer(in, statistic) ==
    IF /\ Len(in.values) \in 1..MaxValues
       /\ in.expression = <<>> /\ in.start = NoTime /\ in.end = NoTime
       /\ statistic.ok
    THEN Exact(statistic.value, in.unit) ELSE Refused

IntervalAnswer(in, interval) ==
    IF /\ in.expression = <<>> /\ in.values = <<>>
       /\ interval.ok
       /\ in.unit \in {"", interval.unit}
    THEN interval ELSE Refused

Answered(in) ==
    CASE in.operation = "expression" -> ExpressionAnswer(in, Parse(in.expression))
      [] in.operation \in {"sum", "mean", "min", "max"} ->
             StatisticAnswer(in, Statistic(in.operation, in.values))
      [] in.operation = "date_interval" -> IntervalAnswer(in, Interval(in.start, in.end))
      [] OTHER -> Refused

Finished(in, exact) ==
    IF /\ Precision(in) \in 0..MaxPrecision
       /\ Rounding(in) \in Roundings
       /\ in.unit \notin LongUnits
       /\ exact.ok
       /\ BoundedRat(exact.value)
    THEN [ok |-> TRUE, exact |-> exact.value, unit |-> exact.unit,
          precision |-> Precision(in), rounding |-> Rounding(in),
          shown |-> DecimalRound(exact.value, Precision(in), Rounding(in))]
    ELSE Refused

CalculateConversation(in) == Finished(in, Answered(in))
=============================================================================
