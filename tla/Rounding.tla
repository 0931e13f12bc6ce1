-------------------------------- MODULE Rounding --------------------------------
(***************************************************************************)
(* How DecimalRound (calculation/calculation.go) rounds the absolute value *)
(* num / den of a fraction to a whole number of the last decimal place, of *)
(* which there are `unit' in 1, and what it promises.                      *)
(*                                                                         *)
(* An operator Bug_X is the definition X with a plausible bug in it.       *)
(***************************************************************************)
EXTENDS Integers

Abs(n) == IF n < 0 THEN -n ELSE n

Roundings == {"half_even", "half_up", "toward_zero"}

Bug_RoundsUp(twice, den, integer, rounding) ==
    /\ rounding # "toward_zero"
    /\ twice > den \/ (twice = den /\ integer % 2 = 1)
RoundsUp(twice, den, integer, rounding) ==
    /\ rounding # "toward_zero"
    /\ \/ twice > den
       \/ twice = den /\ (rounding = "half_up" \/ integer % 2 = 1)

RoundedUnits(num, den, unit, rounding) ==
    LET quotient  == (num * unit) \div den
        remainder == (num * unit) % den
    IN quotient + (IF RoundsUp(2 * remainder, den, quotient, rounding) THEN 1 ELSE 0)

RoundedAway(num, den, unit) == (num * unit) % den # 0

-----------------------------------------------------------------------------

\* No other number of units is nearer to num / den, a tie goes to the even one
\* or away from zero as asked, and toward_zero never goes past the exact value.
Nearest(num, den, unit, rounding, units) ==
    LET error == 2 * (units * den - num * unit)
    IN IF rounding = "toward_zero"
       THEN error <= 0 /\ num * unit < (units + 1) * den
       ELSE /\ -den <= error /\ error <= den
            /\ error = den  => rounding = "half_up" \/ units % 2 = 0
            /\ error = -den => rounding = "half_even" /\ units % 2 = 0
=============================================================================
