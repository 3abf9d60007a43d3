------------------------------ MODULE Rationals ------------------------------
(***************************************************************************)
(* Exact fractions, in lowest terms, for the amounts the code keeps in     *)
(* rust_decimal::Decimal.  A Decimal rounds at its 28th digit; that        *)
(* rounding is not modelled.                                               *)
(***************************************************************************)
EXTENDS Integers, FiniteSetsExt, SequencesExt

Abs(n) == IF n < 0 THEN -n ELSE n

Rat(n, d) ==
    LET g == Max({k \in 1..Abs(d) : n % k = 0 /\ Abs(d) % k = 0})
        sign == IF d < 0 THEN -1 ELSE 1
    IN <<sign * (n \div g), Abs(d) \div g>>

Int2Rat(n) == <<n, 1>>
Zero == <<0, 1>>
One == <<1, 1>>

Plus(x, y) == Rat(x[1] * y[2] + y[1] * x[2], x[2] * y[2])
Minus(x, y) == Rat(x[1] * y[2] - y[1] * x[2], x[2] * y[2])
Times(x, y) == Rat(x[1] * y[1], x[2] * y[2])
Less(x, y) == x[1] * y[2] < y[1] * x[2]

\* Rounded to an integer, halves to even (Decimal::round).
Round(x) ==
    LET down == x[1] \div x[2]
        twice == 2 * (x[1] % x[2])
    IN IF twice < x[2] \/ (twice = x[2] /\ down % 2 = 0) THEN down ELSE down + 1

=============================================================================
