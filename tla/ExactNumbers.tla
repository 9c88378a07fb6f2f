---------------------------- MODULE ExactNumbers ----------------------------
(***************************************************************************)
(* What the numbers of the language promise: rational arithmetic without   *)
(* a range.  A number is a fraction in lowest terms over a positive        *)
(* denominator; an operation that has no answer is an error.               *)
(***************************************************************************)
EXTENDS Integers

RECURSIVE Gcd(_, _)
Gcd(m, n) == IF n = 0 THEN m ELSE Gcd(n, m % n)

Abs(n) == IF n < 0 THEN -n ELSE n
Sgn(n) == IF n < 0 THEN -1 ELSE IF n > 0 THEN 1 ELSE 0

Error == [top |-> 0, bottom |-> 0]
IsError(x) == x.bottom = 0

Fraction(t, b) ==
    IF b = 0 THEN Error
    ELSE LET g == Gcd(Abs(t), Abs(b)) IN
         [top |-> (Sgn(b) * t) \div g, bottom |-> Abs(b) \div g]

Whole(n) == [top |-> n, bottom |-> 1]
IsWhole(x) == x.bottom = 1

Sum(x, y) ==
    Fraction(x.top * y.bottom + y.top * x.bottom, x.bottom * y.bottom)
Negated(x) == [x EXCEPT !.top = -@]
Product(x, y) == Fraction(x.top * y.top, x.bottom * y.bottom)
Ratio(x, y) == Fraction(x.top * y.bottom, x.bottom * y.top)

\* The remainder has the sign of the number that is divided.
Remainder(x, y) ==
    IF IsWhole(x) /\ IsWhole(y) /\ y.top # 0
    THEN Whole(Sgn(x.top) * (Abs(x.top) % Abs(y.top)))
    ELSE Error

RECURSIVE Power(_, _)
Power(x, n) ==
    IF n < 0 THEN Ratio(Whole(1), Power(x, -n))
    ELSE IF n = 0 THEN Whole(1)
    ELSE Product(x, Power(x, n - 1))

\* Whole numbers as endless two's complement.
RECURSIVE Bits(_, _, _)
Bits(Op(_, _), m, n) ==
    IF {m, n} \subseteq {-1, 0} THEN -Op(m % 2, n % 2)
    ELSE Op(m % 2, n % 2) + 2 * Bits(Op, m \div 2, n \div 2)

BothSet(a, b) == IF a = 1 /\ b = 1 THEN 1 ELSE 0
EitherSet(a, b) == IF a = 1 \/ b = 1 THEN 1 ELSE 0
OneSet(a, b) == IF a # b THEN 1 ELSE 0

Bitwise(Op(_, _), x, y) ==
    IF IsWhole(x) /\ IsWhole(y) THEN Whole(Bits(Op, x.top, y.top))
    ELSE Error

\* -1, 0 or 1 as x is less than, equal to or greater than y.
Order(x, y) == Sgn(x.top * y.bottom - y.top * x.bottom)

Operate(op, x, y) ==
    CASE op = "add" -> Sum(x, y)
      [] op = "subtract" -> Sum(x, Negated(y))
      [] op = "multiply" -> Product(x, y)
      [] op = "divide" -> Ratio(x, y)
      [] op = "modulus" -> Remainder(x, y)
      [] op = "exponentiate" -> IF IsWhole(y) THEN Power(x, y.top) ELSE Error
      [] op = "bit_and" -> Bitwise(BothSet, x, y)
      [] op = "bit_or" -> Bitwise(EitherSet, x, y)
      [] op = "bit_xor" -> Bitwise(OneSet, x, y)
=============================================================================
