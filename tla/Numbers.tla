------------------------------ MODULE Numbers ------------------------------
(***************************************************************************)
(* The methods of the runtime's numbers (src/runtime/atoms: numbers.c,     *)
(* fixints.c, bigints.c, rationals.c, floats.c, relations.c), one operator *)
(* per C function, and what the dispatch of METHOD_1 does.                 *)
(*                                                                         *)
(* A value is a record with a kind:                                        *)
(*   fix     an int n                                                      *)
(*   big     a sequence of digits                                          *)
(*   rat     a numerator and a denominator, which are fix or big           *)
(*   float   the real number it stands for, rounding left out              *)
(*   thrown  an exception                                                  *)
(*   trouble what the program has after a place known to go wrong          *)
(*           (Bigints)                                                     *)
(*                                                                         *)
(* A definition that stands right before the one it varies, and is used    *)
(* nowhere, is a slip the code could have made; the properties catch it.   *)
(***************************************************************************)
EXTENDS Bigints, FiniteSets

LOCAL INSTANCE FiniteSetsExt
LOCAL INSTANCE SequencesExt

X == INSTANCE ExactNumbers

Float(x) == [kind |-> "float", x |-> x]
Thrown(why) == [kind |-> "thrown", why |-> why]

\* Undefined behaviour has no value to go on with.
Undefined == [kind |-> "trouble", place |-> "undefined"]

IsAnInteger(v) == v.kind \in {"fix", "big"}
IsANumber(v) == v.kind \in {"fix", "big", "rat", "float"}
NaNExp == Thrown("not a number")
DivByZeroExp == Thrown("division by zero")
NotAnInteger == Thrown("not an integer")
MemberNotFound == Thrown("member not found")

Numerator(v) == IF v.kind = "rat" THEN v.numer ELSE v
Denominator(v) == IF v.kind = "rat" THEN v.denom ELSE Fix(1)

-----------------------------------------------------------------------------
(* What a value means as an exact number.                                   *)

Meaning(v) ==
    CASE v.kind \in {"fix", "big"} -> X!Whole(IntValue(v))
      [] v.kind = "rat" -> X!Fraction(IntValue(v.numer), IntValue(v.denom))
      [] v.kind = "float" -> v.x
      [] OTHER -> X!Error

-----------------------------------------------------------------------------
(* Multiplication.                                                          *)

\* umul: two digits as four products of half digits.  The two additions into
\* the low digit may each carry, but one carry at most is counted.
Umul(l, r) ==
    LET lo_lo == (l % HalfBase) * (r % HalfBase)
        lo_hi == (l % HalfBase) * (r \div HalfBase)
        hi_lo == (l \div HalfBase) * (r % HalfBase)
        hi_hi == (l \div HalfBase) * (r \div HalfBase)
        lo_hi_up == (lo_hi * HalfBase) % Base
        hi_lo_up == (hi_lo * HalfBase) % Base
        lo == (lo_lo + lo_hi_up + hi_lo_up) % Base
        carry == IF lo < lo_hi_up \/ lo < hi_lo_up THEN 1 ELSE 0
    IN  [lo |-> lo,
         hi |-> (hi_hi + (lo_hi \div HalfBase) + (hi_lo \div HalfBase)
                  + carry) % Base]

\* uadd: add one digit at index i, and its carries above it.
Uadd(src, buf, i) ==
    LET after[k \in (i - 1)..Len(buf)] ==
            IF k = i - 1 THEN [src |-> src, buf |-> buf]
            ELSE LET done == after[k - 1]
                     sum == (done.buf[k] + done.src) % Base
                 IN IF done.src = 0 THEN done
                    ELSE [src |-> IF sum < done.buf[k] THEN 1 ELSE 0,
                          buf |-> [done.buf EXCEPT ![k] = sum]]
    IN  IF i > Len(buf) THEN buf ELSE after[Len(buf)].buf

\* The digit loops of Bigint_Multiply.  The digits of each operand stand for
\* twice its magnitude, so those of the product stand for four times, and are
\* left at that.
UnsignedMul(l, r) ==
    LET lsize == SigDigits(l)
        rsize == SigDigits(r)
        Put(product, acc, at) ==
            Uadd(product.hi, Uadd(product.lo, acc, at), at + 1)
        Step(acc, turn) ==
            LET li == (turn \div rsize) + 1
                ri == (turn % rsize) + 1
            IN  Put(Umul(GetDigit(li, lsize, l), GetDigit(ri, rsize, r)),
                    acc, li + ri - 1)
    IN  FoldLeft(Step, Zeros(lsize + rsize),
                 [k \in 1..(lsize * rsize) |-> k - 1])

-----------------------------------------------------------------------------
(* Long division.                                                           *)

\* div_cmp: is the remainder from digit i on at least the denominator?
DivCmp(denom, remainder, i) ==
    LET D(k) == GetDigit(k, Len(denom), denom)
        R(k) == GetDigit(k + i - 1, Len(remainder), remainder)
        differ == {k \in 1..Larger(Len(denom), Len(remainder)) : D(k) # R(k)}
    IN  differ = {} \/ D(Max(differ)) < R(Max(differ))

\* div_sub: reads the remainder from digit i on, but writes from the first.
DivSub(remainder, denom, i) ==
    LET size == Len(remainder)
        R(k) == GetDigit(k + i - 1, size, remainder)
        D(k) == GetDigit(k, Len(denom), denom)
        after[k \in Nat] ==
            IF k = 0 THEN [borrow |-> 0, out |-> << >>]
            ELSE LET b == after[k - 1].borrow IN
                 [borrow |-> BorrowOut(R(k), D(k), b),
                  out |-> Append(after[k - 1].out,
                                 DifferenceDigit(R(k), D(k), b))]
    IN  after[size].out

\* The while loop at digit i.
RECURSIVE Reduce(_, _, _)
Reduce(state, denom, i) ==
    IF ~DivCmp(denom, state.remainder, i) THEN state
    ELSE Reduce([remainder |-> DivSub(state.remainder, denom, i),
                 quotient |-> Uadd(IF i > 1 THEN 1 ELSE 2, state.quotient, i),
                 above |-> state.above \/ i > 1],
                denom, i)

\* The signs of the quotient and of the remainder.
DivisionSigned(numer, denom, done) ==
    [quotient |-> IF IsNegative(numer) # IsNegative(denom)
                  THEN SetNegative(done.quotient) ELSE done.quotient,
     remainder |-> IF IsNegative(numer) THEN SetNegative(done.remainder)
                   ELSE done.remainder,
     above |-> done.above]

\* longdiv for a numerator and a denominator that are not 0.  "above": some
\* subtraction was made above the first digit.
LongDiv(numer, denom) ==
    LET nsize == SigDigits(numer)
        size == Larger(nsize, SigDigits(denom))
        Bring(state, i) ==
            Reduce([state EXCEPT !.remainder[i] = GetDigit(i, nsize, numer)],
                   denom, i)
    IN  DivisionSigned(numer, denom,
            FoldLeft(Bring,
                     [remainder |-> Zeros(size), quotient |-> Zeros(size),
                      above |-> FALSE],
                     [k \in 1..size |-> size + 1 - k]))

-----------------------------------------------------------------------------
(* Bigints.                                                                 *)

\* C's bit operators, on digits and on ints.
BitOps == {"bit_and", "bit_or", "bit_xor"}
BitOp(op, m, n) == X!Operate(op, X!Whole(m), X!Whole(n)).top

\* The bit methods take the magnitudes' bits: neither sign is looked at.
MagnitudeBits(op, l, r) ==
    LET size == Larger(SigDigits(l), SigDigits(r)) IN
    [i \in 1..size |-> BitOp(op, GetDigit(i, SigDigits(l), l),
                                 GetDigit(i, SigDigits(r), r))]

\* A part, "quotient" or "remainder", of a long division, collapsed.
PartOf(division, part) ==
    Unless(division.above, "quotient", Collapse(division[part]))
Divided(part, l, r) ==
    IF SigDigits(l) = 0 THEN Fix(0)
    ELSE IF SigDigits(r) = 0 THEN DivByZeroExp
    ELSE PartOf(LongDiv(l, r), part)

\* Neither halved nor given a sign.
RawProduct(product) ==
    Unless(SigDigits(product) > 0, "product", Collapse(product))

\* Bigint_Multiply ... Bigint_BitXor and BigintQuotient, with two bigints.
BigWithBig(op, l, r) ==
    CASE op = "multiply" -> RawProduct(UnsignedMul(l, r))
      [] op \in {"modulus", "quotient"} ->
            Divided(IF op = "modulus" THEN "remainder" ELSE op, l, r)
      [] op = "bit_and" /\ 0 \in {SigDigits(l), SigDigits(r)} -> Fix(0)
      [] op \in BitOps ->
            Unless(IsNegative(l) \/ IsNegative(r), "bit sign",
                   Collapse(MagnitudeBits(op, l, r)))

AsBigints(op, l, r) ==
    Unless(IsIntMin(l) \/ IsIntMin(r), "int_min",
           BigWithBig(op, Digits(l), Digits(r)))

-----------------------------------------------------------------------------
(* Fixints.                                                                 *)

FixOverflows(op, m, n) == op = "multiply" /\ MultiplyOverflows(m, n)

\* Two fixints whose answer is in the range.
FixWithFix(op, l, r) ==
    CASE op = "multiply" -> Fix(Wrap(l.n * r.n))
      [] op = "modulus" ->
            IF QuotientDefined(l.n, r.n) THEN Fix(Rem(l.n, r.n)) ELSE Undefined
      [] op = "quotient" ->
            IF r.n = 0 THEN DivByZeroExp
            ELSE IF QuotientDefined(l.n, r.n) THEN Fix(Quo(l.n, r.n))
            ELSE Undefined
      [] op \in BitOps -> Fix(BitOp(op, l.n, r.n))

\* Two integers.  A fixint with a bigint is commuted where it may be; what is
\* over, and the rest, goes by way of bigints.
IntegerMethod(op, l, r) ==
    LET fixLeft == l.kind = "fix"
        fixBoth == fixLeft /\ r.kind = "fix"
        commuted == fixLeft /\ ~fixBoth /\ op \in {"multiply"} \union BitOps
    IN  CASE l.kind \notin {"fix", "big"} -> l
          [] r.kind \notin {"fix", "big"} -> r
          [] op \in {"add", "subtract"} -> IntegerSum(op, l, r)
          [] fixBoth /\ ~FixOverflows(op, l.n, r.n) -> FixWithFix(op, l, r)
          [] fixLeft /\ ~fixBoth /\ op = "modulus" ->
                Unless(l.n # 0, "modulus", Fix(0))
          [] OTHER -> AsBigints(op, IF commuted THEN r ELSE l,
                                    IF commuted THEN l ELSE r)

-----------------------------------------------------------------------------
(* Rationals, whose methods call those of integers.                         *)

RECURSIVE Method(_, _, _)

\* 0.compare_to(num): what the callers take for the sign is its opposite.
CompareToZero(num) == IntegerOrder(Fix(0), num)

RECURSIVE Euclid(_, _)
Euclid(n, m) ==
    IF ~IsAnInteger(n) THEN n
    ELSE IF CompareToZero(n) = 0 THEN m
    ELSE Euclid(Method("modulus", m, n), n)

GCD(n, m) ==
    LET zero == CompareToZero(n) IN
    Euclid(IF zero < 0 THEN Method("subtract", Fix(0), n) ELSE n, m)

\* The fraction, or the numerator if the denominator comes down to 1.
OverOne(n, d) == [kind |-> "rat", numer |-> n, denom |-> d]
Over(n, d) ==
    CASE ~IsAnInteger(n) -> n
      [] ~IsAnInteger(d) -> d
      [] IntegerOrder(Fix(1), d) = 0 -> n
      [] OTHER -> [kind |-> "rat", numer |-> n, denom |-> d]

\* The reduced fraction.
DividedBy(divisor, numer, denom) ==
    Over(Method("quotient", numer, divisor), Method("quotient", denom, divisor))
Reduced(numer, denom) ==
    CASE ~IsAnInteger(numer) -> numer
      [] ~IsAnInteger(denom) -> denom
      [] OTHER -> DividedBy(GCD(numer, denom), numer, denom)

\* CompareToZero being the opposite sign, it is positive denominators that
\* are flipped; GCD comes out negative, and the quotients' signs right again.
RationalFromIntegers(numer, denom) ==
    LET Flip(v) == IF CompareToZero(denom) < 0 THEN Method("subtract", Fix(0), v)
                   ELSE v
    IN  CASE ~IsAnInteger(numer) -> numer
          [] ~IsAnInteger(denom) -> denom
          [] CompareToZero(denom) = 0 -> DivByZeroExp
          [] OTHER -> Reduced(Flip(numer), Flip(denom))

\* Fixint_..., Bigint_... and Rational_add, _subtract, _multiply, _divide
\* when either operand is a rational; an integer is its own numerator.
RationalMethod(op, l, r) ==
    LET Times(a, b) == Method("multiply", a, b)
        ByLeft(v) == IF l.kind = "rat" THEN Times(l.denom, v) ELSE v
        across == Times(Numerator(l), Denominator(r))
    IN  CASE op \in {"add", "subtract", "multiply", "divide"} ->
                RationalFromIntegers(
                    CASE op = "multiply" -> Times(Numerator(l), Numerator(r))
                      [] op = "divide" -> across
                      [] OTHER -> Method(op, across, ByLeft(Numerator(r))),
                    ByLeft(IF op = "divide" THEN Numerator(r) ELSE Denominator(r)))
          [] op = "modulus" /\ l.kind = "rat" -> Thrown("not yet implemented")
          [] op = "modulus" -> NotAnInteger
          [] op \in BitOps ->
                IF l.kind = "rat" THEN MemberNotFound ELSE NotAnInteger

-----------------------------------------------------------------------------
(* Floats, and the methods as a caller finds them.                          *)

\* FloatConvertRational, for a rational on the left of a float: the program stops
\* where a part is not an int.
AssertFails == [kind |-> "trouble", place |-> "float parts"]
Convertible(l) == l.kind = "rat" => l.numer.kind = "fix" /\ l.denom.kind = "fix"

FloatMethod(op, l, r) ==
    IF Convertible(l) THEN Float(X!Operate(op, Meaning(l), Meaning(r))) ELSE AssertFails

\* l.op(r) but for exponentiate.  Bigint_Subtract has a float on its right
\* subtract the bigint, which is the wrong way round.
Method(op, l, r) ==
    CASE ~IsANumber(l) -> l
      [] ~IsANumber(r) -> IF r.kind = "object" THEN NaNExp ELSE r
      [] l.kind = "big" /\ r.kind = "float" /\ op = "subtract" ->
            At("float minus", FloatMethod(op, r, l))
      [] l.kind = "float" \/ r.kind = "float" -> FloatMethod(op, l, r)
      [] l.kind = "rat" \/ r.kind = "rat" -> RationalMethod(op, l, r)
      [] op = "divide" -> RationalFromIntegers(l, r)
      [] OTHER -> IntegerMethod(op, l, r)

\* Fixint_Exponentiate and Rational_exponentiate with an integer exponent.
RECURSIVE Multiplied(_, _, _)
Multiplied(out, v, times) ==
    IF times <= 0 THEN out ELSE Multiplied(Method("multiply", out, v), v, times - 1)

\* What was multiplied, or 1 over it.
Inverted(out, invert) == IF invert THEN Method("divide", Fix(1), out) ELSE out
Exponentiate(l, r) ==
    CASE ~IsANumber(l) -> l
      [] l.kind = "big" -> MemberNotFound
      [] r.n = IntMin -> Undefined
      [] OTHER -> Inverted(Multiplied(Fix(1), l, Magnitude(r.n)), r.n < 1)

\* l.compare_to(r), or Astray.  The difference of two fixints may leave the
\* range, Bigint_Compare_to takes a rational's numerator for both parts, and a
\* rational may not be Convertible.
Astray == 2
Ordered(a, b) ==
    IF ~IsAnInteger(a) \/ ~IsAnInteger(b) THEN Astray
    ELSE IF /\ a.kind = "fix" /\ b.kind = "fix"
            /\ a.n - b.n \notin CInt /\ "order" \notin Reaches
    THEN Astray
    ELSE IntegerOrder(a, b)

CompareTo(l, r) ==
    LET factor == IF r.kind = "rat" /\ l.kind = "big" THEN r.numer
                  ELSE Denominator(r)
    IN  CASE l.kind = "float" \/ r.kind = "float" ->
                IF Convertible(l) THEN X!Order(Meaning(l), Meaning(r)) ELSE Astray
          [] r.kind = "rat" /\ l.kind = "big" /\ "order" \notin Reaches -> Astray
          [] {"rat"} \intersect {l.kind, r.kind} = {} -> Ordered(l, r)
          [] OTHER ->
                Ordered(Method("multiply", Numerator(l), factor),
                        IF l.kind = "rat"
                        THEN Method("multiply", Numerator(r), l.denom)
                        ELSE Numerator(r))

-----------------------------------------------------------------------------
(* Literals: digits of some radix, and at most one Point.                   *)

CONSTANT Radix
Point == -1
Limit == (IntMax \div Radix) - 1

\* The loop of BigLiteral.
RECURSIVE BigLiteral(_, _, _, _)
BigLiteral(numer, denom, fractional, chars) ==
    IF chars = << >>
    THEN IF fractional THEN Method("divide", numer, denom) ELSE numer
    ELSE IF Head(chars) = Point THEN BigLiteral(numer, denom, TRUE, Tail(chars))
    ELSE BigLiteral(
            Method("add", Method("multiply", numer, Fix(Radix)),
                          Fix(Head(chars))),
            IF fractional THEN Method("multiply", denom, Fix(Radix))
            ELSE denom,
            fractional, Tail(chars))

\* The loop of NumberLiteral: the numerator is watched, the denominator not.
RECURSIVE LiteralFrom(_, _, _, _)
LiteralFrom(numer, denom, fractional, chars) ==
    IF chars = << >>
    THEN IF fractional THEN Method("divide", Fix(numer), Fix(Wrap(denom)))
         ELSE Fix(numer)
    ELSE IF numer > Limit
    THEN BigLiteral(Fix(numer), Fix(Wrap(denom)), fractional, chars)
    ELSE IF Head(chars) = Point
    THEN LiteralFrom(numer, denom, TRUE, Tail(chars))
    ELSE IF fractional
    THEN Unless(denom * Radix > IntMax, "literal",
                LiteralFrom(numer * Radix + Head(chars),
                            (denom * Radix) % Base, TRUE, Tail(chars)))
    ELSE LiteralFrom(numer * Radix + Head(chars), denom, FALSE, Tail(chars))

NumberLiteral(chars) == LiteralFrom(0, 1, FALSE, chars)

\* What a literal says.
RECURSIVE LiteralMeaning(_, _, _)
LiteralMeaning(x, scale, chars) ==
    IF chars = << >> THEN X!Fraction(x.top, x.bottom)
    ELSE IF Head(chars) = Point THEN LiteralMeaning(x, Radix, Tail(chars))
    ELSE LiteralMeaning([top |-> x.top * Radix + Head(chars),
                         bottom |-> x.bottom * scale], scale, Tail(chars))
=============================================================================
