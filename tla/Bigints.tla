------------------------------ MODULE Bigints ------------------------------
(***************************************************************************)
(* Bigints (src/runtime/atoms/bigints.c), and sums and comparisons of      *)
(* integers, which are ints or bigints (fixints.c).  A bigint is a         *)
(* sequence of digits from least to most significant; the lowest bit of    *)
(* the first digit is the sign, so the digits are those of twice the       *)
(* magnitude.                                                              *)
(*                                                                         *)
(* Loops are recursive functions over the index of the digit, whose value  *)
(* is the state the C loop has after that digit.                           *)
(*                                                                         *)
(* A value is a record with a kind, here                                   *)
(*   fix     an int n                                                      *)
(*   big     a sequence of digits                                          *)
(*   trouble what the program has after a place known to go wrong.  Each   *)
(*           such place is named by the condition in the code; a place in  *)
(*           Reaches is gone through instead, and what comes after it is   *)
(*           what the code computes.                                       *)
(*                                                                         *)
(* A definition that stands right before the one it varies, and is used    *)
(* nowhere, is a slip the code could have made; the properties catch it.   *)
(***************************************************************************)
EXTENDS Fixints, Sequences

CONSTANT Reaches

ASSUME ReachesAssumption ==
    Reaches \subseteq {"int_min", "negative", "carry", "product", "quotient",
                       "modulus", "order", "literal", "bit sign", "float minus"}

Fix(n) == [kind |-> "fix", n |-> n]
Big(digits) == [kind |-> "big", digits |-> digits]

\* What the code computes at a place that goes wrong.
At(place, value) ==
    IF place \in Reaches THEN value
    ELSE [kind |-> "trouble", place |-> place]
Unless(wrong, place, value) == IF wrong THEN At(place, value) ELSE value

-----------------------------------------------------------------------------
(* Digits.                                                                  *)

Bigint == {big \in Seq(Digit) : Len(big) >= 1}

IsNegative(big) == big[1] % 2 = 1
SetNegative(big) == [big EXCEPT ![1] = (@ \div 2) * 2 + 1]
Signed(negative, digits) == IF negative THEN SetNegative(digits) ELSE digits

\* count_sig_digits: leading zeros are not significant.
SigDigits(big) ==
    LET size[i \in 0..Len(big)] == IF i = 0 THEN 0 ELSE IF big[i] # 0 THEN i ELSE size[i - 1]
    IN  size[Len(big)]

\* get_digit, for i from 1: 0 past the end, and never the sign.
GetDigit(i, size, big) ==
    IF i > size THEN 0 ELSE IF i = 1 THEN (big[1] \div 2) * 2 ELSE big[i]

Zeros(size) == [i \in 1..size |-> 0]
Larger(m, n) == IF m > n THEN m ELSE n

\* A fixint as a bigint of one digit.  IntMin would need two; the buffer the
\* runtime keeps for it has them, but its size says one.
NumIntMin == <<1>>
FakeBigint(n) ==
    IF n = IntMin THEN NumIntMin
    ELSE <<2 * Magnitude(n) + (IF n < 0 THEN 1 ELSE 0)>>

\* The digit at i without the sign, and the number of turns a loop over the
\* digits of both takes.
DigitOf(big, i) == GetDigit(i, SigDigits(big), big)
Width(l, r) == Larger(SigDigits(l), SigDigits(r))

\* unsigned_cmp: the most significant digit that differs decides.
UnsignedCmp(l, r) ==
    LET after[i \in 0..Width(l, r)] ==
            IF i = 0 THEN 0
            ELSE IF DigitOf(l, i) < DigitOf(r, i) THEN -1
            ELSE IF DigitOf(l, i) > DigitOf(r, i) THEN 1
            ELSE after[i - 1]
    IN  after[Width(l, r)]

\* What a bigint means.
DigitsValue(digits) ==
    LET highest[k \in 0..Len(digits)] ==  \* the k most significant ones
            IF k = 0 THEN 0 ELSE digits[Len(digits) - k + 1] + Base * highest[k - 1]
    IN  highest[Len(digits)]
BigValue(big) ==
    LET size == DigitsValue(big) \div 2 IN IF IsNegative(big) THEN -size ELSE size

-----------------------------------------------------------------------------
(* Addition and subtraction of magnitudes.                                  *)

\* "lost": some turn of the loop dropped its carry.
UnsignedAdd(l, r) ==
    LET after[i \in 0..(1 + Width(l, r))] ==
            IF i = 0 THEN [carry |-> 0, out |-> << >>, lost |-> FALSE]
            ELSE LET done == after[i - 1] IN
                 [carry |-> CarryOut(DigitOf(l, i), DigitOf(r, i), done.carry),
                  out |-> Append(done.out, SumDigit(DigitOf(l, i), DigitOf(r, i), done.carry)),
                  lost |-> done.lost \/ CarryIsLost(DigitOf(l, i), DigitOf(r, i), done.carry)]
    IN  after[1 + Width(l, r)]

UnsignedSub(l, r) ==
    LET after[i \in 0..Width(l, r)] ==
            IF i = 0 THEN [borrow |-> 0, out |-> << >>]
            ELSE LET done == after[i - 1] IN
                 [borrow |-> BorrowOut(DigitOf(l, i), DigitOf(r, i), done.borrow),
                  out |-> Append(done.out,
                                 DifferenceDigit(DigitOf(l, i), DigitOf(r, i), done.borrow))]
    IN  after[Width(l, r)].out

-----------------------------------------------------------------------------
(* Integers.                                                                *)

IntValue(v) == IF v.kind = "fix" THEN v.n ELSE BigValue(v.digits)

\* An integer is a fixint whenever an int can hold it.
CanonicalInteger(v) ==
    \/ v.kind = "fix" /\ v.n \in CInt
    \/ /\ v.kind = "big"
       /\ v.digits \in Bigint
       /\ BigValue(v.digits) \notin CInt

\* collapse_small_bigints.  The negated digit is unsigned, so the sign is
\* shifted out of it: a small negative number does not come back.
Collapse(digits) ==
    LET size == SigDigits(digits) IN
    IF size <= 1 /\ IsNegative(digits)
    THEN At("negative", Fix(Wrap((Base - digits[1]) \div 2)))
    ELSE IF size <= 1 THEN Fix(Wrap(digits[1] \div 2))
    ELSE IF size = 2 /\ digits[1] = 1 /\ digits[2] = 1 THEN Fix(IntMin)
    ELSE Big(digits)

\* The two branches of Bigint_Add and Bigint_Subtract: the magnitudes added
\* under the left sign, or the smaller taken from the larger.
Carried(sum, negative) ==
    Unless(sum.lost, "carry", Collapse(Signed(negative, sum.out)))
MagnitudesAdded(l, r) == Carried(UnsignedAdd(l, r), IsNegative(l))

MagnitudesSubtracted(l, r, negativeIfRight) ==
    LET Less(order) == order < 0
        Difference(order) ==
            IF order = 0 THEN Fix(0)
            ELSE Collapse(
                    Signed(IF Less(order) THEN negativeIfRight ELSE IsNegative(l),
                           UnsignedSub(IF Less(order) THEN r ELSE l,
                                       IF Less(order) THEN l ELSE r)))
    IN  Difference(UnsignedCmp(l, r))

\* Bigint_Add and Bigint_Subtract, with two bigints.
BigSum(op, l, r) ==
    IF (op = "add") = (IsNegative(l) = IsNegative(r)) THEN MagnitudesAdded(l, r)
    ELSE MagnitudesSubtracted(l, r, IsNegative(r) = (op = "add"))

\* MakeFakeBigint and MakeTemporaryBigint.
Digits(v) == IF v.kind = "big" THEN v.digits ELSE FakeBigint(v.n)
IsIntMin(v) == v.kind = "fix" /\ v.n = IntMin

\* The sum or the difference of two integers.  Ints that go out of their range
\* go by way of bigints; an int plus a bigint is commuted.
SumOverflows(op, m, n) ==
    IF op = "add" THEN AddOverflows(m, n) ELSE SubtractOverflows(m, n)
IntegerSum(op, l, r) ==
    LET fixLeft == l.kind = "fix"
        fixBoth == fixLeft /\ r.kind = "fix"
        commuted == fixLeft /\ ~fixBoth /\ op = "add"
    IN  IF fixBoth /\ ~SumOverflows(op, l.n, r.n)
        THEN Fix(Wrap(IF op = "add" THEN l.n + r.n ELSE l.n - r.n))
        ELSE Unless(IsIntMin(l) \/ IsIntMin(r), "int_min",
                    BigSum(op, Digits(IF commuted THEN r ELSE l),
                               Digits(IF commuted THEN l ELSE r)))

\* Relations: -1, 0 or 1 for less, equal and greater.
RelationFromInt(n) == IF n < 0 THEN -1 ELSE IF n > 0 THEN 1 ELSE 0
InvertRelation(rel) == -rel

\* Fixint_Compare_to: the difference of two ints may leave the range.
FixOrder(m, n) == RelationFromInt(Wrap(m - n))

BigOrderUnsigned(l, r) ==
    CASE r.kind = "fix" -> IF IsNegative(l.digits) THEN -1 ELSE 1
      [] IsNegative(l.digits) # IsNegative(r.digits) ->
            IF IsNegative(l.digits) THEN -1 ELSE 1
      [] OTHER -> UnsignedCmp(l.digits, r.digits)

\* Bigint_Compare_to with a fixint, and with a bigint.
BigOrder(l, r) ==
    CASE r.kind = "fix" -> IF IsNegative(l.digits) THEN -1 ELSE 1
      [] IsNegative(l.digits) # IsNegative(r.digits) ->
            IF IsNegative(l.digits) THEN -1 ELSE 1
      [] OTHER -> UnsignedCmp(l.digits, r.digits)
                  * (IF IsNegative(l.digits) THEN -1 ELSE 1)

IntegerOrder(l, r) ==
    LET inverted == l.kind = "fix" /\ r.kind = "big" IN
    IF l.kind = "fix" /\ r.kind = "fix" THEN FixOrder(l.n, r.n)
    ELSE (IF inverted THEN InvertRelation(1) ELSE 1)
         * BigOrder(IF inverted THEN r ELSE l, IF inverted THEN l ELSE r)
=============================================================================
