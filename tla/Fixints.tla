------------------------------ MODULE Fixints ------------------------------
(***************************************************************************)
(* The C arithmetic under the runtime's integers (src/runtime/atoms): the  *)
(* machine int of a fixint and the tests fixints.c makes before it adds,   *)
(* subtracts or multiplies two of them, and the unsigned digit of a bigint *)
(* with the carry and the borrow of bigints.c.                             *)
(*                                                                         *)
(* The width is a parameter: a digit is two half digits of HalfBase values *)
(* each (65536 on every platform the runtime builds for).                  *)
(***************************************************************************)
EXTENDS Integers

CONSTANT HalfBase

ASSUME HalfBaseAssumption ==
    /\ HalfBase \in Nat
    /\ HalfBase % 2 = 0
    /\ HalfBase > 0

Base == HalfBase * HalfBase
Digit == 0..(Base - 1)

IntMax == (Base \div 2) - 1
IntMin == -(Base \div 2)
CInt == IntMin..IntMax

Magnitude(n) == IF n < 0 THEN -n ELSE n

\* A two's complement int of this width.
Wrap(n) == ((n - IntMin) % Base) + IntMin

\* C's / and %, which truncate: undefined for 0, and for IntMin by -1.
QuotientDefined(l, r) == r # 0 /\ ~(l = IntMin /\ r = -1)
Quo(l, r) ==
    LET q == Magnitude(l) \div Magnitude(r) IN
    IF (l < 0) = (r < 0) THEN q ELSE -q
Rem(l, r) == l - r * Quo(l, r)

-----------------------------------------------------------------------------
(* The tests of Fixint_Add, Fixint_Subtract and Fixint_Multiply for a       *)
(* result that needs a bigint.                                              *)

AddOverflows(l, r) ==
    IF r > 0 THEN l > IntMax - r ELSE l < IntMin - r

SubtractOverflowsLate(l, r) ==
    IF r > 0 THEN l < IntMin + r - 1 ELSE l > IntMax + r

SubtractOverflows(l, r) ==
    IF r > 0 THEN l < IntMin + r ELSE l > IntMax + r

MultiplyOverflows(l, r) ==
    IF r > 0 THEN l > Quo(IntMax, r) \/ l < Quo(IntMin, r)
    ELSE IF r < -1 THEN l > Quo(IntMin, r) \/ l < Quo(IntMax, r)
    ELSE r = -1 /\ l = IntMin

-----------------------------------------------------------------------------
(* One turn of the loops of unsigned_add and unsigned_sub.                  *)

SumDigit(l, r, carry) == (l + r + carry) % Base
CarryOut(l, r, carry) ==
    IF SumDigit(l, r, carry) < l \/ SumDigit(l, r, carry) < r THEN 1 ELSE 0

\* The case in which the carry is lost: the sum of two full digits and a
\* carry is a full digit again, and not less than either.
CarryIsLost(l, r, carry) == l = Base - 1 /\ r = Base - 1 /\ carry = 1

Borrowed(r, borrow) == (r + borrow) % Base
DifferenceDigit(l, r, borrow) == (l - Borrowed(r, borrow)) % Base
BorrowOut(l, r, borrow) ==
    IF \/ borrow = 1 /\ Borrowed(r, borrow) = 0
       \/ Borrowed(r, borrow) > l
    THEN 1 ELSE 0
=============================================================================
