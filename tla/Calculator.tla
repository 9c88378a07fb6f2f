----------------------------- MODULE Calculator -----------------------------
(***************************************************************************)
(* A program that computes: it starts from a literal and goes on calling   *)
(* the methods of its last answer, or of another number with the answer as *)
(* argument.  Beside the answer the specification keeps what the answer    *)
(* would be in exact arithmetic.  A computation ends with an exception, or *)
(* at a place that goes wrong.                                             *)
(***************************************************************************)
EXTENDS Numbers

CONSTANTS
    Literals,   \* the literals of the program
    Operands,   \* the other numbers, as values
    MaxTop,     \* bounds on the exact answer
    MaxBottom

VARIABLES
    number,     \* the last answer
    exact       \* what it should mean

calculatorVars == <<number, exact>>

Ops == {"add", "subtract", "multiply", "divide", "modulus"} \union BitOps

Within(x) == /\ X!Abs(x.top) <= MaxTop
             /\ x.bottom <= MaxBottom

\* With a float there is no remainder and no bit here, and no division by 0.
Asked(op, l, r) ==
    \/ l.kind # "float" /\ r.kind # "float"
    \/ op \in {"add", "subtract", "multiply"}
    \/ op = "divide" /\ Meaning(r).top # 0

\* A computation starts with a literal of the program.
CalculatorInit ==
    \E chars \in Literals :
        /\ number = NumberLiteral(chars)
        /\ exact = LiteralMeaning(X!Whole(0), 1, chars)

\* number.op(k)
CallAnswer(op, k) ==
    /\ IsANumber(number)
    /\ Asked(op, number, k)
    /\ exact' = X!Operate(op, exact, Meaning(k))
    /\ Within(exact')
    /\ number' = Method(op, number, k)

\* k.op(number)
CallOther(op, k) ==
    /\ IsANumber(number)
    /\ Asked(op, k, number)
    /\ exact' = X!Operate(op, Meaning(k), exact)
    /\ Within(exact')
    /\ number' = Method(op, k, number)

\* number ** k
Raise(k) ==
    /\ number.kind \in {"fix", "rat", "big"}
    /\ k.kind = "fix"
    /\ exact' = IF number.kind = "big" THEN X!Error
                ELSE X!Operate("exponentiate", exact, Meaning(k))
    /\ Within(exact')
    /\ number' = Exponentiate(number, k)

CalculatorNext ==
    \/ \E op \in Ops, k \in Operands : CallAnswer(op, k) \/ CallOther(op, k)
    \/ \E k \in Operands : Raise(k)

CalculatorSpec == CalculatorInit /\ [][CalculatorNext]_calculatorVars

-----------------------------------------------------------------------------

\* The representations bigints.h and rationals.c promise: no bigint that fits
\* an int, and rationals in lowest terms over a denominator greater than 1.
NumbersCanonical ==
    CASE number.kind \in {"fix", "big"} -> CanonicalInteger(number)
      [] number.kind = "rat" ->
            /\ CanonicalInteger(number.numer)
            /\ CanonicalInteger(number.denom)
            /\ IntValue(number.denom) > 1
            /\ X!Gcd(X!Abs(IntValue(number.numer)), IntValue(number.denom)) = 1
      [] OTHER -> number.kind \in {"float", "thrown", "trouble"}

\* However the ints overflowed on the way, the answer is the exact one; and an
\* exception is thrown where exact arithmetic has no answer, and only there.
NumbersExact ==
    CASE IsANumber(number) -> Meaning(number) = exact
      [] number.kind = "thrown" -> X!IsError(exact)
      [] OTHER -> TRUE

Agree(there, back, order) ==
    there \in {order, Astray} /\ back \in {InvertRelation(order), Astray}

\* Comparison orders numbers of every representation as exact numbers, and
\* both ways round alike.
NumbersOrdered ==
    IsANumber(number) =>
        \A k \in Operands :
            Agree(CompareTo(number, k), CompareTo(k, number),
                  X!Order(Meaning(number), Meaning(k)))
=============================================================================
