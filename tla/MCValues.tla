------------------------------ MODULE MCValues ------------------------------
(* Finite instances of the values a program computes with, side by side: a  *)
(* behaviour is a computation with numbers, or the history of one map or of *)
(* one list.                                                                *)
EXTENDS Calculator, TreeMap, FingerList

(* Ints from -8 to 7, digits below 16, literals in base 2.                  *)
\* Up to five characters, one of which may be the point, and six of a number
\* below 1.
LiteralChars ==
    UNION {{s \in [1..n -> {Point, 0, 1}] :
                /\ Cardinality({i \in 1..n : s[i] = Point}) <= 1
                /\ s[1] # Point /\ s[n] # Point} : n \in 1..5}
    \union {<<0, Point>> \o s : s \in [1..4 -> {0, 1}]}

Half == [top |-> 1, bottom |-> 2]

\* Both ends of the int range, the least bigints on either side, one of two
\* digits with a full second digit, rationals and a float.
OperandValues ==
    {Fix(n) : n \in {IntMin, -3, -1, 0, 1, 2, 6, IntMax}}
    \union {Big(<<0, 1>>), Big(<<2, 15>>), Big(<<3, 1>>), Big(<<14, 15>>)}
    \union {[kind |-> "rat", numer |-> Fix(n), denom |-> Fix(d)] :
                n \in {-5, 1}, d \in {2, 3}}
    \union {Float(Half)}

-----------------------------------------------------------------------------
VARIABLE kind   \* what the behaviour is of

valuesVars == <<kind, vars, calculatorVars, listVars>>

\* What a behaviour is not about stands still: 0, or an empty map or list.
NoNumber == number = Fix(0) /\ exact = X!Whole(0)

ValuesInit == \/ kind = "number" /\ CalculatorInit /\ Init /\ ListInit
              \/ kind \in {"map", "list"} /\ NoNumber /\ Init /\ ListInit

ValuesNext ==
    \/ kind = "number" /\ CalculatorNext /\ UNCHANGED <<kind, vars, listVars>>
    \/ kind = "map" /\ Next /\ UNCHANGED <<kind, calculatorVars, listVars>>
    \/ kind = "list" /\ ListNext /\ UNCHANGED <<kind, vars, calculatorVars>>

ValuesSpec == ValuesInit /\ [][ValuesNext]_valuesVars

\* The properties are those of Calculator, of TreeMap and of FingerList.
=============================================================================
