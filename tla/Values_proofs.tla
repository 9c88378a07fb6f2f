---------------------------- MODULE Values_proofs ----------------------------
(* The numbers and the maps a program computes with: what the tests and the *)
(* digit steps of Fixints decide, for ints of every width; and that the     *)
(* AA-tree of MapTree stays balanced and answers as a map, for every finite *)
(* set of keys.                                                             *)
EXTENDS Bigints, TreeMap, Closure_proofs, FiniteSetTheorems, SequenceTheorems, TLAPS

-----------------------------------------------------------------------------
(* Ints.                                                                    *)
\* The base of a digit is even and at least 4: the int range is symmetric but
\* for its least element.
LEMMA BaseFacts ==
    /\ Base \in Nat /\ Base >= 4
    /\ IntMax \in Nat /\ IntMax >= 1
    /\ IntMin \in Int /\ IntMin = -IntMax - 1
    /\ Base = 2 * (IntMax + 1)
<1>1. PICK h \in Nat : HalfBase = 2 * h /\ h >= 1
  <2>1. /\ HalfBase \div 2 \in Nat
        /\ HalfBase = 2 * (HalfBase \div 2)
    BY HalfBaseAssumption
  <2>2. HalfBase \div 2 >= 1
    BY <2>1, HalfBaseAssumption
  <2> QED BY <2>1, <2>2
<1> DEFINE q == h * h
<1>2. q \in Nat /\ q >= 1
  BY <1>1, SMT
<1>3. HalfBase * HalfBase = 4 * q
  BY <1>1, SMT
<1>4. Base = 4 * q
  BY <1>3 DEF Base
<1> HIDE DEF q
<1>5. Base \div 2 = 2 * q
  BY <1>2, <1>4
<1> QED BY <1>2, <1>4, <1>5 DEF IntMax, IntMin

\* Fixint_Add goes to a bigint exactly when the sum of two ints is not an int.
THEOREM AddTest ==
    ASSUME NEW l \in CInt, NEW r \in CInt
    PROVE  AddOverflows(l, r) <=> l + r \notin CInt
BY BaseFacts DEF AddOverflows, CInt

\* Fixint_Subtract, likewise.
THEOREM SubtractTest ==
    ASSUME NEW l \in CInt, NEW r \in CInt
    PROVE  SubtractOverflows(l, r) <=> l - r \notin CInt
BY BaseFacts DEF SubtractOverflows, CInt

-----------------------------------------------------------------------------

\* Products keep the order of their factors.
LEMMA ProductsOrdered ==
    ASSUME NEW a \in Int, NEW b \in Int, NEW r \in Nat, a <= b
    PROVE  a * r <= b * r
<1>1. (b - a) \in Nat
  OBVIOUS
<1>2. (b - a) * r >= 0
  BY <1>1, SMT
<1>3. (b - a) * r = b * r - a * r
  BY SMT
<1> QED BY <1>2, <1>3, SMT

\* A natural quotient is the greatest multiplier that stays within.
LEMMA NaturalQuotient ==
    ASSUME NEW m \in Nat, NEW r \in Nat, r > 0
    PROVE  /\ m \div r \in Nat
           /\ (m \div r) * r <= m
           /\ m < (m \div r + 1) * r
<1> DEFINE q == m \div r
<1>1. q \in Nat /\ m = r * q + (m % r) /\ 0 <= m % r /\ m % r < r
  BY SMT
<1> HIDE DEF q
<1>2. q * r = r * q /\ (q + 1) * r = r * q + r
  BY <1>1, SMT
<1>3. q * r <= m /\ m < (q + 1) * r
  BY <1>1, <1>2, SMT
<1> QED BY <1>1, <1>3 DEF q

\* For a positive divisor an int exceeds the truncated quotient of a bound of
\* its sign exactly when the product leaves the bound.
LEMMA AboveQuotient ==
    ASSUME NEW l \in Int, NEW m \in Nat, NEW r \in Nat, r > 0
    PROVE  l > m \div r <=> l * r > m
<1> DEFINE q == m \div r
<1>1. q \in Nat /\ q * r <= m /\ m < (q + 1) * r
  BY NaturalQuotient DEF q
<1> HIDE DEF q
<1>a. l * r \in Int /\ q * r \in Int /\ (q + 1) * r \in Int
  BY <1>1, SMT
<1>2. CASE l > q
  <2>1. (q + 1) * r <= l * r
    BY <1>1, <1>2, ProductsOrdered
  <2> QED BY <1>1, <1>2, <1>a, <2>1, SMT DEF q
<1>3. CASE ~(l > q)
  <2>1. l * r <= q * r
    BY <1>1, <1>3, ProductsOrdered
  <2> QED BY <1>1, <1>3, <1>a, <2>1, SMT DEF q
<1> QED BY <1>2, <1>3

\* Fixint_Multiply goes to a bigint exactly when the product of two ints is
\* not an int.
THEOREM MultiplyTest ==
    ASSUME NEW l \in CInt, NEW r \in CInt
    PROVE  MultiplyOverflows(l, r) <=> l * r \notin CInt
<1>0. l \in Int /\ r \in Int /\ l * r \in Int /\ IntMin <= l /\ l <= IntMax
  BY BaseFacts, SMT DEF CInt
<1>1. CASE r > 0
  <2>1. Quo(IntMax, r) = IntMax \div r
    BY <1>0, <1>1, BaseFacts DEF Quo, Magnitude
  <2>2. Quo(IntMin, r) = -((IntMax + 1) \div r)
    BY <1>0, <1>1, BaseFacts DEF Quo, Magnitude
  <2>3. l > IntMax \div r <=> l * r > IntMax
    BY <1>0, <1>1, BaseFacts, AboveQuotient
  <2>4. -l > (IntMax + 1) \div r <=> (-l) * r > IntMax + 1
    BY <1>0, <1>1, BaseFacts, AboveQuotient
  <2>5. (-l) * r = -(l * r)
    BY <1>0, SMT
  <2>6. (IntMax + 1) \div r \in Int
    BY <1>0, <1>1, BaseFacts
  <2> QED
    BY <1>0, <1>1, <2>1, <2>2, <2>3, <2>4, <2>5, <2>6, BaseFacts
    DEF MultiplyOverflows, CInt
<1>2. CASE r < -1
  <2> DEFINE s == -r
  <2>0. s \in Nat /\ s > 0
    BY <1>0, <1>2
  <2>1. Quo(IntMin, r) = (IntMax + 1) \div s
    BY <1>0, <1>2, BaseFacts DEF Quo, Magnitude
  <2>2. Quo(IntMax, r) = -(IntMax \div s)
    BY <1>0, <1>2, BaseFacts DEF Quo, Magnitude
  <2> HIDE DEF s
  <2>3. l > (IntMax + 1) \div s <=> l * s > IntMax + 1
    BY <1>0, <2>0, BaseFacts, AboveQuotient
  <2>4. -l > IntMax \div s <=> (-l) * s > IntMax
    BY <1>0, <2>0, BaseFacts, AboveQuotient
  <2>5. l * s = -(l * r) /\ (-l) * s = l * r
    BY <1>0, SMT DEF s
  <2>6. IntMax \div s \in Int
    BY <2>0, BaseFacts
  <2> QED
    BY <1>0, <1>2, <2>1, <2>2, <2>3, <2>4, <2>5, <2>6, BaseFacts
    DEF MultiplyOverflows, CInt
<1>3. CASE r = -1
  <2>1. l * r = -l
    BY <1>0, <1>3
  <2> QED BY <1>0, <1>3, <2>1, BaseFacts DEF MultiplyOverflows, CInt
<1>4. CASE r = 0
  <2>1. l * r = 0
    BY <1>0, <1>4
  <2> QED BY <1>0, <1>4, <2>1, BaseFacts DEF MultiplyOverflows, CInt
<1> QED BY <1>0, <1>1, <1>2, <1>3, <1>4

-----------------------------------------------------------------------------

\* One turn of unsigned_add is right but in the one case in which two full
\* digits meet a carry.
THEOREM CarryRight ==
    ASSUME NEW l \in Digit, NEW r \in Digit, NEW carry \in {0, 1}
    PROVE  /\ SumDigit(l, r, carry) \in Digit
           /\ SumDigit(l, r, carry) + Base * CarryOut(l, r, carry)
                = l + r + carry
              <=> ~CarryIsLost(l, r, carry)
<1> DEFINE s == l + r + carry
<1>0. Base \in Nat /\ Base >= 4 /\ l \in Nat /\ r \in Nat
      /\ l < Base /\ r < Base /\ s \in Nat /\ s < 2 * Base
  BY BaseFacts DEF Digit
<1>1. SumDigit(l, r, carry) = IF s < Base THEN s ELSE s - Base
  BY <1>0 DEF SumDigit
<1>2. CASE s < Base
  BY <1>0, <1>1, <1>2 DEF CarryOut, CarryIsLost, Digit
<1>3. CASE s >= Base
  BY <1>0, <1>1, <1>3 DEF CarryOut, CarryIsLost, Digit
<1> QED BY <1>0, <1>2, <1>3

\* One turn of unsigned_sub is always right.
THEOREM BorrowRight ==
    ASSUME NEW l \in Digit, NEW r \in Digit, NEW borrow \in {0, 1}
    PROVE  /\ DifferenceDigit(l, r, borrow) \in Digit
           /\ DifferenceDigit(l, r, borrow) - Base * BorrowOut(l, r, borrow)
                = l - r - borrow
<1> DEFINE b == Borrowed(r, borrow)
<1>0. Base \in Nat /\ Base >= 4 /\ l \in Nat /\ r \in Nat
      /\ l < Base /\ r < Base
  BY BaseFacts DEF Digit
<1>1. b = IF r + borrow = Base THEN 0 ELSE r + borrow
  BY <1>0 DEF Borrowed
<1>2. b \in Nat /\ b < Base
  BY <1>0, <1>1
<1>3. DifferenceDigit(l, r, borrow) = IF b > l THEN l - b + Base ELSE l - b
  <2> HIDE DEF b
  <2>1. (l - b) % Base = IF b > l THEN l - b + Base ELSE l - b
    BY <1>0, <1>2
  <2> QED BY <2>1 DEF DifferenceDigit, b
<1>4. BorrowOut(l, r, borrow) = IF (borrow = 1 /\ b = 0) \/ b > l THEN 1 ELSE 0
  BY DEF BorrowOut
<1> QED BY <1>0, <1>1, <1>2, <1>3, <1>4 DEF Digit

-----------------------------------------------------------------------------
(* Bigints: the digit loops, for any number of digits.                      *)
\* A loop with a typed state can be run for any number of turns.
Turns(f, n, s, G) == f[0] = s /\ \A i \in 1..n : f[i] = G[<<i, f[i - 1]>>]

LEMMA LoopRuns ==
  ASSUME NEW T, NEW s \in T, NEW n \in Nat, NEW G \in [(1..n) \X T -> T]
  PROVE  \E f \in [0..n -> T] : Turns(f, n, s, G)
<1> DEFINE Has == {m \in Nat : m <= n =>
                     \E f \in [0..m -> T] : Turns(f, m, s, G)}
<1>1. 0 \in Has
  <2> DEFINE f == [i \in 0..0 |-> s]
  <2>1. f \in [0..0 -> T] /\ Turns(f, 0, s, G)
    BY DEF Turns
  <2> QED BY <2>1
<1>2. ASSUME NEW m \in Has PROVE m + 1 \in Has
  <2>0. m \in Nat /\ m + 1 \in Nat
    OBVIOUS
  <2> SUFFICES ASSUME m + 1 <= n
               PROVE  \E f \in [0..(m + 1) -> T] : Turns(f, m + 1, s, G)
    BY <2>0
  <2>a. PICK f \in [0..m -> T] : Turns(f, m, s, G)
    BY <2>0
  <2>1. f \in [0..m -> T] /\ f[0] = s /\ \A i \in 1..m : f[i] = G[<<i, f[i - 1]>>]
    BY <2>a DEF Turns
  <2> DEFINE g == [i \in 0..(m + 1) |-> IF i <= m THEN f[i] ELSE G[<<m + 1, f[m]>>]]
  <2>2. f[m] \in T /\ m + 1 \in 1..n /\ G[<<m + 1, f[m]>>] \in T
    BY <2>0, <2>1
  <2>3. g \in [0..(m + 1) -> T]
    BY <2>0, <2>1, <2>2
  <2>4. g[0] = s
    BY <2>0, <2>1
  <2>5. ASSUME NEW i \in 1..(m + 1) PROVE g[i] = G[<<i, g[i - 1]>>]
    <3>1. CASE i \in 1..m
      <4>1. g[i] = f[i] /\ g[i - 1] = f[i - 1]
        BY <2>0, <3>1
      <4> QED BY <2>1, <3>1, <4>1
    <3>2. CASE i = m + 1
      <4>1. i - 1 = m /\ g[i - 1] = f[m] /\ g[i] = G[<<m + 1, f[m]>>]
        BY <2>0, <3>2
      <4> QED BY <3>2, <4>1
    <3> QED BY <2>0, <3>1, <3>2
  <2> HIDE DEF g
  <2>6. Turns(g, m + 1, s, G)
    BY <2>4, <2>5 DEF Turns
  <2> QED BY <2>3, <2>6
<1> HIDE DEF Has
<1>3. Has = Nat
  BY <1>1, <1>2, Induction DEF Has
<1> QED BY <1>3 DEF Has

\* A bigint has a first digit, which holds its sign.
LEMMA BigintType ==
  ASSUME NEW big \in Bigint
  PROVE  /\ big \in Seq(Digit) /\ Len(big) \in Nat /\ Len(big) >= 1
         /\ \A i \in 1..Len(big) : big[i] \in Digit
BY DEF Bigint

\* Digits are less than the base.
LEMMA DigitType == \A d \in Digit : d \in Nat /\ d < Base /\ Base - 1 \in Digit /\ 0 \in Digit
BY BaseFacts DEF Digit

\* count_sig_digits: all digits above are zeros, and the highest that counts is not.
LEMMA SigDigitsRight ==
  ASSUME NEW big \in Bigint
  PROVE  /\ SigDigits(big) \in 0..Len(big)
         /\ \A i \in 1..Len(big) : i > SigDigits(big) => big[i] = 0
         /\ SigDigits(big) >= 1 => big[SigDigits(big)] # 0
<1> DEFINE n == Len(big)
           IsSize(f) == f = [i \in 0..n |-> IF i = 0 THEN 0 ELSE IF big[i] # 0 THEN i ELSE f[i - 1]]
<1>0. n \in Nat /\ n >= 1
  BY BigintType
<1>1. \E f : IsSize(f)
  <2> DEFINE G == [it \in (1..n) \X (0..n) |-> IF big[it[1]] # 0 THEN it[1] ELSE it[2]]
  <2>1. G \in [(1..n) \X (0..n) -> 0..n] /\ 0 \in 0..n
    BY <1>0
  <2>a. \E f \in [0..n -> 0..n] : Turns(f, n, 0, G)
    <3> HIDE DEF G, n
    <3> QED BY <1>0, <2>1, LoopRuns
  <2>2. PICK f \in [0..n -> 0..n] : f[0] = 0 /\ \A i \in 1..n : f[i] = G[<<i, f[i - 1]>>]
    BY <2>a DEF Turns
  <2>3. ASSUME NEW i \in 1..n PROVE f[i] = IF big[i] # 0 THEN i ELSE f[i - 1]
    <3>1. i - 1 \in 0..n /\ f[i - 1] \in 0..n
      BY <1>0, <2>2
    <3> QED BY <2>2, <3>1
  <2>4. f = [i \in 0..n |-> IF i = 0 THEN 0 ELSE IF big[i] # 0 THEN i ELSE f[i - 1]]
    <3> HIDE DEF G
    <3>1. \A i \in 0..n : i # 0 => i \in 1..n
      BY <1>0
    <3>2. \A i \in 0..n : f[i] = IF i = 0 THEN 0 ELSE IF big[i] # 0 THEN i ELSE f[i - 1]
      BY <2>2, <2>3, <3>1
    <3> QED BY <2>2, <3>2
  <2> QED BY <2>4
<1> DEFINE f == CHOOSE f : IsSize(f)
<1>2. IsSize(f)
  BY <1>1
<1>3. SigDigits(big) = f[n]
  BY DEF SigDigits
<1> HIDE DEF f
<1> DEFINE Fine == {k \in Nat : k <= n =>
                      /\ f[k] \in 0..k /\ \A i \in 1..k : i > f[k] => big[i] = 0
                      /\ f[k] >= 1 => big[f[k]] # 0}
<1>4. 0 \in Fine
  BY <1>0, <1>2
<1>5. ASSUME NEW k \in Fine PROVE k + 1 \in Fine
  <2> SUFFICES ASSUME k + 1 <= n
               PROVE  /\ f[k + 1] \in 0..(k + 1) /\ \A i \in 1..(k + 1) : i > f[k + 1] => big[i] = 0
                      /\ f[k + 1] >= 1 => big[f[k + 1]] # 0
    OBVIOUS
  <2>1. /\ k \in Nat /\ f[k] \in 0..k /\ \A i \in 1..k : i > f[k] => big[i] = 0
        /\ f[k] >= 1 => big[f[k]] # 0
    BY <1>0
  <2>2. f[k + 1] = IF big[k + 1] # 0 THEN k + 1 ELSE f[k]
    <3>1. k + 1 \in 0..n /\ k + 1 # 0 /\ (k + 1) - 1 = k
      BY <1>0, <2>1
    <3> QED BY <1>2, <3>1
  <2> QED BY <2>1, <2>2
<1> HIDE DEF Fine
<1>6. Fine = Nat
  BY <1>4, <1>5, Induction DEF Fine
<1>7. n \in Fine
  BY <1>0, <1>6
<1> QED BY <1>0, <1>3, <1>7 DEF Fine

\* get_digit: a digit everywhere, without the sign, and 0 past the end.
LEMMA DigitOfRight ==
  ASSUME NEW big \in Bigint
  PROVE  /\ \A i \in Nat : i >= 1 => DigitOf(big, i) \in Digit
         /\ \A i \in Nat : i > SigDigits(big) => DigitOf(big, i) = 0
         /\ \A i \in 2..Len(big) : DigitOf(big, i) = big[i]
         /\ DigitOf(big, 1) = (big[1] \div 2) * 2
<1>0. /\ SigDigits(big) \in 0..Len(big) /\ Len(big) \in Nat /\ Len(big) >= 1
      /\ \A i \in 1..Len(big) : big[i] \in Digit
      /\ \A i \in 1..Len(big) : i > SigDigits(big) => big[i] = 0
  BY BigintType, SigDigitsRight
<1>1. \A d \in Digit : (d \div 2) * 2 \in Digit
  BY BaseFacts DEF Digit
<1>2. 0 \in Digit
  BY BaseFacts DEF Digit
<1>3. \A i \in Nat : i > SigDigits(big) => DigitOf(big, i) = 0
  BY DEF DigitOf, GetDigit
<1>4. ASSUME NEW i \in Nat, i >= 1, ~ i > SigDigits(big)
      PROVE  DigitOf(big, i) = IF i = 1 THEN (big[1] \div 2) * 2 ELSE big[i]
  BY <1>4 DEF DigitOf, GetDigit
<1>5. \A i \in 2..Len(big) : DigitOf(big, i) = big[i]
  BY <1>0, <1>3, <1>4
<1>6. DigitOf(big, 1) = (big[1] \div 2) * 2
  <2>1. CASE 1 > SigDigits(big)
    <3>1. big[1] = 0 /\ DigitOf(big, 1) = 0
      BY <1>0, <1>3, <2>1
    <3> QED BY <3>1
  <2>2. CASE ~ 1 > SigDigits(big)
    BY <1>4, <2>2
  <2> QED BY <2>1, <2>2
<1>7. ASSUME NEW i \in Nat, i >= 1 PROVE DigitOf(big, i) \in Digit
  <2>1. CASE i > SigDigits(big)
    BY <1>2, <1>3, <2>1
  <2>2. CASE ~ i > SigDigits(big)
    <3>1. i \in 1..Len(big)
      BY <1>0, <1>7, <2>2
    <3>2. big[i] \in Digit /\ big[1] \in Digit
      BY <1>0, <3>1
    <3> QED BY <1>1, <1>4, <1>7, <2>2, <3>2
  <2> QED BY <2>1, <2>2
<1> QED BY <1>3, <1>5, <1>6, <1>7

\* The loops of unsigned_cmp, unsigned_add and unsigned_sub have as many turns
\* as the longer of the two numbers has digits.
LEMMA WidthRight ==
  ASSUME NEW l \in Bigint, NEW r \in Bigint
  PROVE  Width(l, r) \in Nat /\ Width(l, r) >= SigDigits(l) /\ Width(l, r) >= SigDigits(r)
<1>1. SigDigits(l) \in Nat /\ SigDigits(r) \in Nat
  BY SigDigitsRight, BigintType
<1> QED BY <1>1 DEF Width, Larger

-----------------------------------------------------------------------------
(* What digits come to.                                                     *)
Highest(f, d) == f[0] = 0 /\ \A k \in 1..Len(d) : f[k] = d[Len(d) - k + 1] + Base * f[k - 1]

\* A product with the base is a number; SMT needs to be told.
LEMMA Scaled == \A x \in Nat : Base * x \in Nat /\ Base * 0 = 0
<1>1. Base \in Nat
  BY BaseFacts
<1> HIDE DEF Base
<1> QED BY <1>1, SMT

\* DigitsValue is what its equation says.
LEMMA ValueIs ==
  ASSUME NEW d \in Seq(Digit)
  PROVE  \E f : /\ Highest(f, d) /\ DigitsValue(d) = f[Len(d)]
                /\ \A k \in 0..Len(d) : f[k] \in Nat
<1> DEFINE n == Len(d)
           Is(f) == f = [k \in 0..n |-> IF k = 0 THEN 0 ELSE d[n - k + 1] + Base * f[k - 1]]
<1>0. n \in Nat /\ \A k \in 1..n : n - k + 1 \in 1..n /\ d[n - k + 1] \in Nat
  <2>1. n \in Nat /\ \A k \in 1..n : d[k] \in Digit
    OBVIOUS
  <2> HIDE DEF n
  <2>2. \A k \in 1..n : n - k + 1 \in 1..n
    BY <2>1
  <2> QED BY <2>1, <2>2, DigitType
<1>1. \E f : Is(f)
  <2> DEFINE G == [it \in (1..n) \X Nat |-> d[n - it[1] + 1] + Base * it[2]]
  <2>1. G \in [(1..n) \X Nat -> Nat]
    <3>1. \A a, b \in Nat : a + b \in Nat
      OBVIOUS
    <3> HIDE DEF n
    <3>2. \A it \in (1..n) \X Nat : d[n - it[1] + 1] \in Nat /\ Base * it[2] \in Nat
      BY <1>0, Scaled
    <3>3. \A it \in (1..n) \X Nat : d[n - it[1] + 1] + Base * it[2] \in Nat
      BY <3>1, <3>2
    <3> QED BY <3>3
  <2>2. \E f \in [0..n -> Nat] : Turns(f, n, 0, G)
    <3> HIDE DEF G, n
    <3>1. 0 \in Nat
      OBVIOUS
    <3> QED BY <1>0, <2>1, <3>1, LoopRuns
  <2>3. PICK f \in [0..n -> Nat] : f[0] = 0 /\ \A i \in 1..n : f[i] = G[<<i, f[i - 1]>>]
    BY <2>2 DEF Turns
  <2>4. ASSUME NEW i \in 1..n PROVE f[i] = d[n - i + 1] + Base * f[i - 1]
    <3>1. i - 1 \in 0..n
      BY <1>0
    <3>2. f[i - 1] \in Nat
      BY <2>3, <3>1
    <3> QED BY <2>3, <3>1, <3>2
  <2>5. f = [k \in 0..n |-> IF k = 0 THEN 0 ELSE d[n - k + 1] + Base * f[k - 1]]
    <3> HIDE DEF G
    <3>1. \A i \in 0..n : i # 0 => i \in 1..n
      BY <1>0
    <3>2. \A i \in 0..n : f[i] = IF i = 0 THEN 0 ELSE d[n - i + 1] + Base * f[i - 1]
      BY <2>3, <2>4, <3>1
    <3> QED BY <2>3, <3>2
  <2> QED BY <2>5
<1> DEFINE f == CHOOSE f : Is(f)
<1>2. Is(f)
  BY <1>1
<1>3. DigitsValue(d) = f[n]
  BY DEF DigitsValue
<1> HIDE DEF f
<1>4. Highest(f, d)
  <2>1. f[0] = 0
    BY <1>0, <1>2
  <2>2. \A k \in 1..n : f[k] = d[n - k + 1] + Base * f[k - 1]
    <3>1. \A k \in 1..n : k \in 0..n /\ k # 0
      BY <1>0
    <3> QED BY <1>2, <3>1
  <2> QED BY <2>1, <2>2 DEF Highest
<1>5. \A k \in 0..n : f[k] \in Nat
  <2> DEFINE Fine == {k \in Nat : k <= n => f[k] \in Nat}
  <2>1. 0 \in Fine
    BY <1>4 DEF Highest
  <2>2. ASSUME NEW k \in Fine PROVE k + 1 \in Fine
    <3> SUFFICES ASSUME k + 1 <= n PROVE f[k + 1] \in Nat
      OBVIOUS
    <3>1. k \in Nat /\ f[k] \in Nat /\ k + 1 \in 1..n /\ (k + 1) - 1 = k
      BY <1>0
    <3>2. f[k + 1] = d[n - (k + 1) + 1] + Base * f[k]
      BY <1>4, <3>1 DEF Highest
    <3>3. d[n - (k + 1) + 1] \in Nat /\ Base * f[k] \in Nat
      BY <1>0, <3>1, Scaled
    <3> QED BY <3>2, <3>3
  <2> HIDE DEF Fine
  <2>3. Fine = Nat
    BY <2>1, <2>2, Induction DEF Fine
  <2> QED BY <1>0, <2>3 DEF Fine
<1> QED BY <1>3, <1>4, <1>5

\* Zeros in front do not count.
LEMMA ZerosInFront ==
  ASSUME NEW s \in Seq(Digit), NEW t \in Seq(Digit), Len(s) <= Len(t),
         \A i \in 1..Len(t) : t[i] = IF i <= Len(s) THEN s[i] ELSE 0
  PROVE  DigitsValue(t) = DigitsValue(s)
<1> DEFINE m == Len(s)
           n == Len(t)
<1>0. m \in Nat /\ n \in Nat /\ m <= n
  OBVIOUS
<1>1. PICK f : Highest(f, s) /\ DigitsValue(s) = f[m] /\ \A k \in 0..m : f[k] \in Nat
  BY ValueIs
<1>2. PICK g : Highest(g, t) /\ DigitsValue(t) = g[n] /\ \A k \in 0..n : g[k] \in Nat
  BY ValueIs
<1>3. f[0] = 0 /\ \A k \in 1..m : f[k] = s[m - k + 1] + Base * f[k - 1]
  BY <1>1 DEF Highest
<1>4. g[0] = 0 /\ \A k \in 1..n : g[k] = t[n - k + 1] + Base * g[k - 1]
  BY <1>2 DEF Highest
<1>5. \A i \in 1..n : t[i] = IF i <= m THEN s[i] ELSE 0
  OBVIOUS
<1>a. \A i \in 1..m : s[i] \in Nat
  BY DigitType
<1> HIDE DEF m, n
<1> DEFINE Fine == {k \in Nat : k <= n => g[k] = IF k <= n - m THEN 0 ELSE f[k - (n - m)]}
<1>6. 0 \in Fine
  BY <1>0, <1>4
<1>7. ASSUME NEW k \in Fine PROVE k + 1 \in Fine
  <2> SUFFICES ASSUME k + 1 <= n
               PROVE  g[k + 1] = IF k + 1 <= n - m THEN 0 ELSE f[(k + 1) - (n - m)]
    OBVIOUS
  <2>1. k \in Nat /\ k + 1 \in 1..n /\ (k + 1) - 1 = k /\ n - (k + 1) + 1 = n - k /\ n - k \in 1..n
    BY <1>0
  <2>2. g[k + 1] = t[n - k] + Base * g[k]
    BY <1>4, <2>1
  <2>3. CASE k + 1 <= n - m
    <3>1. t[n - k] = 0 /\ g[k] = 0
      BY <1>0, <1>5, <2>1, <2>3
    <3> QED BY <2>2, <2>3, <3>1, Scaled
  <2>4. CASE ~ k + 1 <= n - m
    <3> DEFINE j == k - (n - m)
    <3>1. j \in Nat /\ j + 1 \in 1..m /\ (j + 1) - 1 = j /\ m - (j + 1) + 1 = n - k
          /\ n - k <= m /\ (k + 1) - (n - m) = j + 1
      BY <1>0, <2>1, <2>4
    <3>2. g[k] = f[j]
      <4>1. CASE k <= n - m
        <5>1. j = 0 /\ g[k] = 0
          BY <1>0, <2>1, <2>4, <4>1
        <5> QED BY <1>3, <5>1
      <4>2. CASE ~ k <= n - m
        BY <1>0, <2>1, <4>2
      <4> QED BY <4>1, <4>2
    <3> HIDE DEF j
    <3>3. f[j + 1] = s[n - k] + Base * f[j]
      <4>1. f[j + 1] = s[m - (j + 1) + 1] + Base * f[(j + 1) - 1]
        BY <1>3, <3>1
      <4> QED BY <3>1, <4>1
    <3>4. t[n - k] = s[n - k]
      BY <1>5, <2>1, <3>1
    <3> QED BY <2>2, <2>4, <3>1, <3>2, <3>3, <3>4
  <2> QED BY <2>3, <2>4
<1> HIDE DEF Fine
<1>8. Fine = Nat
  BY <1>6, <1>7, Induction DEF Fine
<1>9. g[n] = IF n <= n - m THEN 0 ELSE f[n - (n - m)]
  BY <1>0, <1>8 DEF Fine
<1>10. g[n] = f[m]
  <2>1. CASE m = 0
    BY <1>0, <1>3, <1>9, <2>1
  <2>2. CASE m # 0
    <3>1. n - (n - m) = m /\ ~ n <= n - m
      BY <1>0, <2>2
    <3> QED BY <1>9, <3>1
  <2> QED BY <2>1, <2>2
<1> QED BY <1>1, <1>2, <1>10 DEF m, n

\* The first digit, and a multiple of the base.
LEMMA FirstDigit ==
  ASSUME NEW s \in Seq(Digit), NEW t \in Seq(Digit), Len(s) >= 1, Len(t) = Len(s),
         \A i \in 2..Len(s) : t[i] = s[i]
  PROVE  \E q \in Nat : DigitsValue(s) = s[1] + Base * q /\ DigitsValue(t) = t[1] + Base * q
<1> DEFINE n == Len(s)
<1>0. n \in Nat /\ n >= 1
  OBVIOUS
<1>1. PICK f : Highest(f, s) /\ DigitsValue(s) = f[n] /\ \A k \in 0..n : f[k] \in Nat
  BY ValueIs
<1>2. PICK g : Highest(g, t) /\ DigitsValue(t) = g[n] /\ \A k \in 0..n : g[k] \in Nat
  BY ValueIs
<1>3. f[0] = 0 /\ \A k \in 1..n : f[k] = s[n - k + 1] + Base * f[k - 1]
  BY <1>1 DEF Highest
<1>4. g[0] = 0 /\ \A k \in 1..n : g[k] = t[n - k + 1] + Base * g[k - 1]
  BY <1>2 DEF Highest
<1>5. \A i \in 2..n : t[i] = s[i]
  OBVIOUS
<1> HIDE DEF n
<1> DEFINE Fine == {k \in Nat : k < n => g[k] = f[k]}
<1>6. 0 \in Fine
  BY <1>3, <1>4
<1>7. ASSUME NEW k \in Fine PROVE k + 1 \in Fine
  <2> SUFFICES ASSUME k + 1 < n PROVE g[k + 1] = f[k + 1]
    OBVIOUS
  <2>1. k \in Nat /\ k + 1 \in 1..n /\ (k + 1) - 1 = k /\ n - (k + 1) + 1 \in 2..n /\ g[k] = f[k]
    BY <1>0
  <2>2. /\ g[k + 1] = t[n - (k + 1) + 1] + Base * g[k]
        /\ f[k + 1] = s[n - (k + 1) + 1] + Base * f[k]
    BY <1>3, <1>4, <2>1
  <2> QED BY <1>5, <2>1, <2>2
<1> HIDE DEF Fine
<1>8. Fine = Nat
  BY <1>6, <1>7, Induction DEF Fine
<1>9. g[n - 1] = f[n - 1] /\ n \in 1..n /\ n - 1 \in 0..n /\ n - n + 1 = 1
  BY <1>0, <1>8 DEF Fine
<1>10. f[n] = s[1] + Base * f[n - 1] /\ g[n] = t[1] + Base * f[n - 1] /\ f[n - 1] \in Nat
  BY <1>1, <1>3, <1>4, <1>9
<1> QED BY <1>1, <1>2, <1>10

-----------------------------------------------------------------------------
\* The digits without the sign, as many as a loop goes through.
Padded(big, n) == [i \in 1..n |-> DigitOf(big, i)]

\* The digits a loop reads are as many digits as it takes turns.
LEMMA PaddedType ==
  ASSUME NEW big \in Bigint, NEW n \in Nat
  PROVE  /\ Padded(big, n) \in Seq(Digit) /\ Len(Padded(big, n)) = n
         /\ \A i \in 1..n : Padded(big, n)[i] = DigitOf(big, i) /\ DigitOf(big, i) \in Digit
<1>1. \A i \in 1..n : DigitOf(big, i) \in Digit
  BY DigitOfRight
<1> QED BY <1>1 DEF Padded

\* Halving twice a number gives it back.
LEMMA HalfOfSum ==
  \A a, p \in Nat : (a \div 2) + p \in Nat /\ (a + 2 * p) \div 2 = (a \div 2) + p
OBVIOUS

\* However many they are, they come to twice the magnitude.
LEMMA TwiceMagnitude ==
  ASSUME NEW big \in Bigint, NEW n \in Nat, n >= SigDigits(big)
  PROVE  /\ DigitsValue(Padded(big, n)) = 2 * Magnitude(BigValue(big))
         /\ Magnitude(BigValue(big)) \in Nat
         /\ BigValue(big) = IF IsNegative(big) THEN - Magnitude(BigValue(big)) ELSE Magnitude(BigValue(big))
<1> DEFINE sig == SigDigits(big)
           all == Len(big)
<1>0. sig \in Nat /\ all \in Nat /\ all >= 1 /\ sig <= all /\ big \in Seq(Digit)
  BY SigDigitsRight, BigintType
<1>1. ASSUME NEW m \in Nat, m >= sig PROVE DigitsValue(Padded(big, m)) = DigitsValue(Padded(big, sig))
  <2>1. \A i \in Nat : i > sig => DigitOf(big, i) = 0
    BY DigitOfRight
  <2>2. /\ Padded(big, m) \in Seq(Digit) /\ Len(Padded(big, m)) = m
        /\ Padded(big, sig) \in Seq(Digit) /\ Len(Padded(big, sig)) = sig
        /\ \A i \in 1..m : Padded(big, m)[i] = DigitOf(big, i)
        /\ \A i \in 1..sig : Padded(big, sig)[i] = DigitOf(big, i)
    BY <1>0, PaddedType
  <2> HIDE DEF sig
  <2>3. \A i \in 1..m : Padded(big, m)[i] = IF i <= sig THEN Padded(big, sig)[i] ELSE 0
    BY <1>0, <2>1, <2>2
  <2> QED BY <1>1, <2>2, <2>3, ZerosInFront
<1>2. DigitsValue(Padded(big, n)) = DigitsValue(Padded(big, all))
  <2>1. n >= sig /\ all >= sig
    BY <1>0
  <2> HIDE DEF sig, all
  <2> QED BY <1>0, <1>1, <2>1
<1>3. PICK q \in Nat : /\ DigitsValue(big) = big[1] + Base * q
                       /\ DigitsValue(Padded(big, all)) = Padded(big, all)[1] + Base * q
  <2>1. \A i \in 2..all : Padded(big, all)[i] = big[i]
    <3>1. \A i \in 2..all : DigitOf(big, i) = big[i]
      BY DigitOfRight
    <3> HIDE DEF all
    <3>2. \A i \in 1..all : Padded(big, all)[i] = DigitOf(big, i)
      BY <1>0, PaddedType
    <3>3. \A i \in 2..all : i \in 1..all
      BY <1>0
    <3> QED BY <3>1, <3>2, <3>3
  <2>2. Padded(big, all) \in Seq(Digit) /\ Len(Padded(big, all)) = all
    BY <1>0, PaddedType
  <2> QED BY <1>0, <2>1, <2>2, FirstDigit
<1>4. Padded(big, all)[1] = (big[1] \div 2) * 2
  <2>1. DigitOf(big, 1) = (big[1] \div 2) * 2
    BY DigitOfRight
  <2> HIDE DEF all
  <2>2. \A i \in 1..all : Padded(big, all)[i] = DigitOf(big, i)
    BY <1>0, PaddedType
  <2>3. 1 \in 1..all
    BY <1>0
  <2> QED BY <2>1, <2>2, <2>3
<1>5. big[1] \in Nat
  BY <1>0, DigitType
<1>6. PICK h \in Nat : Base = 2 * h
  BY BaseFacts
<1>7. h * q \in Nat /\ Base * q = 2 * (h * q)
  BY <1>6, SMT
<1> DEFINE v == (big[1] \div 2) + h * q
<1>8. v \in Nat /\ DigitsValue(Padded(big, all)) = 2 * v /\ DigitsValue(big) \div 2 = v
  <2> DEFINE p == h * q
  <2>1. p \in Nat /\ DigitsValue(big) = big[1] + 2 * p
        /\ DigitsValue(Padded(big, all)) = (big[1] \div 2) * 2 + 2 * p
    BY <1>3, <1>4, <1>7
  <2> HIDE DEF p
  <2>2. (big[1] \div 2) + p \in Nat /\ (big[1] + 2 * p) \div 2 = (big[1] \div 2) + p
    BY <1>5, <2>1, HalfOfSum
  <2> QED BY <1>5, <2>1, <2>2 DEF p
<1>9. BigValue(big) = IF IsNegative(big) THEN - v ELSE v
  BY <1>8 DEF BigValue
<1> HIDE DEF v
<1>10. Magnitude(BigValue(big)) = v
  BY <1>8, <1>9 DEF Magnitude
<1> QED BY <1>2, <1>8, <1>9, <1>10

-----------------------------------------------------------------------------
(* unsigned_add.                                                            *)
\* A turn leaves out one unit of the next digit when its carry is lost.
LEMMA TurnAdds ==
  ASSUME NEW a \in Digit, NEW b \in Digit, NEW c \in {0, 1}
  PROVE  /\ SumDigit(a, b, c) \in Digit /\ CarryOut(a, b, c) \in {0, 1}
         /\ CarryIsLost(a, b, c) \in BOOLEAN
         /\ \E x \in {0, 1} :
               /\ SumDigit(a, b, c) + Base * (CarryOut(a, b, c) + x) = a + b + c
               /\ (x = 0 <=> ~ CarryIsLost(a, b, c))
<1>0. /\ a \in Nat /\ b \in Nat /\ a < Base /\ b < Base /\ Base \in Nat /\ Base >= 4 /\ c \in Nat
  BY DigitType, BaseFacts
<1>1. SumDigit(a, b, c) \in Digit /\ SumDigit(a, b, c) \in Nat
  BY CarryRight, DigitType
<1>2. CarryOut(a, b, c) \in {0, 1} /\ CarryIsLost(a, b, c) \in BOOLEAN
  BY DEF CarryOut, CarryIsLost
<1>3. CASE ~ CarryIsLost(a, b, c)
  <2>1. SumDigit(a, b, c) + Base * CarryOut(a, b, c) = a + b + c
    BY <1>3, CarryRight
  <2>2. SumDigit(a, b, c) + Base * (CarryOut(a, b, c) + 0) = a + b + c
    BY <1>2, <2>1
  <2> QED BY <1>1, <1>2, <1>3, <2>2
<1>4. CASE CarryIsLost(a, b, c)
  <2>1. a = Base - 1 /\ b = Base - 1 /\ c = 1
    BY <1>4 DEF CarryIsLost
  <2> DEFINE s == a + b + c
  <2>2. s = Base + (Base - 1)
    BY <1>0, <2>1
  <2>3. SumDigit(a, b, c) = Base - 1
    <3>1. s % Base = Base - 1
      <4> HIDE DEF s
      <4> QED BY <1>0, <2>2
    <3> QED BY <3>1 DEF SumDigit
  <2>4. CarryOut(a, b, c) = 0
    BY <1>0, <2>1, <2>3 DEF CarryOut
  <2>5. SumDigit(a, b, c) + Base * (CarryOut(a, b, c) + 1) = a + b + c
    BY <1>0, <2>2, <2>3, <2>4
  <2> QED BY <1>1, <1>2, <1>4, <2>5
<1> QED BY <1>3, <1>4

\* What is missing at the next digit, and what a lost carry adds to it.
LEMMA Deficit ==
  ASSUME NEW B \in Nat, B >= 1, NEW a \in Nat, NEW b \in Nat, NEW c \in Nat, NEW s \in Nat,
         NEW k \in Nat, NEW x \in Nat, NEW p \in Nat, NEW q \in Nat, NEW o \in Nat, NEW m \in Nat,
         s + B * (k + x) = a + b + c, o + m = p + q + k
  PROVE  /\ B * (m + x) \in Nat
         /\ (s + B * o) + B * (m + x) = (a + B * p) + (b + B * q) + c
         /\ (B * (m + x) = 0 <=> m = 0 /\ x = 0)
<1>1. B * (k + x) = B * k + B * x /\ B * (m + x) = B * m + B * x
  BY SMT
<1>2. B * (o + m) = B * o + B * m /\ B * ((p + q) + k) = B * p + B * q + B * k
  BY SMT
<1>3. B * (o + m) = B * ((p + q) + k)
  OBVIOUS
<1>4. /\ B * k \in Nat /\ B * x \in Nat /\ B * m \in Nat /\ B * o \in Nat /\ B * p \in Nat
      /\ B * q \in Nat
  BY SMT
<1>5. B * m >= m /\ B * x >= x /\ B * 0 = 0
  BY SMT
<1>6. B * (m + x) \in Nat
  BY <1>1, <1>4
<1>7. (s + B * o) + B * (m + x) = (a + B * p) + (b + B * q) + c
  BY <1>1, <1>2, <1>3, <1>4
<1>8. B * (m + x) = 0 <=> m = 0 /\ x = 0
  BY <1>1, <1>4, <1>5
<1> QED BY <1>6, <1>7, <1>8

Adds(p, q, o, c, n) ==
    /\ c[0] = 0 /\ c[n] = 0 /\ \A i \in 0..n : c[i] \in {0, 1}
    /\ \A i \in 1..n : o[i] = SumDigit(p[i], q[i], c[i - 1]) /\ c[i] = CarryOut(p[i], q[i], c[i - 1])

\* The sum of digit sequences comes short exactly if a carry is lost.
LEMMA SumOfDigits ==
  ASSUME NEW p \in Seq(Digit), NEW q \in Seq(Digit), NEW o \in Seq(Digit), NEW n \in Nat, NEW c,
         Len(p) = n, Len(q) = n, Len(o) = n, Adds(p, q, o, c, n)
  PROVE  \E m \in Nat :
           /\ DigitsValue(o) + m = DigitsValue(p) + DigitsValue(q)
           /\ (m = 0 <=> \A i \in 1..n : ~ CarryIsLost(p[i], q[i], c[i - 1]))
<1>1. PICK f : Highest(f, p) /\ DigitsValue(p) = f[n] /\ \A k \in 0..n : f[k] \in Nat
  BY ValueIs
<1>2. PICK g : Highest(g, q) /\ DigitsValue(q) = g[n] /\ \A k \in 0..n : g[k] \in Nat
  BY ValueIs
<1>3. PICK h : Highest(h, o) /\ DigitsValue(o) = h[n] /\ \A k \in 0..n : h[k] \in Nat
  BY ValueIs
<1>4. /\ f[0] = 0 /\ \A k \in 1..n : f[k] = p[n - k + 1] + Base * f[k - 1]
      /\ g[0] = 0 /\ \A k \in 1..n : g[k] = q[n - k + 1] + Base * g[k - 1]
      /\ h[0] = 0 /\ \A k \in 1..n : h[k] = o[n - k + 1] + Base * h[k - 1]
  BY <1>1, <1>2, <1>3 DEF Highest
<1>5. /\ c[0] = 0 /\ c[n] = 0 /\ \A i \in 0..n : c[i] \in {0, 1}
      /\ \A i \in 1..n : o[i] = SumDigit(p[i], q[i], c[i - 1]) /\ c[i] = CarryOut(p[i], q[i], c[i - 1])
  BY DEF Adds
<1>6. \A i \in 1..n : p[i] \in Digit /\ q[i] \in Digit /\ o[i] \in Digit
  OBVIOUS
<1> DEFINE Lost(i) == CarryIsLost(p[i], q[i], c[i - 1])
           Short(k, m) == /\ h[k] + m = f[k] + g[k] + c[n - k]
                          /\ (m = 0 <=> \A i \in (n - k + 1)..n : ~ Lost(i))
           Fine == {k \in Nat : k <= n => \E m \in Nat : Short(k, m)}
<1>7. 0 \in Fine
  <2>1. h[0] + 0 = f[0] + g[0] + c[n - 0]
    BY <1>4, <1>5
  <2>2. \A i \in (n - 0 + 1)..n : ~ Lost(i)
    <3> HIDE DEF Lost
    <3> QED OBVIOUS
  <2> QED BY <2>1, <2>2
<1>8. ASSUME NEW k \in Fine PROVE k + 1 \in Fine
  <2> SUFFICES ASSUME k + 1 <= n PROVE \E m \in Nat : Short(k + 1, m)
    OBVIOUS
  <2>0. k \in Nat /\ k <= n
    OBVIOUS
  <2>1. PICK m \in Nat : Short(k, m)
    BY <2>0
  <2> DEFINE j == n - k
  <2>2. /\ j \in 1..n /\ j - 1 \in 0..n /\ j \in 0..n /\ k \in 0..n /\ k + 1 \in 1..n
        /\ (k + 1) - 1 = k /\ n - (k + 1) + 1 = j /\ n - (k + 1) = j - 1 /\ n - k + 1 = j + 1
    BY <2>0
  <2>3. /\ h[k] + m = f[k] + g[k] + c[j]
        /\ (m = 0 <=> \A i \in (j + 1)..n : ~ Lost(i))
    BY <2>1, <2>2
  <2> HIDE DEF j, Short, Fine
  <2>4. PICK x \in {0, 1} : /\ o[j] + Base * (c[j] + x) = p[j] + q[j] + c[j - 1]
                            /\ (x = 0 <=> ~ Lost(j))
    <3>1. p[j] \in Digit /\ q[j] \in Digit /\ c[j - 1] \in {0, 1}
      BY <1>5, <1>6, <2>2
    <3>2. o[j] = SumDigit(p[j], q[j], c[j - 1]) /\ c[j] = CarryOut(p[j], q[j], c[j - 1])
      BY <1>5, <2>2
    <3>3. \E x \in {0, 1} :
             /\ SumDigit(p[j], q[j], c[j - 1]) + Base * (CarryOut(p[j], q[j], c[j - 1]) + x)
                  = p[j] + q[j] + c[j - 1]
             /\ (x = 0 <=> ~ CarryIsLost(p[j], q[j], c[j - 1]))
      BY <3>1, TurnAdds
    <3> QED BY <3>2, <3>3
  <2>5. /\ f[k + 1] = p[j] + Base * f[k] /\ g[k + 1] = q[j] + Base * g[k]
        /\ h[k + 1] = o[j] + Base * h[k]
    BY <1>4, <2>2
  <2>6. /\ f[k] \in Nat /\ g[k] \in Nat /\ h[k] \in Nat /\ c[j] \in Nat /\ c[j - 1] \in Nat
        /\ p[j] \in Nat /\ q[j] \in Nat /\ o[j] \in Nat /\ x \in Nat /\ Base \in Nat /\ Base >= 1
    <3>1. p[j] \in Digit /\ q[j] \in Digit /\ o[j] \in Digit
      BY <1>6, <2>2
    <3>2. c[j] \in {0, 1} /\ c[j - 1] \in {0, 1}
      BY <1>5, <2>2
    <3>3. f[k] \in Nat /\ g[k] \in Nat /\ h[k] \in Nat
      BY <1>1, <1>2, <1>3, <2>2
    <3>4. p[j] \in Nat /\ q[j] \in Nat /\ o[j] \in Nat
      BY <3>1, DigitType
    <3>5. c[j] \in Nat /\ c[j - 1] \in Nat /\ x \in Nat
      BY <3>2
    <3> QED BY <3>3, <3>4, <3>5, BaseFacts
  <2> DEFINE y == Base * (m + x)
  <2>7. /\ y \in Nat /\ (y = 0 <=> m = 0 /\ x = 0)
        /\ h[k + 1] + y = f[k + 1] + g[k + 1] + c[j - 1]
    <3> DEFINE B == Base
               s == o[j]
               t == c[j]
               a == p[j]
               b == q[j]
               d == c[j - 1]
               u == h[k]
               v == f[k]
               w == g[k]
    <3>1. /\ B \in Nat /\ B >= 1 /\ s \in Nat /\ t \in Nat /\ a \in Nat /\ b \in Nat /\ d \in Nat
          /\ u \in Nat /\ v \in Nat /\ w \in Nat /\ x \in Nat
          /\ s + B * (t + x) = a + b + d /\ u + m = v + w + t
      BY <2>3, <2>4, <2>6
    <3> HIDE DEF B, s, t, a, b, d, u, v, w
    <3>2. /\ B * (m + x) \in Nat /\ (B * (m + x) = 0 <=> m = 0 /\ x = 0)
          /\ (s + B * u) + B * (m + x) = (a + B * v) + (b + B * w) + d
      BY ONLY <3>1, m \in Nat, Deficit
    <3> QED BY <2>5, <3>2 DEF B, s, t, a, b, d, u, v, w
  <2> HIDE DEF y
  <2>8. (\A i \in j..n : ~ Lost(i)) <=> (\A i \in (j + 1)..n : ~ Lost(i)) /\ ~ Lost(j)
    <3>1. \A i \in j..n : i = j \/ i \in (j + 1)..n
      BY <2>2
    <3>2. j \in j..n /\ \A i \in (j + 1)..n : i \in j..n
      BY <2>2
    <3> HIDE DEF Lost
    <3> QED BY <3>1, <3>2
  <2>9. Short(k + 1, y)
    <3>1. y = 0 <=> \A i \in j..n : ~ Lost(i)
      <4> HIDE DEF Lost
      <4>1. (m = 0 /\ x = 0) <=> (\A i \in (j + 1)..n : ~ Lost(i)) /\ ~ Lost(j)
        BY <2>3, <2>4, Zenon
      <4> QED BY <2>7, <2>8, <4>1, Zenon
    <3> QED BY <2>2, <2>7, <3>1 DEF Short
  <2> QED BY <2>7, <2>9
<1> HIDE DEF Fine, Short
<1>9. Fine = Nat
  BY <1>7, <1>8, Induction DEF Fine
<1>10. PICK m \in Nat : Short(n, m)
  <2>1. n \in Fine /\ n <= n
    BY <1>9
  <2> QED BY <2>1 DEF Fine
<1>11. n - n = 0 /\ n - n + 1 = 1
  OBVIOUS
<1>12. h[n] + m = f[n] + g[n] + c[0] /\ (m = 0 <=> \A i \in 1..n : ~ Lost(i))
  <2> HIDE DEF Lost
  <2> QED BY <1>10, <1>11 DEF Short
<1>13. h[n] + m = f[n] + g[n]
  <2>1. f[n] \in Nat /\ g[n] \in Nat /\ c[0] = 0
    BY <1>1, <1>2, <1>5
  <2> QED BY <1>12, <2>1
<1> QED BY <1>1, <1>2, <1>3, <1>12, <1>13

AddStates == [carry : {0, 1}, out : Seq(Digit), lost : BOOLEAN]
AddStart == [carry |-> 0, out |-> << >>, lost |-> FALSE]
AddTurn(l, r, i, done) ==
    [carry |-> CarryOut(DigitOf(l, i), DigitOf(r, i), done.carry),
     out |-> Append(done.out, SumDigit(DigitOf(l, i), DigitOf(r, i), done.carry)),
     lost |-> done.lost \/ CarryIsLost(DigitOf(l, i), DigitOf(r, i), done.carry)]

\* A turn of unsigned_add keeps its state's type.
LEMMA AddTurnType ==
  ASSUME NEW l \in Bigint, NEW r \in Bigint, NEW i \in Nat, i >= 1, NEW done \in AddStates
  PROVE  AddTurn(l, r, i, done) \in AddStates
<1>1. DigitOf(l, i) \in Digit /\ DigitOf(r, i) \in Digit
  BY DigitOfRight
<1>2. done.carry \in {0, 1} /\ done.out \in Seq(Digit) /\ done.lost \in BOOLEAN
  BY DEF AddStates
<1> DEFINE a == DigitOf(l, i)
           b == DigitOf(r, i)
           c == done.carry
<1>3. /\ SumDigit(a, b, c) \in Digit /\ CarryOut(a, b, c) \in {0, 1} /\ CarryIsLost(a, b, c) \in BOOLEAN
  BY <1>1, <1>2, TurnAdds
<1>4. Append(done.out, SumDigit(a, b, c)) \in Seq(Digit)
  BY <1>2, <1>3, AppendProperties
<1>5. (done.lost \/ CarryIsLost(a, b, c)) \in BOOLEAN
  OBVIOUS
<1> QED BY <1>3, <1>4, <1>5 DEF AddTurn, AddStates

AddLoop(l, r, n, f) ==
    /\ f[0] = AddStart /\ \A i \in 0..n : f[i] \in AddStates
    /\ \A i \in 1..n : f[i] = AddTurn(l, r, i, f[i - 1])

\* The loop of unsigned_add.
LEMMA AddIsLoop ==
  ASSUME NEW l \in Bigint, NEW r \in Bigint
  PROVE  \E f : AddLoop(l, r, 1 + Width(l, r), f) /\ UnsignedAdd(l, r) = f[1 + Width(l, r)]
<1> DEFINE n == 1 + Width(l, r)
           Is(f) == f = [i \in 0..n |-> IF i = 0 THEN AddStart ELSE AddTurn(l, r, i, f[i - 1])]
<1>0. n \in Nat /\ n >= 1
  BY WidthRight
<1>u. UnsignedAdd(l, r) = (CHOOSE f : Is(f))[n]
  BY DEF UnsignedAdd, AddStart, AddTurn
<1> HIDE DEF n
<1>a. \A f : Is(f) => /\ f[0] = AddStart
                      /\ \A i \in 1..n : f[i] = AddTurn(l, r, i, f[i - 1])
  <2> SUFFICES ASSUME NEW f, Is(f)
               PROVE  f[0] = AddStart /\ \A i \in 1..n : f[i] = AddTurn(l, r, i, f[i - 1])
    OBVIOUS
  <2>1. 0 \in 0..n /\ \A i \in 1..n : i \in 0..n /\ i # 0
    BY <1>0
  <2> QED BY <2>1, Zenon
<1>s. AddStart \in AddStates
  <2>1. << >> \in Seq(Digit)
    OBVIOUS
  <2> QED BY <2>1 DEF AddStart, AddStates
<1>1. \E f : Is(f) /\ \A i \in 0..n : f[i] \in AddStates
  <2> DEFINE G == [it \in (1..n) \X AddStates |-> AddTurn(l, r, it[1], it[2])]
  <2>1. G \in [(1..n) \X AddStates -> AddStates]
    <3>1. \A i \in 1..n : i \in Nat /\ i >= 1
      BY <1>0
    <3>2. \A it \in (1..n) \X AddStates : AddTurn(l, r, it[1], it[2]) \in AddStates
      BY <3>1, AddTurnType
    <3> QED BY <3>2
  <2>2. \E f \in [0..n -> AddStates] : Turns(f, n, AddStart, G)
    <3> HIDE DEF G
    <3> QED BY <1>0, <1>s, <2>1, LoopRuns
  <2>3. PICK f \in [0..n -> AddStates] : f[0] = AddStart /\ \A i \in 1..n : f[i] = G[<<i, f[i - 1]>>]
    BY <2>2 DEF Turns
  <2>4. ASSUME NEW i \in 1..n PROVE f[i] = AddTurn(l, r, i, f[i - 1])
    <3>1. i - 1 \in 0..n /\ f[i - 1] \in AddStates
      BY <1>0, <2>3
    <3>2. <<i, f[i - 1]>> \in (1..n) \X AddStates
      BY <3>1
    <3> QED BY <2>3, <3>2
  <2>5. Is(f)
    <3> HIDE DEF G
    <3>1. \A i \in 0..n : i # 0 => i \in 1..n
      BY <1>0
    <3>2. \A i \in 0..n : f[i] = IF i = 0 THEN AddStart ELSE AddTurn(l, r, i, f[i - 1])
      BY <2>3, <2>4, <3>1
    <3> QED BY <2>3, <3>2
  <2> HIDE DEF Is
  <2> QED BY <2>3, <2>5
<1> DEFINE f == CHOOSE g : Is(g)
<1>2. Is(f)
  BY <1>1
<1>b. f[0] = AddStart /\ \A i \in 1..n : f[i] = AddTurn(l, r, i, f[i - 1])
  BY <1>2, <1>a
<1>u2. UnsignedAdd(l, r) = f[n]
  BY <1>u
<1> HIDE DEF f, Is
<1>3. \A i \in 0..n : f[i] \in AddStates
  <2> DEFINE Fine == {k \in Nat : k <= n => f[k] \in AddStates}
  <2>1. 0 \in Fine
    BY <1>b, <1>s
  <2>2. ASSUME NEW k \in Fine PROVE k + 1 \in Fine
    <3> SUFFICES ASSUME k + 1 <= n PROVE f[k + 1] \in AddStates
      OBVIOUS
    <3>1. k \in Nat /\ f[k] \in AddStates /\ k + 1 \in 1..n /\ (k + 1) - 1 = k /\ k + 1 >= 1 /\ k + 1 \in Nat
      BY <1>0
    <3>2. f[k + 1] = AddTurn(l, r, k + 1, f[k])
      BY <1>b, <3>1
    <3> QED BY <3>1, <3>2, AddTurnType
  <2> HIDE DEF Fine
  <2>3. Fine = Nat
    BY <2>1, <2>2, Induction DEF Fine
  <2> QED BY <1>0, <2>3 DEF Fine
<1>4. AddLoop(l, r, n, f)
  BY <1>b, <1>3 DEF AddLoop
<1> QED BY <1>4, <1>u2 DEF n

SumAt(l, r, f, i) == SumDigit(DigitOf(l, i), DigitOf(r, i), f[i - 1].carry)
LostAt(l, r, f, i) == CarryIsLost(DigitOf(l, i), DigitOf(r, i), f[i - 1].carry)

Collected(l, r, f, k) ==
    /\ f[k].out \in Seq(Digit) /\ Len(f[k].out) = k
    /\ \A i \in 1..k : f[k].out[i] = SumAt(l, r, f, i)
    /\ f[k].lost <=> \E i \in 1..k : LostAt(l, r, f, i)

\* What appending puts where.
LEMMA AppendIs ==
  ASSUME NEW s \in Seq(Digit), NEW d \in Digit
  PROVE  /\ Append(s, d) \in Seq(Digit) /\ Len(Append(s, d)) = Len(s) + 1 /\ Len(s) \in Nat
         /\ \A i \in 1..Len(s) : Append(s, d)[i] = s[i]
         /\ Append(s, d)[Len(s) + 1] = d
OBVIOUS

\* After k turns the output holds the sum digits of the first k places.
LEMMA AddCollects ==
  ASSUME NEW l \in Bigint, NEW r \in Bigint, NEW n \in Nat, NEW f, AddLoop(l, r, n, f)
  PROVE  \A k \in 0..n : Collected(l, r, f, k)
<1>1. /\ f[0] = AddStart /\ \A i \in 0..n : f[i] \in AddStates
      /\ \A i \in 1..n : f[i] = AddTurn(l, r, i, f[i - 1])
  BY DEF AddLoop
<1> DEFINE Fine == {k \in Nat : k <= n => Collected(l, r, f, k)}
<1>2. 0 \in Fine
  <2>1. f[0].out = << >> /\ f[0].lost = FALSE
    BY <1>1 DEF AddStart
  <2>2. f[0].out \in Seq(Digit) /\ Len(f[0].out) = 0
    BY <2>1
  <2>3. ~ \E i \in 1..0 : LostAt(l, r, f, i)
    OBVIOUS
  <2>4. \A i \in 1..0 : f[0].out[i] = SumAt(l, r, f, i)
    OBVIOUS
  <2>5. Collected(l, r, f, 0)
    BY <2>1, <2>2, <2>3, <2>4 DEF Collected
  <2> QED BY <2>5
<1>3. ASSUME NEW k \in Fine PROVE k + 1 \in Fine
  <2> SUFFICES ASSUME k + 1 <= n PROVE Collected(l, r, f, k + 1)
    OBVIOUS
  <2>1. k \in Nat /\ k \in 0..n /\ k + 1 \in 1..n /\ (k + 1) - 1 = k
    OBVIOUS
  <2>2. Collected(l, r, f, k)
    BY <2>1
  <2> HIDE DEF Fine
  <2> DEFINE e == SumAt(l, r, f, k + 1)
             s == f[k].out
  <2>3. f[k] \in AddStates /\ f[k].carry \in {0, 1}
    BY <1>1, <2>1 DEF AddStates
  <2>4. f[k + 1] = AddTurn(l, r, k + 1, f[k])
    BY <1>1, <2>1
  <2>5. /\ f[k + 1].out = Append(s, e)
        /\ f[k + 1].lost = (f[k].lost \/ LostAt(l, r, f, k + 1))
    BY <2>1, <2>4 DEF AddTurn, SumAt, LostAt
  <2>6. e \in Digit
    <3>1. DigitOf(l, k + 1) \in Digit /\ DigitOf(r, k + 1) \in Digit
      BY <2>1, DigitOfRight
    <3> QED BY <2>1, <2>3, <3>1, TurnAdds DEF SumAt
  <2>7. /\ s \in Seq(Digit) /\ Len(s) = k /\ \A i \in 1..k : s[i] = SumAt(l, r, f, i)
        /\ f[k].lost <=> \E i \in 1..k : LostAt(l, r, f, i)
    BY <2>2 DEF Collected
  <2> HIDE DEF e, s
  <2>8. /\ Append(s, e) \in Seq(Digit) /\ Len(Append(s, e)) = k + 1
        /\ \A i \in 1..k : Append(s, e)[i] = s[i]
        /\ Append(s, e)[k + 1] = e
    BY <2>6, <2>7, AppendIs
  <2>9. \A i \in 1..(k + 1) : i \in 1..k \/ i = k + 1
    BY <2>1
  <2>9b. \A i \in 1..k : i \in 1..(k + 1)
    BY <2>1
  <2>9c. k + 1 \in 1..(k + 1)
    BY <2>1
  <2>10. \A i \in 1..(k + 1) : Append(s, e)[i] = SumAt(l, r, f, i)
    BY <2>7, <2>8, <2>9 DEF e
  <2>11. f[k + 1].lost <=> \E i \in 1..(k + 1) : LostAt(l, r, f, i)
    <3>1. f[k + 1].lost <=> (f[k].lost \/ LostAt(l, r, f, k + 1))
      BY <2>5
    <3> QED BY <2>7, <2>9, <2>9b, <2>9c, <3>1, Zenon
  <2> QED BY <2>5, <2>8, <2>10, <2>11 DEF Collected
<1> HIDE DEF Fine
<1>4. Fine = Nat
  BY <1>2, <1>3, Induction DEF Fine
<1> QED BY <1>4 DEF Fine

\* The last turn has no digits left to add.
LEMMA LastTurn ==
  ASSUME NEW l \in Bigint, NEW r \in Bigint, NEW c \in {0, 1}
  PROVE  CarryOut(DigitOf(l, 1 + Width(l, r)), DigitOf(r, 1 + Width(l, r)), c) = 0
<1> DEFINE n == 1 + Width(l, r)
<1>1. n \in Nat /\ n > SigDigits(l) /\ n > SigDigits(r)
  <2>1. SigDigits(l) \in Nat /\ SigDigits(r) \in Nat
    BY SigDigitsRight, BigintType
  <2> QED BY <2>1, WidthRight
<1> HIDE DEF n
<1>2. DigitOf(l, n) = 0 /\ DigitOf(r, n) = 0
  BY <1>1, DigitOfRight
<1>3. SumDigit(0, 0, c) = c
  <2>1. Base \in Nat /\ Base >= 4
    BY BaseFacts
  <2> QED BY <2>1 DEF SumDigit
<1>4. CarryOut(0, 0, c) = 0
  BY <1>3 DEF CarryOut
<1> QED BY <1>2, <1>4 DEF n

\* unsigned_add: the digits it puts out are those of the sum of the magnitudes,
\* and nothing is left to carry, unless some turn lost its carry; then
\* they come to less.  However many digits the two numbers have.
THEOREM AddsMagnitudes ==
  ASSUME NEW l \in Bigint, NEW r \in Bigint
  PROVE  LET sum == UnsignedAdd(l, r)
             is == DigitsValue(sum.out)
             wanted == 2 * (Magnitude(BigValue(l)) + Magnitude(BigValue(r)))
         IN  /\ sum.carry = 0 /\ sum.out \in Seq(Digit) /\ Len(sum.out) = 1 + Width(l, r)
             /\ IF sum.lost THEN is < wanted ELSE is = wanted
<1> DEFINE n == 1 + Width(l, r)
           p == Padded(l, n)
           q == Padded(r, n)
<1>0. n \in Nat /\ n >= 1 /\ n >= SigDigits(l) /\ n >= SigDigits(r) /\ SigDigits(l) \in Nat /\ SigDigits(r) \in Nat
  <2>1. SigDigits(l) \in Nat /\ SigDigits(r) \in Nat
    BY SigDigitsRight, BigintType
  <2> QED BY <2>1, WidthRight
<1>1. PICK f : AddLoop(l, r, n, f) /\ UnsignedAdd(l, r) = f[n]
  BY AddIsLoop
<1>l. \A c \in {0, 1} : CarryOut(DigitOf(l, n), DigitOf(r, n), c) = 0
  BY LastTurn
<1> HIDE DEF n
<1>2. /\ f[0] = AddStart /\ \A i \in 0..n : f[i] \in AddStates
      /\ \A i \in 1..n : f[i] = AddTurn(l, r, i, f[i - 1])
  BY <1>1 DEF AddLoop
<1>3. Collected(l, r, f, n)
  <2>1. n \in 0..n
    BY <1>0
  <2> QED BY <1>0, <1>1, <2>1, AddCollects
<1> DEFINE o == f[n].out
           c == [i \in 0..n |-> f[i].carry]
<1>4. /\ o \in Seq(Digit) /\ Len(o) = n
      /\ \A i \in 1..n : o[i] = SumAt(l, r, f, i)
      /\ f[n].lost <=> \E i \in 1..n : LostAt(l, r, f, i)
  BY <1>3 DEF Collected
<1>5. /\ p \in Seq(Digit) /\ Len(p) = n /\ q \in Seq(Digit) /\ Len(q) = n
      /\ \A i \in 1..n : p[i] = DigitOf(l, i) /\ q[i] = DigitOf(r, i)
  BY <1>0, PaddedType
<1>6. \A i \in 1..n : c[i - 1] = f[i - 1].carry /\ c[i] = f[i].carry /\ i - 1 \in 0..n
  BY <1>0
<1>7. \A i \in 0..n : c[i] = f[i].carry /\ c[i] \in {0, 1}
  BY <1>2 DEF AddStates
<1>8. \A i \in 1..n : c[i] = CarryOut(p[i], q[i], c[i - 1]) /\ o[i] = SumDigit(p[i], q[i], c[i - 1])
                      /\ (LostAt(l, r, f, i) <=> CarryIsLost(p[i], q[i], c[i - 1]))
  <2> SUFFICES ASSUME NEW i \in 1..n
               PROVE  /\ c[i] = CarryOut(p[i], q[i], c[i - 1]) /\ o[i] = SumDigit(p[i], q[i], c[i - 1])
                      /\ (LostAt(l, r, f, i) <=> CarryIsLost(p[i], q[i], c[i - 1]))
    OBVIOUS
  <2>1. f[i].carry = CarryOut(DigitOf(l, i), DigitOf(r, i), f[i - 1].carry)
    <3>1. f[i] = AddTurn(l, r, i, f[i - 1])
      BY <1>2
    <3> QED BY ONLY <3>1 DEF AddTurn
  <2> HIDE DEF c, p, q, o
  <2> QED BY <1>4, <1>5, <1>6, <2>1 DEF SumAt, LostAt
<1>9. c[0] = 0 /\ c[n] = 0
  <2>1. c[0] = 0
    BY <1>0, <1>2, <1>7 DEF AddStart
  <2>2. n \in 1..n /\ n - 1 \in 0..n
    BY <1>0
  <2>3. p[n] = DigitOf(l, n) /\ q[n] = DigitOf(r, n) /\ c[n - 1] \in {0, 1}
    BY <1>5, <1>7, <2>2
  <2> HIDE DEF c, p, q
  <2>4. c[n] = CarryOut(p[n], q[n], c[n - 1])
    BY <1>8, <2>2
  <2> QED BY <1>l, <2>1, <2>3, <2>4
<1>10. f[n].carry = 0
  BY <1>0, <1>7, <1>9
<1> HIDE DEF c, o, p, q
<1>11. Adds(p, q, o, c, n)
  BY <1>7, <1>8, <1>9 DEF Adds
<1>12. PICK m \in Nat :
           /\ DigitsValue(o) + m = DigitsValue(p) + DigitsValue(q)
           /\ (m = 0 <=> \A i \in 1..n : ~ CarryIsLost(p[i], q[i], c[i - 1]))
  BY <1>0, <1>4, <1>5, <1>11, SumOfDigits
<1>13. m = 0 <=> ~ f[n].lost
  BY <1>4, <1>8, <1>12, Zenon
<1>14. /\ DigitsValue(p) = 2 * Magnitude(BigValue(l)) /\ Magnitude(BigValue(l)) \in Nat
       /\ DigitsValue(q) = 2 * Magnitude(BigValue(r)) /\ Magnitude(BigValue(r)) \in Nat
  BY <1>0, TwiceMagnitude DEF p, q
<1>15. DigitsValue(o) \in Nat
  <2>1. PICK h : DigitsValue(o) = h[Len(o)] /\ \A k \in 0..Len(o) : h[k] \in Nat
    BY <1>4, ValueIs
  <2>2. Len(o) \in 0..Len(o)
    BY <1>0, <1>4
  <2> QED BY <2>1, <2>2
<1> DEFINE u == Magnitude(BigValue(l))
           v == Magnitude(BigValue(r))
           w == DigitsValue(o)
<1>16. w + m = 2 * u + 2 * v /\ u \in Nat /\ v \in Nat /\ w \in Nat
  BY <1>12, <1>14, <1>15
<1> HIDE DEF u, v, w
<1>17. IF f[n].lost THEN w < 2 * (u + v) ELSE w = 2 * (u + v)
  <2>1. w + m = 2 * (u + v) /\ 2 * (u + v) \in Nat
    BY <1>16
  <2>2. m = 0 => w = 2 * (u + v)
    BY <1>16, <2>1
  <2>3. m # 0 => w < 2 * (u + v)
    BY <1>16, <2>1
  <2> QED BY <1>13, <2>2, <2>3, Zenon
<1>18. /\ UnsignedAdd(l, r).carry = 0 /\ UnsignedAdd(l, r).out = o /\ UnsignedAdd(l, r).lost = f[n].lost
  BY <1>1, <1>10 DEF o
<1> QED BY <1>4, <1>17, <1>18, Zenon DEF n, u, v, w

-----------------------------------------------------------------------------
(* unsigned_cmp.                                                            *)
CmpTurn(l, r, i, c) ==
    IF DigitOf(l, i) < DigitOf(r, i) THEN -1 ELSE IF DigitOf(l, i) > DigitOf(r, i) THEN 1 ELSE c

CmpLoop(l, r, n, f) ==
    /\ f[0] = 0 /\ \A i \in 0..n : f[i] \in {-1, 0, 1}
    /\ \A i \in 1..n : f[i] = CmpTurn(l, r, i, f[i - 1])

\* unsigned_cmp runs its loop once per digit.
LEMMA CmpIsLoop ==
  ASSUME NEW l \in Bigint, NEW r \in Bigint
  PROVE  \E f : CmpLoop(l, r, Width(l, r), f) /\ UnsignedCmp(l, r) = f[Width(l, r)]
<1> DEFINE n == Width(l, r)
           T == {-1, 0, 1}
           Is(f) == f = [i \in 0..n |-> IF i = 0 THEN 0 ELSE CmpTurn(l, r, i, f[i - 1])]
<1>0. n \in Nat
  BY WidthRight
<1>u. UnsignedCmp(l, r) = (CHOOSE f : Is(f))[n]
  BY DEF UnsignedCmp, CmpTurn
<1> HIDE DEF n
<1>a. \A f : Is(f) => f[0] = 0 /\ \A i \in 1..n : f[i] = CmpTurn(l, r, i, f[i - 1])
  <2> SUFFICES ASSUME NEW f, Is(f) PROVE f[0] = 0 /\ \A i \in 1..n : f[i] = CmpTurn(l, r, i, f[i - 1])
    OBVIOUS
  <2>1. 0 \in 0..n /\ \A i \in 1..n : i \in 0..n /\ i # 0
    BY <1>0
  <2> QED BY <2>1, Zenon
<1>t. \A i, c : c \in T => CmpTurn(l, r, i, c) \in T
  BY DEF CmpTurn
<1>1. \E f : Is(f)
  <2> DEFINE G == [it \in (1..n) \X T |-> CmpTurn(l, r, it[1], it[2])]
  <2>1. G \in [(1..n) \X T -> T] /\ 0 \in T
    BY <1>t
  <2>2. \E f \in [0..n -> T] : Turns(f, n, 0, G)
    <3> HIDE DEF G, T
    <3> QED BY <1>0, <2>1, LoopRuns
  <2>3. PICK f \in [0..n -> T] : f[0] = 0 /\ \A i \in 1..n : f[i] = G[<<i, f[i - 1]>>]
    BY <2>2 DEF Turns
  <2>4. ASSUME NEW i \in 1..n PROVE f[i] = CmpTurn(l, r, i, f[i - 1])
    <3> HIDE DEF T
    <3>1. i - 1 \in 0..n /\ f[i - 1] \in T
      BY <1>0, <2>3
    <3>2. <<i, f[i - 1]>> \in (1..n) \X T
      BY <3>1
    <3> QED BY <2>3, <3>2
  <2>5. Is(f)
    <3> HIDE DEF G, T
    <3>1. \A i \in 0..n : i # 0 => i \in 1..n
      BY <1>0
    <3>2. \A i \in 0..n : f[i] = IF i = 0 THEN 0 ELSE CmpTurn(l, r, i, f[i - 1])
      BY <2>3, <2>4, <3>1
    <3> QED BY <2>3, <3>2
  <2> HIDE DEF Is
  <2> QED BY <2>5
<1> DEFINE f == CHOOSE g : Is(g)
<1>2. Is(f)
  BY <1>1
<1>b. f[0] = 0 /\ \A i \in 1..n : f[i] = CmpTurn(l, r, i, f[i - 1])
  BY <1>2, <1>a
<1>u2. UnsignedCmp(l, r) = f[n]
  BY <1>u
<1> HIDE DEF f, Is
<1>3. \A i \in 0..n : f[i] \in T
  <2> DEFINE Fine == {k \in Nat : k <= n => f[k] \in T}
  <2>1. 0 \in Fine
    BY <1>b
  <2>2. ASSUME NEW k \in Fine PROVE k + 1 \in Fine
    <3> SUFFICES ASSUME k + 1 <= n PROVE f[k + 1] \in T
      OBVIOUS
    <3> HIDE DEF T
    <3>1. k \in Nat /\ f[k] \in T /\ k + 1 \in 1..n /\ (k + 1) - 1 = k
      BY <1>0
    <3> QED BY <1>b, <1>t, <3>1
  <2> HIDE DEF Fine, T
  <2>3. Fine = Nat
    BY <2>1, <2>2, Induction DEF Fine
  <2> QED BY <1>0, <2>3 DEF Fine
<1>4. CmpLoop(l, r, n, f)
  BY <1>b, <1>3 DEF CmpLoop
<1> QED BY <1>4, <1>u2 DEF n

\* A digit more outweighs every digit below.
LEMMA MoreAbove ==
  ASSUME NEW B \in Nat, NEW a \in Nat, NEW b \in Nat, a < B, b < B, NEW u \in Nat, NEW v \in Nat, u < v
  PROVE  a + B * u < b + B * v
<1>1. PICK e \in Nat : v = u + 1 + e
  <2>1. v = u + 1 + (v - u - 1) /\ v - u - 1 \in Nat
    OBVIOUS
  <2> QED BY <2>1
<1>2. B * v = B * u + B + B * e
  <2>1. B * (u + 1 + e) = B * u + B + B * e
    BY SMT
  <2> QED BY <1>1, <2>1
<1>3. B * e \in Nat /\ B * u \in Nat
  BY SMT
<1> QED BY <1>2, <1>3

\* The order of the digits from k on and the turns still to be looked at.
Ordered(f, g, c, k, n) ==
    \/ f[k] = g[k] /\ c[n] = c[n - k]
    \/ f[k] < g[k] /\ c[n] = -1
    \/ f[k] > g[k] /\ c[n] = 1

\* unsigned_cmp tells the order of the magnitudes, however many digits they have.
THEOREM MagnitudesOrdered ==
  ASSUME NEW l \in Bigint, NEW r \in Bigint
  PROVE  LET order == UnsignedCmp(l, r)
             u == Magnitude(BigValue(l))
             v == Magnitude(BigValue(r))
         IN  \/ u < v /\ order = -1
             \/ u = v /\ order = 0
             \/ u > v /\ order = 1
<1> DEFINE n == Width(l, r)
           p == Padded(l, n)
           q == Padded(r, n)
<1>0. n \in Nat /\ n >= SigDigits(l) /\ n >= SigDigits(r)
  BY WidthRight
<1>1. PICK c : CmpLoop(l, r, n, c) /\ UnsignedCmp(l, r) = c[n]
  BY CmpIsLoop
<1> HIDE DEF n
<1>2. c[0] = 0 /\ \A i \in 1..n : c[i] = CmpTurn(l, r, i, c[i - 1])
  BY <1>1 DEF CmpLoop
<1>3. /\ p \in Seq(Digit) /\ Len(p) = n /\ q \in Seq(Digit) /\ Len(q) = n
      /\ \A i \in 1..n : p[i] = DigitOf(l, i) /\ q[i] = DigitOf(r, i) /\ p[i] \in Digit /\ q[i] \in Digit
  BY <1>0, PaddedType
<1>4. /\ DigitsValue(p) = 2 * Magnitude(BigValue(l)) /\ Magnitude(BigValue(l)) \in Nat
      /\ DigitsValue(q) = 2 * Magnitude(BigValue(r)) /\ Magnitude(BigValue(r)) \in Nat
  BY <1>0, TwiceMagnitude
<1> HIDE DEF p, q
<1>5. PICK f : Highest(f, p) /\ DigitsValue(p) = f[n] /\ \A k \in 0..n : f[k] \in Nat
  BY <1>3, ValueIs
<1>6. PICK g : Highest(g, q) /\ DigitsValue(q) = g[n] /\ \A k \in 0..n : g[k] \in Nat
  BY <1>3, ValueIs
<1>7. /\ f[0] = 0 /\ \A k \in 1..n : f[k] = p[n - k + 1] + Base * f[k - 1]
      /\ g[0] = 0 /\ \A k \in 1..n : g[k] = q[n - k + 1] + Base * g[k - 1]
  BY <1>3, <1>5, <1>6 DEF Highest
<1> DEFINE Fine == {k \in Nat : k <= n => Ordered(f, g, c, k, n)}
<1>8. 0 \in Fine
  <2>1. n - 0 = n
    BY <1>0
  <2> QED BY <1>7, <2>1 DEF Ordered
<1>9. ASSUME NEW k \in Fine PROVE k + 1 \in Fine
  <2> SUFFICES ASSUME k + 1 <= n PROVE Ordered(f, g, c, k + 1, n)
    OBVIOUS
  <2>0. k \in Nat /\ Ordered(f, g, c, k, n)
    BY <1>0
  <2> HIDE DEF Fine
  <2> DEFINE j == n - k
  <2>1. /\ j \in 1..n /\ k \in 0..n /\ k + 1 \in 1..n
        /\ (k + 1) - 1 = k /\ n - (k + 1) + 1 = j /\ n - (k + 1) = j - 1
    BY <1>0, <2>0
  <2>2. \/ f[k] = g[k] /\ c[n] = c[j]
        \/ f[k] < g[k] /\ c[n] = -1
        \/ f[k] > g[k] /\ c[n] = 1
    BY <2>0 DEF Ordered
  <2> HIDE DEF j
  <2> DEFINE a == p[j]
             b == q[j]
             u == f[k]
             v == g[k]
  <2>3. f[k + 1] = a + Base * u /\ g[k + 1] = b + Base * v
    BY <1>7, <2>1
  <2>4. a \in Nat /\ b \in Nat /\ a < Base /\ b < Base /\ u \in Nat /\ v \in Nat /\ Base \in Nat
    <3>1. a \in Digit /\ b \in Digit
      BY <1>3, <2>1
    <3>2. u \in Nat /\ v \in Nat
      BY <1>5, <1>6, <2>1
    <3> QED BY <3>1, <3>2, DigitType, BaseFacts
  <2>5. c[j] = IF a < b THEN -1 ELSE IF a > b THEN 1 ELSE c[j - 1]
    <3>1. c[j] = CmpTurn(l, r, j, c[j - 1])
      BY <1>2, <2>1
    <3>2. a = DigitOf(l, j) /\ b = DigitOf(r, j)
      BY <1>3, <2>1
    <3> QED BY <3>1, <3>2 DEF CmpTurn
  <2> DEFINE F == f[k + 1]
             H == g[k + 1]
  <2>6. \/ F = H /\ c[n] = c[j - 1]
        \/ F < H /\ c[n] = -1
        \/ F > H /\ c[n] = 1
    <3>1. F = a + Base * u /\ H = b + Base * v
      BY <2>3
    <3> HIDE DEF a, b, F, H
    <3>2. CASE u = v /\ c[n] = c[j]
      <4> DEFINE w == Base * u
      <4>1. w \in Nat
        BY <2>4, SMT
      <4>2. F = a + w /\ H = b + w
        BY <3>1, <3>2
      <4> HIDE DEF w, u, v
      <4> QED BY <2>4, <2>5, <3>2, <4>1, <4>2
    <3>3. CASE u < v /\ c[n] = -1
      <4>1. a + Base * u < b + Base * v
        <5> HIDE DEF u, v
        <5> QED BY <2>4, <3>3, MoreAbove
      <4> QED BY <3>1, <3>3, <4>1
    <3>4. CASE u > v /\ c[n] = 1
      <4>1. b + Base * v < a + Base * u
        <5> HIDE DEF u, v
        <5>1. v < u
          BY <2>4, <3>4
        <5> QED BY <2>4, <5>1, MoreAbove
      <4>2. F > H
        <5> DEFINE A == a + Base * u
                   B == b + Base * v
        <5>1. B < A /\ F = A /\ H = B
          BY <3>1, <4>1
        <5> HIDE DEF A, B
        <5> QED BY <5>1
      <4> QED BY <3>4, <4>2
    <3> QED BY <2>2, <3>2, <3>3, <3>4
  <2> QED BY <2>1, <2>6 DEF Ordered
<1> HIDE DEF Fine
<1>10. Fine = Nat
  BY <1>8, <1>9, Induction DEF Fine
<1>11. Ordered(f, g, c, n, n)
  <2>1. n \in Fine /\ n <= n
    BY <1>0, <1>10
  <2> QED BY <2>1 DEF Fine
<1>12. \/ f[n] = g[n] /\ c[n] = 0
       \/ f[n] < g[n] /\ c[n] = -1
       \/ f[n] > g[n] /\ c[n] = 1
  <2>1. n - n = 0
    BY <1>0
  <2> QED BY <1>2, <1>11, <2>1 DEF Ordered
<1> DEFINE u == Magnitude(BigValue(l))
           v == Magnitude(BigValue(r))
           o == UnsignedCmp(l, r)
<1>13. /\ f[n] = 2 * u /\ g[n] = 2 * v /\ u \in Nat /\ v \in Nat /\ o = c[n]
  BY <1>1, <1>4, <1>5, <1>6
<1> HIDE DEF u, v, o
<1>14. \/ u < v /\ o = -1
       \/ u = v /\ o = 0
       \/ u > v /\ o = 1
  BY <1>12, <1>13
<1> QED BY <1>14 DEF u, v, o

-----------------------------------------------------------------------------
(* unsigned_sub.                                                            *)
SubStates == [borrow : {0, 1}, out : Seq(Digit)]
SubStart == [borrow |-> 0, out |-> << >>]
SubTurn(l, r, i, done) ==
    [borrow |-> BorrowOut(DigitOf(l, i), DigitOf(r, i), done.borrow),
     out |-> Append(done.out, DifferenceDigit(DigitOf(l, i), DigitOf(r, i), done.borrow))]

\* A turn of unsigned_sub keeps its state's type.
LEMMA SubTurnType ==
  ASSUME NEW l \in Bigint, NEW r \in Bigint, NEW i \in Nat, i >= 1, NEW done \in SubStates
  PROVE  SubTurn(l, r, i, done) \in SubStates
<1>1. DigitOf(l, i) \in Digit /\ DigitOf(r, i) \in Digit
  BY DigitOfRight
<1>2. done.borrow \in {0, 1} /\ done.out \in Seq(Digit)
  BY DEF SubStates
<1> DEFINE a == DigitOf(l, i)
           b == DigitOf(r, i)
           c == done.borrow
<1>3. DifferenceDigit(a, b, c) \in Digit /\ BorrowOut(a, b, c) \in {0, 1}
  BY <1>1, <1>2, BorrowRight DEF BorrowOut
<1>4. Append(done.out, DifferenceDigit(a, b, c)) \in Seq(Digit)
  BY <1>2, <1>3, AppendProperties
<1> QED BY <1>3, <1>4 DEF SubTurn, SubStates

SubLoop(l, r, n, f) ==
    /\ f[0] = SubStart /\ \A i \in 0..n : f[i] \in SubStates
    /\ \A i \in 1..n : f[i] = SubTurn(l, r, i, f[i - 1])

\* The loop of unsigned_sub.
LEMMA SubIsLoop ==
  ASSUME NEW l \in Bigint, NEW r \in Bigint
  PROVE  \E f : SubLoop(l, r, Width(l, r), f) /\ UnsignedSub(l, r) = f[Width(l, r)].out
<1> DEFINE n == Width(l, r)
           Is(f) == f = [i \in 0..n |-> IF i = 0 THEN SubStart ELSE SubTurn(l, r, i, f[i - 1])]
<1>0. n \in Nat
  BY WidthRight
<1>u. UnsignedSub(l, r) = (CHOOSE f : Is(f))[n].out
  BY DEF UnsignedSub, SubStart, SubTurn
<1> HIDE DEF n
<1>a. \A f : Is(f) => /\ f[0] = SubStart
                      /\ \A i \in 1..n : f[i] = SubTurn(l, r, i, f[i - 1])
  <2> SUFFICES ASSUME NEW f, Is(f)
               PROVE  f[0] = SubStart /\ \A i \in 1..n : f[i] = SubTurn(l, r, i, f[i - 1])
    OBVIOUS
  <2>1. 0 \in 0..n /\ \A i \in 1..n : i \in 0..n /\ i # 0
    BY <1>0
  <2> QED BY <2>1, Zenon
<1>s. SubStart \in SubStates
  <2>1. << >> \in Seq(Digit)
    OBVIOUS
  <2> QED BY <2>1 DEF SubStart, SubStates
<1>1. \E f : Is(f) /\ \A i \in 0..n : f[i] \in SubStates
  <2> DEFINE G == [it \in (1..n) \X SubStates |-> SubTurn(l, r, it[1], it[2])]
  <2>1. G \in [(1..n) \X SubStates -> SubStates]
    <3>1. \A i \in 1..n : i \in Nat /\ i >= 1
      BY <1>0
    <3>2. \A it \in (1..n) \X SubStates : SubTurn(l, r, it[1], it[2]) \in SubStates
      BY <3>1, SubTurnType
    <3> QED BY <3>2
  <2>2. \E f \in [0..n -> SubStates] : Turns(f, n, SubStart, G)
    <3> HIDE DEF G
    <3> QED BY <1>0, <1>s, <2>1, LoopRuns
  <2>3. PICK f \in [0..n -> SubStates] : f[0] = SubStart /\ \A i \in 1..n : f[i] = G[<<i, f[i - 1]>>]
    BY <2>2 DEF Turns
  <2>4. ASSUME NEW i \in 1..n PROVE f[i] = SubTurn(l, r, i, f[i - 1])
    <3>1. i - 1 \in 0..n /\ f[i - 1] \in SubStates
      BY <1>0, <2>3
    <3>2. <<i, f[i - 1]>> \in (1..n) \X SubStates
      BY <3>1
    <3> QED BY <2>3, <3>2
  <2>5. Is(f)
    <3> HIDE DEF G
    <3>1. \A i \in 0..n : i # 0 => i \in 1..n
      BY <1>0
    <3>2. \A i \in 0..n : f[i] = IF i = 0 THEN SubStart ELSE SubTurn(l, r, i, f[i - 1])
      BY <2>3, <2>4, <3>1
    <3> QED BY <2>3, <3>2
  <2> HIDE DEF Is
  <2> QED BY <2>3, <2>5
<1> DEFINE f == CHOOSE g : Is(g)
<1>2. Is(f)
  BY <1>1
<1>b. f[0] = SubStart /\ \A i \in 1..n : f[i] = SubTurn(l, r, i, f[i - 1])
  BY <1>2, <1>a
<1>u2. UnsignedSub(l, r) = f[n].out
  BY <1>u
<1> HIDE DEF f, Is
<1>3. \A i \in 0..n : f[i] \in SubStates
  <2> DEFINE Fine == {k \in Nat : k <= n => f[k] \in SubStates}
  <2>1. 0 \in Fine
    BY <1>b, <1>s
  <2>2. ASSUME NEW k \in Fine PROVE k + 1 \in Fine
    <3> SUFFICES ASSUME k + 1 <= n PROVE f[k + 1] \in SubStates
      OBVIOUS
    <3>1. k \in Nat /\ f[k] \in SubStates /\ k + 1 \in 1..n /\ (k + 1) - 1 = k /\ k + 1 >= 1 /\ k + 1 \in Nat
      BY <1>0
    <3>2. f[k + 1] = SubTurn(l, r, k + 1, f[k])
      BY <1>b, <3>1
    <3> QED BY <3>1, <3>2, SubTurnType
  <2> HIDE DEF Fine
  <2>3. Fine = Nat
    BY <2>1, <2>2, Induction DEF Fine
  <2> QED BY <1>0, <2>3 DEF Fine
<1>4. SubLoop(l, r, n, f)
  BY <1>b, <1>3 DEF SubLoop
<1> QED BY <1>4, <1>u2 DEF n

LessAt(l, r, f, i) == DifferenceDigit(DigitOf(l, i), DigitOf(r, i), f[i - 1].borrow)

Taken(l, r, f, k) ==
    /\ f[k].out \in Seq(Digit) /\ Len(f[k].out) = k
    /\ \A i \in 1..k : f[k].out[i] = LessAt(l, r, f, i)

\* After k turns the output holds the difference digits of the first k places.
LEMMA SubTakes ==
  ASSUME NEW l \in Bigint, NEW r \in Bigint, NEW n \in Nat, NEW f, SubLoop(l, r, n, f)
  PROVE  \A k \in 0..n : Taken(l, r, f, k)
<1>1. /\ f[0] = SubStart /\ \A i \in 0..n : f[i] \in SubStates
      /\ \A i \in 1..n : f[i] = SubTurn(l, r, i, f[i - 1])
  BY DEF SubLoop
<1> DEFINE Fine == {k \in Nat : k <= n => Taken(l, r, f, k)}
<1>2. 0 \in Fine
  <2>1. f[0].out = << >>
    BY <1>1 DEF SubStart
  <2>2. f[0].out \in Seq(Digit) /\ Len(f[0].out) = 0
    BY <2>1
  <2>4. \A i \in 1..0 : f[0].out[i] = LessAt(l, r, f, i)
    OBVIOUS
  <2>5. Taken(l, r, f, 0)
    BY <2>2, <2>4 DEF Taken
  <2> QED BY <2>5
<1>3. ASSUME NEW k \in Fine PROVE k + 1 \in Fine
  <2> SUFFICES ASSUME k + 1 <= n PROVE Taken(l, r, f, k + 1)
    OBVIOUS
  <2>1. k \in Nat /\ k \in 0..n /\ k + 1 \in 1..n /\ (k + 1) - 1 = k
    OBVIOUS
  <2>2. Taken(l, r, f, k)
    BY <2>1
  <2> HIDE DEF Fine
  <2> DEFINE e == LessAt(l, r, f, k + 1)
             s == f[k].out
  <2>3. f[k] \in SubStates /\ f[k].borrow \in {0, 1}
    BY <1>1, <2>1 DEF SubStates
  <2>4. f[k + 1] = SubTurn(l, r, k + 1, f[k])
    BY <1>1, <2>1
  <2>5. f[k + 1].out = Append(s, e)
    BY <2>1, <2>4 DEF SubTurn, LessAt
  <2>6. e \in Digit
    <3>1. DigitOf(l, k + 1) \in Digit /\ DigitOf(r, k + 1) \in Digit
      BY <2>1, DigitOfRight
    <3> QED BY <2>1, <2>3, <3>1, BorrowRight DEF LessAt
  <2>7. /\ s \in Seq(Digit) /\ Len(s) = k /\ \A i \in 1..k : s[i] = LessAt(l, r, f, i)
    BY <2>2 DEF Taken
  <2> HIDE DEF e, s
  <2>8. /\ Append(s, e) \in Seq(Digit) /\ Len(Append(s, e)) = k + 1
        /\ \A i \in 1..k : Append(s, e)[i] = s[i]
        /\ Append(s, e)[k + 1] = e
    BY <2>6, <2>7, AppendIs
  <2>9. \A i \in 1..(k + 1) : i \in 1..k \/ i = k + 1
    BY <2>1
  <2>10. \A i \in 1..(k + 1) : Append(s, e)[i] = LessAt(l, r, f, i)
    BY <2>7, <2>8, <2>9 DEF e
  <2> QED BY <2>5, <2>8, <2>10 DEF Taken
<1> HIDE DEF Fine
<1>4. Fine = Nat
  BY <1>2, <1>3, Induction DEF Fine
<1> QED BY <1>4 DEF Fine

\* One more digit of a difference, with a borrow from above or without.
LEMMA DifferenceAbove ==
  ASSUME NEW B \in Nat, NEW a \in Nat, NEW b \in Nat, NEW d \in Nat, d < B, NEW c \in {0, 1}, NEW e \in {0, 1},
         NEW u \in Nat, NEW v \in Nat, NEW w \in Nat, d - B * c = a - b - e
  PROVE  /\ w = (u - v) - c => d + B * w = ((a + B * u) - (b + B * v)) - e
         /\ (u - v) - c < 0 => ((a + B * u) - (b + B * v)) - e < 0
<1>0. B * u \in Nat /\ B * v \in Nat /\ B * w \in Nat /\ B * c = IF c = 0 THEN 0 ELSE B
  BY SMT
<1>1. ASSUME w = (u - v) - c PROVE d + B * w = ((a + B * u) - (b + B * v)) - e
  <2>1. u = (w + v) + c
    BY <1>1
  <2>2. B * ((w + v) + c) = B * w + B * v + B * c
    BY SMT
  <2>3. B * u = B * w + B * v + B * c
    BY <2>1, <2>2
  <2> DEFINE x == B * u
             y == B * v
             z == B * w
             t == B * c
  <2>4. x = z + y + t /\ d - t = a - b - e /\ x \in Nat /\ y \in Nat /\ z \in Nat /\ t \in Int
    BY <1>0, <2>3
  <2> HIDE DEF x, y, z, t
  <2>5. d + z = ((a + x) - (b + y)) - e
    BY <2>4
  <2> QED BY <2>5 DEF x, y, z
<1>2. ASSUME (u - v) - c < 0 PROVE ((a + B * u) - (b + B * v)) - e < 0
  <2>1. PICK h \in Nat : v + c = u + 1 + h
    <3>1. v + c = u + 1 + (((v + c) - u) - 1) /\ ((v + c) - u) - 1 \in Nat
      BY <1>2
    <3> QED BY <3>1
  <2>2. B * (v + c) = B * v + B * c /\ B * (u + 1 + h) = B * u + B + B * h /\ B * h \in Nat
    BY SMT
  <2>3. B * v + B * c = B * u + B + B * h
    BY <2>1, <2>2
  <2> DEFINE x == B * u
             y == B * v
             z == B * h
             t == B * c
  <2>4. /\ y + t = x + B + z /\ d - t = a - b - e /\ x \in Nat /\ y \in Nat /\ z \in Nat /\ t \in Int
    BY <1>0, <2>2, <2>3
  <2> HIDE DEF x, y, z, t
  <2>5. ((a + x) - (b + y)) - e < 0
    BY <2>4
  <2> QED BY <2>5 DEF x, y
<1> QED BY <1>1, <1>2

Subtracts(p, q, o, c, n) ==
    /\ c[0] = 0 /\ \A i \in 0..n : c[i] \in {0, 1}
    /\ \A i \in 1..n : o[i] = DifferenceDigit(p[i], q[i], c[i - 1]) /\ c[i] = BorrowOut(p[i], q[i], c[i - 1])

\* If nothing is left to borrow then the digits are those of the difference, and
\* if something is then the second number is the larger.
DifferenceSoFar(f, g, h, c, k, n) ==
    IF c[n] = 0 THEN h[k] = (f[k] - g[k]) - c[n - k] ELSE (f[k] - g[k]) - c[n - k] < 0

\* The digits from the most significant one down to k differ by the output and the borrow.
LEMMA DifferenceOfDigits ==
  ASSUME NEW p \in Seq(Digit), NEW q \in Seq(Digit), NEW o \in Seq(Digit), NEW n \in Nat, NEW c,
         Len(p) = n, Len(q) = n, Len(o) = n, Subtracts(p, q, o, c, n)
  PROVE  \/ DigitsValue(o) = DigitsValue(p) - DigitsValue(q)
         \/ DigitsValue(p) - DigitsValue(q) < 0
<1>1. PICK f : Highest(f, p) /\ DigitsValue(p) = f[n] /\ \A k \in 0..n : f[k] \in Nat
  BY ValueIs
<1>2. PICK g : Highest(g, q) /\ DigitsValue(q) = g[n] /\ \A k \in 0..n : g[k] \in Nat
  BY ValueIs
<1>3. PICK h : Highest(h, o) /\ DigitsValue(o) = h[n] /\ \A k \in 0..n : h[k] \in Nat
  BY ValueIs
<1>4. /\ f[0] = 0 /\ \A k \in 1..n : f[k] = p[n - k + 1] + Base * f[k - 1]
      /\ g[0] = 0 /\ \A k \in 1..n : g[k] = q[n - k + 1] + Base * g[k - 1]
      /\ h[0] = 0 /\ \A k \in 1..n : h[k] = o[n - k + 1] + Base * h[k - 1]
  BY <1>1, <1>2, <1>3 DEF Highest
<1>5. /\ c[0] = 0 /\ \A i \in 0..n : c[i] \in {0, 1}
      /\ \A i \in 1..n : o[i] = DifferenceDigit(p[i], q[i], c[i - 1]) /\ c[i] = BorrowOut(p[i], q[i], c[i - 1])
  BY DEF Subtracts
<1>6. \A i \in 1..n : p[i] \in Digit /\ q[i] \in Digit /\ o[i] \in Digit
  OBVIOUS
<1> DEFINE Fine == {k \in Nat : k <= n => DifferenceSoFar(f, g, h, c, k, n)}
<1>7. 0 \in Fine
  <2>1. n - 0 = n /\ n \in 0..n
    OBVIOUS
  <2>2. c[n] \in {0, 1}
    BY <1>5, <2>1
  <2> QED BY <1>4, <2>1, <2>2 DEF DifferenceSoFar
<1>8. ASSUME NEW k \in Fine PROVE k + 1 \in Fine
  <2> SUFFICES ASSUME k + 1 <= n PROVE DifferenceSoFar(f, g, h, c, k + 1, n)
    OBVIOUS
  <2>0. k \in Nat /\ DifferenceSoFar(f, g, h, c, k, n)
    OBVIOUS
  <2> HIDE DEF Fine
  <2> DEFINE j == n - k
  <2>1. /\ j \in 1..n /\ j - 1 \in 0..n /\ j \in 0..n /\ k \in 0..n /\ k + 1 \in 1..n
        /\ (k + 1) - 1 = k /\ n - (k + 1) + 1 = j /\ n - (k + 1) = j - 1
    BY <2>0
  <2>2. IF c[n] = 0 THEN h[k] = (f[k] - g[k]) - c[j] ELSE (f[k] - g[k]) - c[j] < 0
    BY <2>0 DEF DifferenceSoFar
  <2> HIDE DEF j
  <2> DEFINE B == Base
             a == p[j]
             b == q[j]
             d == o[j]
             s == c[j]
             e == c[j - 1]
             u == f[k]
             v == g[k]
             w == h[k]
  <2>3. f[k + 1] = a + B * u /\ g[k + 1] = b + B * v /\ h[k + 1] = d + B * w
    BY <1>4, <2>1
  <2>4. a \in Digit /\ b \in Digit /\ d \in Digit /\ s \in {0, 1} /\ e \in {0, 1}
    BY <1>5, <1>6, <2>1
  <2>5. u \in Nat /\ v \in Nat /\ w \in Nat
    BY <1>1, <1>2, <1>3, <2>1
  <2>6. d - B * s = a - b - e
    <3>1. d = DifferenceDigit(a, b, e) /\ s = BorrowOut(a, b, e)
      BY <1>5, <2>1
    <3> HIDE DEF a, b, d, s, e
    <3>2. DifferenceDigit(a, b, e) - B * BorrowOut(a, b, e) = a - b - e
      BY <2>4, BorrowRight
    <3> QED BY <3>1, <3>2
  <2>7. a \in Nat /\ b \in Nat /\ d \in Nat /\ d < B /\ B \in Nat
    BY <2>4, DigitType, BaseFacts
  <2> HIDE DEF B, a, b, d, s, e, u, v, w
  <2>8. /\ w = (u - v) - s => d + B * w = ((a + B * u) - (b + B * v)) - e
        /\ (u - v) - s < 0 => ((a + B * u) - (b + B * v)) - e < 0
    BY ONLY <2>4, <2>5, <2>6, <2>7, DifferenceAbove
  <2>9. IF c[n] = 0 THEN w = (u - v) - s ELSE (u - v) - s < 0
    BY <2>2 DEF s, u, v, w
  <2>10. IF c[n] = 0 THEN h[k + 1] = (f[k + 1] - g[k + 1]) - e ELSE (f[k + 1] - g[k + 1]) - e < 0
    BY <2>3, <2>8, <2>9
  <2> QED BY <2>1, <2>10 DEF DifferenceSoFar, e
<1> HIDE DEF Fine
<1>9. Fine = Nat
  BY <1>7, <1>8, Induction DEF Fine
<1>10. DifferenceSoFar(f, g, h, c, n, n)
  <2>1. n \in Fine /\ n <= n
    BY <1>9
  <2> QED BY <2>1 DEF Fine
<1>11. n - n = 0 /\ n \in 0..n
  OBVIOUS
<1>12. f[n] \in Nat /\ g[n] \in Nat
  BY <1>1, <1>2, <1>11
<1>13. IF c[n] = 0 THEN h[n] = (f[n] - g[n]) - 0 ELSE (f[n] - g[n]) - 0 < 0
  BY <1>5, <1>10, <1>11 DEF DifferenceSoFar
<1>14. h[n] = f[n] - g[n] \/ f[n] - g[n] < 0
  BY <1>12, <1>13
<1> QED BY <1>1, <1>2, <1>3, <1>14

\* unsigned_sub: called with the larger magnitude first, it puts out the digits
\* of the difference, however many digits the two numbers have.
THEOREM SubtractsMagnitudes ==
  ASSUME NEW l \in Bigint, NEW r \in Bigint, UnsignedCmp(l, r) >= 0
  PROVE  /\ UnsignedSub(l, r) \in Seq(Digit) /\ Len(UnsignedSub(l, r)) = Width(l, r)
         /\ DigitsValue(UnsignedSub(l, r)) = 2 * (Magnitude(BigValue(l)) - Magnitude(BigValue(r)))
<1> DEFINE n == Width(l, r)
           p == Padded(l, n)
           q == Padded(r, n)
<1>0. n \in Nat /\ n >= SigDigits(l) /\ n >= SigDigits(r)
  BY WidthRight
<1>1. PICK f : SubLoop(l, r, n, f) /\ UnsignedSub(l, r) = f[n].out
  BY SubIsLoop
<1> HIDE DEF n
<1>2. /\ f[0] = SubStart /\ \A i \in 0..n : f[i] \in SubStates
      /\ \A i \in 1..n : f[i] = SubTurn(l, r, i, f[i - 1])
  BY <1>1 DEF SubLoop
<1>3. Taken(l, r, f, n)
  <2>1. n \in 0..n
    BY <1>0
  <2> QED BY <1>0, <1>1, <2>1, SubTakes
<1> DEFINE o == f[n].out
           c == [i \in 0..n |-> f[i].borrow]
<1>4. o \in Seq(Digit) /\ Len(o) = n /\ \A i \in 1..n : o[i] = LessAt(l, r, f, i)
  BY <1>3 DEF Taken
<1>5. /\ p \in Seq(Digit) /\ Len(p) = n /\ q \in Seq(Digit) /\ Len(q) = n
      /\ \A i \in 1..n : p[i] = DigitOf(l, i) /\ q[i] = DigitOf(r, i)
  BY <1>0, PaddedType
<1>6. \A i \in 1..n : c[i - 1] = f[i - 1].borrow /\ c[i] = f[i].borrow /\ i - 1 \in 0..n
  BY <1>0
<1>7. \A i \in 0..n : c[i] = f[i].borrow /\ c[i] \in {0, 1}
  BY <1>2 DEF SubStates
<1>8. \A i \in 1..n : c[i] = BorrowOut(p[i], q[i], c[i - 1]) /\ o[i] = DifferenceDigit(p[i], q[i], c[i - 1])
  <2> SUFFICES ASSUME NEW i \in 1..n
               PROVE  c[i] = BorrowOut(p[i], q[i], c[i - 1]) /\ o[i] = DifferenceDigit(p[i], q[i], c[i - 1])
    OBVIOUS
  <2>1. f[i].borrow = BorrowOut(DigitOf(l, i), DigitOf(r, i), f[i - 1].borrow)
    <3>1. f[i] = SubTurn(l, r, i, f[i - 1])
      BY <1>2
    <3> QED BY ONLY <3>1 DEF SubTurn
  <2> HIDE DEF c, p, q, o
  <2> QED BY <1>4, <1>5, <1>6, <2>1 DEF LessAt
<1>9. c[0] = 0
  BY <1>0, <1>2, <1>7 DEF SubStart
<1> HIDE DEF c, o, p, q
<1>10. Subtracts(p, q, o, c, n)
  BY <1>7, <1>8, <1>9 DEF Subtracts
<1>11. \/ DigitsValue(o) = DigitsValue(p) - DigitsValue(q)
       \/ DigitsValue(p) - DigitsValue(q) < 0
  BY <1>0, <1>4, <1>5, <1>10, DifferenceOfDigits
<1> DEFINE u == Magnitude(BigValue(l))
           v == Magnitude(BigValue(r))
           w == DigitsValue(o)
<1>12. DigitsValue(p) = 2 * u /\ u \in Nat /\ DigitsValue(q) = 2 * v /\ v \in Nat
  BY <1>0, TwiceMagnitude DEF p, q
<1>13. u >= v
  <2> DEFINE d == UnsignedCmp(l, r)
  <2>1. \/ u < v /\ d = -1
        \/ u = v /\ d = 0
        \/ u > v /\ d = 1
    BY MagnitudesOrdered
  <2>2. d >= 0
    OBVIOUS
  <2> HIDE DEF d, u, v
  <2> QED BY <1>12, <2>1, <2>2
<1>14. w = 2 * u - 2 * v \/ 2 * u - 2 * v < 0
  BY <1>11, <1>12
<1> HIDE DEF u, v, w
<1>15. w = 2 * (u - v)
  BY <1>12, <1>13, <1>14
<1> QED BY <1>1, <1>4, <1>15 DEF n, u, v, w, o

-----------------------------------------------------------------------------
(* Integers: one more digit, and what a bigint that is built means.         *)

\* The first digit, and the base times the value of the rest.
LEMMA TailValue ==
  ASSUME NEW s \in Seq(Digit), Len(s) >= 1
  PROVE  /\ Tail(s) \in Seq(Digit) /\ DigitsValue(Tail(s)) \in Nat /\ s[1] \in Digit
         /\ DigitsValue(s) = s[1] + Base * DigitsValue(Tail(s))
         /\ Len(Tail(s)) = Len(s) - 1 /\ \A i \in 1..(Len(s) - 1) : Tail(s)[i] = s[i + 1]
<1> DEFINE n == Len(s)
           t == Tail(s)
<1>0. /\ n \in Nat /\ n >= 1 /\ t \in Seq(Digit) /\ Len(t) = n - 1 /\ s[1] \in Digit
      /\ \A i \in 1..(n - 1) : t[i] = s[i + 1]
  OBVIOUS
<1> HIDE DEF n, t
<1>1. PICK f : Highest(f, s) /\ DigitsValue(s) = f[n] /\ \A k \in 0..n : f[k] \in Nat
  BY ValueIs DEF n
<1>2. PICK g : Highest(g, t) /\ DigitsValue(t) = g[n - 1] /\ \A k \in 0..(n - 1) : g[k] \in Nat
  BY ValueIs, <1>0
<1>3. f[0] = 0 /\ \A k \in 1..n : f[k] = s[n - k + 1] + Base * f[k - 1]
  BY <1>1 DEF Highest, n
<1>4. g[0] = 0 /\ \A k \in 1..(n - 1) : g[k] = t[(n - 1) - k + 1] + Base * g[k - 1]
  BY <1>0, <1>2 DEF Highest
<1> DEFINE Fine == {k \in Nat : k < n => g[k] = f[k]}
<1>6. 0 \in Fine
  BY <1>3, <1>4
<1>7. ASSUME NEW k \in Fine PROVE k + 1 \in Fine
  <2> SUFFICES ASSUME k + 1 < n PROVE g[k + 1] = f[k + 1]
    OBVIOUS
  <2>1. /\ k \in Nat /\ k + 1 \in 1..n /\ k + 1 \in 1..(n - 1) /\ (k + 1) - 1 = k /\ g[k] = f[k]
        /\ (n - 1) - (k + 1) + 1 \in 1..(n - 1)
        /\ n - (k + 1) + 1 = ((n - 1) - (k + 1) + 1) + 1
    BY <1>0
  <2>2. /\ g[k + 1] = t[(n - 1) - (k + 1) + 1] + Base * g[k]
        /\ f[k + 1] = s[n - (k + 1) + 1] + Base * f[k]
    BY <1>3, <1>4, <2>1
  <2>3. t[(n - 1) - (k + 1) + 1] = s[n - (k + 1) + 1]
    <3> DEFINE j == (n - 1) - (k + 1) + 1
    <3>1. j \in 1..(n - 1) /\ n - (k + 1) + 1 = j + 1
      BY <2>1
    <3> HIDE DEF j
    <3>2. t[j] = s[j + 1]
      BY <1>0, <3>1
    <3> QED BY <3>1, <3>2 DEF j
  <2> QED BY <2>1, <2>2, <2>3
<1> HIDE DEF Fine
<1>8. Fine = Nat
  BY <1>6, <1>7, Induction DEF Fine
<1>9. g[n - 1] = f[n - 1] /\ n \in 1..n /\ n - 1 \in 0..(n - 1) /\ n - n + 1 = 1
  BY <1>0, <1>8 DEF Fine
<1>10. f[n] = s[1] + Base * f[n - 1] /\ g[n - 1] \in Nat
  BY <1>2, <1>3, <1>9
<1> QED BY <1>0, <1>1, <1>2, <1>9, <1>10 DEF n, t

\* Only zeros come to zero.
LEMMA ValueOfZeros ==
  ASSUME NEW s \in Seq(Digit)
  PROVE  DigitsValue(s) \in Nat /\ (DigitsValue(s) = 0 <=> \A i \in 1..Len(s) : s[i] = 0)
<1> DEFINE n == Len(s)
<1>0. n \in Nat /\ \A i \in 1..n : s[i] \in Digit
  OBVIOUS
<1>1. PICK f : Highest(f, s) /\ DigitsValue(s) = f[n] /\ \A k \in 0..n : f[k] \in Nat
  BY ValueIs
<1>3. f[0] = 0 /\ \A k \in 1..n : f[k] = s[n - k + 1] + Base * f[k - 1]
  BY <1>1 DEF Highest
<1> HIDE DEF n
<1> DEFINE Fine == {k \in Nat : k <= n => (f[k] = 0 <=> \A i \in 1..n : i > n - k => s[i] = 0)}
<1>4. 0 \in Fine
  BY <1>0, <1>3
<1>5. ASSUME NEW k \in Fine PROVE k + 1 \in Fine
  <2> SUFFICES ASSUME k + 1 <= n
               PROVE  f[k + 1] = 0 <=> \A i \in 1..n : i > n - (k + 1) => s[i] = 0
    OBVIOUS
  <2> DEFINE j == n - (k + 1) + 1
  <2>1. /\ k \in Nat /\ k + 1 \in 1..n /\ (k + 1) - 1 = k /\ k \in 0..n /\ j \in 1..n /\ j = n - k
        /\ (f[k] = 0 <=> \A i \in 1..n : i > n - k => s[i] = 0)
    BY <1>0
  <2>2. f[k + 1] = s[j] + Base * f[k] /\ f[k] \in Nat /\ s[j] \in Nat
    BY <1>0, <1>1, <1>3, <2>1, DigitType
  <2>3. \A i \in 1..n : i > n - (k + 1) <=> i = j \/ i > n - k
    BY <1>0, <2>1
  <2> HIDE DEF j
  <2>4. Base * f[k] \in Nat /\ (Base * f[k] = 0 <=> f[k] = 0)
    <3>1. Base \in Nat /\ Base >= 1
      BY BaseFacts
    <3> HIDE DEF Base
    <3>2. \A b, x \in Nat : b >= 1 => b * x \in Nat /\ (b * x = 0 <=> x = 0)
      BY SMT
    <3> QED BY <2>2, <3>1, <3>2
  <2>5. f[k + 1] = 0 <=> s[j] = 0 /\ f[k] = 0
    BY <2>2, <2>4
  <2> QED BY <2>1, <2>3, <2>5
<1> HIDE DEF Fine
<1>6. Fine = Nat
  BY <1>4, <1>5, Induction DEF Fine
<1>7. f[n] = 0 <=> \A i \in 1..n : i > n - n => s[i] = 0
  BY <1>0, <1>6 DEF Fine
<1>8. f[n] \in Nat /\ \A i \in 1..n : i > n - n
  BY <1>0, <1>1
<1> QED BY <1>1, <1>7, <1>8 DEF n

\* An int of the range is itself.
LEMMA WrapKeeps ==
  ASSUME NEW n \in CInt
  PROVE  Wrap(n) = n
<1>1. Base \in Nat /\ Base >= 4 /\ IntMin \in Int /\ n \in Int /\ n - IntMin \in 0..(Base - 1)
  BY BaseFacts DEF CInt
<1> DEFINE x == n - IntMin
<1>2. x % Base = x
  <2> HIDE DEF x, Base
  <2>1. \A b, y \in Nat : y < b => y % b = y
    BY SMT
  <2> QED BY <1>1, <2>1 DEF x
<1> QED BY <1>1, <1>2 DEF Wrap

\* SETNEGATIVE on digits whose sign is still free.
LEMMA SignedRight ==
  ASSUME NEW out \in Seq(Digit), Len(out) >= 1, NEW v \in Nat, DigitsValue(out) = 2 * v,
         NEW negative \in BOOLEAN
  PROVE  LET big == Signed(negative, out)
         IN  /\ big \in Bigint /\ (IsNegative(big) <=> negative)
             /\ BigValue(big) = IF negative THEN -v ELSE v
<1> DEFINE t == SetNegative(out)
           o == out[1]
<1>1. PICK h \in Nat : Base = 2 * h
  BY BaseFacts
<1>2. o \in Nat /\ o < Base /\ Len(out) \in Nat /\ 1 \in 1..Len(out)
  BY DigitType
<1>3. DigitsValue(out) = o + Base * DigitsValue(Tail(out)) /\ DigitsValue(Tail(out)) \in Nat
  BY TailValue
<1>4. o % 2 = 0 /\ (o \div 2) * 2 = o
  <2> DEFINE p == h * DigitsValue(Tail(out))
  <2>1. p \in Nat /\ 2 * v = o + 2 * p
    <3> HIDE DEF o
    <3>1. \A k, x \in Nat : k * x \in Nat /\ (2 * k) * x = 2 * (k * x)
      BY SMT
    <3> QED BY <1>1, <1>3, <3>1
  <2> HIDE DEF p, o
  <2> QED BY <1>2, <2>1
<1>5. o + 1 \in Digit
  <2> HIDE DEF o
  <2>1. o + 1 < Base
    BY <1>1, <1>2, <1>4
  <2>2. Base \in Nat
    BY BaseFacts
  <2> QED BY <1>2, <2>1, <2>2 DEF Digit
<1>6. t = [out EXCEPT ![1] = o + 1]
  BY <1>4 DEF SetNegative
<1>7. t \in Seq(Digit) /\ Len(t) = Len(out) /\ t[1] = o + 1 /\ \A i \in 2..Len(out) : t[i] = out[i]
  <2> HIDE DEF o, t
  <2> QED BY <1>2, <1>5, <1>6
<1>8. DigitsValue(t) = 2 * v + 1
  <2>1. PICK q \in Nat : DigitsValue(out) = o + Base * q /\ DigitsValue(t) = t[1] + Base * q
    <3> HIDE DEF t
    <3> QED BY <1>7, FirstDigit
  <2>2. Base * q \in Nat
    BY Scaled
  <2> HIDE DEF t, o
  <2> QED BY <1>2, <1>7, <2>1, <2>2
<1>9. IsNegative(t) /\ ~IsNegative(out)
  <2>1. (o + 1) % 2 = 1
    <3> HIDE DEF o
    <3> QED BY <1>2, <1>4
  <2> HIDE DEF t
  <2> QED BY <1>4, <1>7, <2>1 DEF IsNegative
<1>10. BigValue(t) = -v /\ BigValue(out) = v
  <2>1. (2 * v + 1) \div 2 = v /\ (2 * v) \div 2 = v
    OBVIOUS
  <2> HIDE DEF t
  <2> QED BY <1>8, <1>9, <2>1 DEF BigValue
<1>11. t \in Bigint /\ out \in Bigint
  <2> HIDE DEF t
  <2> QED BY <1>7 DEF Bigint
<1> QED BY <1>9, <1>10, <1>11 DEF Signed

\* collapse_small_bigints: what fits an int becomes one, unless it is lost on the way.
LEMMA CollapseRight ==
  ASSUME NEW big \in Bigint, "negative" \notin Reaches, IsNegative(big) => BigValue(big) # 0
  PROVE  LET given == Collapse(big)
         IN  \/ CanonicalInteger(given) /\ IntValue(given) = BigValue(big)
             \/ /\ given = [kind |-> "trouble", place |-> "negative"]
                /\ BigValue(big) \in (-IntMax)..(-1)
<1> DEFINE n == Len(big)
           size == SigDigits(big)
           d == big[1]
           rest == DigitsValue(Tail(big))
<1>0. /\ big \in Seq(Digit) /\ n \in Nat /\ n >= 1 /\ size \in Nat /\ size <= n
      /\ \A i \in 1..n : i > size => big[i] = 0
      /\ size >= 1 => big[size] # 0
  BY BigintType, SigDigitsRight
<1>1. /\ Tail(big) \in Seq(Digit) /\ rest \in Nat /\ DigitsValue(big) = d + Base * rest
      /\ Len(Tail(big)) = n - 1 /\ \A i \in 1..(n - 1) : Tail(big)[i] = big[i + 1]
      /\ d \in Nat /\ d < Base
  BY <1>0, TailValue, DigitType
<1>2. rest = 0 <=> \A i \in 1..(n - 1) : big[i + 1] = 0
  BY <1>1, ValueOfZeros
<1>3. rest = 0 <=> size <= 1
  <2> HIDE DEF n, size, rest
  <2>1. ASSUME size <= 1 PROVE \A i \in 1..(n - 1) : big[i + 1] = 0
    BY <1>0, <2>1
  <2>2. ASSUME size > 1 PROVE size - 1 \in 1..(n - 1) /\ big[(size - 1) + 1] # 0
    BY <1>0, <2>2
  <2> QED BY <1>0, <1>2, <2>1, <2>2
<1>4. /\ IntMax \in Nat /\ IntMin \in Int /\ IntMin = -IntMax - 1 /\ Base = 2 * (IntMax + 1)
      /\ Base \in Nat /\ Base >= 4
  BY BaseFacts
<1>5. BigValue(big) = IF IsNegative(big) THEN -(DigitsValue(big) \div 2) ELSE DigitsValue(big) \div 2
  BY DEF BigValue
<1>a. CInt = IntMin..IntMax
  BY DEF CInt
<1> HIDE DEF n, size
<1>6. CASE size <= 1
  <2>1. DigitsValue(big) = d
    <3> HIDE DEF d, rest
    <3> QED BY <1>1, <1>3, <1>6, Scaled
  <2>2. d \div 2 \in 0..IntMax
    <3> HIDE DEF d, Base, IntMax
    <3> QED BY <1>1, <1>4
  <2>3. CASE IsNegative(big)
    <3>1. BigValue(big) \in (-IntMax)..(-1)
      <4> HIDE DEF d, IntMax
      <4> QED BY <1>4, <1>5, <2>1, <2>2, <2>3
    <3>2. Collapse(big) = [kind |-> "trouble", place |-> "negative"]
      BY <1>6, <2>3 DEF Collapse, At, size
    <3> QED BY <3>1, <3>2
  <2>4. CASE ~IsNegative(big)
    <3>1. Collapse(big) = Fix(Wrap(d \div 2))
      BY <1>6, <2>4 DEF Collapse, size
    <3>2. d \div 2 \in CInt
      <4> HIDE DEF d, IntMax, IntMin
      <4> QED BY <1>4, <1>a, <2>2
    <3>3. Wrap(d \div 2) = d \div 2
      BY <3>2, WrapKeeps
    <3>4. Collapse(big) = [kind |-> "fix", n |-> d \div 2]
      BY <3>1, <3>3 DEF Fix
    <3>5. BigValue(big) = d \div 2
      BY <1>5, <2>1, <2>4
    <3> HIDE DEF d
    <3> QED BY <3>2, <3>4, <3>5 DEF CanonicalInteger, IntValue
  <2> QED BY <2>3, <2>4
<1>7. CASE size > 1
  <2>1. rest >= 1
    <3> HIDE DEF rest
    <3> QED BY <1>0, <1>1, <1>3, <1>7
  <2> DEFINE last == DigitsValue(Tail(Tail(big)))
             e == big[2]
  <2>2. n >= 2 /\ e \in Nat /\ e < Base
    <3>1. n >= 2 /\ 2 \in 1..n
      BY <1>0, <1>7
    <3> QED BY <1>0, <3>1, BigintType, DigitType DEF n
  <2>3. /\ rest = e + Base * last /\ last \in Nat /\ Tail(Tail(big)) \in Seq(Digit)
        /\ Len(Tail(Tail(big))) = n - 2 /\ \A i \in 1..(n - 2) : Tail(Tail(big))[i] = big[i + 2]
    <3>1. Len(Tail(big)) >= 1 /\ 1 \in 1..(n - 1)
      BY <1>0, <1>1, <2>2
    <3>2. Tail(big)[1] = big[1 + 1]
      BY <1>1, <3>1
    <3>3. /\ Tail(Tail(big)) \in Seq(Digit) /\ last \in Nat /\ rest = Tail(big)[1] + Base * last
          /\ Len(Tail(Tail(big))) = Len(Tail(big)) - 1
          /\ \A i \in 1..(Len(Tail(big)) - 1) : Tail(Tail(big))[i] = Tail(big)[i + 1]
      BY <1>1, <3>1, TailValue
    <3>4. \A i \in 1..(n - 2) : i \in 1..((n - 1) - 1) /\ i + 1 \in 1..(n - 1) /\ (i + 1) + 1 = i + 2
      BY <1>0, <2>2
    <3>5. \A i \in 1..(n - 2) : Tail(Tail(big))[i] = big[i + 2]
      BY <1>1, <3>3, <3>4
    <3>6. (n - 1) - 1 = n - 2 /\ 1 + 1 = 2
      BY <1>0
    <3> HIDE DEF rest, last
    <3> QED BY <1>1, <3>2, <3>3, <3>5, <3>6
  <2>4. last = 0 <=> size = 2
    <3>1. last = 0 <=> \A i \in 1..(n - 2) : big[i + 2] = 0
      BY <2>3, ValueOfZeros
    <3> HIDE DEF last
    <3>2. ASSUME size = 2 PROVE \A i \in 1..(n - 2) : big[i + 2] = 0
      BY <1>0, <3>2
    <3>3. ASSUME size > 2 PROVE size - 2 \in 1..(n - 2) /\ big[(size - 2) + 2] # 0
      BY <1>0, <3>3
    <3> QED BY <1>0, <1>7, <3>1, <3>2, <3>3
  <2>5. DigitsValue(big) \div 2 >= IntMax + 1 /\ DigitsValue(big) \in Nat
    <3> DEFINE x == Base * rest
    <3>1. x \in Nat /\ x >= Base
      <4> HIDE DEF rest, Base
      <4>1. \A b, y \in Nat : y >= 1 => b * y \in Nat /\ b * y >= b
        <5>1. \A b, z \in Nat : b * (z + 1) = b * z + b /\ b * z \in Nat
          BY SMT
        <5> QED BY <5>1
      <4> QED BY <1>1, <1>4, <2>1, <4>1
    <3> HIDE DEF x, d, rest, Base, IntMax
    <3> QED BY <1>1, <1>4, <3>1 DEF x
  <2>6. CASE size = 2 /\ d = 1 /\ e = 1
    <3>1. rest = 1 /\ DigitsValue(big) = 1 + Base
      <4> HIDE DEF last, rest, e, d, Base
      <4>1. Base * 0 = 0 /\ Base * 1 = Base
        BY <1>4
      <4> QED BY <1>1, <1>4, <2>3, <2>4, <2>6, <4>1
    <3>2. DigitsValue(big) \div 2 = IntMax + 1
      <4> HIDE DEF Base, IntMax
      <4> QED BY <1>4, <3>1
    <3>3. IsNegative(big)
      BY <2>6 DEF IsNegative
    <3>4. BigValue(big) = IntMin
      BY <1>4, <1>5, <3>2, <3>3
    <3>5. Collapse(big) = [kind |-> "fix", n |-> IntMin]
      BY <1>7, <2>6 DEF Collapse, Fix, size
    <3>6. IntMin \in CInt
      <4> HIDE DEF IntMin, IntMax
      <4> QED BY <1>4, <1>a
    <3> HIDE DEF IntMin
    <3> QED BY <3>4, <3>5, <3>6 DEF CanonicalInteger, IntValue
  <2>7. CASE ~(size = 2 /\ d = 1 /\ e = 1)
    <3>1. Collapse(big) = [kind |-> "big", digits |-> big]
      <4>1. ~(size <= 1)
        BY <1>0, <1>7
      <4> QED BY <2>7, <4>1 DEF Collapse, Big, size
    <3>2. ASSUME IsNegative(big) PROVE DigitsValue(big) \div 2 # IntMax + 1
      <4> SUFFICES ASSUME DigitsValue(big) \div 2 = IntMax + 1 PROVE FALSE
        OBVIOUS
      <4>1. d % 2 = 1
        BY <3>2 DEF IsNegative
      <4>2. rest = 1 /\ d = 1
        <5> DEFINE x == Base * (rest - 1)
        <5>1. x \in Nat /\ Base * rest = x + Base /\ (rest # 1 => x >= Base)
          <6> HIDE DEF rest, Base
          <6>1. \A b, y \in Nat : y >= 1 => /\ b * (y - 1) \in Nat /\ b * y = b * (y - 1) + b
                                            /\ (y # 1 => b * (y - 1) >= b)
            <7>1. \A b, z \in Nat : b * (z + 1) = b * z + b /\ b * z \in Nat
              BY SMT
            <7>2. ASSUME NEW b \in Nat, NEW y \in Nat, y >= 1
                  PROVE  /\ b * (y - 1) \in Nat /\ b * y = b * (y - 1) + b
                         /\ (y # 1 => b * (y - 1) >= b)
              <8>1. PICK z \in Nat : y = z + 1
                <9>1. y - 1 \in Nat /\ y = (y - 1) + 1
                  BY <7>2
                <9> QED BY <9>1
              <8>2. y - 1 = z
                BY <8>1
              <8>3. b * z \in Nat /\ b * y = b * z + b
                BY <7>1, <8>1
              <8>4. ASSUME z # 0 PROVE b * z >= b
                <9>1. PICK w \in Nat : z = w + 1
                  <10>1. z - 1 \in Nat /\ z = (z - 1) + 1
                    BY <8>4
                  <10> QED BY <10>1
                <9>2. b * z = b * w + b /\ b * w \in Nat
                  BY <7>1, <9>1
                <9> QED BY <9>2
              <8> QED BY <8>1, <8>2, <8>3, <8>4
            <7> QED BY <7>2
          <6> QED BY <1>1, <1>4, <2>1, <6>1
        <5> HIDE DEF x
        <5>2. DigitsValue(big) = d + x + Base
          <6> HIDE DEF d, rest, Base
          <6> QED BY <1>1, <1>4, <5>1
        <5> HIDE DEF d, rest, Base, IntMax
        <5>3. d + x < 2
          BY <1>1, <1>4, <5>1, <5>2
        <5>4. d \in {0, 1} /\ rest = 1
          <6>1. Base >= 4 /\ d \in Nat /\ x \in Nat
            BY <1>1, <1>4, <5>1
          <6>2. d < 2 /\ x < 2
            BY <5>3, <6>1
          <6>3. rest # 1 => x >= Base
            BY <5>1
          <6>4. d \in {0, 1} /\ ~(x >= Base)
            BY <1>4, <6>1, <6>2
          <6> QED BY <6>3, <6>4
        <5>5. d # 0
          BY <4>1
        <5> QED BY <5>4, <5>5
      <4>3. last = 0 /\ e = 1
        <5>1. last = 0 \/ Base * last >= Base
          <6> HIDE DEF last, Base
          <6>1. \A b, z \in Nat : b * (z + 1) = b * z + b /\ b * z \in Nat
            BY SMT
          <6>2. ASSUME last # 0 PROVE Base * last >= Base
            <7>1. last - 1 \in Nat /\ last = (last - 1) + 1
              BY <2>3, <6>2
            <7>2. Base * last = Base * (last - 1) + Base /\ Base * (last - 1) \in Nat
              BY <1>4, <6>1, <7>1
            <7> QED BY <1>4, <7>2
          <6> QED BY <6>2
        <5>2. Base * last \in Nat /\ Base * 0 = 0
          BY <2>3, Scaled
        <5> HIDE DEF last, e, rest, Base
        <5> QED BY <1>4, <2>2, <2>3, <4>2, <5>1, <5>2
      <4> QED BY <2>4, <2>7, <4>2, <4>3
    <3>3. BigValue(big) \notin CInt
      <4> DEFINE y == DigitsValue(big) \div 2
      <4>1. y \in Int
        BY <2>5
      <4> HIDE DEF y, IntMax, IntMin
      <4> QED BY <1>4, <1>5, <1>a, <2>5, <3>2, <4>1 DEF y
    <3> QED BY <3>1, <3>3 DEF CanonicalInteger, IntValue
  <2> QED BY <2>6, <2>7
<1> QED BY <1>0, <1>6, <1>7

\* What a digit loop is given: a bigint whose sign is that of its value.
IsOperand(big) == big \in Bigint /\ (IsNegative(big) <=> BigValue(big) < 0)

\* Such a value is its magnitude under its sign, and no zero is negative.
LEMMA OperandMagnitude ==
  ASSUME NEW big, IsOperand(big)
  PROVE  /\ Magnitude(BigValue(big)) \in Nat /\ BigValue(big) \in Int
         /\ BigValue(big) = IF IsNegative(big) THEN - Magnitude(BigValue(big)) ELSE Magnitude(BigValue(big))
         /\ IsNegative(big) => Magnitude(BigValue(big)) # 0
<1>1. /\ Magnitude(BigValue(big)) \in Nat
      /\ BigValue(big) = IF IsNegative(big) THEN - Magnitude(BigValue(big)) ELSE Magnitude(BigValue(big))
  <2>1. SigDigits(big) \in Nat /\ big \in Bigint
    BY SigDigitsRight, BigintType DEF IsOperand
  <2> QED BY <2>1, TwiceMagnitude
<1>2. IsNegative(big) <=> BigValue(big) < 0
  BY DEF IsOperand
<1> QED BY <1>1, <1>2

\* MakeFakeBigint, but for the least int.
LEMMA FakeRight ==
  ASSUME NEW n \in CInt, n # IntMin
  PROVE  IsOperand(FakeBigint(n)) /\ BigValue(FakeBigint(n)) = n
<1> DEFINE m == Magnitude(n)
           d == 2 * m + (IF n < 0 THEN 1 ELSE 0)
           big == <<d>>
<1>1. /\ IntMax \in Nat /\ IntMin = -IntMax - 1 /\ Base = 2 * (IntMax + 1) /\ Base \in Nat
      /\ n \in Int /\ IntMin <= n /\ n <= IntMax
  BY BaseFacts DEF CInt
<1>2. m \in Nat /\ m <= IntMax /\ n = IF n < 0 THEN -m ELSE m
  <2> HIDE DEF IntMax, IntMin, Base
  <2> QED BY <1>1 DEF Magnitude
<1>3. d \in Digit /\ d \in Nat
  <2> HIDE DEF m, IntMax, IntMin, Base
  <2> QED BY <1>1, <1>2 DEF Digit
<1>4. big \in Seq(Digit) /\ Len(big) = 1 /\ big[1] = d /\ big \in Bigint
  <2> HIDE DEF d
  <2>1. <<d>> \in Seq(Digit) /\ Len(<<d>>) = 1 /\ <<d>>[1] = d
    BY <1>3
  <2> QED BY <2>1 DEF Bigint
<1>5. DigitsValue(big) = d
  <2>1. /\ Tail(big) \in Seq(Digit) /\ DigitsValue(big) = d + Base * DigitsValue(Tail(big))
        /\ Len(Tail(big)) = 1 - 1
    <3> HIDE DEF big
    <3> QED BY <1>4, TailValue
  <2>2. DigitsValue(Tail(big)) = 0
    <3>1. \A i \in 1..Len(Tail(big)) : Tail(big)[i] = 0
      <4> HIDE DEF big
      <4>1. Len(Tail(big)) = 0
        BY <2>1
      <4>2. \A i \in 1..0 : FALSE
        OBVIOUS
      <4> QED BY <4>1, <4>2
    <3> HIDE DEF big
    <3> QED BY <2>1, <3>1, ValueOfZeros
  <2> HIDE DEF d, big
  <2> QED BY <1>3, <2>1, <2>2, Scaled
<1>6. d \div 2 = m /\ d % 2 = IF n < 0 THEN 1 ELSE 0
  <2> HIDE DEF m
  <2> QED BY <1>1, <1>2
<1>7. IsNegative(big) <=> n < 0
  <2> HIDE DEF big, d
  <2> QED BY <1>4, <1>6 DEF IsNegative
<1>8. BigValue(big) = n
  <2> HIDE DEF big, d, m
  <2> QED BY <1>2, <1>5, <1>6, <1>7 DEF BigValue
<1>9. FakeBigint(n) = big
  BY DEF FakeBigint
<1> HIDE DEF big
<1> QED BY <1>4, <1>7, <1>8, <1>9 DEF IsOperand

\* Each integer but the least int is given as such a bigint.
LEMMA OperandRight ==
  ASSUME NEW v, CanonicalInteger(v), ~IsIntMin(v)
  PROVE  IsOperand(Digits(v)) /\ BigValue(Digits(v)) = IntValue(v)
<1>1. CASE v.kind = "fix"
  <2>1. v.n \in CInt /\ v.n # IntMin
    BY <1>1 DEF CanonicalInteger, IsIntMin
  <2> QED BY <1>1, <2>1, FakeRight DEF Digits, IntValue
<1>2. CASE v.kind = "big"
  <2>1. v.digits \in Bigint /\ BigValue(v.digits) \notin CInt
    BY <1>2 DEF CanonicalInteger
  <2> DEFINE b == v.digits
  <2>2. /\ Magnitude(BigValue(b)) \in Nat
        /\ BigValue(b) = IF IsNegative(b) THEN - Magnitude(BigValue(b)) ELSE Magnitude(BigValue(b))
    <3>1. SigDigits(b) \in Nat
      BY <2>1, SigDigitsRight, BigintType
    <3> QED BY <2>1, <3>1, TwiceMagnitude
  <2>3. 0 \in CInt
    BY BaseFacts DEF CInt
  <2>4. IsNegative(b) <=> BigValue(b) < 0
    <3> HIDE DEF b
    <3>1. BigValue(b) # 0
      BY <2>1, <2>3 DEF b
    <3> QED BY <2>2, <3>1
  <2>5. Digits(v) = b /\ IntValue(v) = BigValue(b)
    BY <1>2 DEF Digits, IntValue
  <2> QED BY <2>1, <2>4, <2>5 DEF IsOperand
<1> QED BY <1>1, <1>2 DEF CanonicalInteger

\* The answer of a sum: the exact one in its canonical form, or a small
\* negative one that is lost.
Answers(given, exact) ==
    \/ CanonicalInteger(given) /\ IntValue(given) = exact
    \/ /\ given = [kind |-> "trouble", place |-> "negative"]
       /\ exact \in (-IntMax)..(-1)

\* What the digits of a magnitude, a sign and collapse_small_bigints make.
LEMMA SumCollapsed ==
  ASSUME NEW out \in Seq(Digit), NEW v \in Nat, DigitsValue(out) = 2 * v, Len(out) >= 1,
         NEW negative \in BOOLEAN, negative => v # 0, "negative" \notin Reaches
  PROVE  Answers(Collapse(Signed(negative, out)), IF negative THEN -v ELSE v)
<1> DEFINE big == Signed(negative, out)
<1>1. big \in Bigint /\ (IsNegative(big) <=> negative) /\ BigValue(big) = IF negative THEN -v ELSE v
  BY SignedRight
<1> HIDE DEF big
<1>2. IsNegative(big) => BigValue(big) # 0
  BY <1>1
<1>3. \/ CanonicalInteger(Collapse(big)) /\ IntValue(Collapse(big)) = BigValue(big)
      \/ /\ Collapse(big) = [kind |-> "trouble", place |-> "negative"]
         /\ BigValue(big) \in (-IntMax)..(-1)
  BY <1>1, <1>2, CollapseRight
<1> QED BY <1>1, <1>3 DEF Answers, big

\* The digits of a value above 0 are not none.
LEMMA SomeDigits ==
  ASSUME NEW out \in Seq(Digit), NEW v \in Nat, DigitsValue(out) = 2 * v, v # 0
  PROVE  Len(out) >= 1
<1>1. Len(out) \in Nat
  OBVIOUS
<1>2. ~ \A i \in 1..Len(out) : out[i] = 0
  <2>1. DigitsValue(out) # 0
    OBVIOUS
  <2> QED BY <2>1, ValueOfZeros
<1> QED BY <1>1, <1>2

Exactly(op, m, n) == IF op = "add" THEN m + n ELSE m - n

\* Bigint_Add and Bigint_Subtract.
LEMMA BigSumRight ==
  ASSUME NEW l, NEW r, IsOperand(l), IsOperand(r), NEW op \in {"add", "subtract"},
         "negative" \notin Reaches, "carry" \notin Reaches
  PROVE  \/ Answers(BigSum(op, l, r), Exactly(op, BigValue(l), BigValue(r)))
         \/ BigSum(op, l, r) = [kind |-> "trouble", place |-> "carry"] /\ UnsignedAdd(l, r).lost
<1> DEFINE u == Magnitude(BigValue(l))
           v == Magnitude(BigValue(r))
<1>1. /\ l \in Bigint /\ u \in Nat /\ BigValue(l) = (IF IsNegative(l) THEN -u ELSE u)
      /\ IsNegative(l) => u # 0
  BY OperandMagnitude DEF IsOperand
<1>2. /\ r \in Bigint /\ v \in Nat /\ BigValue(r) = (IF IsNegative(r) THEN -v ELSE v)
      /\ IsNegative(r) => v # 0
  BY OperandMagnitude DEF IsOperand
<1>3. IsNegative(l) \in BOOLEAN /\ IsNegative(r) \in BOOLEAN
  BY DEF IsNegative
<1>4. CASE (op = "add") = (IsNegative(l) = IsNegative(r))
  <2> DEFINE sum == UnsignedAdd(l, r)
  <2>1. BigSum(op, l, r) = Unless(sum.lost, "carry", Collapse(Signed(IsNegative(l), sum.out)))
    BY <1>4 DEF BigSum, MagnitudesAdded, Carried
  <2>2. CASE sum.lost
    BY <2>1, <2>2 DEF Unless, At
  <2>3. CASE ~sum.lost
    <3>1. sum.out \in Seq(Digit) /\ Len(sum.out) = 1 + Width(l, r) /\ DigitsValue(sum.out) = 2 * (u + v)
      <4> HIDE DEF u, v
      <4> QED BY <1>1, <1>2, <2>3, AddsMagnitudes DEF u, v
    <3>2. Width(l, r) \in Nat
      BY <1>1, <1>2, WidthRight
    <3>3. Len(sum.out) >= 1 /\ u + v \in Nat /\ (IsNegative(l) => u + v # 0)
      <4> HIDE DEF u, v, sum
      <4> QED BY <1>1, <1>2, <3>1, <3>2
    <3>4. Answers(Collapse(Signed(IsNegative(l), sum.out)), IF IsNegative(l) THEN -(u + v) ELSE u + v)
      <4> HIDE DEF u, v, sum
      <4> QED BY <1>3, <3>1, <3>3, SumCollapsed
    <3>5. Exactly(op, BigValue(l), BigValue(r)) = IF IsNegative(l) THEN -(u + v) ELSE u + v
      <4> HIDE DEF u, v
      <4>1. CASE op = "add"
        <5>1. IsNegative(l) <=> IsNegative(r)
          BY <1>3, <1>4, <4>1
        <5> QED BY <1>1, <1>2, <4>1, <5>1 DEF Exactly
      <4>2. CASE op = "subtract"
        <5>1. IsNegative(l) <=> ~IsNegative(r)
          BY <1>3, <1>4, <4>2
        <5> QED BY <1>1, <1>2, <4>2, <5>1 DEF Exactly
      <4> QED BY <4>1, <4>2
    <3>6. BigSum(op, l, r) = Collapse(Signed(IsNegative(l), sum.out))
      BY <2>1, <2>3 DEF Unless
    <3> QED BY <3>4, <3>5, <3>6
  <2> QED BY <2>2, <2>3
<1>5. CASE ~((op = "add") = (IsNegative(l) = IsNegative(r)))
  <2> DEFINE order == UnsignedCmp(l, r)
             crossed == IsNegative(r) = (op = "add")
  <2>1. BigSum(op, l, r) = MagnitudesSubtracted(l, r, crossed)
    BY <1>5 DEF BigSum
  <2>2. \/ u < v /\ order = -1
        \/ u = v /\ order = 0
        \/ u > v /\ order = 1
    BY <1>1, <1>2, MagnitudesOrdered
  <2>3. Exactly(op, BigValue(l), BigValue(r)) = IF IsNegative(l) THEN v - u ELSE u - v
    <3> HIDE DEF u, v
    <3>1. CASE op = "add"
      <4>1. IsNegative(l) <=> ~IsNegative(r)
        BY <1>3, <1>5, <3>1
      <4> QED BY <1>1, <1>2, <3>1, <4>1 DEF Exactly
    <3>2. CASE op = "subtract"
      <4>1. IsNegative(l) <=> IsNegative(r)
        BY <1>3, <1>5, <3>2
      <4> QED BY <1>1, <1>2, <3>2, <4>1 DEF Exactly
    <3> QED BY <3>1, <3>2
  <2>4. crossed <=> ~IsNegative(l)
    BY <1>3, <1>5
  <2>5. CASE u = v
    <3>1. order = 0
      <4> HIDE DEF u, v, order
      <4> QED BY <1>1, <1>2, <2>2, <2>5
    <3>2. BigSum(op, l, r) = [kind |-> "fix", n |-> 0]
      BY <2>1, <3>1 DEF MagnitudesSubtracted, Fix
    <3>3. 0 \in CInt
      BY BaseFacts DEF CInt
    <3>4. Exactly(op, BigValue(l), BigValue(r)) = 0
      <4> HIDE DEF u, v
      <4> QED BY <1>1, <1>2, <2>3, <2>5
    <3> QED BY <3>2, <3>3, <3>4 DEF Answers, CanonicalInteger, IntValue
  <2>6. CASE u < v
    <3> DEFINE out == UnsignedSub(r, l)
    <3>1. order = -1
      <4> HIDE DEF u, v, order
      <4> QED BY <1>1, <1>2, <2>2, <2>6
    <3>2. BigSum(op, l, r) = Collapse(Signed(crossed, out))
      <4> HIDE DEF crossed
      <4> QED BY <2>1, <3>1 DEF MagnitudesSubtracted
    <3>3. UnsignedCmp(r, l) >= 0
      <4>1. \/ v < u /\ UnsignedCmp(r, l) = -1
            \/ v = u /\ UnsignedCmp(r, l) = 0
            \/ v > u /\ UnsignedCmp(r, l) = 1
        BY <1>1, <1>2, MagnitudesOrdered
      <4> HIDE DEF u, v
      <4> QED BY <1>1, <1>2, <2>6, <4>1
    <3>4. out \in Seq(Digit) /\ DigitsValue(out) = 2 * (v - u)
      BY <1>1, <1>2, <3>3, SubtractsMagnitudes
    <3>5. v - u \in Nat /\ v - u # 0
      <4> HIDE DEF u, v
      <4> QED BY <1>1, <1>2, <2>6
    <3>6. crossed \in BOOLEAN
      OBVIOUS
    <3>7. Len(out) >= 1
      <4> HIDE DEF u, v, out
      <4> QED BY <3>4, <3>5, SomeDigits
    <3>8. Answers(Collapse(Signed(crossed, out)), IF crossed THEN -(v - u) ELSE v - u)
      <4> HIDE DEF u, v, out, crossed
      <4> QED BY <3>4, <3>5, <3>6, <3>7, SumCollapsed
    <3>9. (IF crossed THEN -(v - u) ELSE v - u) = IF IsNegative(l) THEN v - u ELSE u - v
      <4> HIDE DEF u, v, crossed
      <4> QED BY <1>1, <1>2, <2>4
    <3> HIDE DEF u, v, out, crossed
    <3> QED BY <2>3, <3>2, <3>8, <3>9
  <2>7. CASE u > v
    <3> DEFINE out == UnsignedSub(l, r)
    <3>1. order = 1
      <4> HIDE DEF u, v, order
      <4> QED BY <1>1, <1>2, <2>2, <2>7
    <3>2. BigSum(op, l, r) = Collapse(Signed(IsNegative(l), out))
      <4> HIDE DEF crossed
      <4> QED BY <2>1, <3>1 DEF MagnitudesSubtracted
    <3>3. UnsignedCmp(l, r) >= 0
      BY <3>1
    <3>4. out \in Seq(Digit) /\ DigitsValue(out) = 2 * (u - v)
      BY <1>1, <1>2, <3>3, SubtractsMagnitudes
    <3>5. u - v \in Nat /\ u - v # 0
      <4> HIDE DEF u, v
      <4> QED BY <1>1, <1>2, <2>7
    <3>7. Len(out) >= 1
      <4> HIDE DEF u, v, out
      <4> QED BY <3>4, <3>5, SomeDigits
    <3>8. Answers(Collapse(Signed(IsNegative(l), out)), IF IsNegative(l) THEN -(u - v) ELSE u - v)
      <4> HIDE DEF u, v, out
      <4> QED BY <1>3, <3>4, <3>5, <3>7, SumCollapsed
    <3>9. (IF IsNegative(l) THEN -(u - v) ELSE u - v) = IF IsNegative(l) THEN v - u ELSE u - v
      <4> HIDE DEF u, v
      <4> QED BY <1>1, <1>2
    <3> HIDE DEF u, v, out, crossed
    <3> QED BY <2>3, <3>2, <3>8, <3>9
  <2>8. u = v \/ u < v \/ u > v
    <3> HIDE DEF u, v
    <3> QED BY <1>1, <1>2
  <2> QED BY <2>5, <2>6, <2>7, <2>8
<1> QED BY <1>4, <1>5

\* Sums and differences of integers of every size, for every width of an int:
\* the exact answer in canonical form, whichever way it is computed; or the
\* program is at one of three places, each of which can only be come to as
\* said here: the least int went by way of bigints, a negative answer with a
\* bigint among the operands shrank to an int, or a carry was lost.
THEOREM IntegersAdd ==
  ASSUME NEW l, NEW r, CanonicalInteger(l), CanonicalInteger(r), NEW op \in {"add", "subtract"},
         Reaches \cap {"int_min", "negative", "carry"} = {}
  PROVE  LET given == IntegerSum(op, l, r)
             exact == IF op = "add" THEN IntValue(l) + IntValue(r) ELSE IntValue(l) - IntValue(r)
             Stops(place) == given = [kind |-> "trouble", place |-> place]
         IN  \/ CanonicalInteger(given) /\ IntValue(given) = exact
             \/ Stops("int_min") /\ IntMin \in {IntValue(l), IntValue(r)}
             \/ Stops("negative") /\ exact \in (-IntMax)..(-1) /\ "big" \in {l.kind, r.kind}
             \/ Stops("carry") /\ \E x, y \in {l, r} : UnsignedAdd(Digits(x), Digits(y)).lost
<1> DEFINE given == IntegerSum(op, l, r)
           exact == Exactly(op, IntValue(l), IntValue(r))
           Stops(place) == given = [kind |-> "trouble", place |-> place]
           first == IF op = "add" /\ l.kind = "fix" /\ r.kind = "big" THEN r ELSE l
           second == IF op = "add" /\ l.kind = "fix" /\ r.kind = "big" THEN l ELSE r
<1>1. "int_min" \notin Reaches /\ "negative" \notin Reaches /\ "carry" \notin Reaches
  OBVIOUS
<1>2. exact = IF op = "add" THEN IntValue(l) + IntValue(r) ELSE IntValue(l) - IntValue(r)
  BY DEF Exactly
<1>3. l.kind \in {"fix", "big"} /\ r.kind \in {"fix", "big"}
  BY DEF CanonicalInteger
<1>4. CASE l.kind = "fix" /\ r.kind = "fix" /\ ~SumOverflows(op, l.n, r.n)
  <2>1. l.n \in CInt /\ r.n \in CInt /\ IntValue(l) = l.n /\ IntValue(r) = r.n
    BY <1>4 DEF CanonicalInteger, IntValue
  <2>2. exact \in CInt
    BY <1>2, <1>4, <2>1, AddTest, SubtractTest DEF SumOverflows
  <2>3. given = Fix(Wrap(exact))
    BY <1>2, <1>4, <2>1 DEF IntegerSum
  <2>4. given = [kind |-> "fix", n |-> exact]
    BY <2>2, <2>3, WrapKeeps DEF Fix
  <2> HIDE DEF given, exact
  <2>5. CanonicalInteger(given) /\ IntValue(given) = exact
    BY <2>2, <2>4 DEF CanonicalInteger, IntValue
  <2> QED BY <1>2, <2>5 DEF given
<1>5. CASE ~(l.kind = "fix" /\ r.kind = "fix" /\ ~SumOverflows(op, l.n, r.n))
  <2>1. given = Unless(IsIntMin(l) \/ IsIntMin(r), "int_min", BigSum(op, Digits(first), Digits(second)))
    BY <1>3, <1>5 DEF IntegerSum
  <2>2. CASE IsIntMin(l) \/ IsIntMin(r)
    <3>1. Stops("int_min")
      BY <1>1, <2>1, <2>2 DEF Unless, At
    <3>2. IntMin \in {IntValue(l), IntValue(r)}
      BY <2>2 DEF IsIntMin, IntValue
    <3> QED BY <3>1, <3>2
  <2>3. CASE ~(IsIntMin(l) \/ IsIntMin(r))
    <3>1. given = BigSum(op, Digits(first), Digits(second))
      BY <2>1, <2>3 DEF Unless
    <3>2. /\ IsOperand(Digits(l)) /\ BigValue(Digits(l)) = IntValue(l)
          /\ IsOperand(Digits(r)) /\ BigValue(Digits(r)) = IntValue(r)
      BY <2>3, OperandRight
    <3>3. /\ IsOperand(Digits(first)) /\ BigValue(Digits(first)) = IntValue(first)
          /\ IsOperand(Digits(second)) /\ BigValue(Digits(second)) = IntValue(second)
          /\ first \in {l, r} /\ second \in {l, r}
      BY <3>2
    <3>4. IntValue(l) \in Int /\ IntValue(r) \in Int
      BY <3>2, OperandMagnitude
    <3>5. exact = Exactly(op, IntValue(first), IntValue(second))
      <4>1. CASE op = "add" /\ l.kind = "fix" /\ r.kind = "big"
        <5>1. IntValue(l) + IntValue(r) = IntValue(r) + IntValue(l)
          BY <3>4
        <5> QED BY <4>1, <5>1 DEF Exactly
      <4>2. CASE ~(op = "add" /\ l.kind = "fix" /\ r.kind = "big")
        BY <4>2
      <4> QED BY <4>1, <4>2
    <3> HIDE DEF first, second
    <3>6. \/ Answers(BigSum(op, Digits(first), Digits(second)),
                     Exactly(op, BigValue(Digits(first)), BigValue(Digits(second))))
          \/ /\ BigSum(op, Digits(first), Digits(second)) = [kind |-> "trouble", place |-> "carry"]
             /\ UnsignedAdd(Digits(first), Digits(second)).lost
      BY <1>1, <3>3, BigSumRight
    <3> HIDE DEF exact, given
    <3>7. \/ Answers(given, exact)
          \/ Stops("carry") /\ UnsignedAdd(Digits(first), Digits(second)).lost
      BY <3>1, <3>3, <3>5, <3>6
    <3>8. \/ CanonicalInteger(given) /\ IntValue(given) = exact
          \/ Stops("negative") /\ exact \in (-IntMax)..(-1)
          \/ Stops("carry") /\ \E x, y \in {l, r} : UnsignedAdd(Digits(x), Digits(y)).lost
      BY <3>3, <3>7 DEF Answers
    <3>9. "big" \notin {l.kind, r.kind} => exact \notin (-IntMax)..(-1)
      <4> SUFFICES ASSUME l.kind = "fix", r.kind = "fix" PROVE exact \notin (-IntMax)..(-1)
        BY <1>3
      <4>1. l.n \in CInt /\ r.n \in CInt /\ IntValue(l) = l.n /\ IntValue(r) = r.n
        BY DEF CanonicalInteger, IntValue
      <4>2. exact \notin CInt
        BY <1>2, <1>5, <4>1, AddTest, SubtractTest DEF SumOverflows
      <4>3. \A i \in (-IntMax)..(-1) : i \in CInt
        BY BaseFacts DEF CInt
      <4> QED BY <4>2, <4>3
    <3> QED BY <1>2, <3>8, <3>9 DEF given
  <2> QED BY <2>2, <2>3
<1> QED BY <1>4, <1>5

\* The difference of two ints of the range, back in the range, keeps its sign
\* only if it never left it.
LEMMA DifferenceWrapped ==
  ASSUME NEW m \in CInt, NEW n \in CInt
  PROVE  RelationFromInt(Wrap(m - n)) = RelationFromInt(m - n) <=> m - n \in CInt
<1> DEFINE x == m - n
<1>1. /\ IntMax \in Nat /\ IntMin = -IntMax - 1 /\ Base = 2 * (IntMax + 1) /\ Base \in Nat
      /\ m \in IntMin..IntMax /\ n \in IntMin..IntMax /\ CInt = IntMin..IntMax
  BY BaseFacts DEF CInt
<1>2. x \in Int /\ x < Base /\ -Base < x
  <2> HIDE DEF IntMax, IntMin, Base
  <2> QED BY <1>1
<1>3. CASE x \in CInt
  BY <1>3, WrapKeeps
<1>4. \A b, y \in Int : b > 0 /\ b <= y /\ y < 2 * b => y % b = y - b
  <2>1. ASSUME NEW b \in Int, NEW y \in Int, b > 0, b <= y, y < 2 * b PROVE y % b = y - b
    <3>1. y = b * 1 + (y - b) /\ 0 <= y - b /\ y - b < b
      BY <2>1
    <3> QED BY <2>1, <3>1, SMT
  <2> QED BY <2>1
<1>5. \A b, y \in Int : b > 0 /\ -b <= y /\ y < 0 => y % b = y + b
  <2>1. ASSUME NEW b \in Int, NEW y \in Int, b > 0, -b <= y, y < 0 PROVE y % b = y + b
    <3>1. y = b * (-1) + (y + b) /\ 0 <= y + b /\ y + b < b
      BY <2>1
    <3> QED BY <2>1, <3>1, SMT
  <2> QED BY <2>1
<1> HIDE DEF x
<1>6. CASE x > IntMax
  <2> DEFINE y == x - IntMin
  <2>1. y \in Int /\ Base > 0 /\ Base <= y /\ y < 2 * Base /\ Base \in Int
    <3> HIDE DEF IntMax, IntMin, Base
    <3> QED BY <1>1, <1>2, <1>6
  <2>2. y % Base = y - Base
    <3> HIDE DEF y, Base
    <3> QED BY <1>4, <2>1
  <2>3. Wrap(x) = x - Base
    <3>1. Wrap(x) = (y % Base) + IntMin
      BY DEF Wrap
    <3> HIDE DEF IntMax, IntMin, Base
    <3> QED BY <1>1, <1>2, <2>2, <3>1
  <2> HIDE DEF IntMax, IntMin, Base
  <2>4. x - Base < 0 /\ x > 0 /\ x \notin CInt
    BY <1>1, <1>2, <1>6
  <2> QED BY <1>1, <1>2, <2>3, <2>4 DEF RelationFromInt, x
<1>7. CASE x < IntMin
  <2> DEFINE y == x - IntMin
  <2>1. y \in Int /\ Base > 0 /\ -Base <= y /\ y < 0 /\ Base \in Int
    <3> HIDE DEF IntMax, IntMin, Base
    <3> QED BY <1>1, <1>2, <1>7
  <2>2. y % Base = y + Base
    <3> HIDE DEF y, Base
    <3> QED BY <1>5, <2>1
  <2>3. Wrap(x) = x + Base
    <3>1. Wrap(x) = (y % Base) + IntMin
      BY DEF Wrap
    <3> HIDE DEF IntMax, IntMin, Base
    <3> QED BY <1>1, <1>2, <2>2, <3>1
  <2> HIDE DEF IntMax, IntMin, Base
  <2>4. x + Base > 0 /\ x < 0 /\ x \notin CInt
    BY <1>1, <1>2, <1>7
  <2> QED BY <1>1, <1>2, <2>3, <2>4 DEF RelationFromInt, x
<1>8. x \in CInt \/ x > IntMax \/ x < IntMin
  <2> HIDE DEF IntMax, IntMin, Base
  <2> QED BY <1>1, <1>2
<1> QED BY <1>3, <1>6, <1>7, <1>8 DEF x

\* A bigint is beyond every int, on the side of its sign.
LEMMA BeyondInts ==
  ASSUME NEW v, CanonicalInteger(v), v.kind = "big"
  PROVE  /\ IsOperand(v.digits) /\ BigValue(v.digits) = IntValue(v) /\ IntValue(v) \in Int
         /\ \A i \in CInt : IF IsNegative(v.digits) THEN IntValue(v) < i ELSE i < IntValue(v)
<1>1. IsOperand(v.digits) /\ BigValue(v.digits) = IntValue(v)
  <2>1. ~IsIntMin(v) /\ Digits(v) = v.digits
    BY DEF IsIntMin, Digits
  <2> QED BY <2>1, OperandRight
<1>2. IntValue(v) \in Int /\ (IsNegative(v.digits) <=> IntValue(v) < 0)
  BY <1>1, OperandMagnitude DEF IsOperand
<1>3. IntValue(v) \notin CInt
  BY <1>1 DEF CanonicalInteger
<1>4. IntMax \in Nat /\ IntMin \in Int /\ IntMin = -IntMax - 1 /\ CInt = IntMin..IntMax
  BY BaseFacts DEF CInt
<1>5. ASSUME NEW i \in CInt PROVE IF IsNegative(v.digits) THEN IntValue(v) < i ELSE i < IntValue(v)
  <2> HIDE DEF IntMin, IntMax
  <2> QED BY <1>2, <1>3, <1>4, <1>5
<1> QED BY <1>1, <1>2, <1>5

\* What Bigint_Compare_to answers.
LEMMA BigOrderRight ==
  ASSUME NEW l, NEW r, CanonicalInteger(l), CanonicalInteger(r), l.kind = "big"
  PROVE  BigOrder(l, r) = RelationFromInt(IntValue(l) - IntValue(r))
<1>1. /\ IsOperand(l.digits) /\ BigValue(l.digits) = IntValue(l) /\ IntValue(l) \in Int
      /\ \A i \in CInt : IF IsNegative(l.digits) THEN IntValue(l) < i ELSE i < IntValue(l)
  BY BeyondInts
<1>2. CASE r.kind = "fix"
  <2>1. r.n \in CInt /\ IntValue(r) = r.n /\ r.n \in Int
    BY <1>2, BaseFacts DEF CanonicalInteger, IntValue, CInt
  <2>2. BigOrder(l, r) = IF IsNegative(l.digits) THEN -1 ELSE 1
    BY <1>2 DEF BigOrder
  <2>3. IF IsNegative(l.digits) THEN IntValue(l) < r.n ELSE r.n < IntValue(l)
    BY <1>1, <2>1
  <2> QED BY <1>1, <2>1, <2>2, <2>3 DEF RelationFromInt
<1>3. CASE r.kind = "big"
  <2> DEFINE u == Magnitude(BigValue(l.digits))
             v == Magnitude(BigValue(r.digits))
             order == UnsignedCmp(l.digits, r.digits)
  <2>1. /\ IsOperand(r.digits) /\ BigValue(r.digits) = IntValue(r) /\ IntValue(r) \in Int
    BY <1>3, BeyondInts
  <2>2. /\ u \in Nat /\ IntValue(l) = (IF IsNegative(l.digits) THEN -u ELSE u)
        /\ IsNegative(l.digits) => u # 0
    BY <1>1, OperandMagnitude
  <2>3. /\ v \in Nat /\ IntValue(r) = (IF IsNegative(r.digits) THEN -v ELSE v)
        /\ IsNegative(r.digits) => v # 0
    BY <2>1, OperandMagnitude
  <2>4. \/ u < v /\ order = -1
        \/ u = v /\ order = 0
        \/ u > v /\ order = 1
    BY <1>1, <2>1, MagnitudesOrdered DEF IsOperand
  <2>5. BigOrder(l, r) =
          IF IsNegative(l.digits) # IsNegative(r.digits) THEN IF IsNegative(l.digits) THEN -1 ELSE 1
          ELSE order * (IF IsNegative(l.digits) THEN -1 ELSE 1)
    BY <1>3 DEF BigOrder
  <2>6. IsNegative(l.digits) \in BOOLEAN /\ IsNegative(r.digits) \in BOOLEAN
    BY DEF IsNegative
  <2> HIDE DEF u, v, order
  <2>7. CASE IsNegative(l.digits) # IsNegative(r.digits)
    <3>1. IF IsNegative(l.digits) THEN IntValue(l) < IntValue(r) ELSE IntValue(r) < IntValue(l)
      <4>1. CASE IsNegative(l.digits)
        <5>1. ~IsNegative(r.digits)
          BY <2>6, <2>7, <4>1
        <5> QED BY <2>2, <2>3, <4>1, <5>1
      <4>2. CASE ~IsNegative(l.digits)
        <5>1. IsNegative(r.digits)
          BY <2>6, <2>7, <4>2
        <5> QED BY <2>2, <2>3, <4>2, <5>1
      <4> QED BY <4>1, <4>2
    <3> QED BY <1>1, <2>1, <2>5, <2>7, <3>1 DEF RelationFromInt
  <2>8. CASE IsNegative(l.digits) = IsNegative(r.digits)
    <3>1. CASE IsNegative(l.digits)
      <4>1. IntValue(l) - IntValue(r) = v - u /\ BigOrder(l, r) = order * (-1)
        BY <2>2, <2>3, <2>5, <2>8, <3>1
      <4> QED BY <2>2, <2>3, <2>4, <4>1 DEF RelationFromInt
    <3>2. CASE ~IsNegative(l.digits)
      <4>1. IntValue(l) - IntValue(r) = u - v /\ BigOrder(l, r) = order * 1
        BY <2>2, <2>3, <2>5, <2>8, <3>2
      <4> QED BY <2>2, <2>3, <2>4, <4>1 DEF RelationFromInt
    <3> QED BY <3>1, <3>2
  <2> QED BY <2>7, <2>8
<1> QED BY <1>2, <1>3 DEF CanonicalInteger

\* compare_to of two integers is the order of their values, whichever of them
\* are ints, for every width; but for two ints whose difference is not an int:
\* there it is always wrong.
THEOREM IntegersOrdered ==
  ASSUME NEW l, NEW r, CanonicalInteger(l), CanonicalInteger(r)
  PROVE  LET difference == IntValue(l) - IntValue(r)
         IN  IntegerOrder(l, r) = RelationFromInt(difference)
             <=> ~(l.kind = "fix" /\ r.kind = "fix" /\ difference \notin CInt)
<1>1. l.kind \in {"fix", "big"} /\ r.kind \in {"fix", "big"}
  BY DEF CanonicalInteger
<1>2. CASE l.kind = "fix" /\ r.kind = "fix"
  <2>1. l.n \in CInt /\ r.n \in CInt /\ IntValue(l) = l.n /\ IntValue(r) = r.n
    BY <1>2 DEF CanonicalInteger, IntValue
  <2>2. IntegerOrder(l, r) = RelationFromInt(Wrap(l.n - r.n))
    BY <1>2 DEF IntegerOrder, FixOrder
  <2> QED BY <1>2, <2>1, <2>2, DifferenceWrapped
<1>3. CASE l.kind = "fix" /\ r.kind = "big"
  <2>1. IntegerOrder(l, r) = InvertRelation(1) * BigOrder(r, l)
    BY <1>3 DEF IntegerOrder
  <2>2. BigOrder(r, l) = RelationFromInt(IntValue(r) - IntValue(l))
    BY <1>3, BigOrderRight
  <2>3. IntValue(l) \in Int /\ IntValue(r) \in Int
    BY <1>3, BeyondInts, BaseFacts DEF CanonicalInteger, IntValue, CInt
  <2>4. IntegerOrder(l, r) = RelationFromInt(IntValue(l) - IntValue(r))
    BY <2>1, <2>2, <2>3 DEF InvertRelation, RelationFromInt
  <2> QED BY <1>3, <2>4
<1>4. CASE l.kind = "big"
  <2>1. IntegerOrder(l, r) = 1 * BigOrder(l, r)
    BY <1>4 DEF IntegerOrder
  <2>2. BigOrder(l, r) = RelationFromInt(IntValue(l) - IntValue(r))
    BY <1>4, BigOrderRight
  <2>3. RelationFromInt(IntValue(l) - IntValue(r)) \in Int
    BY DEF RelationFromInt
  <2> QED BY <1>4, <2>1, <2>2, <2>3
<1> QED BY <1>1, <1>2, <1>3, <1>4

-----------------------------------------------------------------------------
(* Maps.                                                                    *)
USE DEF map_blank

-----------------------------------------------------------------------------
(* Trees of every depth, and recursion on them.                             *)
DepthsTo(f, n) ==
    \A k \in 0..n : f[k] = {map_blank} \cup (IF k = 0 THEN {} ELSE NodesOn(f[k - 1]))

LEMMA DepthsExist ==
  ASSUME NEW n \in Nat PROVE \E f : DepthsTo(f, n)
<1> DEFINE Has == {m \in Nat : \E f : DepthsTo(f, m)}
<1>1. 0 \in Has
  <2> DEFINE f == [k \in 0..0 |-> {map_blank}]
  <2>1. DepthsTo(f, 0)
    BY DEF DepthsTo
  <2> QED BY <2>1
<1>2. ASSUME NEW m \in Has PROVE m + 1 \in Has
  <2>1. PICK f : DepthsTo(f, m)
    OBVIOUS
  <2> DEFINE g == [k \in 0..(m + 1) |-> IF k <= m THEN f[k] ELSE {map_blank} \cup NodesOn(f[m])]
  <2>2. m \in Nat /\ m + 1 \in Nat
    OBVIOUS
  <2>3. /\ \A k \in 0..m : g[k] = f[k]
        /\ g[m + 1] = {map_blank} \cup NodesOn(f[m])
    BY <2>2
  <2> HIDE DEF g
  <2>4. ASSUME NEW k \in 0..(m + 1)
        PROVE  g[k] = {map_blank} \cup (IF k = 0 THEN {} ELSE NodesOn(g[k - 1]))
    <3>1. CASE k = m + 1
      <4>1. k # 0 /\ k - 1 = m /\ g[m] = f[m]
        BY <2>2, <2>3, <3>1
      <4> QED BY <2>3, <3>1, <4>1
    <3>2. CASE k \in 0..m
      <4>1. f[k] = {map_blank} \cup (IF k = 0 THEN {} ELSE NodesOn(f[k - 1]))
        BY <2>1, <3>2 DEF DepthsTo
      <4>2. k # 0 => g[k - 1] = f[k - 1]
        BY <2>2, <2>3, <3>2
      <4>3. g[k] = f[k]
        BY <2>3, <3>2
      <4> QED BY <4>1, <4>2, <4>3
    <3> QED BY <2>2, <3>1, <3>2
  <2>5. DepthsTo(g, m + 1)
    BY <2>4 DEF DepthsTo
  <2> QED BY <2>2, <2>5
<1> HIDE DEF Has
<1>3. Has = Nat
  BY <1>1, <1>2, Induction DEF Has
<1> QED BY <1>3 DEF Has

LEMMA DepthsAgree ==
  ASSUME NEW m \in Nat, NEW n \in Nat, NEW f, NEW g, DepthsTo(f, m), DepthsTo(g, n), m <= n
  PROVE  f[m] = g[m]
<1> DEFINE Same == {k \in Nat : k <= m => f[k] = g[k]}
<1>1. 0 \in Same
  <2>1. 0 \in 0..m /\ 0 \in 0..n
    OBVIOUS
  <2>2. f[0] = {map_blank} \cup {} /\ g[0] = {map_blank} \cup {}
    BY <2>1 DEF DepthsTo
  <2> QED BY <2>2
<1>2. ASSUME NEW k \in Same PROVE k + 1 \in Same
  <2> SUFFICES ASSUME k + 1 <= m PROVE f[k + 1] = g[k + 1]
    OBVIOUS
  <2>1. k + 1 \in 0..m /\ k + 1 \in 0..n /\ k + 1 # 0 /\ (k + 1) - 1 = k /\ k <= m
    OBVIOUS
  <2>2. f[k + 1] = {map_blank} \cup NodesOn(f[k]) /\ g[k + 1] = {map_blank} \cup NodesOn(g[k])
    BY <2>1 DEF DepthsTo
  <2> QED BY <2>1, <2>2
<1> HIDE DEF Same
<1>3. Same = Nat
  BY <1>1, <1>2, Induction DEF Same
<1> QED BY <1>3 DEF Same

LEMMA TreesUnfold ==
  \A d \in Nat : TreesTo[d] = {map_blank} \cup (IF d = 0 THEN {} ELSE NodesOn(TreesTo[d - 1]))
<1> DEFINE Unfolded(f) ==
             f = [d \in Nat |-> {map_blank} \cup (IF d = 0 THEN {} ELSE NodesOn(f[d - 1]))]
           depths(d) == CHOOSE f : DepthsTo(f, d)
           f == [d \in Nat |-> depths(d)[d]]
<1>1. ASSUME NEW d \in Nat PROVE DepthsTo(depths(d), d)
  BY DepthsExist
<1>2. Unfolded(f)
  <2>1. ASSUME NEW d \in Nat
        PROVE  f[d] = {map_blank} \cup (IF d = 0 THEN {} ELSE NodesOn(f[d - 1]))
    <3>1. f[d] = depths(d)[d] /\ (d # 0 => d - 1 \in Nat /\ f[d - 1] = depths(d - 1)[d - 1])
      OBVIOUS
    <3> HIDE DEF f, depths
    <3>2. depths(d)[d] = {map_blank} \cup (IF d = 0 THEN {} ELSE NodesOn(depths(d)[d - 1]))
      BY <1>1 DEF DepthsTo
    <3>3. ASSUME d # 0 PROVE depths(d)[d - 1] = depths(d - 1)[d - 1]
      <4>1. d - 1 \in Nat /\ d - 1 <= d
        BY <3>3
      <4> QED BY <1>1, <4>1, DepthsAgree
    <3> QED BY <3>1, <3>2, <3>3
  <2>2. f = [d \in Nat |-> f[d]]
    OBVIOUS
  <2> HIDE DEF f
  <2>3. [d \in Nat |-> f[d]]
          = [d \in Nat |-> {map_blank} \cup (IF d = 0 THEN {} ELSE NodesOn(f[d - 1]))]
    BY <2>1
  <2> QED BY <2>2, <2>3
<1> DEFINE found == CHOOSE g : Unfolded(g)
<1>3. Unfolded(found)
  <2> HIDE DEF Unfolded
  <2> QED BY <1>2
<1>4. TreesTo = found
  BY DEF TreesTo
<1> HIDE DEF found
<1> QED BY <1>3, <1>4

LEMMA DepthsGrow == \A d \in Nat : TreesTo[d] \subseteq TreesTo[d + 1]
<1> DEFINE Grows == {d \in Nat : TreesTo[d] \subseteq TreesTo[d + 1]}
<1>0. \A d \in Nat : TreesTo[d + 1] = {map_blank} \cup NodesOn(TreesTo[d])
  <2>1. \A d \in Nat : d + 1 \in Nat /\ d + 1 # 0 /\ (d + 1) - 1 = d
    OBVIOUS
  <2> QED BY <2>1, TreesUnfold
<1>1. 0 \in Grows
  BY <1>0, TreesUnfold
<1>2. ASSUME NEW d \in Grows PROVE d + 1 \in Grows
  <2>1. d \in Nat /\ d + 1 \in Nat /\ TreesTo[d] \subseteq TreesTo[d + 1]
    OBVIOUS
  <2>2. /\ TreesTo[d + 1] = {map_blank} \cup NodesOn(TreesTo[d])
        /\ TreesTo[(d + 1) + 1] = {map_blank} \cup NodesOn(TreesTo[d + 1])
    BY <1>0, <2>1
  <2>3. NodesOn(TreesTo[d]) \subseteq NodesOn(TreesTo[d + 1])
    BY <2>1 DEF NodesOn
  <2> QED BY <2>1, <2>2, <2>3
<1> HIDE DEF Grows
<1>3. Grows = Nat
  BY <1>1, <1>2, Induction DEF Grows
<1> QED BY <1>3 DEF Grows

LEMMA DepthsInside ==
  ASSUME NEW d \in Nat, NEW e \in Nat, d <= e PROVE TreesTo[d] \subseteq TreesTo[e]
<1> DEFINE Inside == {n \in Nat : TreesTo[d] \subseteq TreesTo[d + n]}
<1>1. 0 \in Inside
  OBVIOUS
<1>2. ASSUME NEW n \in Inside PROVE n + 1 \in Inside
  <2>1. TreesTo[d + n] \subseteq TreesTo[(d + n) + 1] /\ d + (n + 1) = (d + n) + 1
    BY DepthsGrow
  <2> QED BY <2>1
<1> HIDE DEF Inside
<1>3. Inside = Nat
  BY <1>1, <1>2, Induction DEF Inside
<1>4. e - d \in Nat /\ d + (e - d) = e
  OBVIOUS
<1> QED BY <1>3, <1>4 DEF Inside

AllTrees == UNION {TreesTo[d] : d \in Nat}

LEMMA BlankTree == \A d \in Nat : map_blank \in TreesTo[d] /\ map_blank \in AllTrees
BY TreesUnfold DEF AllTrees

LEMMA BranchesBelow ==
  ASSUME NEW d \in Nat, NEW n \in TreesTo[d], n # map_blank
  PROVE  d - 1 \in Nat /\ n \in NodesOn(TreesTo[d - 1])
BY TreesUnfold

(* The depth of a tree.                                                     *)
IsDepth(d, n) == n \in TreesTo[d] /\ \A e \in Nat : n \in TreesTo[e] => d <= e
Depth(n) == CHOOSE d \in Nat : IsDepth(d, n)

LEMMA DepthExists ==
  ASSUME NEW d \in Nat, NEW n \in TreesTo[d]
  PROVE  Depth(n) \in Nat /\ IsDepth(Depth(n), n) /\ Depth(n) <= d
<1>1. \E e \in Nat : IsDepth(e, n)
  <2> DEFINE S == {e \in Nat : n \in TreesTo[e]}
  <2>1. S \in SUBSET Nat /\ S # {}
    OBVIOUS
  <2>2. PICK e \in S : \A r \in S : e <= r
    <3> HIDE DEF S
    <3> QED BY <2>1, LeastElement
  <2> QED BY <2>2 DEF IsDepth
<1>2. Depth(n) \in Nat /\ IsDepth(Depth(n), n)
  BY <1>1 DEF Depth
<1> QED BY <1>2 DEF IsDepth

LEMMA AllTreesNodes ==
  /\ map_blank \in AllTrees
  /\ AllTrees = {map_blank} \cup NodesOn(AllTrees)
  /\ \A n \in AllTrees : n # map_blank =>
        /\ n \in NodesOn(AllTrees)
        /\ Depth(n.left) < Depth(n) /\ Depth(n.right) < Depth(n)
  /\ \A n \in AllTrees : Depth(n) \in Nat /\ n \in TreesTo[Depth(n)]
<1>1. \A n \in AllTrees : Depth(n) \in Nat /\ n \in TreesTo[Depth(n)]
  BY DepthExists DEF AllTrees, IsDepth
<1>2. ASSUME NEW n \in AllTrees, n # map_blank
      PROVE  n \in NodesOn(AllTrees) /\ Depth(n.left) < Depth(n) /\ Depth(n.right) < Depth(n)
  <2>1. Depth(n) - 1 \in Nat /\ n \in NodesOn(TreesTo[Depth(n) - 1])
    BY <1>1, <1>2, BranchesBelow
  <2>2. n.left \in TreesTo[Depth(n) - 1] /\ n.right \in TreesTo[Depth(n) - 1]
    BY <2>1 DEF NodesOn
  <2>3. Depth(n.left) <= Depth(n) - 1 /\ Depth(n.right) <= Depth(n) - 1
    BY <2>1, <2>2, DepthExists
  <2>4. TreesTo[Depth(n) - 1] \subseteq AllTrees
    BY <2>1 DEF AllTrees
  <2>5. n \in NodesOn(AllTrees)
    BY <2>1, <2>4 DEF NodesOn
  <2>6. Depth(n.left) \in Nat /\ Depth(n.right) \in Nat /\ Depth(n) \in Nat
    BY <1>1, <2>2, <2>4
  <2> QED BY <2>3, <2>5, <2>6
<1>3. ASSUME NEW n \in NodesOn(AllTrees) PROVE n \in AllTrees
  <2> DEFINE l == Depth(n.left)
             r == Depth(n.right)
             d == IF l <= r THEN r ELSE l
  <2>1. n.left \in AllTrees /\ n.right \in AllTrees
    BY DEF NodesOn
  <2>2. l \in Nat /\ r \in Nat /\ n.left \in TreesTo[l] /\ n.right \in TreesTo[r]
    BY <1>1, <2>1
  <2>3. d \in Nat /\ l <= d /\ r <= d
    BY <2>2
  <2> HIDE DEF l, r, d
  <2>4. n.left \in TreesTo[d] /\ n.right \in TreesTo[d]
    BY <2>2, <2>3, DepthsInside
  <2>5. n \in NodesOn(TreesTo[d])
    BY <2>4 DEF NodesOn
  <2>6. d + 1 \in Nat /\ d + 1 # 0 /\ (d + 1) - 1 = d
    BY <2>3
  <2>7. n \in TreesTo[d + 1]
    BY <2>5, <2>6, TreesUnfold
  <2> QED BY <2>6, <2>7 DEF AllTrees
<1>4. map_blank \in AllTrees
  BY BlankTree
<1> QED BY <1>1, <1>2, <1>3, <1>4

(* Sets of trees that hold every branch of their trees.                     *)
HoldsBranches(S) ==
    S \subseteq AllTrees /\ \A n \in S : n # map_blank => n.left \in S /\ n.right \in S

LEMMA TreesHoldBranches ==
    /\ HoldsBranches(AllTrees)
    /\ HoldsBranches(Trees)
    /\ map_blank \in Trees /\ map_blank \in AllTrees
<1>1. HoldsBranches(AllTrees)
  BY AllTreesNodes DEF HoldsBranches, NodesOn
<1>2. Cardinality(Keys) \in Nat
  BY KeysAssumption, FS_CardinalityType
<1>3. Trees \subseteq AllTrees
  BY <1>2 DEF Trees, AllTrees
<1>4. ASSUME NEW n \in Trees, n # map_blank PROVE n.left \in Trees /\ n.right \in Trees
  <2> DEFINE d == Cardinality(Keys)
  <2>1. d \in Nat /\ n \in TreesTo[d]
    BY <1>2 DEF Trees
  <2> HIDE DEF d
  <2>2. d - 1 \in Nat /\ n \in NodesOn(TreesTo[d - 1])
    BY <1>4, <2>1, BranchesBelow
  <2>3. TreesTo[d - 1] \subseteq TreesTo[d]
    BY <2>1, <2>2, DepthsInside
  <2>4. n.left \in TreesTo[d] /\ n.right \in TreesTo[d]
    BY <2>2, <2>3 DEF NodesOn
  <2> QED BY <2>4 DEF Trees, d
<1>5. map_blank \in Trees
  BY <1>2, BlankTree DEF Trees
<1> QED BY <1>1, <1>3, <1>4, <1>5, BlankTree DEF HoldsBranches

LEMMA TreeInduction ==
  ASSUME NEW S, HoldsBranches(S), NEW P \in SUBSET S,
         map_blank \in S => map_blank \in P,
         \A n \in S : n # map_blank /\ n.left \in P /\ n.right \in P => n \in P
  PROVE  P = S
<1> SUFFICES ASSUME S \ P # {} PROVE FALSE
  OBVIOUS
<1> DEFINE depths == {Depth(n) : n \in S \ P}
<1>1. depths \in SUBSET Nat /\ depths # {}
  BY AllTreesNodes DEF HoldsBranches
<1>2. PICK d \in depths : \A e \in depths : d <= e
  <2> HIDE DEF depths
  <2> QED BY <1>1, LeastElement
<1>3. PICK n \in S \ P : Depth(n) = d
  BY <1>2
<1>4. n # map_blank
  OBVIOUS
<1>5. /\ n.left \in S /\ n.right \in S
      /\ Depth(n.left) < Depth(n) /\ Depth(n.right) < Depth(n)
      /\ Depth(n.left) \in Nat /\ Depth(n.right) \in Nat /\ Depth(n) \in Nat
  BY <1>4, AllTreesNodes DEF HoldsBranches
<1>6. ASSUME NEW b \in S, Depth(b) \in Nat, Depth(b) < Depth(n) PROVE b \in P
  <2>1. b \notin P => d <= Depth(b)
    BY <1>2
  <2> QED BY <1>3, <1>5, <1>6, <2>1
<1>7. n.left \in P /\ n.right \in P
  BY <1>5, <1>6
<1> QED BY <1>4, <1>7

(* A definition that looks at the branches only has a solution.             *)
LooksAtBranches(S, T, F) ==
    \A n \in S : \A g, h \in [S -> T] :
        (n # map_blank => g[n.left] = h[n.left] /\ g[n.right] = h[n.right])
            => F[<<n, g>>] = F[<<n, h>>]

LEMMA TreeRecursion ==
  ASSUME NEW S, HoldsBranches(S), NEW T, T # {}, NEW F \in [S \X [S -> T] -> T],
         LooksAtBranches(S, T, F)
  PROVE  \E f \in [S -> T] : Solves(f, S, F)
<1> DEFINE R == {p \in S \X S : Depth(p[1]) < Depth(p[2])}
<1>1. \A n \in S : Depth(n) \in Nat
  BY AllTreesNodes DEF HoldsBranches
<1>2. \A m, n \in S : <<m, n>> \in R <=> Depth(m) < Depth(n)
  OBVIOUS
<1> HIDE DEF R
<1>3. IsWellFoundedOn(R, S)
  <2>1. ASSUME NEW U \in SUBSET S, U # {} PROVE \E x \in U : \A y \in U : ~ <<y, x>> \in R
    <3> DEFINE depths == {Depth(n) : n \in U}
    <3>1. depths \in SUBSET Nat /\ depths # {}
      BY <1>1, <2>1
    <3>2. PICK d \in depths : \A e \in depths : d <= e
      <4> HIDE DEF depths
      <4> QED BY <3>1, LeastElement
    <3>3. PICK x \in U : Depth(x) = d
      BY <3>2
    <3>4. ASSUME NEW y \in U, <<y, x>> \in R PROVE FALSE
      <4>1. Depth(y) < Depth(x) /\ d <= Depth(y)
        BY <1>2, <3>2, <3>4
      <4> QED BY <1>1, <3>3, <4>1
    <3> QED BY <3>4
  <2> QED BY <2>1, MinWF
<1>4. IsTransitive(S, R)
  <2> SUFFICES ASSUME NEW x \in S, NEW y \in S, NEW z \in S, <<x, y>> \in R, <<y, z>> \in R
               PROVE  <<x, z>> \in R
    BY DEF IsTransitive
  <2>1. Depth(x) < Depth(y) /\ Depth(y) < Depth(z)
    BY <1>2
  <2> QED BY <1>1, <1>2, <2>1
<1>5. LooksBelow(S, R, T, F)
  <2> SUFFICES ASSUME NEW n \in S, NEW g \in [S -> T], NEW h \in [S -> T],
                      \A y \in S : <<y, n>> \in R => g[y] = h[y]
               PROVE  F[<<n, g>>] = F[<<n, h>>]
    BY DEF LooksBelow
  <2>1. ASSUME n # map_blank PROVE g[n.left] = h[n.left] /\ g[n.right] = h[n.right]
    <3>1. n.left \in S /\ n.right \in S /\ Depth(n.left) < Depth(n) /\ Depth(n.right) < Depth(n)
      BY <2>1, AllTreesNodes DEF HoldsBranches
    <3> QED BY <1>2, <3>1
  <2> QED BY <2>1 DEF LooksAtBranches
<1> QED BY <1>3, <1>4, <1>5, Recursion

-----------------------------------------------------------------------------
(* Nodes.                                                                   *)
Level(t) == Get(t).level
Left(t) == Get(t).left
Right(t) == Get(t).right

LEMMA NodeFields ==
  ASSUME NEW k, NEW v, NEW level, NEW l, NEW r
  PROVE  /\ MakeNode(k, v, level, l, r) # map_blank
         /\ Get(MakeNode(k, v, level, l, r)) = MakeNode(k, v, level, l, r)
         /\ MakeNode(k, v, level, l, r).key = k
         /\ MakeNode(k, v, level, l, r).value = v
         /\ MakeNode(k, v, level, l, r).level = level
         /\ MakeNode(k, v, level, l, r).left = l
         /\ MakeNode(k, v, level, l, r).right = r
         /\ MakeNode(k, v, level, l, r).size = 1 + Get(l).size + Get(r).size
<1>1. MakeNode(k, v, level, l, r) # map_blank
  <2>1. "key" \in DOMAIN MakeNode(k, v, level, l, r)
    BY DEF MakeNode
  <2>2. "key" \notin DOMAIN << >>
    OBVIOUS
  <2> QED BY <2>1, <2>2
<1>2. Get(MakeNode(k, v, level, l, r)) = MakeNode(k, v, level, l, r)
  BY <1>1 DEF Get
<1> QED BY <1>1, <1>2 DEF MakeNode

LEMMA BlankFields ==
    /\ Get(map_blank) = Blank
    /\ Level(map_blank) = 0
    /\ Left(map_blank) = map_blank /\ Right(map_blank) = map_blank
    /\ Get(map_blank).size = 0
BY DEF Get, Blank, Level, Left, Right

LEMMA FieldTypes ==
  ASSUME NEW n \in AllTrees
  PROVE  /\ Get(n).key \in Int /\ Get(n).value \in Int /\ Get(n).level \in Int
         /\ Get(n).size \in Int /\ Get(n).left \in AllTrees /\ Get(n).right \in AllTrees
         /\ n # map_blank => Get(n) = n
<1>1. CASE n = map_blank
  BY <1>1, AllTreesNodes DEF Get, Blank
<1>2. CASE n # map_blank
  BY <1>2, AllTreesNodes DEF Get, NodesOn
<1> QED BY <1>1, <1>2

LEMMA MakeNodeType ==
  ASSUME NEW k \in Int, NEW v \in Int, NEW level \in Int, NEW l \in AllTrees, NEW r \in AllTrees
  PROVE  MakeNode(k, v, level, l, r) \in AllTrees
<1>1. 1 + Get(l).size + Get(r).size \in Int
  BY FieldTypes
<1>2. MakeNode(k, v, level, l, r) \in NodesOn(AllTrees)
  BY <1>1 DEF MakeNode, NodesOn
<1> QED BY <1>2, AllTreesNodes

LEMMA SetTypes ==
  /\ \A n \in AllTrees, i \in Int : SetValue(n, i) \in AllTrees /\ SetLevel(n, i) \in AllTrees
  /\ \A n \in AllTrees, b \in AllTrees :
        SetLeft(n, b) \in AllTrees /\ SetRight(n, b) \in AllTrees
BY FieldTypes, MakeNodeType DEF SetValue, SetLevel, SetLeft, SetRight

LEMMA SkewType == \A n \in AllTrees : Skew(n) \in AllTrees
BY FieldTypes, SetTypes DEF Skew

LEMMA SplitType == \A n \in AllTrees : Split(n) \in AllTrees
<1> TAKE n \in AllTrees
<1>1. SetRight(n, Get(Get(n).right).left) \in AllTrees
  BY FieldTypes, SetTypes
<1>2. SetLeft(Get(n).right, SetRight(n, Get(Get(n).right).left)) \in AllTrees
  BY <1>1, FieldTypes, SetTypes
<1>3. Get(n).level + 1 \in Int
  BY FieldTypes
<1> QED BY <1>2, <1>3, SetTypes DEF Split

LEMMA RebalanceType == \A n \in AllTrees : Rebalance(n) \in AllTrees
<1> TAKE n \in AllTrees
<1>1. LowerLevel(n) \in AllTrees
  <2>1. Get(n).level - 1 \in Int
    BY FieldTypes
  <2>2. SetLevel(n, Get(n).level - 1) \in AllTrees /\ SetLevel(Get(n).right, Get(n).level - 1) \in AllTrees
    BY <2>1, FieldTypes, SetTypes
  <2> QED BY <2>2, SetTypes DEF LowerLevel
<1> DEFINE a == Skew(LowerLevel(n))
           right == Skew(Get(a).right)
           b == SetRight(a, SetRight(right, Skew(Get(right).right)))
           c == Split(b)
<1>2. a \in AllTrees
  BY <1>1, SkewType
<1>3. right \in AllTrees
  BY <1>2, FieldTypes, SkewType
<1>4. b \in AllTrees
  <2> HIDE DEF a, right
  <2>1. Skew(Get(right).right) \in AllTrees
    BY <1>3, FieldTypes, SkewType
  <2> QED BY <1>2, <1>3, <2>1, SetTypes
<1>5. c \in AllTrees
  BY <1>4, SplitType
<1>6. Rebalance(n) = SetRight(c, Split(Get(c).right))
  BY DEF Rebalance
<1> HIDE DEF c
<1>7. Split(Get(c).right) \in AllTrees
  BY <1>5, FieldTypes, SplitType
<1> QED BY <1>5, <1>6, <1>7, SetTypes

LEMMA CloseGapType == \A n \in AllTrees : CloseGap(n) \in AllTrees
BY RebalanceType DEF CloseGap

-----------------------------------------------------------------------------
(* What the recursive definitions say.                                      *)
InsertedAt(n, key, value, left, right) ==
    IF n = map_blank THEN MakeNode(key, value, 1, map_blank, map_blank)
    ELSE IF key = n.key THEN SetValue(n, value)
    ELSE Split(Skew(IF key < n.key THEN SetLeft(n, left) ELSE SetRight(n, right)))

LEMMA InsertedAtType ==
  ASSUME NEW n \in AllTrees, NEW key \in Int, NEW value \in Int,
         NEW left, NEW right, n # map_blank => left \in AllTrees /\ right \in AllTrees
  PROVE  InsertedAt(n, key, value, left, right) \in AllTrees
<1>1. CASE n = map_blank
  BY <1>1, MakeNodeType DEF InsertedAt
<1>2. CASE n # map_blank
  BY <1>2, SetTypes, SkewType, SplitType DEF InsertedAt
<1> QED BY <1>1, <1>2

LEMMA InsertUnfolds ==
  ASSUME NEW key \in Int, NEW value \in Int
  PROVE  \A n \in Trees :
            /\ InsertInto(n, key, value) \in AllTrees
            /\ InsertInto(n, key, value) =
                 InsertedAt(n, key, value, InsertInto(n.left, key, value),
                                           InsertInto(n.right, key, value))
<1> DEFINE F == [p \in Trees \X [Trees -> AllTrees] |->
                   InsertedAt(p[1], key, value, p[2][p[1].left], p[2][p[1].right])]
           Unfolded(f) == f = [n \in Trees |->
             IF n = map_blank THEN MakeNode(key, value, 1, map_blank, map_blank)
             ELSE IF key = n.key THEN SetValue(n, value)
             ELSE Split(Skew(IF key < n.key THEN SetLeft(n, f[n.left])
                                            ELSE SetRight(n, f[n.right])))]
           found == CHOOSE f : Unfolded(f)
<1>1. \A n \in Trees, g \in [Trees -> AllTrees] :
        /\ F[<<n, g>>] = InsertedAt(n, key, value, g[n.left], g[n.right])
        /\ n \in AllTrees
        /\ n # map_blank => n.left \in Trees /\ n.right \in Trees
  BY TreesHoldBranches DEF HoldsBranches
<1>2. F \in [Trees \X [Trees -> AllTrees] -> AllTrees]
  <2>1. ASSUME NEW n \in Trees, NEW g \in [Trees -> AllTrees]
        PROVE  InsertedAt(n, key, value, g[n.left], g[n.right]) \in AllTrees
    BY <1>1, InsertedAtType
  <2> QED BY <2>1
<1> HIDE DEF F
<1>3. LooksAtBranches(Trees, AllTrees, F)
  BY <1>1 DEF LooksAtBranches, InsertedAt
<1>4. PICK f \in [Trees -> AllTrees] : Solves(f, Trees, F)
  BY <1>2, <1>3, TreesHoldBranches, TreeRecursion
<1>5. Unfolded(f)
  <2>1. \A n \in Trees : f[n] = InsertedAt(n, key, value, f[n.left], f[n.right])
    BY <1>1, <1>4 DEF Solves
  <2>2. f = [n \in Trees |-> InsertedAt(n, key, value, f[n.left], f[n.right])]
    BY <1>4, <2>1
  <2> QED BY <2>2 DEF InsertedAt
<1>6. Unfolded(found)
  <2> HIDE DEF Unfolded
  <2> QED BY <1>5
<1>7. \A n : InsertInto(n, key, value) = found[n]
  BY DEF InsertInto
<1> HIDE DEF found
<1>8. \A n \in Trees : found[n] = InsertedAt(n, key, value, found[n.left], found[n.right])
  BY <1>6 DEF InsertedAt
<1>9. \A n \in Trees : found[n] \in AllTrees
  <2> DEFINE P == {n \in Trees : found[n] \in AllTrees}
  <2>1. map_blank \in P
    BY <1>8, TreesHoldBranches, InsertedAtType
  <2>2. \A n \in Trees : n # map_blank /\ n.left \in P /\ n.right \in P => n \in P
    BY <1>1, <1>8, InsertedAtType, TreesHoldBranches DEF HoldsBranches
  <2> HIDE DEF P
  <2>3. P = Trees
    <3>1. P \in SUBSET Trees
      BY DEF P
    <3> QED BY <2>1, <2>2, <3>1, TreesHoldBranches, TreeInduction
  <2> QED BY <2>3 DEF P
<1> QED BY <1>7, <1>8, <1>9

(* The rest of a recursive definition's proof is the same each time.        *)
LEMMA SpineUnfolds ==
  \A n \in Trees :
     LeftSpine[n] = IF n = map_blank THEN << >> ELSE Append(LeftSpine[n.left], n)
<1> DEFINE T == Seq(AllTrees)
           body(n, g) == IF n = map_blank THEN << >> ELSE Append(g[n.left], n)
           F == [p \in Trees \X [Trees -> T] |-> body(p[1], p[2])]
           Unfolded(f) == f = [n \in Trees |-> IF n = map_blank THEN << >> ELSE Append(f[n.left], n)]
           found == CHOOSE f : Unfolded(f)
<1>1. \A n \in Trees, g \in [Trees -> T] :
        F[<<n, g>>] = body(n, g) /\ n \in AllTrees /\ (n # map_blank => n.left \in Trees)
  BY TreesHoldBranches DEF HoldsBranches
<1>2. F \in [Trees \X [Trees -> T] -> T]
  <2>1. ASSUME NEW n \in Trees, NEW g \in [Trees -> T] PROVE body(n, g) \in T
    <3>1. CASE n = map_blank
      BY <3>1
    <3>2. CASE n # map_blank
      <4>1. g[n.left] \in Seq(AllTrees) /\ n \in AllTrees
        BY <1>1, <3>2
      <4> QED BY <3>2, <4>1, AppendProperties
    <3> QED BY <3>1, <3>2
  <2> QED BY <2>1
<1> HIDE DEF F, T
<1>3. LooksAtBranches(Trees, T, F)
  BY <1>1 DEF LooksAtBranches
<1>4. PICK f \in [Trees -> T] : Solves(f, Trees, F)
  <2>1. << >> \in Seq(AllTrees)
    OBVIOUS
  <2>2. T # {}
    BY <2>1 DEF T
  <2> QED BY <1>2, <1>3, <2>2, TreesHoldBranches, TreeRecursion
<1>5. Unfolded(f)
  <2>1. \A n \in Trees : f[n] = body(n, f)
    BY <1>1, <1>4 DEF Solves
  <2>2. f = [n \in Trees |-> body(n, f)]
    BY <1>4, <2>1
  <2> QED BY <2>2
<1>6. Unfolded(found)
  <2> HIDE DEF Unfolded
  <2> QED BY <1>5
<1>7. LeftSpine = found
  BY DEF LeftSpine
<1> HIDE DEF found
<1> QED BY <1>6, <1>7

(* The spine of a tree, from the leftmost node to the root.                 *)
LEMMA SpineType ==
  \A n \in Trees :
     /\ LeftSpine[n] \in Seq(Trees \ {map_blank})
     /\ n # map_blank => LeftSpine[n] # << >>
<1> DEFINE P == {n \in Trees : /\ LeftSpine[n] \in Seq(Trees \ {map_blank})
                               /\ n # map_blank => LeftSpine[n] # << >>}
<1>1. map_blank \in P
  <2>1. LeftSpine[map_blank] = << >> /\ map_blank \in Trees
    BY SpineUnfolds, TreesHoldBranches
  <2>2. << >> \in Seq(Trees \ {map_blank})
    OBVIOUS
  <2> QED BY <2>1, <2>2
<1>2. ASSUME NEW n \in Trees, n # map_blank, n.left \in P PROVE n \in P
  <2>1. LeftSpine[n] = Append(LeftSpine[n.left], n) /\ LeftSpine[n.left] \in Seq(Trees \ {map_blank})
    BY <1>2, SpineUnfolds
  <2>2. n \in Trees \ {map_blank}
    BY <1>2
  <2>3. LeftSpine[n] \in Seq(Trees \ {map_blank}) /\ LeftSpine[n] # << >>
    BY <2>1, <2>2, AppendProperties
  <2> QED BY <2>3
<1> HIDE DEF P
<1>3. P = Trees
  <2>1. P \in SUBSET Trees
    BY DEF P
  <2> QED BY <1>1, <1>2, <2>1, TreesHoldBranches, TreeInduction
<1> QED BY <1>3 DEF P

LEMMA LeftmostType ==
  ASSUME NEW n \in Trees, n # map_blank
  PROVE  Leftmost(n) \in Trees /\ Leftmost(n) # map_blank
<1>1. LeftSpine[n] \in Seq(Trees \ {map_blank}) /\ LeftSpine[n] # << >>
  BY SpineType
<1>2. Head(LeftSpine[n]) \in Trees \ {map_blank}
  BY <1>1, HeadTailProperties
<1> QED BY <1>2 DEF Leftmost

RemovedAt(n, key, g) ==
    IF n = map_blank THEN n
    ELSE CloseGap(
           IF key < n.key THEN SetLeft(n, g[n.left][key])
           ELSE IF key > n.key THEN SetRight(n, g[n.right][key])
           ELSE IF n.left = map_blank THEN n.right
           ELSE IF n.right = map_blank THEN n.left
           ELSE LET next == Leftmost(n.right)
                IN MakeNode(next.key, next.value, n.level, n.left, g[n.right][next.key]))

LEMMA RemovedAtType ==
  ASSUME NEW n \in Trees, NEW key \in Int, NEW g,
         n # map_blank => g[n.left] \in [Int -> AllTrees] /\ g[n.right] \in [Int -> AllTrees]
  PROVE  RemovedAt(n, key, g) \in AllTrees
<1>1. CASE n = map_blank
  BY <1>1, AllTreesNodes DEF RemovedAt
<1>2. CASE n # map_blank
  <2> DEFINE shrunk == IF key < n.key THEN SetLeft(n, g[n.left][key])
           ELSE IF key > n.key THEN SetRight(n, g[n.right][key])
           ELSE IF n.left = map_blank THEN n.right
           ELSE IF n.right = map_blank THEN n.left
           ELSE MakeNode(Leftmost(n.right).key, Leftmost(n.right).value, n.level, n.left,
                         g[n.right][Leftmost(n.right).key])
  <2>0. n \in AllTrees /\ n.left \in Trees /\ n.right \in Trees
    BY <1>2, TreesHoldBranches DEF HoldsBranches
  <2>1. /\ n \in AllTrees /\ n.left \in Trees /\ n.right \in Trees
        /\ n.left \in AllTrees /\ n.right \in AllTrees /\ n.level \in Int
        /\ g[n.left][key] \in AllTrees /\ g[n.right][key] \in AllTrees
    <3>1. n.left \in AllTrees /\ n.right \in AllTrees /\ n.level \in Int
      BY <1>2, <2>0, AllTreesNodes DEF NodesOn
    <3> QED BY <1>2, <2>0, <3>1
  <2>2. ASSUME n.right # map_blank
        PROVE  MakeNode(Leftmost(n.right).key, Leftmost(n.right).value, n.level, n.left,
                         g[n.right][Leftmost(n.right).key]) \in AllTrees
    <3>1. Leftmost(n.right) \in AllTrees /\ Leftmost(n.right) # map_blank
      BY <2>1, <2>2, LeftmostType, TreesHoldBranches DEF HoldsBranches
    <3>2. Leftmost(n.right).key \in Int /\ Leftmost(n.right).value \in Int
      BY <3>1, AllTreesNodes DEF NodesOn
    <3>3. g[n.right][Leftmost(n.right).key] \in AllTrees
      BY <1>2, <3>2
    <3> QED BY <2>1, <3>2, <3>3, MakeNodeType
  <2>3. shrunk \in AllTrees
    BY <2>1, <2>2, SetTypes
  <2>4. RemovedAt(n, key, g) = CloseGap(shrunk)
    BY <1>2 DEF RemovedAt
  <2> QED BY <2>3, <2>4, CloseGapType
<1> QED BY <1>1, <1>2

LEMMA RemoveUnfolds ==
  \A n \in Trees, key \in Int :
     /\ RemoveFrom[n][key] \in AllTrees
     /\ RemoveFrom[n][key] = RemovedAt(n, key, RemoveFrom)
<1> DEFINE T == [Int -> AllTrees]
           F == [p \in Trees \X [Trees -> T] |-> [key \in Int |-> RemovedAt(p[1], key, p[2])]]
           Unfolded(f) == f = [n \in Trees |-> [key \in Int |-> RemovedAt(n, key, f)]]
           found == CHOOSE f : Unfolded(f)
<1>1. \A n \in Trees, g \in [Trees -> T] :
        /\ F[<<n, g>>] = [key \in Int |-> RemovedAt(n, key, g)]
        /\ n # map_blank => n.left \in Trees /\ n.right \in Trees
  BY TreesHoldBranches DEF HoldsBranches
<1>2. F \in [Trees \X [Trees -> T] -> T]
  <2>1. ASSUME NEW n \in Trees, NEW g \in [Trees -> T], NEW key \in Int
        PROVE  RemovedAt(n, key, g) \in AllTrees
    BY <1>1, RemovedAtType
  <2> QED BY <2>1
<1>3. \A n \in Trees : \A g, h \in [Trees -> T] :
        (n # map_blank => g[n.left] = h[n.left] /\ g[n.right] = h[n.right])
            => \A key \in Int : RemovedAt(n, key, g) = RemovedAt(n, key, h)
  BY DEF RemovedAt
<1> HIDE DEF F
<1>4. LooksAtBranches(Trees, T, F)
  <2> SUFFICES ASSUME NEW n \in Trees, NEW g \in [Trees -> T], NEW h \in [Trees -> T],
                      n # map_blank => g[n.left] = h[n.left] /\ g[n.right] = h[n.right]
               PROVE  F[<<n, g>>] = F[<<n, h>>]
    BY DEF LooksAtBranches
  <2>1. \A key \in Int : RemovedAt(n, key, g) = RemovedAt(n, key, h)
    BY <1>3
  <2>2. [key \in Int |-> RemovedAt(n, key, g)] = [key \in Int |-> RemovedAt(n, key, h)]
    BY <2>1
  <2>3. F[<<n, g>>] = [key \in Int |-> RemovedAt(n, key, g)]
    BY <1>1
  <2>4. F[<<n, h>>] = [key \in Int |-> RemovedAt(n, key, h)]
    BY <1>1
  <2> QED BY <2>2, <2>3, <2>4
<1>5. PICK f \in [Trees -> T] : Solves(f, Trees, F)
  <2>1. [key \in Int |-> map_blank] \in T
    BY AllTreesNodes
  <2> HIDE DEF T
  <2> QED BY <1>2, <1>4, <2>1, TreesHoldBranches, TreeRecursion
<1>6. Unfolded(f)
  <2>1. \A n \in Trees : f[n] = [key \in Int |-> RemovedAt(n, key, f)]
    BY <1>1, <1>5 DEF Solves
  <2>2. f = [n \in Trees |-> [key \in Int |-> RemovedAt(n, key, f)]]
    BY <1>5, <2>1
  <2> QED BY <2>2
<1>7. Unfolded(found)
  <2> HIDE DEF Unfolded
  <2> QED BY <1>6
<1>8. RemoveFrom = found
  BY DEF RemoveFrom, RemovedAt
<1> HIDE DEF found
<1>9. \A n \in Trees, key \in Int : found[n][key] = RemovedAt(n, key, found)
  BY <1>7
<1>10. \A n \in Trees : found[n] \in [Int -> AllTrees]
  <2> DEFINE P == {n \in Trees : found[n] \in [Int -> AllTrees]}
  <2>1. ASSUME NEW n \in Trees, n # map_blank => n.left \in P /\ n.right \in P PROVE n \in P
    <3>1. \A key \in Int : RemovedAt(n, key, found) \in AllTrees
      BY <2>1, RemovedAtType
    <3>2. found[n] = [key \in Int |-> RemovedAt(n, key, found)]
      BY <1>7
    <3>3. found[n] \in [Int -> AllTrees]
      BY <3>1, <3>2
    <3> QED BY <3>3
  <2> HIDE DEF P
  <2>2. P = Trees
    <3>1. P \in SUBSET Trees
      BY DEF P
    <3> QED BY <2>1, <3>1, TreesHoldBranches, TreeInduction
  <2> QED BY <2>2 DEF P
<1> QED BY <1>8, <1>9, <1>10

FoundAt(n, key, left, right) ==
    IF n = map_blank \/ Get(n).key = key THEN n ELSE IF key < n.key THEN left ELSE right

LEMMA FindUnfolds ==
  ASSUME NEW key
  PROVE  \A n \in Trees :
            Find(n, key) = FoundAt(n, key, Find(n.left, key), Find(n.right, key))
<1> DEFINE F == [p \in Trees \X [Trees -> Trees] |->
                   FoundAt(p[1], key, p[2][p[1].left], p[2][p[1].right])]
           Unfolded(f) == f = [n \in Trees |->
             IF n = map_blank \/ Get(n).key = key THEN n
             ELSE IF key < n.key THEN f[n.left] ELSE f[n.right]]
           found == CHOOSE f : Unfolded(f)
<1>1. \A n \in Trees, g \in [Trees -> Trees] :
        /\ F[<<n, g>>] = FoundAt(n, key, g[n.left], g[n.right])
        /\ n # map_blank => n.left \in Trees /\ n.right \in Trees
  BY TreesHoldBranches DEF HoldsBranches
<1>2. F \in [Trees \X [Trees -> Trees] -> Trees]
  <2>1. ASSUME NEW n \in Trees, NEW g \in [Trees -> Trees]
        PROVE  FoundAt(n, key, g[n.left], g[n.right]) \in Trees
    BY <1>1 DEF FoundAt
  <2> QED BY <2>1
<1> HIDE DEF F
<1>3. LooksAtBranches(Trees, Trees, F)
  BY <1>1 DEF LooksAtBranches, FoundAt
<1>4. PICK f \in [Trees -> Trees] : Solves(f, Trees, F)
  BY <1>2, <1>3, TreesHoldBranches, TreeRecursion
<1>5. Unfolded(f)
  <2>1. \A n \in Trees : f[n] = FoundAt(n, key, f[n.left], f[n.right])
    BY <1>1, <1>4 DEF Solves
  <2>2. f = [n \in Trees |-> FoundAt(n, key, f[n.left], f[n.right])]
    BY <1>4, <2>1
  <2> QED BY <2>2 DEF FoundAt
<1>6. Unfolded(found)
  <2> HIDE DEF Unfolded
  <2> QED BY <1>5
<1>7. \A n : Find(n, key) = found[n]
  BY DEF Find
<1> HIDE DEF found
<1>8. \A n \in Trees : found[n] = FoundAt(n, key, found[n.left], found[n.right])
  BY <1>6 DEF FoundAt
<1> QED BY <1>7, <1>8

(* The nodes of a tree, in any set of trees.                                *)
NodesIn(S) ==
    CHOOSE f : f = [n \in S |-> IF n = map_blank THEN {} ELSE {n} \cup f[n.left] \cup f[n.right]]

LEMMA NodesUnfold ==
  ASSUME NEW S, HoldsBranches(S)
  PROVE  \A n \in S : NodesIn(S)[n] =
            IF n = map_blank THEN {} ELSE {n} \cup NodesIn(S)[n.left] \cup NodesIn(S)[n.right]
<1> DEFINE T == SUBSET S
           body(n, g) == IF n = map_blank THEN {} ELSE {n} \cup g[n.left] \cup g[n.right]
           F == [p \in S \X [S -> T] |-> body(p[1], p[2])]
           Unfolded(f) == f = [n \in S |-> IF n = map_blank THEN {}
                                           ELSE {n} \cup f[n.left] \cup f[n.right]]
           found == CHOOSE f : Unfolded(f)
<1>1. \A n \in S, g \in [S -> T] :
        /\ F[<<n, g>>] = body(n, g)
        /\ n # map_blank => n.left \in S /\ n.right \in S
  BY DEF HoldsBranches
<1>2. F \in [S \X [S -> T] -> T]
  <2>1. ASSUME NEW n \in S, NEW g \in [S -> T] PROVE body(n, g) \in T
    BY <1>1
  <2> QED BY <2>1
<1> HIDE DEF F
<1>3. LooksAtBranches(S, T, F)
  <2> SUFFICES ASSUME NEW n \in S, NEW g \in [S -> T], NEW h \in [S -> T],
                      n # map_blank => g[n.left] = h[n.left] /\ g[n.right] = h[n.right]
               PROVE  F[<<n, g>>] = F[<<n, h>>]
    BY DEF LooksAtBranches
  <2>1. F[<<n, g>>] = body(n, g) /\ F[<<n, h>>] = body(n, h)
    BY <1>1
  <2>2. body(n, g) = body(n, h)
    OBVIOUS
  <2> QED BY <2>1, <2>2
<1>4. PICK f \in [S -> T] : Solves(f, S, F)
  <2>1. T # {}
    OBVIOUS
  <2> HIDE DEF T
  <2> QED BY <1>2, <1>3, <2>1, TreeRecursion
<1>5. Unfolded(f)
  <2>1. \A n \in S : f[n] = body(n, f)
    BY <1>1, <1>4 DEF Solves
  <2>2. f = [n \in S |-> body(n, f)]
    BY <1>4, <2>1
  <2> QED BY <2>2
<1>6. Unfolded(found)
  <2> HIDE DEF Unfolded
  <2> QED BY <1>5
<1>7. NodesIn(S) = found
  BY DEF NodesIn
<1> HIDE DEF found
<1> QED BY <1>6, <1>7

Has(t) == NodesIn(AllTrees)[t]
KeysOf(t) == {n.key : n \in Has(t)}
PairsOf(t) == {<< n.key, n.value >> : n \in Has(t)}

LEMMA HasUnfolds ==
  /\ Has(map_blank) = {}
  /\ \A n \in AllTrees : n # map_blank => Has(n) = {n} \cup Has(n.left) \cup Has(n.right)
<1>1. \A n \in AllTrees : Has(n) =
            IF n = map_blank THEN {} ELSE {n} \cup Has(n.left) \cup Has(n.right)
  BY NodesUnfold, TreesHoldBranches DEF Has
<1> QED BY <1>1, TreesHoldBranches

LEMMA NodesAgree == \A n \in Trees : Nodes[n] = Has(n)
<1>1. Nodes = NodesIn(Trees)
  BY DEF Nodes, NodesIn
<1> DEFINE P == {n \in Trees : Nodes[n] = Has(n)}
<1>2. ASSUME NEW n \in Trees, n # map_blank => n.left \in P /\ n.right \in P PROVE n \in P
  <2>1. n \in AllTrees
    BY TreesHoldBranches DEF HoldsBranches
  <2>2. Nodes[n] = IF n = map_blank THEN {} ELSE {n} \cup Nodes[n.left] \cup Nodes[n.right]
    <3> HIDE DEF P
    <3> QED BY <1>1, NodesUnfold, TreesHoldBranches
  <2> QED BY <1>2, <2>1, <2>2, HasUnfolds
<1> HIDE DEF P
<1>3. P = Trees
  <2>1. P \in SUBSET Trees
    BY DEF P
  <2> QED BY <1>2, <2>1, TreesHoldBranches, TreeInduction
<1> QED BY <1>3 DEF P

LEMMA HasTypes ==
  ASSUME NEW t \in AllTrees
  PROVE  \A n \in Has(t) : n \in AllTrees /\ n # map_blank /\ n.key \in Int /\ n.value \in Int
<1> DEFINE P == {u \in AllTrees : \A n \in Has(u) : n \in AllTrees /\ n # map_blank}
<1>1. ASSUME NEW n \in AllTrees, n # map_blank => n.left \in P /\ n.right \in P PROVE n \in P
  BY <1>1, HasUnfolds
<1> HIDE DEF P
<1>2. P = AllTrees
  <2>1. P \in SUBSET AllTrees
    BY DEF P
  <2> QED BY <1>1, <2>1, TreesHoldBranches, TreeInduction
<1> QED BY <1>2, AllTreesNodes DEF P, NodesOn

-----------------------------------------------------------------------------
(* Search trees.                                                            *)
IsSearchNode(n) ==
    /\ n.key \in Keys /\ n.level \in Nat \ {0}
    /\ n.size = 1 + Get(n.left).size + Get(n.right).size
    /\ \A k \in KeysOf(n.left) : k < n.key
    /\ \A k \in KeysOf(n.right) : n.key < k
IsSearchTree(t) == t \in AllTrees /\ \A n \in Has(t) : IsSearchNode(n)

LEMMA KeysOfPairs ==
  /\ \A t, u : PairsOf(t) = PairsOf(u) => KeysOf(t) = KeysOf(u)
  /\ \A t : KeysOf(t) = {p[1] : p \in PairsOf(t)}
<1>1. ASSUME NEW t PROVE KeysOf(t) = {p[1] : p \in PairsOf(t)}
  <2>1. ASSUME NEW n \in Has(t) PROVE n.key \in {p[1] : p \in PairsOf(t)}
    <3>1. << n.key, n.value >> \in PairsOf(t)
      BY DEF PairsOf
    <3>2. n.key = << n.key, n.value >>[1]
      OBVIOUS
    <3> QED BY <3>1, <3>2
  <2>2. ASSUME NEW p \in PairsOf(t) PROVE p[1] \in KeysOf(t)
    <3>1. PICK n \in Has(t) : p = << n.key, n.value >>
      BY DEF PairsOf
    <3>2. p[1] = n.key
      BY <3>1
    <3> QED BY <3>2 DEF KeysOf
  <2>3. KeysOf(t) \subseteq {p[1] : p \in PairsOf(t)}
    BY <2>1 DEF KeysOf
  <2> QED BY <2>2, <2>3
<1> QED BY <1>1

LEMMA BlankSearchTree ==
  IsSearchTree(map_blank) /\ KeysOf(map_blank) = {} /\ PairsOf(map_blank) = {}
BY HasUnfolds, AllTreesNodes DEF IsSearchTree, KeysOf, PairsOf

LEMMA MadeNode ==
  ASSUME NEW k, NEW v, NEW level, NEW l, NEW r, MakeNode(k, v, level, l, r) \in AllTrees
  PROVE  /\ MakeNode(k, v, level, l, r) # map_blank
         /\ Has(MakeNode(k, v, level, l, r)) =
              {MakeNode(k, v, level, l, r)} \cup Has(l) \cup Has(r)
         /\ KeysOf(MakeNode(k, v, level, l, r)) = {k} \cup KeysOf(l) \cup KeysOf(r)
         /\ PairsOf(MakeNode(k, v, level, l, r)) =
              {<< k, v >>} \cup PairsOf(l) \cup PairsOf(r)
<1> DEFINE m == MakeNode(k, v, level, l, r)
<1>1. m \in AllTrees /\ m # map_blank /\ m.left = l /\ m.right = r /\ m.key = k /\ m.value = v
  BY NodeFields
<1> HIDE DEF m
<1>2. Has(m) = {m} \cup Has(l) \cup Has(r)
  BY <1>1, HasUnfolds
<1>3. KeysOf(m) = {k} \cup KeysOf(l) \cup KeysOf(r)
  BY <1>1, <1>2 DEF KeysOf
<1>4. PairsOf(m) = {<< k, v >>} \cup PairsOf(l) \cup PairsOf(r)
  BY <1>1, <1>2 DEF PairsOf
<1> QED BY <1>1, <1>2, <1>3, <1>4 DEF m

LEMMA NodeParts ==
  ASSUME NEW t \in AllTrees, t # map_blank
  PROVE  /\ Has(t) = {t} \cup Has(t.left) \cup Has(t.right)
         /\ KeysOf(t) = {t.key} \cup KeysOf(t.left) \cup KeysOf(t.right)
         /\ PairsOf(t) = {<< t.key, t.value >>} \cup PairsOf(t.left) \cup PairsOf(t.right)
<1>1. Has(t) = {t} \cup Has(t.left) \cup Has(t.right)
  BY HasUnfolds
<1>2. KeysOf(t) = {t.key} \cup KeysOf(t.left) \cup KeysOf(t.right)
  BY <1>1 DEF KeysOf
<1>3. PairsOf(t) = {<< t.key, t.value >>} \cup PairsOf(t.left) \cup PairsOf(t.right)
  BY <1>1 DEF PairsOf
<1> QED BY <1>1, <1>2, <1>3

LEMMA MadeSearchTree ==
  ASSUME NEW k \in Keys, NEW v \in Int, NEW level \in Nat \ {0}, NEW l, NEW r,
         IsSearchTree(l), IsSearchTree(r),
         \A x \in KeysOf(l) : x < k, \A x \in KeysOf(r) : k < x
  PROVE  IsSearchTree(MakeNode(k, v, level, l, r))
<1> DEFINE m == MakeNode(k, v, level, l, r)
<1>1. k \in Int /\ l \in AllTrees /\ r \in AllTrees
  BY KeysAssumption DEF IsSearchTree
<1>2. m \in AllTrees
  BY <1>1, MakeNodeType
<1>5. Has(m) = {m} \cup Has(l) \cup Has(r)
  BY <1>2, MadeNode
<1>3. IsSearchNode(m)
  <2>1. m.key = k /\ m.level = level /\ m.left = l /\ m.right = r /\ m.size = 1 + Get(l).size + Get(r).size
    BY NodeFields
  <2> HIDE DEF m
  <2> QED BY <2>1 DEF IsSearchNode
<1> HIDE DEF m
<1>4. IsSearchTree(m)
  BY <1>2, <1>3, <1>5 DEF IsSearchTree
<1> QED BY <1>4 DEF m

LEMMA SearchTreeParts ==
  ASSUME NEW t, IsSearchTree(t), t # map_blank
  PROVE  /\ t \in AllTrees /\ Get(t) = t
         /\ t.key \in Keys /\ t.key \in Int /\ t.value \in Int /\ t.level \in Nat \ {0}
         /\ t.size = 1 + Get(t.left).size + Get(t.right).size
         /\ IsSearchTree(t.left) /\ IsSearchTree(t.right)
         /\ \A k \in KeysOf(t.left) : k < t.key
         /\ \A k \in KeysOf(t.right) : t.key < k
         /\ KeysOf(t) = {t.key} \cup KeysOf(t.left) \cup KeysOf(t.right)
         /\ PairsOf(t) = {<< t.key, t.value >>} \cup PairsOf(t.left) \cup PairsOf(t.right)
<1>1. t \in AllTrees /\ t \in NodesOn(AllTrees) /\ Get(t) = t
  BY AllTreesNodes, FieldTypes DEF IsSearchTree
<1>2. Has(t) = {t} \cup Has(t.left) \cup Has(t.right)
  BY <1>1, NodeParts
<1>3. t.left \in AllTrees /\ t.right \in AllTrees /\ t.key \in Int /\ t.value \in Int /\ t.level \in Int
  BY <1>1 DEF NodesOn
<1>4. IsSearchNode(t) /\ IsSearchTree(t.left) /\ IsSearchTree(t.right)
  BY <1>2, <1>3 DEF IsSearchTree
<1> QED BY <1>1, <1>3, <1>4, NodeParts DEF IsSearchNode

LEMMA KeysOfTypes ==
  ASSUME NEW t, IsSearchTree(t) PROVE KeysOf(t) \subseteq Keys /\ KeysOf(t) \subseteq Int
<1>1. KeysOf(t) \subseteq Keys
  BY DEF KeysOf, IsSearchTree, IsSearchNode
<1> QED BY <1>1, KeysAssumption

-----------------------------------------------------------------------------
(* The links of a search tree may be put differently: the pairs stay.       *)
IsSame(m, n) == IsSearchTree(m) /\ PairsOf(m) = PairsOf(n)

LEMMA SameKeys == \A m, n : IsSame(m, n) => KeysOf(m) = KeysOf(n) /\ m \in AllTrees
BY KeysOfPairs DEF IsSame, IsSearchTree

(* A node whose branches are put differently, or whose level changes.       *)
LEMMA SameNode ==
  ASSUME NEW n, IsSearchTree(n), n # map_blank, NEW level \in Nat \ {0},
         NEW l, NEW r, IsSame(l, n.left), IsSame(r, n.right)
  PROVE  IsSame(MakeNode(n.key, n.value, level, l, r), n)
<1> DEFINE m == MakeNode(n.key, n.value, level, l, r)
<1>1. /\ n.key \in Keys /\ n.key \in Int /\ n.value \in Int
      /\ \A k \in KeysOf(n.left) : k < n.key
      /\ \A k \in KeysOf(n.right) : n.key < k
      /\ PairsOf(n) = {<< n.key, n.value >>} \cup PairsOf(n.left) \cup PairsOf(n.right)
  BY SearchTreeParts
<1>2. /\ KeysOf(l) = KeysOf(n.left) /\ KeysOf(r) = KeysOf(n.right)
      /\ l \in AllTrees /\ r \in AllTrees /\ IsSearchTree(l) /\ IsSearchTree(r)
  BY SameKeys DEF IsSame
<1>3. IsSearchTree(m)
  BY <1>1, <1>2, MadeSearchTree
<1>4. PairsOf(m) = {<< n.key, n.value >>} \cup PairsOf(l) \cup PairsOf(r)
  BY <1>3, MadeNode DEF IsSearchTree
<1> HIDE DEF m
<1>5. IsSame(m, n)
  BY <1>1, <1>3, <1>4 DEF IsSame
<1> QED BY <1>5 DEF m

Turned(n) == MakeNode(n.left.key, n.left.value, n.left.level, n.left.left,
                      MakeNode(n.key, n.value, n.level, n.left.right, n.right))

LEMMA TurnedSame ==
  ASSUME NEW n, IsSearchTree(n), n # map_blank, n.left # map_blank
  PROVE  IsSame(Turned(n), n)
<1> DEFINE x == n.left
           low == MakeNode(n.key, n.value, n.level, x.right, n.right)
           m == MakeNode(x.key, x.value, x.level, x.left, low)
<1>1. /\ n.key \in Keys /\ n.key \in Int /\ n.value \in Int /\ n.level \in Nat \ {0}
      /\ IsSearchTree(x) /\ IsSearchTree(n.right)
      /\ \A k \in KeysOf(x) : k < n.key
      /\ \A k \in KeysOf(n.right) : n.key < k
      /\ PairsOf(n) = {<< n.key, n.value >>} \cup PairsOf(x) \cup PairsOf(n.right)
  BY SearchTreeParts
<1>2. /\ x.key \in Keys /\ x.key \in Int /\ x.value \in Int /\ x.level \in Nat \ {0}
      /\ IsSearchTree(x.left) /\ IsSearchTree(x.right)
      /\ \A k \in KeysOf(x.left) : k < x.key
      /\ \A k \in KeysOf(x.right) : x.key < k
      /\ KeysOf(x) = {x.key} \cup KeysOf(x.left) \cup KeysOf(x.right)
      /\ PairsOf(x) = {<< x.key, x.value >>} \cup PairsOf(x.left) \cup PairsOf(x.right)
  BY <1>1, SearchTreeParts
<1> HIDE DEF x
<1>3. IsSearchTree(low)
  BY <1>1, <1>2, MadeSearchTree
<1>4. /\ KeysOf(low) = {n.key} \cup KeysOf(x.right) \cup KeysOf(n.right)
      /\ PairsOf(low) = {<< n.key, n.value >>} \cup PairsOf(x.right) \cup PairsOf(n.right)
      /\ low \in AllTrees
  BY <1>3, MadeNode DEF IsSearchTree
<1> HIDE DEF low
<1>5. \A k \in KeysOf(low) : x.key < k
  <2>1. x.key < n.key
    BY <1>1, <1>2
  <2>2. ASSUME NEW k \in KeysOf(n.right) PROVE x.key < k
    <3>1. k \in Int
      BY <1>1, KeysOfTypes
    <3> QED BY <1>1, <1>2, <2>1, <3>1
  <2> QED BY <1>2, <1>4, <2>1, <2>2
<1>6. IsSearchTree(m)
  BY <1>2, <1>3, <1>5, MadeSearchTree
<1>7. PairsOf(m) = {<< x.key, x.value >>} \cup PairsOf(x.left) \cup PairsOf(low)
  BY <1>6, MadeNode DEF IsSearchTree
<1> HIDE DEF m
<1>8. IsSame(m, n)
  BY <1>1, <1>2, <1>4, <1>6, <1>7 DEF IsSame
<1> QED BY <1>8 DEF Turned, m, low, x

Lifted(n, level) ==
    MakeNode(n.right.key, n.right.value, level,
             MakeNode(n.key, n.value, n.level, n.left, n.right.left), n.right.right)

LEMMA LiftedSame ==
  ASSUME NEW n, IsSearchTree(n), n # map_blank, n.right # map_blank, NEW level \in Nat \ {0}
  PROVE  IsSame(Lifted(n, level), n)
<1> DEFINE x == n.right
           low == MakeNode(n.key, n.value, n.level, n.left, x.left)
           m == MakeNode(x.key, x.value, level, low, x.right)
<1>1. /\ n.key \in Keys /\ n.key \in Int /\ n.value \in Int /\ n.level \in Nat \ {0}
      /\ IsSearchTree(x) /\ IsSearchTree(n.left)
      /\ \A k \in KeysOf(x) : n.key < k
      /\ \A k \in KeysOf(n.left) : k < n.key
      /\ PairsOf(n) = {<< n.key, n.value >>} \cup PairsOf(n.left) \cup PairsOf(x)
  BY SearchTreeParts
<1>2. /\ x.key \in Keys /\ x.key \in Int /\ x.value \in Int /\ x.level \in Nat \ {0}
      /\ IsSearchTree(x.left) /\ IsSearchTree(x.right)
      /\ \A k \in KeysOf(x.left) : k < x.key
      /\ \A k \in KeysOf(x.right) : x.key < k
      /\ KeysOf(x) = {x.key} \cup KeysOf(x.left) \cup KeysOf(x.right)
      /\ PairsOf(x) = {<< x.key, x.value >>} \cup PairsOf(x.left) \cup PairsOf(x.right)
  BY <1>1, SearchTreeParts
<1> HIDE DEF x
<1>3. IsSearchTree(low)
  BY <1>1, <1>2, MadeSearchTree
<1>4. /\ KeysOf(low) = {n.key} \cup KeysOf(n.left) \cup KeysOf(x.left)
      /\ PairsOf(low) = {<< n.key, n.value >>} \cup PairsOf(n.left) \cup PairsOf(x.left)
      /\ low \in AllTrees
  BY <1>3, MadeNode DEF IsSearchTree
<1> HIDE DEF low
<1>5. \A k \in KeysOf(low) : k < x.key
  <2>1. n.key < x.key
    BY <1>1, <1>2
  <2>2. ASSUME NEW k \in KeysOf(n.left) PROVE k < x.key
    <3>1. k \in Int
      BY <1>1, KeysOfTypes
    <3> QED BY <1>1, <1>2, <2>1, <3>1
  <2> QED BY <1>2, <1>4, <2>1, <2>2
<1>6. IsSearchTree(m)
  BY <1>2, <1>3, <1>5, MadeSearchTree
<1>7. PairsOf(m) = {<< x.key, x.value >>} \cup PairsOf(low) \cup PairsOf(x.right)
  BY <1>6, MadeNode DEF IsSearchTree
<1> HIDE DEF m
<1>8. IsSame(m, n)
  BY <1>1, <1>2, <1>4, <1>6, <1>7 DEF IsSame
<1> QED BY <1>8 DEF Lifted, m, low, x

(* The operations that put links right.                                     *)
LEMMA SearchLevel ==
  ASSUME NEW t, IsSearchTree(t)
  PROVE  /\ t \in AllTrees /\ Level(t) \in Nat /\ (Level(t) = 0 <=> t = map_blank)
         /\ IsSearchTree(Left(t)) /\ IsSearchTree(Right(t)) /\ IsSame(t, t)
<1>1. CASE t = map_blank
  BY <1>1, BlankFields, BlankSearchTree DEF IsSame, IsSearchTree
<1>2. CASE t # map_blank
  BY <1>2, SearchTreeParts DEF Level, Left, Right, IsSame
<1> QED BY <1>1, <1>2

LEMMA SameTransitive ==
  \A l, m, n : IsSame(l, m) /\ IsSame(m, n) => IsSame(l, n)
BY DEF IsSame

LEMMA SkewSame == \A n : IsSearchTree(n) => IsSame(Skew(n), n)
<1> SUFFICES ASSUME NEW n, IsSearchTree(n) PROVE IsSame(Skew(n), n)
  OBVIOUS
<1>1. CASE n # map_blank /\ Get(n).level = Get(Get(n).left).level
  <2>1. /\ Get(n) = n /\ n.level \in Nat \ {0} /\ IsSearchTree(n.left)
        /\ n.level = Level(n.left)
    BY <1>1, SearchTreeParts DEF Level
  <2>2. n.left # map_blank /\ Get(n.left) = n.left
    <3>1. n.left # map_blank
      BY <2>1, SearchLevel
    <3> QED BY <2>1, <3>1, SearchTreeParts
  <2>3. Skew(n) = SetRight(n.left, SetLeft(n, n.left.right))
    BY <1>1, <2>1, <2>2 DEF Skew
  <2>4. Skew(n) = Turned(n)
    BY <2>1, <2>2, <2>3 DEF Turned, SetRight, SetLeft
  <2> QED BY <1>1, <2>2, <2>4, TurnedSame
<1>2. CASE ~ (n # map_blank /\ Get(n).level = Get(Get(n).left).level)
  BY <1>2, SearchLevel DEF Skew
<1> QED BY <1>1, <1>2

LEMMA SplitSame == \A n : IsSearchTree(n) => IsSame(Split(n), n)
<1> SUFFICES ASSUME NEW n, IsSearchTree(n) PROVE IsSame(Split(n), n)
  OBVIOUS
<1>1. CASE n # map_blank /\ Get(n).level = Get(Get(Get(n).right).right).level
  <2>1. /\ Get(n) = n /\ n.level \in Nat \ {0} /\ IsSearchTree(n.right)
        /\ n.level = Level(Right(n.right))
    BY <1>1, SearchTreeParts DEF Level, Right
  <2>2. n.right # map_blank /\ Get(n.right) = n.right
    <3>1. n.right # map_blank
      BY <2>1, BlankFields
    <3> QED BY <2>1, <3>1, SearchTreeParts
  <2>3. Split(n) = SetLevel(SetLeft(n.right, SetRight(n, n.right.left)), n.level + 1)
    BY <1>1, <2>1, <2>2 DEF Split
  <2>4. SetLeft(n.right, SetRight(n, n.right.left)) =
          MakeNode(n.right.key, n.right.value, n.right.level,
                   MakeNode(n.key, n.value, n.level, n.left, n.right.left), n.right.right)
    BY <2>1, <2>2 DEF SetLeft, SetRight
  <2>5. Split(n) = Lifted(n, n.level + 1)
    BY <2>3, <2>4, NodeFields DEF Lifted, SetLevel
  <2>6. n.level + 1 \in Nat \ {0}
    BY <2>1
  <2> QED BY <1>1, <2>2, <2>5, <2>6, LiftedSame
<1>2. CASE ~ (n # map_blank /\ Get(n).level = Get(Get(Get(n).right).right).level)
  BY <1>2, SearchLevel DEF Split
<1> QED BY <1>1, <1>2

LEMMA SetSame ==
  ASSUME NEW n, IsSearchTree(n), n # map_blank
  PROVE  /\ \A level \in Nat \ {0} : IsSame(SetLevel(n, level), n)
         /\ \A r : IsSame(r, n.right) => IsSame(SetRight(n, r), n)
<1>1. Get(n) = n /\ n.level \in Nat \ {0} /\ IsSame(n.left, n.left) /\ IsSame(n.right, n.right)
  BY SearchTreeParts, SearchLevel
<1> QED BY <1>1, SameNode DEF SetLevel, SetRight

LEMMA LowerLevelSame ==
  ASSUME NEW n, IsSearchTree(n), Level(n) > 1
  PROVE  IsSame(LowerLevel(n), n)
<1> DEFINE threshold == Get(n).level - 1
           lower == SetLevel(n, threshold)
<1>1. n # map_blank /\ Get(n) = n /\ threshold \in Nat \ {0}
  BY SearchLevel, SearchTreeParts DEF Level
<1>2. LowerLevel(n) = IF Level(n.right) > threshold
                        THEN SetRight(lower, SetLevel(n.right, threshold)) ELSE lower
  BY <1>1 DEF LowerLevel, Level
<1> HIDE DEF threshold
<1>3. IsSame(lower, n)
  BY <1>1, SetSame
<1>4. lower # map_blank /\ lower.right = n.right
  BY <1>1, NodeFields DEF SetLevel
<1>5. ASSUME Level(n.right) > threshold
      PROVE  IsSame(SetRight(lower, SetLevel(n.right, threshold)), lower)
  <2>1. IsSearchTree(n.right) /\ n.right # map_blank
    BY <1>1, <1>5, SearchTreeParts, BlankFields
  <2>2. IsSame(SetLevel(n.right, threshold), n.right)
    BY <1>1, <2>1, SetSame
  <2> HIDE DEF lower
  <2> QED BY <1>3, <1>4, <2>2, SetSame DEF IsSame
<1> QED BY <1>2, <1>3, <1>5, SameTransitive

LEMMA SameNonblank == \A m, n : IsSame(m, n) /\ n \in AllTrees /\ n # map_blank => m # map_blank
<1> SUFFICES ASSUME NEW m, NEW n, IsSame(m, n), n \in AllTrees, n # map_blank
             PROVE  m # map_blank
  OBVIOUS
<1>1. n.key \in KeysOf(n)
  BY NodeParts
<1>2. KeysOf(m) = KeysOf(n)
  BY SameKeys
<1> QED BY <1>1, <1>2, BlankSearchTree

LEMMA RebalanceSame ==
  ASSUME NEW n, IsSearchTree(n), Level(n) > 1, Right(Skew(LowerLevel(n))) # map_blank
  PROVE  IsSame(Rebalance(n), n)
<1> DEFINE low == LowerLevel(n)
           a == Skew(low)
           right == Skew(Get(a).right)
           s == SetRight(right, Skew(Get(right).right))
           b == SetRight(a, s)
           c == Split(b)
           t == SetRight(c, Split(Get(c).right))
<1>0. Rebalance(n) = t
  BY DEF Rebalance
<1>1. IsSame(low, n) /\ n # map_blank /\ n \in AllTrees
  BY LowerLevelSame, SearchLevel
<1>2. IsSame(a, low)
  <2> HIDE DEF low
  <2> QED BY <1>1, SkewSame DEF IsSame
<1>3. IsSame(a, n)
  BY <1>1, <1>2, SameTransitive
<1>4. Get(a).right # map_blank
  BY DEF Right
<1> HIDE DEF a
<1>5. a # map_blank /\ IsSearchTree(a) /\ Get(a) = a /\ IsSearchTree(a.right)
  <2>1. a # map_blank /\ IsSearchTree(a)
    BY <1>1, <1>3, SameNonblank DEF IsSame
  <2> QED BY <2>1, SearchTreeParts
<1>6. IsSame(right, a.right)
  BY <1>5, SkewSame
<1> HIDE DEF right
<1>7. right # map_blank /\ IsSearchTree(right) /\ Get(right) = right /\ IsSearchTree(right.right)
  <2>1. right # map_blank /\ IsSearchTree(right)
    BY <1>4, <1>5, <1>6, SameNonblank, SearchLevel DEF IsSame
  <2> QED BY <2>1, SearchTreeParts
<1>8. IsSame(s, right)
  BY <1>7, SkewSame, SetSame
<1> HIDE DEF s
<1>9. IsSame(s, a.right)
  BY <1>6, <1>8, SameTransitive
<1>10. IsSame(b, a)
  BY <1>5, <1>9, SetSame
<1> HIDE DEF b
<1>11. IsSame(c, b)
  BY <1>10, SplitSame DEF IsSame
<1> HIDE DEF c
<1>12. IsSame(c, n)
  BY <1>3, <1>10, <1>11, SameTransitive
<1>13. c # map_blank /\ IsSearchTree(c) /\ Get(c) = c /\ IsSearchTree(c.right)
  <2>1. c # map_blank /\ IsSearchTree(c)
    BY <1>1, <1>12, SameNonblank DEF IsSame
  <2> QED BY <2>1, SearchTreeParts
<1>14. IsSame(t, c)
  BY <1>13, SplitSame, SetSame
<1> QED BY <1>0, <1>12, <1>14, SameTransitive

-----------------------------------------------------------------------------
(* The shape of an AA-tree.                                                 *)
Key(t) == Get(t).key
Value(t) == Get(t).value

IsAANode(n) ==
    /\ n.level \in Nat \ {0}
    /\ Level(n.left) = n.level - 1
    /\ Level(n.right) \in {n.level - 1, n.level}
    /\ Level(Right(n.right)) < n.level
Shaped(t) == t \in AllTrees /\ \A n \in Has(t) : IsAANode(n)

(* The parts of a node that has the shape.                                  *)
AreParts(k, v, level, l, r) ==
    /\ k \in Int /\ v \in Int /\ level \in Nat \ {0}
    /\ Shaped(l) /\ Level(l) = level - 1
    /\ Shaped(r) /\ Level(r) \in {level - 1, level} /\ Level(Right(r)) < level

LEMMA Made ==
  \A k, v, level, l, r :
      /\ MakeNode(k, v, level, l, r) # map_blank
      /\ Key(MakeNode(k, v, level, l, r)) = k
      /\ Value(MakeNode(k, v, level, l, r)) = v
      /\ Level(MakeNode(k, v, level, l, r)) = level
      /\ Left(MakeNode(k, v, level, l, r)) = l
      /\ Right(MakeNode(k, v, level, l, r)) = r
BY NodeFields DEF Key, Value, Level, Left, Right

LEMMA SetMade ==
  \A k, v, level, l, r, x :
      /\ SetLevel(MakeNode(k, v, level, l, r), x) = MakeNode(k, v, x, l, r)
      /\ SetLeft(MakeNode(k, v, level, l, r), x) = MakeNode(k, v, level, x, r)
      /\ SetRight(MakeNode(k, v, level, l, r), x) = MakeNode(k, v, level, l, x)
BY NodeFields DEF SetLevel, SetLeft, SetRight

LEMMA SetParts ==
  \A t, x :
      /\ SetLevel(t, x) = MakeNode(Key(t), Value(t), x, Left(t), Right(t))
      /\ SetLeft(t, x) = MakeNode(Key(t), Value(t), Level(t), x, Right(t))
      /\ SetRight(t, x) = MakeNode(Key(t), Value(t), Level(t), Left(t), x)
BY DEF SetLevel, SetLeft, SetRight, Key, Value, Level, Left, Right

LEMMA SkewTo ==
  /\ \A t : t = map_blank \/ Level(t) # Level(Left(t)) => Skew(t) = t
  /\ \A k, v, level, l, r : level = Level(l) =>
        Skew(MakeNode(k, v, level, l, r)) =
          MakeNode(Key(l), Value(l), level, Left(l), MakeNode(k, v, level, Right(l), r))
<1>1. \A t : t = map_blank \/ Level(t) # Level(Left(t)) => Skew(t) = t
  BY DEF Skew, Level, Left
<1>2. ASSUME NEW k, NEW v, NEW level, NEW l, NEW r, level = Level(l)
      PROVE  Skew(MakeNode(k, v, level, l, r)) =
          MakeNode(Key(l), Value(l), level, Left(l), MakeNode(k, v, level, Right(l), r))
  <2> DEFINE n == MakeNode(k, v, level, l, r)
  <2>1. n # map_blank /\ Level(n) = level /\ Left(n) = l
    BY Made
  <2>2. SetLeft(n, Right(l)) = MakeNode(k, v, level, Right(l), r)
    BY SetMade
  <2> HIDE DEF n
  <2>3. Skew(n) = SetRight(l, SetLeft(n, Right(l)))
    BY <1>2, <2>1 DEF Skew, Level, Left, Right
  <2>4. Skew(n) = MakeNode(Key(l), Value(l), level, Left(l), MakeNode(k, v, level, Right(l), r))
    BY <1>2, <2>2, <2>3, SetParts
  <2> QED BY <2>4 DEF n
<1> QED BY <1>1, <1>2

LEMMA SplitTo ==
  /\ \A t : t = map_blank \/ Level(t) # Level(Right(Right(t))) => Split(t) = t
  /\ \A k, v, level, l, r : level = Level(Right(r)) =>
        Split(MakeNode(k, v, level, l, r)) =
          MakeNode(Key(r), Value(r), level + 1, MakeNode(k, v, level, l, Left(r)), Right(r))
<1>1. \A t : t = map_blank \/ Level(t) # Level(Right(Right(t))) => Split(t) = t
  BY DEF Split, Level, Right
<1>2. ASSUME NEW k, NEW v, NEW level, NEW l, NEW r, level = Level(Right(r))
      PROVE  Split(MakeNode(k, v, level, l, r)) =
          MakeNode(Key(r), Value(r), level + 1, MakeNode(k, v, level, l, Left(r)), Right(r))
  <2> DEFINE n == MakeNode(k, v, level, l, r)
  <2>1. n # map_blank /\ Level(n) = level /\ Right(n) = r
    BY Made
  <2>2. SetRight(n, Left(r)) = MakeNode(k, v, level, l, Left(r))
    BY SetMade
  <2> HIDE DEF n
  <2>3. Split(n) = SetLevel(SetLeft(r, SetRight(n, Left(r))), level + 1)
    BY <1>2, <2>1 DEF Split, Level, Left, Right
  <2>4. SetLeft(r, SetRight(n, Left(r))) =
          MakeNode(Key(r), Value(r), Level(r), MakeNode(k, v, level, l, Left(r)), Right(r))
    BY <2>2, SetParts
  <2>5. Split(n) = MakeNode(Key(r), Value(r), level + 1, MakeNode(k, v, level, l, Left(r)), Right(r))
    BY <2>3, <2>4, SetMade
  <2> QED BY <2>5 DEF n
<1> QED BY <1>1, <1>2

LEMMA BlankShaped == Shaped(map_blank)
BY HasUnfolds, AllTreesNodes DEF Shaped

LEMMA MadeShaped ==
  \A k, v, level, l, r :
      AreParts(k, v, level, l, r) => Shaped(MakeNode(k, v, level, l, r))
<1> SUFFICES ASSUME NEW k, NEW v, NEW level, NEW l, NEW r, AreParts(k, v, level, l, r)
             PROVE  Shaped(MakeNode(k, v, level, l, r))
  OBVIOUS
<1> DEFINE m == MakeNode(k, v, level, l, r)
<1>1. k \in Int /\ v \in Int /\ level \in Int /\ l \in AllTrees /\ r \in AllTrees
  BY DEF AreParts, Shaped
<1>2. m \in AllTrees
  BY <1>1, MakeNodeType
<1>3. Has(m) = {m} \cup Has(l) \cup Has(r)
  BY <1>2, MadeNode
<1>4. m.level = level /\ m.left = l /\ m.right = r
  BY NodeFields
<1> HIDE DEF m
<1>5. IsAANode(m)
  BY <1>4 DEF AreParts, IsAANode
<1>6. Shaped(m)
  BY <1>2, <1>3, <1>5 DEF Shaped, AreParts
<1> QED BY <1>6 DEF m

LEMMA ShapedParts ==
  \A t : Shaped(t) =>
      /\ t \in AllTrees /\ Level(t) \in Nat /\ (Level(t) = 0 <=> t = map_blank)
      /\ Shaped(Left(t)) /\ Shaped(Right(t))
      /\ Level(t) = 0 => Left(t) = map_blank /\ Right(t) = map_blank
      /\ Level(t) # 0 => AreParts(Key(t), Value(t), Level(t), Left(t), Right(t))
<1> SUFFICES ASSUME NEW t, Shaped(t)
             PROVE  /\ t \in AllTrees /\ Level(t) \in Nat /\ (Level(t) = 0 <=> t = map_blank)
                    /\ Shaped(Left(t)) /\ Shaped(Right(t))
                    /\ Level(t) = 0 => Left(t) = map_blank /\ Right(t) = map_blank
                    /\ Level(t) # 0 => AreParts(Key(t), Value(t), Level(t), Left(t), Right(t))
  OBVIOUS
<1>1. CASE t = map_blank
  BY <1>1, BlankFields, BlankShaped, AllTreesNodes
<1>2. CASE t # map_blank
  <2>1. t \in AllTrees /\ Get(t) = t /\ t.key \in Int /\ t.value \in Int
        /\ t.left \in AllTrees /\ t.right \in AllTrees
    BY <1>2, FieldTypes DEF Shaped
  <2>2. Has(t) = {t} \cup Has(t.left) \cup Has(t.right)
    BY <1>2, <2>1, HasUnfolds
  <2>3. IsAANode(t) /\ Shaped(t.left) /\ Shaped(t.right)
    BY <2>1, <2>2 DEF Shaped
  <2>4. /\ Key(t) = t.key /\ Value(t) = t.value /\ Level(t) = t.level
        /\ Left(t) = t.left /\ Right(t) = t.right
    BY <2>1 DEF Key, Value, Level, Left, Right
  <2>5. AreParts(t.key, t.value, t.level, t.left, t.right)
    BY <2>1, <2>3 DEF AreParts, IsAANode
  <2> QED BY <1>2, <2>1, <2>3, <2>4, <2>5 DEF IsAANode
<1> QED BY <1>1, <1>2

(* What is used of the lower branches.                                      *)
LEMMA ShapedLevels ==
  \A t : Shaped(t) =>
      /\ Level(t) \in Nat /\ Level(Left(t)) \in Nat /\ Level(Right(t)) \in Nat
      /\ Level(Right(t)) <= Level(t)
      /\ Level(t) # 0 => /\ Level(Left(t)) = Level(t) - 1
                         /\ Level(Right(t)) \in {Level(t) - 1, Level(t)}
                         /\ Level(Right(Right(t))) < Level(t)
      /\ Skew(t) = t /\ Split(t) = t
<1> SUFFICES ASSUME NEW t, Shaped(t)
             PROVE  /\ Level(t) \in Nat /\ Level(Left(t)) \in Nat /\ Level(Right(t)) \in Nat
                    /\ Level(Right(t)) <= Level(t)
                    /\ Level(t) # 0 => /\ Level(Left(t)) = Level(t) - 1
                                       /\ Level(Right(t)) \in {Level(t) - 1, Level(t)}
                                       /\ Level(Right(Right(t))) < Level(t)
                    /\ Skew(t) = t /\ Split(t) = t
  OBVIOUS
<1>1. Level(t) \in Nat /\ Level(Left(t)) \in Nat /\ Level(Right(t)) \in Nat
  BY ShapedParts
<1>2. CASE Level(t) = 0
  BY <1>1, <1>2, ShapedParts, BlankFields, SkewTo, SplitTo
<1>3. CASE Level(t) # 0
  <2>1. /\ Level(Left(t)) = Level(t) - 1
        /\ Level(Right(t)) \in {Level(t) - 1, Level(t)}
        /\ Level(Right(Right(t))) < Level(t)
    BY <1>3, ShapedParts DEF AreParts
  <2>2. Level(Right(Right(t))) \in Nat
    BY ShapedParts
  <2>3. Level(t) # Level(Left(t)) /\ Level(t) # Level(Right(Right(t)))
    BY <1>1, <2>1, <2>2
  <2> QED BY <1>1, <1>3, <2>1, <2>3, SkewTo, SplitTo
<1> QED BY <1>2, <1>3

(* What insert does to the shape: the tree may grow by a level, and then    *)
(* its right branch stays on the level below.                               *)
IsGrown(m, n) ==
    /\ Shaped(m)
    /\ \/ Level(m) = Level(n)
       \/ /\ Level(m) = Level(n) + 1
          /\ Level(Right(n)) = Level(n) /\ Level(Right(m)) = Level(n)

LEMMA LeftGrown ==
  ASSUME NEW k, NEW v, NEW level, NEW l, NEW r, NEW m,
         AreParts(k, v, level, l, r), IsGrown(m, l)
  PROVE  LET made == Split(Skew(MakeNode(k, v, level, m, r)))
         IN /\ Shaped(made)
            /\ \/ Level(made) = level
               \/ Level(made) = level + 1 /\ Level(r) = level /\ Level(Right(made)) = level
<1> DEFINE n == MakeNode(k, v, level, m, r)
           made == Split(Skew(n))
<1>1. /\ k \in Int /\ v \in Int /\ level \in Nat \ {0}
      /\ Shaped(r) /\ Level(r) \in {level - 1, level} /\ Level(Right(r)) < level
      /\ Level(l) = level - 1
  BY DEF AreParts
<1>2. Level(Right(r)) \in Nat
  BY <1>1, ShapedParts
<1>3. CASE Level(m) = Level(l)
  <2>1. AreParts(k, v, level, m, r)
    BY <1>1, <1>3 DEF AreParts, IsGrown
  <2>2. Shaped(n) /\ Level(n) = level
    BY <2>1, MadeShaped, Made
  <2>3. made = n
    <3> HIDE DEF n
    <3> QED BY <2>2, ShapedLevels
  <2> QED BY <2>2, <2>3
<1>4. CASE Level(m) = Level(l) + 1 /\ Level(Right(m)) = Level(l)
  <2> DEFINE low == MakeNode(k, v, level, Right(m), r)
             turned == MakeNode(Key(m), Value(m), level, Left(m), low)
  <2>1. /\ Level(m) = level /\ Level(Right(m)) = level - 1
        /\ AreParts(Key(m), Value(m), level, Left(m), Right(m))
    BY <1>1, <1>4, ShapedParts DEF IsGrown
  <2>2. Skew(n) = turned
    BY <2>1, SkewTo
  <2>3. AreParts(k, v, level, Right(m), r)
    BY <1>1, <2>1 DEF AreParts
  <2>4. Shaped(low) /\ Level(low) = level /\ Right(low) = r
        /\ Key(low) = k /\ Value(low) = v /\ Left(low) = Right(m)
    BY <2>3, MadeShaped, Made
  <2> HIDE DEF low
  <2>5. CASE Level(r) = level
    <3> DEFINE up == MakeNode(Key(m), Value(m), level, Left(m), Right(m))
               top == MakeNode(k, v, level + 1, up, r)
    <3>1. made = top
      BY <2>2, <2>4, <2>5, SplitTo
    <3>2. Shaped(up) /\ Level(up) = level
      BY <2>1, MadeShaped, Made
    <3> HIDE DEF up
    <3>3. AreParts(k, v, level + 1, up, r)
      BY <1>1, <1>2, <2>5, <3>2 DEF AreParts
    <3>4. Shaped(top) /\ Level(top) = level + 1 /\ Right(top) = r
      BY <3>3, MadeShaped, Made
    <3> QED BY <2>5, <3>1, <3>4
  <2>6. CASE Level(r) = level - 1
    <3>1. AreParts(Key(m), Value(m), level, Left(m), low)
      BY <1>1, <2>1, <2>4, <2>6 DEF AreParts
    <3>2. Shaped(turned) /\ Level(turned) = level
      BY <3>1, MadeShaped, Made
    <3> HIDE DEF turned
    <3> QED BY <2>2, <3>2, ShapedLevels
  <2> QED BY <1>1, <2>5, <2>6
<1> QED BY <1>3, <1>4 DEF IsGrown

LEMMA RightGrown ==
  ASSUME NEW k, NEW v, NEW level, NEW l, NEW r, NEW m,
         AreParts(k, v, level, l, r), IsGrown(m, r)
  PROVE  LET made == Split(Skew(MakeNode(k, v, level, l, m)))
         IN /\ Shaped(made)
            /\ \/ Level(made) = level
               \/ Level(made) = level + 1 /\ Level(r) = level /\ Level(Right(made)) = level
<1> DEFINE n == MakeNode(k, v, level, l, m)
           made == Split(Skew(n))
<1>1. /\ k \in Int /\ v \in Int /\ level \in Nat \ {0}
      /\ Shaped(r) /\ Level(r) \in {level - 1, level} /\ Level(Right(r)) < level
      /\ Shaped(l) /\ Level(l) = level - 1 /\ Shaped(m)
  BY DEF AreParts, IsGrown
<1>2. Level(Right(m)) \in Nat /\ Level(Right(m)) <= Level(m)
  BY <1>1, ShapedLevels
<1>3. Skew(n) = n
  <2>1. Level(n) = level /\ Left(n) = l
    BY Made
  <2> HIDE DEF n
  <2>2. level # level - 1
    BY <1>1
  <2> QED BY <1>1, <2>1, <2>2, SkewTo
<1>4. CASE Level(m) \in {level - 1, level} /\ Level(Right(m)) < level
  <2>1. AreParts(k, v, level, l, m)
    BY <1>1, <1>4 DEF AreParts
  <2>2. Shaped(n) /\ Level(n) = level
    BY <2>1, MadeShaped, Made
  <2>3. made = n
    <3> HIDE DEF n
    <3> QED BY <2>2, ShapedLevels
  <2> QED BY <2>2, <2>3
<1>5. CASE Level(m) = level /\ Level(r) = level /\ Level(Right(m)) = level
  <2> DEFINE low == MakeNode(k, v, level, l, Left(m))
             top == MakeNode(Key(m), Value(m), level + 1, low, Right(m))
  <2>1. AreParts(Key(m), Value(m), level, Left(m), Right(m))
    BY <1>1, <1>5, ShapedParts
  <2>2. /\ Shaped(Left(m)) /\ Level(Left(m)) = level - 1
        /\ Shaped(Right(m)) /\ Key(m) \in Int /\ Value(m) \in Int
    BY <2>1 DEF AreParts
  <2>3. /\ Level(Right(Left(m))) \in Nat /\ Level(Right(Left(m))) <= level - 1
        /\ Level(Right(Right(m))) \in Nat /\ Level(Right(Right(m))) <= level
    BY <1>5, <2>2, ShapedLevels
  <2>4. AreParts(k, v, level, l, Left(m))
    BY <1>1, <2>2, <2>3 DEF AreParts
  <2>5. Shaped(low) /\ Level(low) = level
    BY <2>4, MadeShaped, Made
  <2>6. made = top
    BY <1>3, <1>5, SplitTo
  <2> HIDE DEF low
  <2>7. AreParts(Key(m), Value(m), level + 1, low, Right(m))
    BY <1>1, <1>5, <2>2, <2>3, <2>5 DEF AreParts
  <2>8. Shaped(top) /\ Level(top) = level + 1 /\ Right(top) = Right(m)
    BY <2>7, MadeShaped, Made
  <2> QED BY <1>5, <2>6, <2>8
<1>6. \/ Level(m) \in {level - 1, level} /\ Level(Right(m)) < level
      \/ Level(m) = level /\ Level(r) = level /\ Level(Right(m)) = level
  BY <1>1, <1>2 DEF IsGrown
<1> QED BY <1>4, <1>5, <1>6

(* What remove does: the tree may lose a level, and when it does not, it    *)
(* keeps a right branch on the level below there.                           *)
IsShrunk(m, n) ==
    /\ Shaped(m)
    /\ Level(m) \in {Level(n) - 1, Level(n)}
    /\ Level(m) = Level(n) /\ Level(Right(n)) < Level(n) => Level(Right(m)) < Level(m)

LEMMA NoGap == \A t : Shaped(t) => CloseGap(t) = t
<1> SUFFICES ASSUME NEW t, Shaped(t) PROVE ~ HasGap(t)
  BY DEF CloseGap
<1>1. /\ Level(t) \in Nat
      /\ Level(Left(t)) \in Nat /\ Level(Right(t)) \in Nat
      /\ Level(t) # 0 => Level(Left(t)) = Level(t) - 1
                         /\ Level(Right(t)) \in {Level(t) - 1, Level(t)}
  BY ShapedLevels
<1>2. ~ (Level(Left(t)) < Level(t) - 1) /\ ~ (Level(Right(t)) < Level(t) - 1)
  BY <1>1
<1> QED BY <1>2 DEF HasGap, Level, Left, Right

LEMMA GapOf ==
  \A k, v, level, l, r :
      HasGap(MakeNode(k, v, level, l, r)) <=> Level(l) < level - 1 \/ Level(r) < level - 1
<1> TAKE k, v, level, l, r
<1> DEFINE n == MakeNode(k, v, level, l, r)
<1>1. Level(n) = level /\ Left(n) = l /\ Right(n) = r
  BY Made
<1> HIDE DEF n
<1>2. HasGap(n) <=> Level(l) < level - 1 \/ Level(r) < level - 1
  BY <1>1 DEF HasGap, Level, Left, Right
<1> QED BY <1>2 DEF n

LEMMA LowerTo ==
  \A k, v, level, l, r :
      LowerLevel(MakeNode(k, v, level, l, r)) =
        IF Level(r) > level - 1
          THEN MakeNode(k, v, level - 1, l, MakeNode(Key(r), Value(r), level - 1, Left(r), Right(r)))
          ELSE MakeNode(k, v, level - 1, l, r)
<1> TAKE k, v, level, l, r
<1> DEFINE n == MakeNode(k, v, level, l, r)
           lower == MakeNode(k, v, level - 1, l, r)
<1>1. Get(n).level = level /\ Get(n).right = r /\ SetLevel(n, level - 1) = lower
  BY NodeFields, SetMade
<1> HIDE DEF n
<1>2. LowerLevel(n) = IF Level(r) > level - 1 THEN SetRight(lower, SetLevel(r, level - 1)) ELSE lower
  BY <1>1 DEF LowerLevel, Level
<1>3. SetRight(lower, SetLevel(r, level - 1)) = MakeNode(k, v, level - 1, l, SetLevel(r, level - 1))
  BY SetMade
<1>4. SetLevel(r, level - 1) = MakeNode(Key(r), Value(r), level - 1, Left(r), Right(r))
  BY SetParts
<1> HIDE DEF lower
<1>5. LowerLevel(n) =
        IF Level(r) > level - 1
          THEN MakeNode(k, v, level - 1, l, MakeNode(Key(r), Value(r), level - 1, Left(r), Right(r)))
          ELSE lower
  BY <1>2, <1>3, <1>4
<1> QED BY <1>5 DEF n, lower

(* The last steps of the rebalancing, after the first skew.                 *)
LEMMA RebalanceFrom ==
  \A n, k, v, level, l, r :
      Skew(LowerLevel(n)) = MakeNode(k, v, level, l, r) =>
        LET right == Skew(r)
            b == MakeNode(k, v, level, l,
                          MakeNode(Key(right), Value(right), Level(right), Left(right),
                                   Skew(Right(right))))
        IN Rebalance(n) = SetRight(Split(b), Split(Right(Split(b))))
<1> SUFFICES ASSUME NEW n, NEW k, NEW v, NEW level, NEW l, NEW r,
                    Skew(LowerLevel(n)) = MakeNode(k, v, level, l, r)
             PROVE  LET right == Skew(r)
                        b == MakeNode(k, v, level, l,
                                MakeNode(Key(right), Value(right), Level(right), Left(right),
                                         Skew(Right(right))))
                    IN Rebalance(n) = SetRight(Split(b), Split(Right(Split(b))))
  OBVIOUS
<1> DEFINE a == MakeNode(k, v, level, l, r)
           right == Skew(r)
           s == MakeNode(Key(right), Value(right), Level(right), Left(right), Skew(Right(right)))
<1>1. Get(a).right = r
  BY NodeFields
<1>2. SetRight(right, Skew(Right(right))) = s
  BY SetParts
<1> HIDE DEF right, s
<1>3. SetRight(a, s) = MakeNode(k, v, level, l, s)
  BY SetMade
<1> HIDE DEF a
<1>4. Rebalance(n) = SetRight(Split(SetRight(a, s)), Split(Right(Split(SetRight(a, s)))))
  <2>1. Skew(LowerLevel(n)) = a
    BY DEF a
  <2>2. Skew(Get(a).right) = right
    BY <1>1 DEF right
  <2> QED BY <1>2, <2>1, <2>2 DEF Rebalance, Right
<1> QED BY <1>3, <1>4 DEF right, s

(* A gap on the right: the left branch stands on the lowered level.         *)
LEMMA RightShrunk ==
  ASSUME NEW k, NEW v, NEW level, NEW l, NEW r, NEW m,
         AreParts(k, v, level, l, r), IsShrunk(m, r)
  PROVE  LET n == MakeNode(k, v, level, l, m)
             made == CloseGap(n)
         IN /\ Shaped(made) /\ Level(made) \in {level - 1, level}
            /\ Level(made) = level /\ Level(r) < level => Level(Right(made)) < level
            /\ HasGap(n) => level > 1 /\ Right(Skew(LowerLevel(n))) # map_blank
<1> DEFINE n == MakeNode(k, v, level, l, m)
           made == CloseGap(n)
<1>1. /\ k \in Int /\ v \in Int /\ level \in Nat \ {0}
      /\ Level(r) \in {level - 1, level} /\ Level(Right(r)) < level
      /\ Shaped(l) /\ Level(l) = level - 1 /\ Shaped(m) /\ Level(m) \in Nat
  BY ShapedParts DEF AreParts, IsShrunk
<1>2. Level(Right(m)) \in Nat /\ Level(Right(m)) <= Level(m)
  BY <1>1, ShapedLevels
<1>3. HasGap(n) <=> Level(m) < level - 1
  BY <1>1, GapOf
<1>4. CASE ~ HasGap(n)
  <2>1. Level(m) \in {level - 1, level} /\ Level(Right(m)) < level
    BY <1>1, <1>2, <1>3, <1>4 DEF IsShrunk
  <2>2. AreParts(k, v, level, l, m)
    BY <1>1, <2>1 DEF AreParts
  <2>3. Shaped(n) /\ Level(n) = level /\ Right(n) = m
    BY <2>2, MadeShaped, Made
  <2>4. made = n
    BY <1>4 DEF CloseGap
  <2>5. Level(r) < level => Level(m) < level
    BY <1>1 DEF IsShrunk
  <2> QED BY <1>4, <2>3, <2>4, <2>5
<1>5. CASE HasGap(n)
  <2> DEFINE w == MakeNode(k, v, level - 1, Right(l), m)
  <2>1. Level(m) = level - 2 /\ Level(r) = level - 1 /\ level - 1 \in Nat \ {0}
    BY <1>1, <1>3, <1>5 DEF IsShrunk
  <2>2. AreParts(Key(l), Value(l), level - 1, Left(l), Right(l))
    BY <1>1, <2>1, ShapedParts
  <2>3. /\ Key(l) \in Int /\ Value(l) \in Int
        /\ Shaped(Left(l)) /\ Level(Left(l)) = level - 2
        /\ Shaped(Right(l)) /\ Level(Right(l)) \in {level - 2, level - 1}
        /\ Level(Right(Right(l))) < level - 1
    BY <1>1, <2>2 DEF AreParts
  <2>4. LowerLevel(n) = MakeNode(k, v, level - 1, l, m)
    BY <1>1, <2>1, LowerTo
  <2>5. Skew(LowerLevel(n)) = MakeNode(Key(l), Value(l), level - 1, Left(l), w)
    BY <1>1, <2>4, SkewTo
  <2>6. level > 1 /\ Right(Skew(LowerLevel(n))) # map_blank
    BY <1>1, <2>1, <2>5, Made
  <2>7. made = Rebalance(n)
    BY <1>5 DEF CloseGap
  <2>8. Skew(m) = m
    BY <1>1, ShapedLevels
  <2>9. /\ Key(w) = k /\ Value(w) = v /\ Level(w) = level - 1
        /\ Left(w) = Right(l) /\ Right(w) = m /\ w # map_blank
    BY Made
  <2>10. CASE Level(Right(l)) = level - 2
    <3> DEFINE b == MakeNode(Key(l), Value(l), level - 1, Left(l), w)
    <3>1. Skew(w) = w
      <4>1. Level(w) # Level(Left(w))
        BY <1>1, <2>9, <2>10
      <4> QED BY <4>1, SkewTo
    <3>2. AreParts(k, v, level - 1, Right(l), m)
      BY <1>1, <1>2, <2>1, <2>3, <2>10 DEF AreParts
    <3>3. Shaped(w)
      BY <3>2, MadeShaped
    <3>4. w = MakeNode(Key(w), Value(w), Level(w), Left(w), Skew(Right(w)))
      BY <2>8, <2>9
    <3> HIDE DEF w
    <3>5. AreParts(Key(l), Value(l), level - 1, Left(l), w)
      BY <1>1, <2>1, <2>3, <2>9, <3>3 DEF AreParts
    <3>6. Shaped(b) /\ Level(b) = level - 1 /\ Right(b) = w
      BY <3>5, MadeShaped, Made
    <3>7. Rebalance(n) = SetRight(Split(b), Split(Right(Split(b))))
      BY <2>5, <3>1, <3>4, RebalanceFrom
    <3>8. Split(b) = b /\ Split(w) = w
      BY <3>3, <3>6, ShapedLevels
    <3>9. SetRight(b, w) = b
      BY SetMade
    <3> HIDE DEF b
    <3>10. made = b
      BY <2>7, <3>6, <3>7, <3>8, <3>9
    <3> HIDE DEF made
    <3>11. Shaped(made) /\ Level(made) = level - 1 /\ Level(made) # level
      BY <1>1, <3>6, <3>10
    <3> QED BY <2>6, <3>11 DEF made
  <2>11. CASE Level(Right(l)) = level - 1
    <3> DEFINE y == Right(l)
               w2 == MakeNode(k, v, level - 1, Right(y), m)
               s == MakeNode(Key(y), Value(y), level - 1, Left(y), w2)
               b == MakeNode(Key(l), Value(l), level - 1, Left(l), s)
               low == MakeNode(Key(l), Value(l), level - 1, Left(l), Left(y))
               top == MakeNode(Key(y), Value(y), level, low, w2)
    <3>1. AreParts(Key(y), Value(y), level - 1, Left(y), Right(y))
      BY <2>1, <2>3, <2>11, ShapedParts
    <3>2. /\ Key(y) \in Int /\ Value(y) \in Int
          /\ Shaped(Left(y)) /\ Level(Left(y)) = level - 2
          /\ Shaped(Right(y)) /\ Level(Right(y)) = level - 2
      <4>1. Level(Right(y)) # level - 1
        BY <1>1, <2>3
      <4> QED BY <1>1, <3>1, <4>1 DEF AreParts
    <3> HIDE DEF y
    <3>3. Skew(w) = s
      <4>1. Level(y) = level - 1
        BY <2>11 DEF y
      <4>2. Skew(MakeNode(k, v, level - 1, y, m)) = s
        BY <4>1, SkewTo
      <4> QED BY <4>2 DEF y
    <3>4. AreParts(k, v, level - 1, Right(y), m)
      BY <1>1, <1>2, <2>1, <3>2 DEF AreParts
    <3>5. Shaped(w2) /\ Level(w2) = level - 1
      BY <3>4, MadeShaped, Made
    <3>6. Level(Right(w2)) < level
      <4>1. Right(w2) = m
        BY Made
      <4> QED BY <1>1, <2>1, <4>1
    <3>7. Skew(w2) = w2 /\ Split(w2) = w2
      BY <3>5, ShapedLevels
    <3> HIDE DEF w2
    <3>8. s = MakeNode(Key(s), Value(s), Level(s), Left(s), Skew(Right(s)))
      BY <3>7, Made
    <3>9. Level(Right(s)) = level - 1 /\ Key(s) = Key(y) /\ Value(s) = Value(y)
          /\ Left(s) = Left(y) /\ Right(s) = w2
      BY <3>5, Made
    <3> HIDE DEF s
    <3>10. Rebalance(n) = SetRight(Split(b), Split(Right(Split(b))))
      BY <2>5, <3>3, <3>8, RebalanceFrom
    <3>11. Split(b) = top
      <4>1. (level - 1) + 1 = level
        BY <1>1
      <4>2. Split(b) = MakeNode(Key(s), Value(s), (level - 1) + 1,
                          MakeNode(Key(l), Value(l), level - 1, Left(l), Left(s)), Right(s))
        BY <3>9, SplitTo
      <4> QED BY <3>9, <4>1, <4>2
    <3>12. Right(top) = w2 /\ SetRight(top, w2) = top
      BY Made, SetMade
    <3> HIDE DEF b
    <3>13. Level(Right(Left(y))) \in Nat /\ Level(Right(Left(y))) <= level - 2
      BY <3>2, ShapedLevels
    <3>14. AreParts(Key(l), Value(l), level - 1, Left(l), Left(y))
      BY <1>1, <2>1, <2>3, <3>2, <3>13 DEF AreParts
    <3>15. Shaped(low) /\ Level(low) = level - 1
      BY <3>14, MadeShaped, Made
    <3> HIDE DEF low
    <3>16. AreParts(Key(y), Value(y), level, low, w2)
      BY <1>1, <3>2, <3>5, <3>6, <3>15 DEF AreParts
    <3>17. Shaped(top) /\ Level(top) = level
      BY <3>16, MadeShaped, Made
    <3> HIDE DEF top
    <3>18. made = top
      BY <2>7, <3>7, <3>10, <3>11, <3>12
    <3> HIDE DEF made
    <3>19. Shaped(made) /\ Level(made) = level /\ Level(Right(made)) < level
      BY <1>1, <3>5, <3>12, <3>17, <3>18
    <3> QED BY <2>6, <3>19 DEF made
  <2> QED BY <2>3, <2>10, <2>11
<1> QED BY <1>4, <1>5

(* A gap on the left, and the right branch does not stick out.              *)
HasLeftGap(k, v, level, m, r) ==
    /\ k \in Int /\ v \in Int /\ level - 1 \in Nat \ {0} /\ level \in Nat \ {0}
    /\ Shaped(m) /\ Level(m) = level - 2
    /\ Shaped(r) /\ Level(r) \in {level - 1, level} /\ Level(Right(r)) < level

LEMMA LeftGapLow ==
  ASSUME NEW k, NEW v, NEW level, NEW m, NEW r,
         HasLeftGap(k, v, level, m, r), Level(r) = level - 1
  PROVE  LET n == MakeNode(k, v, level, m, r)
             made == Rebalance(n)
         IN /\ Shaped(made) /\ Level(made) \in {level - 1, level}
            /\ Level(made) = level => Level(Right(made)) < level
            /\ Right(Skew(LowerLevel(n))) # map_blank
<1> DEFINE n == MakeNode(k, v, level, m, r)
           made == Rebalance(n)
           r1 == MakeNode(Key(r), Value(r), level - 1, Left(r), Right(r))
           b == MakeNode(k, v, level - 1, m, r1)
<1>0. /\ k \in Int /\ v \in Int /\ level - 1 \in Nat \ {0} /\ level \in Nat \ {0}
      /\ Shaped(m) /\ Level(m) = level - 2 /\ Shaped(r) /\ Level(Right(r)) < level
  BY DEF HasLeftGap
<1> USE <1>0
<1>1. AreParts(Key(r), Value(r), level - 1, Left(r), Right(r))
  BY ShapedParts
<1>2. /\ Key(r) \in Int /\ Value(r) \in Int
      /\ Shaped(Left(r)) /\ Level(Left(r)) = level - 2
      /\ Shaped(Right(r)) /\ Level(Right(r)) \in {level - 2, level - 1}
      /\ Level(Right(Right(r))) < level - 1
  BY <1>1 DEF AreParts
<1>3. LowerLevel(n) = MakeNode(k, v, level - 1, m, r)
  BY LowerTo
<1>4. Skew(LowerLevel(n)) = MakeNode(k, v, level - 1, m, r)
  <2> DEFINE a == MakeNode(k, v, level - 1, m, r)
  <2>1. Level(a) = level - 1 /\ Left(a) = m
    BY Made
  <2> HIDE DEF a
  <2>2. Level(a) # Level(Left(a))
    BY <2>1
  <2>3. Skew(a) = a
    BY <2>2, SkewTo
  <2> QED BY <1>3, <2>3 DEF a
<1>5. Right(Skew(LowerLevel(n))) # map_blank
  BY <1>4, Made, ShapedParts
<1>6. Skew(r) = r /\ Skew(Right(r)) = Right(r)
  BY <1>2, ShapedLevels
<1>7. made = SetRight(Split(b), Split(Right(Split(b))))
  BY <1>4, <1>6, RebalanceFrom
<1>8. Shaped(r1) /\ Level(r1) = level - 1 /\ Right(r1) = Right(r)
      /\ Left(r1) = Left(r) /\ Key(r1) = Key(r) /\ Value(r1) = Value(r)
  BY <1>1, MadeShaped, Made
<1>9. Level(Right(m)) \in Nat /\ Level(Right(m)) <= level - 2
      /\ Level(Right(Left(r))) \in Nat /\ Level(Right(Left(r))) <= level - 2
  BY <1>2, ShapedLevels
<1> HIDE DEF r1
<1>10. CASE Level(Right(r)) = level - 1
  <2> DEFINE low == MakeNode(k, v, level - 1, m, Left(r))
             top == MakeNode(Key(r), Value(r), level, low, Right(r))
  <2>1. Split(b) = top
    <3>1. (level - 1) + 1 = level
      OBVIOUS
    <3>2. Split(b) = MakeNode(Key(r1), Value(r1), (level - 1) + 1,
                              MakeNode(k, v, level - 1, m, Left(r1)), Right(r1))
      BY <1>8, <1>10, SplitTo
    <3> QED BY <1>8, <3>1, <3>2
  <2>2. AreParts(k, v, level - 1, m, Left(r))
    BY <1>2, <1>9 DEF AreParts
  <2>3. Shaped(low) /\ Level(low) = level - 1
    BY <2>2, MadeShaped, Made
  <2>4. Right(top) = Right(r) /\ SetRight(top, Right(r)) = top /\ Split(Right(r)) = Right(r)
    BY <1>2, Made, SetMade, ShapedLevels
  <2> HIDE DEF low
  <2>5. AreParts(Key(r), Value(r), level, low, Right(r))
    <3>1. Level(Right(Right(r))) < level
      <4>1. Level(Right(Right(r))) \in Nat
        BY <1>2, ShapedLevels
      <4> QED BY <1>2, <4>1
    <3> QED BY <1>2, <1>10, <2>3, <3>1 DEF AreParts
  <2>6. Shaped(top) /\ Level(top) = level
    BY <2>5, MadeShaped, Made
  <2> HIDE DEF top, b
  <2>7. made = top
    BY <1>7, <2>1, <2>4
  <2> HIDE DEF made
  <2>8. Shaped(made) /\ Level(made) = level /\ Level(Right(made)) < level
    BY <1>10, <2>4, <2>6, <2>7
  <2> QED BY <1>5, <2>8 DEF made
<1>11. CASE Level(Right(r)) = level - 2
  <2>1. AreParts(k, v, level - 1, m, r1)
    BY <1>8, <1>11 DEF AreParts
  <2>2. Shaped(b) /\ Level(b) = level - 1 /\ Right(b) = r1 /\ SetRight(b, r1) = b
    BY <2>1, MadeShaped, Made, SetMade
  <2> HIDE DEF b
  <2>3. Split(b) = b /\ Split(r1) = r1
    BY <1>8, <2>2, ShapedLevels
  <2>4. made = b
    BY <1>7, <2>2, <2>3
  <2> HIDE DEF made
  <2>5. Shaped(made) /\ Level(made) = level - 1 /\ Level(made) # level
    BY <2>2, <2>4
  <2> QED BY <1>5, <2>5 DEF made
<1> QED BY <1>2, <1>10, <1>11

(* A gap on the left, and the right branch is lowered with its node.        *)
LEMMA LeftGapHigh ==
  ASSUME NEW k, NEW v, NEW level, NEW m, NEW r,
         HasLeftGap(k, v, level, m, r), Level(r) = level
  PROVE  LET n == MakeNode(k, v, level, m, r)
             made == Rebalance(n)
         IN /\ Shaped(made) /\ Level(made) = level
            /\ Right(Skew(LowerLevel(n))) # map_blank
<1> DEFINE n == MakeNode(k, v, level, m, r)
           made == Rebalance(n)
           x == Left(r)
           z == Right(r)
           y == Right(x)
           r0 == MakeNode(Key(r), Value(r), level - 1, x, z)
           q == MakeNode(Key(r), Value(r), level - 1, y, z)
           low == MakeNode(k, v, level - 1, m, Left(x))
<1>0. /\ k \in Int /\ v \in Int /\ level - 1 \in Nat \ {0} /\ level \in Nat \ {0}
      /\ Shaped(m) /\ Level(m) = level - 2 /\ Shaped(r) /\ Level(Right(r)) < level
  BY DEF HasLeftGap
<1> USE <1>0
<1>1. /\ Key(r) \in Int /\ Value(r) \in Int
      /\ Shaped(x) /\ Level(x) = level - 1
      /\ Shaped(z) /\ Level(z) = level - 1
  <2>1. AreParts(Key(r), Value(r), level, x, z)
    BY ShapedParts
  <2> QED BY <2>1 DEF AreParts
<1> HIDE DEF x, z
<1>2. /\ Key(x) \in Int /\ Value(x) \in Int
      /\ Shaped(Left(x)) /\ Level(Left(x)) = level - 2
      /\ Shaped(y) /\ Level(y) \in {level - 2, level - 1} /\ Level(Right(y)) < level - 1
  <2>1. AreParts(Key(x), Value(x), level - 1, Left(x), y)
    BY <1>1, ShapedParts
  <2> QED BY <2>1 DEF AreParts
<1>3. /\ Key(z) \in Int /\ Value(z) \in Int
      /\ Shaped(Left(z)) /\ Level(Left(z)) = level - 2
      /\ Shaped(Right(z)) /\ Level(Right(z)) \in {level - 2, level - 1}
      /\ Level(Right(Right(z))) < level - 1 /\ Level(Right(Right(z))) \in Nat
  <2>1. AreParts(Key(z), Value(z), level - 1, Left(z), Right(z))
    BY <1>1, ShapedParts
  <2> QED BY <2>1, ShapedLevels DEF AreParts
<1> HIDE DEF y
<1>4. LowerLevel(n) = MakeNode(k, v, level - 1, m, r0)
  BY LowerTo DEF x, z
<1>5. Skew(LowerLevel(n)) = MakeNode(k, v, level - 1, m, r0)
  <2> DEFINE a == MakeNode(k, v, level - 1, m, r0)
  <2>1. Level(a) = level - 1 /\ Left(a) = m
    BY Made
  <2> HIDE DEF a
  <2>2. Level(a) # Level(Left(a))
    BY <2>1
  <2>3. Skew(a) = a
    BY <2>2, SkewTo
  <2> QED BY <1>4, <2>3 DEF a
<1>6. Right(Skew(LowerLevel(n))) # map_blank
  BY <1>5, Made
<1> DEFINE right == MakeNode(Key(x), Value(x), level - 1, Left(x), q)
<1>7. Skew(r0) = right
  BY <1>1, SkewTo DEF y
<1>8. /\ Key(right) = Key(x) /\ Value(right) = Value(x) /\ Level(right) = level - 1
      /\ Left(right) = Left(x) /\ Right(right) = q
  BY Made
<1>9. Level(Right(Left(x))) \in Nat /\ Level(Right(Left(x))) <= level - 2
      /\ Level(Right(Left(z))) \in Nat /\ Level(Right(Left(z))) <= level - 2
      /\ Level(Right(z)) \in Nat
  BY <1>2, <1>3, ShapedLevels
<1>10. Shaped(low) /\ Level(low) = level - 1
  <2>1. AreParts(k, v, level - 1, m, Left(x))
    BY <1>2, <1>9 DEF AreParts
  <2> QED BY <2>1, MadeShaped, Made
(* The first split always lifts x; the second one looks at what q became.   *)
<1>11. ASSUME NEW t, Skew(q) = t, Level(t) = level - 1, NEW u, Split(t) = u,
              Shaped(u), Level(u) \in {level - 1, level}, Level(Right(u)) < level
       PROVE  Shaped(made) /\ Level(made) = level
  <2> DEFINE s == MakeNode(Key(x), Value(x), level - 1, Left(x), t)
             b == MakeNode(k, v, level - 1, m, s)
             top == MakeNode(Key(x), Value(x), level, low, t)
             all == MakeNode(Key(x), Value(x), level, low, u)
  <2>1. made = SetRight(Split(b), Split(Right(Split(b))))
    <3> HIDE DEF right, r0, q, n
    <3>1. made = LET rt == Skew(r0)
                     bb == MakeNode(k, v, level - 1, m,
                             MakeNode(Key(rt), Value(rt), Level(rt), Left(rt), Skew(Right(rt))))
                 IN SetRight(Split(bb), Split(Right(Split(bb))))
      BY <1>5, RebalanceFrom
    <3> QED BY <1>7, <1>8, <1>11, <3>1
  <2>2. Split(b) = top
    <3>1. (level - 1) + 1 = level
      OBVIOUS
    <3>2. Key(s) = Key(x) /\ Value(s) = Value(x) /\ Left(s) = Left(x) /\ Right(s) = t
      BY Made
    <3> HIDE DEF s
    <3>3. Split(b) = MakeNode(Key(s), Value(s), (level - 1) + 1,
                              MakeNode(k, v, level - 1, m, Left(s)), Right(s))
      BY <1>11, <3>2, SplitTo
    <3> QED BY <3>1, <3>2, <3>3
  <2>3. Right(top) = t /\ SetRight(top, u) = all
    BY Made, SetMade
  <2> HIDE DEF low
  <2>4. AreParts(Key(x), Value(x), level, low, u)
    BY <1>2, <1>10, <1>11 DEF AreParts
  <2>5. Shaped(all) /\ Level(all) = level
    BY <2>4, MadeShaped, Made
  <2> HIDE DEF top, b, all
  <2>6. made = all
    BY <1>11, <2>1, <2>2, <2>3
  <2> QED BY <2>5, <2>6
<1>12. Shaped(made) /\ Level(made) = level
  <2>1. CASE Level(y) = level - 2
    <3>1. Skew(q) = q
      <4>1. Level(q) = level - 1 /\ Left(q) = y
        BY Made
      <4> HIDE DEF q
      <4>2. Level(q) # Level(Left(q))
        BY <2>1, <4>1
      <4> QED BY <4>2, SkewTo
    <3>2. Level(q) = level - 1
      BY Made
    <3>3. CASE Level(Right(z)) = level - 1
      <4> DEFINE p == MakeNode(Key(r), Value(r), level - 1, y, Left(z))
                 u == MakeNode(Key(z), Value(z), level, p, Right(z))
      <4>1. Split(q) = u
        <5>1. (level - 1) + 1 = level
          OBVIOUS
        <5>2. Split(q) = MakeNode(Key(z), Value(z), (level - 1) + 1,
                           MakeNode(Key(r), Value(r), level - 1, y, Left(z)), Right(z))
          BY <3>3, SplitTo
        <5> QED BY <5>1, <5>2
      <4>2. AreParts(Key(r), Value(r), level - 1, y, Left(z))
        BY <1>1, <1>2, <1>3, <1>9, <2>1 DEF AreParts
      <4>3. Shaped(p) /\ Level(p) = level - 1
        BY <4>2, MadeShaped, Made
      <4> HIDE DEF p
      <4>4. AreParts(Key(z), Value(z), level, p, Right(z))
        BY <1>3, <3>3, <4>3 DEF AreParts
      <4>5. Shaped(u) /\ Level(u) = level /\ Level(Right(u)) < level
        BY <3>3, <4>4, MadeShaped, Made
      <4> HIDE DEF u, q, made
      <4> QED BY <1>11, <3>1, <3>2, <4>1, <4>5
    <3>4. CASE Level(Right(z)) = level - 2
      <4>1. AreParts(Key(r), Value(r), level - 1, y, z)
        BY <1>1, <1>2, <2>1, <3>4 DEF AreParts
      <4>2. Shaped(q) /\ Right(q) = z
        BY <4>1, MadeShaped, Made
      <4> HIDE DEF q, made
      <4>3. Split(q) = q /\ Level(Right(q)) < level
        BY <1>1, <4>2, ShapedLevels
      <4> QED BY <1>11, <3>1, <3>2, <4>2, <4>3
    <3> QED BY <1>3, <3>3, <3>4
  <2>2. CASE Level(y) = level - 1
    <3> DEFINE z2 == MakeNode(Key(r), Value(r), level - 1, Right(y), z)
               q2 == MakeNode(Key(y), Value(y), level - 1, Left(y), z2)
               p == MakeNode(Key(y), Value(y), level - 1, Left(y), Right(y))
               u == MakeNode(Key(r), Value(r), level, p, z)
    <3>1. Skew(q) = q2
      BY <2>2, SkewTo
    <3>2. AreParts(Key(y), Value(y), level - 1, Left(y), Right(y))
      BY <1>2, <2>2, ShapedParts
    <3>3. Shaped(p) /\ Level(p) = level - 1
      BY <3>2, MadeShaped, Made
    <3>4. Level(q2) = level - 1
      BY Made
    <3>5. Split(q2) = u
      <4>1. (level - 1) + 1 = level
        OBVIOUS
      <4>2. /\ Key(z2) = Key(r) /\ Value(z2) = Value(r)
            /\ Left(z2) = Right(y) /\ Right(z2) = z
        BY Made
      <4> HIDE DEF z2
      <4>3. Split(q2) = MakeNode(Key(z2), Value(z2), (level - 1) + 1,
                         MakeNode(Key(y), Value(y), level - 1, Left(y), Left(z2)), Right(z2))
        BY <1>1, <4>2, SplitTo
      <4> QED BY <4>1, <4>2, <4>3
    <3> HIDE DEF p
    <3>6. AreParts(Key(r), Value(r), level, p, z)
      <4>1. Level(Right(z)) < level
        BY <1>3, <1>9
      <4> QED BY <1>1, <3>3, <4>1 DEF AreParts
    <3>7. Shaped(u) /\ Level(u) = level /\ Level(Right(u)) < level
      BY <1>1, <3>6, MadeShaped, Made
    <3> HIDE DEF u, q2, q, made
    <3> QED BY <1>11, <3>1, <3>4, <3>5, <3>7
  <2> QED BY <1>2, <2>1, <2>2
<1> QED BY <1>6, <1>12

LEMMA LeftShrunk ==
  ASSUME NEW k, NEW v, NEW level, NEW l, NEW r, NEW m,
         AreParts(k, v, level, l, r), IsShrunk(m, l)
  PROVE  LET n == MakeNode(k, v, level, m, r)
             made == CloseGap(n)
         IN /\ Shaped(made) /\ Level(made) \in {level - 1, level}
            /\ Level(made) = level /\ Level(r) < level => Level(Right(made)) < level
            /\ HasGap(n) => level > 1 /\ Right(Skew(LowerLevel(n))) # map_blank
<1> DEFINE n == MakeNode(k, v, level, m, r)
           made == CloseGap(n)
<1>1. /\ k \in Int /\ v \in Int /\ level \in Nat \ {0}
      /\ Shaped(r) /\ Level(r) \in {level - 1, level} /\ Level(Right(r)) < level
      /\ Shaped(m) /\ Level(m) \in Nat /\ Level(m) \in {level - 2, level - 1}
  BY ShapedParts DEF AreParts, IsShrunk
<1>2. HasGap(n) <=> Level(m) < level - 1
  BY <1>1, GapOf
<1>3. CASE ~ HasGap(n)
  <2>1. AreParts(k, v, level, m, r)
    BY <1>1, <1>2, <1>3 DEF AreParts
  <2>2. Shaped(n) /\ Level(n) = level /\ Right(n) = r
    BY <2>1, MadeShaped, Made
  <2>3. made = n
    BY <1>3 DEF CloseGap
  <2> QED BY <1>3, <2>2, <2>3
<1>4. CASE HasGap(n)
  <2>1. Level(m) = level - 2 /\ level - 1 \in Nat \ {0} /\ level > 1
    BY <1>1, <1>2, <1>4
  <2>2. made = Rebalance(n)
    BY <1>4 DEF CloseGap
  <2>3. HasLeftGap(k, v, level, m, r)
    BY <1>1, <2>1 DEF HasLeftGap
  <2>4. CASE Level(r) = level - 1
    BY <2>1, <2>2, <2>4, <2>3, LeftGapLow
  <2>5. CASE Level(r) = level
    <3>1. /\ Shaped(Rebalance(n)) /\ Level(Rebalance(n)) = level
          /\ Right(Skew(LowerLevel(n))) # map_blank
      BY <2>5, <2>3, LeftGapHigh
    <3> HIDE DEF n
    <3>2. Shaped(made) /\ Level(made) = level /\ ~ (Level(r) < level)
      BY <1>1, <2>2, <2>5, <3>1
    <3> QED BY <2>1, <3>1, <3>2 DEF n
  <2> QED BY <1>1, <2>4, <2>5
<1> QED BY <1>3, <1>4

-----------------------------------------------------------------------------
(* The pairs of a tree.                                                     *)
Drop(S, k) == {p \in S : p[1] # k}
Put(S, k, v) == Drop(S, k) \cup {<< k, v >>}

LEMMA HasPair ==
  \A t : /\ \A n \in Has(t) : << n.key, n.value >> \in PairsOf(t)
         /\ \A k \in KeysOf(t) : \E n \in Has(t) : n.key = k
         /\ \A p \in PairsOf(t) : p[1] \in KeysOf(t)
         /\ \A p \in PairsOf(t) : p = << p[1], p[2] >>
<1> TAKE t
<1>1. \A n \in Has(t) : << n.key, n.value >> \in PairsOf(t)
  BY DEF PairsOf
<1>2. \A k \in KeysOf(t) : \E n \in Has(t) : n.key = k
  BY DEF KeysOf
<1>3. \A p \in PairsOf(t) : p[1] \in KeysOf(t)
  BY KeysOfPairs
<1>4. \A p \in PairsOf(t) : p = << p[1], p[2] >>
  BY DEF PairsOf
<1> QED BY <1>1, <1>2, <1>3, <1>4

LEMMA PutKeys ==
  \A t, u, k, v : PairsOf(u) = Put(PairsOf(t), k, v) => KeysOf(u) = KeysOf(t) \cup {k}
<1> SUFFICES ASSUME NEW t, NEW u, NEW k, NEW v, PairsOf(u) = Put(PairsOf(t), k, v)
             PROVE  KeysOf(u) = KeysOf(t) \cup {k}
  OBVIOUS
<1>1. << k, v >>[1] = k
  OBVIOUS
<1>2. KeysOf(t) = {p[1] : p \in PairsOf(t)} /\ KeysOf(u) = {p[1] : p \in PairsOf(u)}
  BY KeysOfPairs
<1>3. ASSUME NEW x \in KeysOf(u) PROVE x \in KeysOf(t) \cup {k}
  BY <1>1, <1>2 DEF Put, Drop
<1>4. ASSUME NEW x \in KeysOf(t) \cup {k} PROVE x \in KeysOf(u)
  BY <1>1, <1>2 DEF Put, Drop
<1> QED BY <1>3, <1>4

LEMMA DropKeys ==
  \A t, u, k : PairsOf(u) = Drop(PairsOf(t), k) => KeysOf(u) = KeysOf(t) \ {k}
<1> SUFFICES ASSUME NEW t, NEW u, NEW k, PairsOf(u) = Drop(PairsOf(t), k)
             PROVE  KeysOf(u) = KeysOf(t) \ {k}
  OBVIOUS
<1>1. KeysOf(t) = {p[1] : p \in PairsOf(t)} /\ KeysOf(u) = {p[1] : p \in PairsOf(u)}
  BY KeysOfPairs
<1> QED BY <1>1 DEF Drop

LEMMA DropOthers ==
  \A t, k : k \notin KeysOf(t) => Drop(PairsOf(t), k) = PairsOf(t)
BY HasPair DEF Drop

(* A key has one value.                                                     *)
LEMMA UniquePairs ==
  \A t : IsSearchTree(t) => \A p, q \in PairsOf(t) : p[1] = q[1] => p = q
<1> DEFINE P == {t \in AllTrees : IsSearchTree(t) =>
                    \A p, q \in PairsOf(t) : p[1] = q[1] => p = q}
<1>1. map_blank \in P
  BY BlankSearchTree, AllTreesNodes
<1>2. ASSUME NEW n \in AllTrees, n # map_blank, n.left \in P, n.right \in P PROVE n \in P
  <2> SUFFICES ASSUME IsSearchTree(n), NEW p \in PairsOf(n), NEW q \in PairsOf(n), p[1] = q[1]
               PROVE  p = q
    OBVIOUS
  <2>1. /\ n.key \in Int /\ IsSearchTree(n.left) /\ IsSearchTree(n.right)
        /\ \A k \in KeysOf(n.left) : k < n.key
        /\ \A k \in KeysOf(n.right) : n.key < k
        /\ PairsOf(n) = {<< n.key, n.value >>} \cup PairsOf(n.left) \cup PairsOf(n.right)
    BY <1>2, SearchTreeParts
  <2>2. /\ \A x, y \in PairsOf(n.left) : x[1] = y[1] => x = y
        /\ \A x, y \in PairsOf(n.right) : x[1] = y[1] => x = y
    BY <1>2, <2>1
  <2>3. /\ \A x \in PairsOf(n.left) : x[1] \in Int /\ x[1] < n.key
        /\ \A x \in PairsOf(n.right) : x[1] \in Int /\ n.key < x[1]
    BY <2>1, HasPair, KeysOfTypes
  <2>4. << n.key, n.value >>[1] = n.key
    OBVIOUS
  <2> HIDE DEF P
  <2>5. CASE p = << n.key, n.value >>
    BY <2>1, <2>3, <2>4, <2>5
  <2>6. CASE p \in PairsOf(n.left)
    <3>1. q \notin PairsOf(n.right) /\ q # << n.key, n.value >>
      BY <2>1, <2>3, <2>4, <2>6
    <3> QED BY <2>1, <2>2, <2>6, <3>1
  <2>7. CASE p \in PairsOf(n.right)
    <3>1. q \notin PairsOf(n.left) /\ q # << n.key, n.value >>
      BY <2>1, <2>3, <2>4, <2>7
    <3> QED BY <2>1, <2>2, <2>7, <3>1
  <2> QED BY <2>1, <2>5, <2>6, <2>7
<1> HIDE DEF P
<1>3. P = AllTrees
  <2>1. P \in SUBSET AllTrees
    BY DEF P
  <2> QED BY <1>1, <1>2, <2>1, TreesHoldBranches, TreeInduction
<1> QED BY <1>3 DEF P, IsSearchTree

(* A search tree is as deep as it has keys at most, and knows its size.     *)
LEMMA SearchTreeSize ==
  \A t : IsSearchTree(t) =>
      /\ IsFiniteSet(KeysOf(t)) /\ Cardinality(KeysOf(t)) \in Nat
      /\ Get(t).size = Cardinality(KeysOf(t))
      /\ t \in TreesTo[Cardinality(KeysOf(t))]
      /\ t \in Trees
<1>1. ASSUME NEW t, IsSearchTree(t)
      PROVE  /\ IsFiniteSet(KeysOf(t)) /\ Cardinality(KeysOf(t)) \in Nat
             /\ Cardinality(KeysOf(t)) <= Cardinality(Keys)
  <2>1. KeysOf(t) \subseteq Keys /\ IsFiniteSet(Keys)
    BY <1>1, KeysOfTypes, KeysAssumption
  <2> QED BY <2>1, FS_Subset, FS_CardinalityType
<1> DEFINE P == {t \in AllTrees : IsSearchTree(t) =>
                    /\ Get(t).size = Cardinality(KeysOf(t))
                    /\ t \in TreesTo[Cardinality(KeysOf(t))]}
<1>2. map_blank \in P
  BY BlankSearchTree, BlankFields, BlankTree, FS_EmptySet, AllTreesNodes
<1>3. ASSUME NEW n \in AllTrees, n # map_blank, n.left \in P, n.right \in P PROVE n \in P
  <2> SUFFICES ASSUME IsSearchTree(n)
               PROVE  /\ Get(n).size = Cardinality(KeysOf(n))
                      /\ n \in TreesTo[Cardinality(KeysOf(n))]
    OBVIOUS
  <2> DEFINE kl == KeysOf(n.left)
             kr == KeysOf(n.right)
             l == Cardinality(kl)
             r == Cardinality(kr)
             d == l + r
  <2>1. /\ Get(n) = n /\ n.key \in Int
        /\ n.size = 1 + Get(n.left).size + Get(n.right).size
        /\ IsSearchTree(n.left) /\ IsSearchTree(n.right)
        /\ \A k \in kl : k < n.key
        /\ \A k \in kr : n.key < k
        /\ KeysOf(n) = {n.key} \cup kl \cup kr
    BY <1>3, SearchTreeParts
  <2>2. /\ Get(n.left).size = l /\ n.left \in TreesTo[l]
        /\ Get(n.right).size = r /\ n.right \in TreesTo[r]
        /\ IsFiniteSet(kl) /\ IsFiniteSet(kr) /\ l \in Nat /\ r \in Nat
    BY <1>1, <1>3, <2>1
  <2>3. kl \subseteq Int /\ kr \subseteq Int
    BY <2>1, KeysOfTypes
  <2> HIDE DEF P, kl, kr
  <2>4. Cardinality(kl \cup kr) = l + r /\ IsFiniteSet(kl \cup kr)
    <3>1. kl \cap kr = {}
      BY <2>1, <2>3
    <3>2. IsFiniteSet(kl \cup kr)
          /\ Cardinality(kl \cup kr) = Cardinality(kl) + Cardinality(kr) - Cardinality(kl \cap kr)
      BY <2>2, FS_Union
    <3>3. Cardinality(kl \cap kr) = 0
      BY <3>1, FS_EmptySet
    <3>4. Cardinality(kl \cup kr) = l + r - 0
      BY <3>2, <3>3
    <3> HIDE DEF l, r
    <3> QED BY <2>2, <3>2, <3>4
  <2>5. Cardinality(KeysOf(n)) = d + 1
    <3>1. n.key \notin kl \cup kr
      BY <2>1
    <3>2. KeysOf(n) = (kl \cup kr) \cup {n.key}
      BY <2>1
    <3> QED BY <2>4, <3>1, <3>2, FS_AddElement
  <2>6. n.size = d + 1
    BY <2>1, <2>2
  <2> HIDE DEF l, r
  <2>7. d \in Nat /\ l <= d /\ r <= d /\ d + 1 \in Nat /\ d + 1 # 0 /\ (d + 1) - 1 = d
    BY <2>2
  <2> HIDE DEF d
  <2>8. n.left \in TreesTo[d] /\ n.right \in TreesTo[d]
    BY <2>2, <2>7, DepthsInside
  <2>9. n \in NodesOn(TreesTo[d])
    <3>1. n \in NodesOn(AllTrees)
      BY <1>3, AllTreesNodes
    <3> QED BY <2>8, <3>1 DEF NodesOn
  <2>10. n \in TreesTo[d + 1]
    BY <2>7, <2>9, TreesUnfold
  <2> QED BY <2>1, <2>5, <2>6, <2>10
<1> HIDE DEF P
<1>4. P = AllTrees
  <2>1. P \in SUBSET AllTrees
    BY DEF P
  <2> QED BY <1>2, <1>3, <2>1, TreesHoldBranches, TreeInduction
<1>5. ASSUME NEW t, IsSearchTree(t)
      PROVE  Get(t).size = Cardinality(KeysOf(t)) /\ t \in TreesTo[Cardinality(KeysOf(t))]
  BY <1>4, <1>5 DEF P, IsSearchTree
<1>6. ASSUME NEW t, IsSearchTree(t) PROVE t \in Trees
  <2>1. Cardinality(Keys) \in Nat
    BY KeysAssumption, FS_CardinalityType
  <2>2. TreesTo[Cardinality(KeysOf(t))] \subseteq TreesTo[Cardinality(Keys)]
    BY <1>1, <1>6, <2>1, DepthsInside
  <2> QED BY <1>5, <1>6, <2>2 DEF Trees
<1> QED BY <1>1, <1>5, <1>6

(* The leftmost node has the least key.                                     *)
LEMMA LeftmostKey ==
  \A t : IsSearchTree(t) /\ t # map_blank =>
      /\ Leftmost(t) \in Has(t)
      /\ \A k \in KeysOf(t) : k # Leftmost(t).key => Leftmost(t).key < k
<1> DEFINE P == {t \in Trees : IsSearchTree(t) /\ t # map_blank =>
                    /\ Leftmost(t) \in Has(t)
                    /\ \A k \in KeysOf(t) : k # Leftmost(t).key => Leftmost(t).key < k}
<1>1. ASSUME NEW n \in Trees, n # map_blank, n.left \in P PROVE n \in P
  <2> SUFFICES ASSUME IsSearchTree(n)
               PROVE  /\ Leftmost(n) \in Has(n)
                      /\ \A k \in KeysOf(n) : k # Leftmost(n).key => Leftmost(n).key < k
    OBVIOUS
  <2>1. /\ n \in AllTrees /\ n.key \in Int /\ IsSearchTree(n.left) /\ IsSearchTree(n.right)
        /\ \A k \in KeysOf(n.left) : k < n.key
        /\ \A k \in KeysOf(n.right) : n.key < k
        /\ KeysOf(n) = {n.key} \cup KeysOf(n.left) \cup KeysOf(n.right)
    BY <1>1, SearchTreeParts
  <2>2. Has(n) = {n} \cup Has(n.left) \cup Has(n.right)
    BY <1>1, <2>1, NodeParts
  <2>3. LeftSpine[n] = Append(LeftSpine[n.left], n) /\ n.left \in Trees
    BY <1>1, SpineUnfolds, TreesHoldBranches DEF HoldsBranches
  <2>4. CASE n.left = map_blank
    <3>1. LeftSpine[n] = << n >>
      <4>1. LeftSpine[map_blank] = << >>
        BY SpineUnfolds, TreesHoldBranches
      <4> QED BY <2>3, <2>4, <4>1
    <3>2. Leftmost(n) = n
      BY <3>1 DEF Leftmost
    <3>3. KeysOf(n.left) = {}
      BY <2>4, BlankSearchTree
    <3> QED BY <2>1, <2>2, <3>2, <3>3
  <2>5. CASE n.left # map_blank
    <3>1. LeftSpine[n.left] \in Seq(Trees \ {map_blank}) /\ LeftSpine[n.left] # << >>
      BY <2>3, <2>5, SpineType
    <3>2. Leftmost(n) = Leftmost(n.left)
      <4>1. n \in Trees \ {map_blank}
        BY <1>1
      <4>2. Append(LeftSpine[n.left], n)[1] = LeftSpine[n.left][1]
        BY <3>1, <4>1, AppendProperties, EmptySeq, LenProperties
      <4> QED BY <2>3, <4>2 DEF Leftmost
    <3>3. /\ Leftmost(n) \in Has(n.left)
          /\ \A k \in KeysOf(n.left) : k # Leftmost(n).key => Leftmost(n).key < k
      BY <1>1, <2>1, <2>5, <3>2
    <3>4. Leftmost(n).key \in KeysOf(n.left)
      BY <3>3 DEF KeysOf
    <3>5. Leftmost(n).key < n.key /\ Leftmost(n).key \in Int
      BY <2>1, <3>4, KeysOfTypes
    <3>6. KeysOf(n.right) \subseteq Int
      BY <2>1, KeysOfTypes
    <3>7. \A k \in KeysOf(n.right) : Leftmost(n).key < k
      BY <2>1, <3>5, <3>6
    <3> QED BY <2>1, <2>2, <3>3, <3>5, <3>7
  <2> QED BY <2>4, <2>5
<1> HIDE DEF P
<1>2. P = Trees
  <2>1. P \in SUBSET Trees
    BY DEF P
  <2>2. map_blank \in P
    BY TreesHoldBranches DEF P
  <2> QED BY <1>1, <2>1, <2>2, TreesHoldBranches, TreeInduction
<1> QED BY <1>2, SearchTreeSize DEF P

-----------------------------------------------------------------------------
(* What insert, remove and find do to a map.                                *)
IsMap(t) == IsSearchTree(t) /\ Shaped(t)

LEMMA MapParts ==
  ASSUME NEW n, IsMap(n), n # map_blank
  PROVE  /\ n \in AllTrees /\ n \in Trees /\ Get(n) = n
         /\ n.key \in Keys /\ n.key \in Int /\ n.value \in Int
         /\ IsMap(n.left) /\ IsMap(n.right)
         /\ \A k \in KeysOf(n.left) : k \in Int /\ k < n.key
         /\ \A k \in KeysOf(n.right) : k \in Int /\ n.key < k
         /\ KeysOf(n) = {n.key} \cup KeysOf(n.left) \cup KeysOf(n.right)
         /\ PairsOf(n) = {<< n.key, n.value >>} \cup PairsOf(n.left) \cup PairsOf(n.right)
         /\ Level(n) = n.level /\ Left(n) = n.left /\ Right(n) = n.right
         /\ Key(n) = n.key /\ Value(n) = n.value
         /\ AreParts(n.key, n.value, n.level, n.left, n.right)
<1>1. /\ n \in AllTrees /\ Get(n) = n
      /\ n.key \in Keys /\ n.key \in Int /\ n.value \in Int
      /\ IsSearchTree(n.left) /\ IsSearchTree(n.right)
      /\ \A k \in KeysOf(n.left) : k < n.key
      /\ \A k \in KeysOf(n.right) : n.key < k
      /\ KeysOf(n) = {n.key} \cup KeysOf(n.left) \cup KeysOf(n.right)
      /\ PairsOf(n) = {<< n.key, n.value >>} \cup PairsOf(n.left) \cup PairsOf(n.right)
  BY SearchTreeParts DEF IsMap
<1>2. /\ Level(n) = n.level /\ Left(n) = n.left /\ Right(n) = n.right
      /\ Key(n) = n.key /\ Value(n) = n.value
  BY <1>1 DEF Level, Left, Right, Key, Value
<1>3. AreParts(n.key, n.value, n.level, n.left, n.right)
  <2>1. Shaped(n)
    BY DEF IsMap
  <2>2. AreParts(Key(n), Value(n), Level(n), Left(n), Right(n))
    BY <2>1, ShapedParts
  <2> QED BY <1>2, <2>2
<1>4. IsMap(n.left) /\ IsMap(n.right)
  BY <1>1, <1>3 DEF AreParts, IsMap
<1>5. n \in Trees
  BY SearchTreeSize DEF IsMap
<1>6. \A k \in KeysOf(n.left) \cup KeysOf(n.right) : k \in Int
  BY <1>1, KeysOfTypes
<1> QED BY <1>1, <1>2, <1>3, <1>4, <1>5, <1>6

LEMMA BlankMap == IsMap(map_blank) /\ map_blank \in Trees
BY BlankSearchTree, BlankShaped, TreesHoldBranches DEF IsMap

(* A node with a new branch, or with a new key, is a search tree again.     *)
LEMMA JoinedTree ==
  ASSUME NEW k \in Keys, NEW v \in Int, NEW level \in Nat \ {0}, NEW l, NEW r,
         IsSearchTree(l), IsSearchTree(r),
         \A x \in KeysOf(l) : x < k, \A x \in KeysOf(r) : k < x
  PROVE  /\ IsSearchTree(MakeNode(k, v, level, l, r))
         /\ PairsOf(MakeNode(k, v, level, l, r)) = {<< k, v >>} \cup PairsOf(l) \cup PairsOf(r)
<1>1. IsSearchTree(MakeNode(k, v, level, l, r))
  BY MadeSearchTree
<1>2. MakeNode(k, v, level, l, r) \in AllTrees
  BY <1>1 DEF IsSearchTree
<1> QED BY <1>1, <1>2, MadeNode

LEMMA CloseGapSame ==
  ASSUME NEW n, IsSearchTree(n),
         HasGap(n) => Level(n) > 1 /\ Right(Skew(LowerLevel(n))) # map_blank
  PROVE  IsSame(CloseGap(n), n)
BY RebalanceSame, SearchLevel DEF CloseGap

IsInserted(m, n, key, value) ==
    /\ IsMap(m) /\ IsGrown(m, n)
    /\ PairsOf(m) = Put(PairsOf(n), key, value)

LEMMA Inserted ==
  ASSUME NEW key \in Keys, NEW value \in Int
  PROVE  \A n : IsMap(n) => IsInserted(InsertInto(n, key, value), n, key, value)
<1>0. key \in Int
  BY KeysAssumption
<1> DEFINE new(n) == InsertInto(n, key, value)
           P == {n \in Trees : IsMap(n) => IsInserted(new(n), n, key, value)}
<1>1. \A n \in Trees : new(n) = InsertedAt(n, key, value, new(n.left), new(n.right))
  BY <1>0, InsertUnfolds
<1>2. map_blank \in P
  <2> DEFINE m == MakeNode(key, value, 1, map_blank, map_blank)
  <2>1. map_blank \in Trees /\ new(map_blank) = m
    BY <1>1, TreesHoldBranches DEF InsertedAt
  <2>2. 1 \in Nat \ {0} /\ 1 - 1 = 0
    OBVIOUS
  <2>3. IsSearchTree(m) /\ PairsOf(m) = {<< key, value >>}
    BY <2>2, JoinedTree, BlankSearchTree
  <2>4. AreParts(key, value, 1, map_blank, map_blank)
    BY <1>0, <2>2, BlankShaped, BlankFields DEF AreParts
  <2>5. Shaped(m) /\ Level(m) = 1 /\ Right(m) = map_blank
    BY <2>4, MadeShaped, Made
  <2> HIDE DEF m
  <2>6. IsGrown(m, map_blank)
    BY <2>5, BlankFields DEF IsGrown
  <2>7. PairsOf(m) = Put(PairsOf(map_blank), key, value)
    BY <2>3, BlankSearchTree DEF Put, Drop
  <2> QED BY <2>1, <2>3, <2>5, <2>6, <2>7 DEF IsInserted, IsMap
<1>3. ASSUME NEW n \in Trees, n # map_blank, n.left \in P, n.right \in P PROVE n \in P
  <2> SUFFICES ASSUME IsMap(n) PROVE IsInserted(new(n), n, key, value)
    OBVIOUS
  <2>1. /\ n \in AllTrees /\ Get(n) = n
        /\ n.key \in Keys /\ n.key \in Int /\ n.value \in Int
        /\ IsMap(n.left) /\ IsMap(n.right)
        /\ \A k \in KeysOf(n.left) : k \in Int /\ k < n.key
        /\ \A k \in KeysOf(n.right) : k \in Int /\ n.key < k
        /\ KeysOf(n) = {n.key} \cup KeysOf(n.left) \cup KeysOf(n.right)
        /\ PairsOf(n) = {<< n.key, n.value >>} \cup PairsOf(n.left) \cup PairsOf(n.right)
        /\ Level(n) = n.level /\ Left(n) = n.left /\ Right(n) = n.right
        /\ AreParts(n.key, n.value, n.level, n.left, n.right)
    BY <1>3, MapParts
  <2>2. n.level \in Nat \ {0}
    BY <2>1 DEF AreParts
  <2>3. /\ IsInserted(new(n.left), n.left, key, value)
        /\ IsInserted(new(n.right), n.right, key, value)
    BY <1>3, <2>1
  <2>4. KeysOf(new(n.left)) = KeysOf(n.left) \cup {key}
        /\ KeysOf(new(n.right)) = KeysOf(n.right) \cup {key}
    BY <2>3, PutKeys DEF IsInserted
  <2>5. new(n) = IF key = n.key THEN SetValue(n, value)
                 ELSE Split(Skew(IF key < n.key THEN SetLeft(n, new(n.left))
                                                ELSE SetRight(n, new(n.right))))
    <3> HIDE DEF new
    <3> QED BY <1>1, <1>3 DEF InsertedAt
  <2> HIDE DEF P, new
  <2>6. \A p \in PairsOf(n.left) \cup PairsOf(n.right) : p[1] # n.key
    <3>1. n.key \notin KeysOf(n.left) /\ n.key \notin KeysOf(n.right)
      BY <2>1
    <3> QED BY <3>1, HasPair
  <2>7. << n.key, n.value >>[1] = n.key /\ << key, value >>[1] = key
    OBVIOUS
  <2>8. CASE key = n.key
    <3> DEFINE m == MakeNode(n.key, value, n.level, n.left, n.right)
    <3>1. new(n) = m
      BY <2>1, <2>5, <2>8 DEF SetValue
    <3>2. IsSearchTree(m)
          /\ PairsOf(m) = {<< n.key, value >>} \cup PairsOf(n.left) \cup PairsOf(n.right)
      BY <2>1, <2>2, JoinedTree DEF IsMap
    <3>3. AreParts(n.key, value, n.level, n.left, n.right)
      BY <2>1 DEF AreParts
    <3>4. Shaped(m) /\ Level(m) = n.level
      BY <3>3, MadeShaped, Made
    <3> HIDE DEF m
    <3>5. PairsOf(m) = Put(PairsOf(n), key, value)
      BY <2>1, <2>6, <2>7, <2>8, <3>2 DEF Put, Drop
    <3>6. IsGrown(m, n)
      BY <2>1, <3>4 DEF IsGrown
    <3> QED BY <3>1, <3>2, <3>4, <3>5, <3>6 DEF IsInserted, IsMap
  <2>9. CASE key < n.key
    <3> DEFINE b == new(n.left)
               joined == MakeNode(n.key, n.value, n.level, b, n.right)
               m == Split(Skew(joined))
    <3>1. new(n) = m
      BY <1>0, <2>1, <2>5, <2>9 DEF SetLeft
    <3>2. IsSearchTree(joined)
          /\ PairsOf(joined) = {<< n.key, n.value >>} \cup PairsOf(b) \cup PairsOf(n.right)
      BY <2>1, <2>2, <2>3, <2>4, <2>9, JoinedTree DEF IsMap, IsInserted
    <3>3. IsSame(m, joined)
      <4> HIDE DEF joined
      <4>1. IsSame(Skew(joined), joined)
        BY <3>2, SkewSame
      <4>2. IsSame(m, Skew(joined))
        BY <4>1, SplitSame DEF IsSame
      <4> QED BY <4>1, <4>2, SameTransitive
    <3>4. /\ Shaped(m)
          /\ \/ Level(m) = n.level
             \/ Level(m) = n.level + 1 /\ Level(n.right) = n.level /\ Level(Right(m)) = n.level
      BY <2>1, <2>3, LeftGrown DEF IsInserted
    <3> HIDE DEF m, joined
    <3>5. PairsOf(m) = {<< n.key, n.value >>} \cup Put(PairsOf(n.left), key, value) \cup PairsOf(n.right)
      BY <2>3, <3>2, <3>3 DEF IsSame, IsInserted
    <3>6. PairsOf(m) = Put(PairsOf(n), key, value)
      <4>1. key \notin KeysOf(n.right) /\ key # n.key
        BY <1>0, <2>1, <2>9
      <4>2. \A p \in PairsOf(n.right) : p[1] # key
        BY <4>1, HasPair
      <4> QED BY <2>1, <2>7, <3>5, <4>1, <4>2 DEF Put, Drop
    <3>7. IsGrown(m, n)
      BY <2>1, <3>4 DEF IsGrown
    <3> QED BY <3>1, <3>3, <3>4, <3>6, <3>7 DEF IsInserted, IsMap, IsSame
  <2>10. CASE n.key < key
    <3> DEFINE b == new(n.right)
               joined == MakeNode(n.key, n.value, n.level, n.left, b)
               m == Split(Skew(joined))
    <3>1. new(n) = m
      BY <1>0, <2>1, <2>5, <2>10 DEF SetRight
    <3>2. IsSearchTree(joined)
          /\ PairsOf(joined) = {<< n.key, n.value >>} \cup PairsOf(n.left) \cup PairsOf(b)
      BY <2>1, <2>2, <2>3, <2>4, <2>10, JoinedTree DEF IsMap, IsInserted
    <3>3. IsSame(m, joined)
      <4> HIDE DEF joined
      <4>1. IsSame(Skew(joined), joined)
        BY <3>2, SkewSame
      <4>2. IsSame(m, Skew(joined))
        BY <4>1, SplitSame DEF IsSame
      <4> QED BY <4>1, <4>2, SameTransitive
    <3>4. /\ Shaped(m)
          /\ \/ Level(m) = n.level
             \/ Level(m) = n.level + 1 /\ Level(n.right) = n.level /\ Level(Right(m)) = n.level
      BY <2>1, <2>3, RightGrown DEF IsInserted
    <3> HIDE DEF m, joined
    <3>5. PairsOf(m) = {<< n.key, n.value >>} \cup PairsOf(n.left) \cup Put(PairsOf(n.right), key, value)
      BY <2>3, <3>2, <3>3 DEF IsSame, IsInserted
    <3>6. PairsOf(m) = Put(PairsOf(n), key, value)
      <4>1. key \notin KeysOf(n.left) /\ key # n.key
        BY <1>0, <2>1, <2>10
      <4>2. \A p \in PairsOf(n.left) : p[1] # key
        BY <4>1, HasPair
      <4> QED BY <2>1, <2>7, <3>5, <4>1, <4>2 DEF Put, Drop
    <3>7. IsGrown(m, n)
      BY <2>1, <3>4 DEF IsGrown
    <3> QED BY <3>1, <3>3, <3>4, <3>6, <3>7 DEF IsInserted, IsMap, IsSame
  <2> QED BY <1>0, <2>1, <2>8, <2>9, <2>10
<1> HIDE DEF P
<1>4. P = Trees
  <2>1. P \in SUBSET Trees
    BY DEF P
  <2> QED BY <1>2, <1>3, <2>1, TreesHoldBranches, TreeInduction
<1> QED BY <1>4, SearchTreeSize DEF P, IsMap

IsRemoved(m, n, key) ==
    /\ IsMap(m) /\ IsShrunk(m, n)
    /\ PairsOf(m) = Drop(PairsOf(n), key)

LEMMA Removed ==
  \A n : IsMap(n) => \A key \in Int : IsRemoved(RemoveFrom[n][key], n, key)
<1> DEFINE P == {n \in Trees : IsMap(n) => \A key \in Int : IsRemoved(RemoveFrom[n][key], n, key)}
<1>1. \A n \in Trees, key \in Int : RemoveFrom[n][key] = RemovedAt(n, key, RemoveFrom)
  BY RemoveUnfolds
<1>2. map_blank \in P
  <2> SUFFICES ASSUME NEW key \in Int
               PROVE  IsRemoved(RemoveFrom[map_blank][key], map_blank, key)
    BY TreesHoldBranches
  <2>1. RemoveFrom[map_blank][key] = map_blank
    BY <1>1, TreesHoldBranches DEF RemovedAt
  <2>2. IsShrunk(map_blank, map_blank)
    BY BlankShaped, BlankFields DEF IsShrunk
  <2>3. PairsOf(map_blank) = Drop(PairsOf(map_blank), key)
    BY BlankSearchTree DEF Drop
  <2> HIDE DEF map_blank
  <2> QED BY <2>1, <2>2, <2>3, BlankMap DEF IsRemoved
<1>3. ASSUME NEW n \in Trees, n # map_blank, n.left \in P, n.right \in P PROVE n \in P
  <2> SUFFICES ASSUME IsMap(n), NEW key \in Int PROVE IsRemoved(RemoveFrom[n][key], n, key)
    OBVIOUS
  <2> DEFINE gone(b, k) == RemoveFrom[b][k]
  <2>1. /\ n \in AllTrees /\ Get(n) = n
        /\ n.key \in Keys /\ n.key \in Int /\ n.value \in Int
        /\ IsMap(n.left) /\ IsMap(n.right)
        /\ \A k \in KeysOf(n.left) : k \in Int /\ k < n.key
        /\ \A k \in KeysOf(n.right) : k \in Int /\ n.key < k
        /\ KeysOf(n) = {n.key} \cup KeysOf(n.left) \cup KeysOf(n.right)
        /\ PairsOf(n) = {<< n.key, n.value >>} \cup PairsOf(n.left) \cup PairsOf(n.right)
        /\ Level(n) = n.level /\ Left(n) = n.left /\ Right(n) = n.right
        /\ AreParts(n.key, n.value, n.level, n.left, n.right)
    BY <1>3, MapParts
  <2>2. /\ n.level \in Nat \ {0} /\ Level(n.left) = n.level - 1
        /\ Level(n.right) \in {n.level - 1, n.level} /\ Level(Right(n.right)) < n.level
    BY <2>1 DEF AreParts
  <2>3. \A k \in Int : /\ IsRemoved(gone(n.left, k), n.left, k)
                       /\ IsRemoved(gone(n.right, k), n.right, k)
    BY <1>3, <2>1
  <2>4. \A k \in Int : /\ KeysOf(gone(n.left, k)) = KeysOf(n.left) \ {k}
                       /\ KeysOf(gone(n.right, k)) = KeysOf(n.right) \ {k}
    <3> HIDE DEF gone
    <3> QED BY <2>3, DropKeys DEF IsRemoved
  <2>5. gone(n, key) =
          CloseGap(
            IF key < n.key THEN SetLeft(n, gone(n.left, key))
            ELSE IF key > n.key THEN SetRight(n, gone(n.right, key))
            ELSE IF n.left = map_blank THEN n.right
            ELSE IF n.right = map_blank THEN n.left
            ELSE MakeNode(Leftmost(n.right).key, Leftmost(n.right).value, n.level, n.left,
                          gone(n.right, Leftmost(n.right).key)))
    <3>1. RemoveFrom[n][key] = RemovedAt(n, key, RemoveFrom)
      BY <1>1
    <3> QED BY <1>3, <3>1 DEF RemovedAt
  <2> HIDE DEF P
  <2>6. << n.key, n.value >>[1] = n.key
    OBVIOUS
  <2>7. SUFFICES IsRemoved(gone(n, key), n, key)
    OBVIOUS
  <2> HIDE DEF gone
  <2>8. CASE key < n.key
    <3> DEFINE b == gone(n.left, key)
               joined == MakeNode(n.key, n.value, n.level, b, n.right)
               m == CloseGap(joined)
    <3>1. gone(n, key) = m
      BY <2>1, <2>5, <2>8 DEF SetLeft
    <3>2. IsRemoved(b, n.left, key) /\ KeysOf(b) = KeysOf(n.left) \ {key}
      BY <2>3, <2>4
    <3> HIDE DEF b
    <3>3. IsSearchTree(joined)
          /\ PairsOf(joined) = {<< n.key, n.value >>} \cup PairsOf(b) \cup PairsOf(n.right)
      BY <2>1, <2>2, <3>2, JoinedTree DEF IsMap, IsRemoved
    <3>4. /\ Shaped(m) /\ Level(m) \in {n.level - 1, n.level}
          /\ Level(m) = n.level /\ Level(n.right) < n.level => Level(Right(m)) < n.level
          /\ HasGap(joined) => n.level > 1 /\ Right(Skew(LowerLevel(joined))) # map_blank
      BY <2>1, <3>2, LeftShrunk DEF IsRemoved
    <3>5. Level(joined) = n.level
      BY Made
    <3> HIDE DEF joined
    <3>6. IsSame(m, joined)
      BY <3>3, <3>4, <3>5, CloseGapSame
    <3> HIDE DEF m
    <3>7. PairsOf(m) = Drop(PairsOf(n), key)
      <4>1. PairsOf(b) = Drop(PairsOf(n.left), key)
        BY <3>2 DEF IsRemoved
      <4>2. key \notin KeysOf(n.right) /\ key # n.key
        BY <2>1, <2>8
      <4>3. \A p \in PairsOf(n.right) : p[1] # key
        BY <4>2, HasPair
      <4>4. PairsOf(m) = {<< n.key, n.value >>} \cup PairsOf(b) \cup PairsOf(n.right)
        BY <3>3, <3>6 DEF IsSame
      <4> QED BY <2>1, <2>6, <4>1, <4>2, <4>3, <4>4 DEF Drop
    <3>8. IsShrunk(m, n)
      BY <2>1, <3>4 DEF IsShrunk
    <3> QED BY <3>1, <3>4, <3>6, <3>7, <3>8 DEF IsRemoved, IsMap, IsSame
  <2>9. CASE n.key < key
    <3> DEFINE b == gone(n.right, key)
               joined == MakeNode(n.key, n.value, n.level, n.left, b)
               m == CloseGap(joined)
    <3>1. gone(n, key) = m
      BY <2>1, <2>5, <2>9 DEF SetRight
    <3>2. IsRemoved(b, n.right, key) /\ KeysOf(b) = KeysOf(n.right) \ {key}
      BY <2>3, <2>4
    <3> HIDE DEF b
    <3>3. IsSearchTree(joined)
          /\ PairsOf(joined) = {<< n.key, n.value >>} \cup PairsOf(n.left) \cup PairsOf(b)
      BY <2>1, <2>2, <3>2, JoinedTree DEF IsMap, IsRemoved
    <3>4. /\ Shaped(m) /\ Level(m) \in {n.level - 1, n.level}
          /\ Level(m) = n.level /\ Level(n.right) < n.level => Level(Right(m)) < n.level
          /\ HasGap(joined) => n.level > 1 /\ Right(Skew(LowerLevel(joined))) # map_blank
      BY <2>1, <3>2, RightShrunk DEF IsRemoved
    <3>5. Level(joined) = n.level
      BY Made
    <3> HIDE DEF joined
    <3>6. IsSame(m, joined)
      BY <3>3, <3>4, <3>5, CloseGapSame
    <3> HIDE DEF m
    <3>7. PairsOf(m) = Drop(PairsOf(n), key)
      <4>1. PairsOf(b) = Drop(PairsOf(n.right), key)
        BY <3>2 DEF IsRemoved
      <4>2. key \notin KeysOf(n.left) /\ key # n.key
        BY <2>1, <2>9
      <4>3. \A p \in PairsOf(n.left) : p[1] # key
        BY <4>2, HasPair
      <4>4. PairsOf(m) = {<< n.key, n.value >>} \cup PairsOf(n.left) \cup PairsOf(b)
        BY <3>3, <3>6 DEF IsSame
      <4> QED BY <2>1, <2>6, <4>1, <4>2, <4>3, <4>4 DEF Drop
    <3>8. IsShrunk(m, n)
      BY <2>1, <3>4 DEF IsShrunk
    <3> QED BY <3>1, <3>4, <3>6, <3>7, <3>8 DEF IsRemoved, IsMap, IsSame
  <2>10. CASE key = n.key /\ n.left = map_blank
    <3>1. n.level = 1
      BY <2>2, <2>10, BlankFields
    <3>2. gone(n, key) = CloseGap(n.right)
      BY <2>1, <2>5, <2>10
    <3>3. gone(n, key) = n.right
      BY <2>1, <3>2, NoGap DEF IsMap
    <3>4. IsShrunk(n.right, n)
      BY <2>1, <2>2, <3>1 DEF IsShrunk, IsMap
    <3>5. PairsOf(n.right) = Drop(PairsOf(n), key)
      <4>1. PairsOf(n.left) = {}
        BY <2>10, BlankSearchTree
      <4>2. n.key \notin KeysOf(n.right)
        BY <2>1
      <4>3. \A p \in PairsOf(n.right) : p[1] # n.key
        BY <4>2, HasPair
      <4> QED BY <2>1, <2>6, <2>10, <4>1, <4>3 DEF Drop
    <3> QED BY <2>1, <3>3, <3>4, <3>5 DEF IsRemoved
  <2>11. CASE key = n.key /\ n.left # map_blank
    <3> DEFINE next == Leftmost(n.right)
               b == gone(n.right, next.key)
               joined == MakeNode(next.key, next.value, n.level, n.left, b)
               m == CloseGap(joined)
    <3>1. n.right # map_blank
      <4>1. Level(n.left) \in Nat /\ Level(n.left) # 0
        BY <2>1, <2>11, ShapedParts DEF IsMap
      <4>2. Level(n.right) # 0
        BY <2>2, <4>1
      <4> QED BY <4>2, BlankFields
    <3>2. gone(n, key) = m
      BY <2>1, <2>5, <2>11, <3>1
    <3>3. /\ next \in Has(n.right)
          /\ \A k \in KeysOf(n.right) : k # next.key => next.key < k
      BY <2>1, <3>1, LeftmostKey DEF IsMap
    <3> HIDE DEF next
    <3>4. /\ next.key \in Keys /\ next.key \in Int /\ next.value \in Int
          /\ next.key \in KeysOf(n.right) /\ n.key < next.key
      <4>1. next.key \in KeysOf(n.right)
        BY <3>3 DEF KeysOf
      <4>2. n.right \in AllTrees /\ KeysOf(n.right) \subseteq Keys
        BY <2>1, KeysOfTypes DEF IsMap, IsSearchTree
      <4>3. next.value \in Int
        BY <3>3, <4>2, HasTypes
      <4> QED BY <2>1, <4>1, <4>2, <4>3
    <3>5. IsRemoved(b, n.right, next.key) /\ KeysOf(b) = KeysOf(n.right) \ {next.key}
      BY <2>3, <2>4, <3>4
    <3> HIDE DEF b
    <3>6. IsSearchTree(joined)
          /\ PairsOf(joined) = {<< next.key, next.value >>} \cup PairsOf(n.left) \cup PairsOf(b)
      <4>1. \A x \in KeysOf(n.left) : x < next.key
        BY <2>1, <3>4
      <4>2. \A x \in KeysOf(b) : next.key < x
        BY <3>3, <3>5
      <4> QED BY <2>1, <2>2, <3>4, <3>5, <4>1, <4>2, JoinedTree DEF IsMap, IsRemoved
    <3>7. /\ Shaped(m) /\ Level(m) \in {n.level - 1, n.level}
          /\ Level(m) = n.level /\ Level(n.right) < n.level => Level(Right(m)) < n.level
          /\ HasGap(joined) => n.level > 1 /\ Right(Skew(LowerLevel(joined))) # map_blank
      <4>1. AreParts(next.key, next.value, n.level, n.left, n.right)
        BY <2>1, <3>4 DEF AreParts
      <4> QED BY <3>5, <4>1, RightShrunk DEF IsRemoved
    <3>8. Level(joined) = n.level
      BY Made
    <3> HIDE DEF joined
    <3>9. IsSame(m, joined)
      BY <3>6, <3>7, <3>8, CloseGapSame
    <3> HIDE DEF m
    <3>10. PairsOf(m) = Drop(PairsOf(n), key)
      <4>1. PairsOf(b) = Drop(PairsOf(n.right), next.key)
        BY <3>5 DEF IsRemoved
      <4>2. << next.key, next.value >> \in PairsOf(n.right)
        BY <3>3, HasPair
      <4>3. << next.key, next.value >>[1] = next.key
        OBVIOUS
      <4>4. \A p \in PairsOf(n.right) : p[1] = next.key => p = << next.key, next.value >>
        BY <2>1, <4>2, <4>3, UniquePairs DEF IsMap
      <4>5. {<< next.key, next.value >>} \cup PairsOf(b) = PairsOf(n.right)
        BY <4>1, <4>2, <4>4 DEF Drop
      <4>6. n.key \notin KeysOf(n.left) /\ n.key \notin KeysOf(n.right)
        BY <2>1
      <4>7. \A p \in PairsOf(n.left) \cup PairsOf(n.right) : p[1] # n.key
        BY <4>6, HasPair
      <4>8. Drop(PairsOf(n), key) = PairsOf(n.left) \cup PairsOf(n.right)
        BY <2>1, <2>6, <2>11, <4>7 DEF Drop
      <4>9. PairsOf(m) = {<< next.key, next.value >>} \cup PairsOf(n.left) \cup PairsOf(b)
        BY <3>6, <3>9 DEF IsSame
      <4> QED BY <4>5, <4>8, <4>9
    <3>11. IsShrunk(m, n)
      BY <2>1, <3>7 DEF IsShrunk
    <3> QED BY <3>2, <3>7, <3>9, <3>10, <3>11 DEF IsRemoved, IsMap, IsSame
  <2> QED BY <2>1, <2>8, <2>9, <2>10, <2>11
<1> HIDE DEF P
<1>4. P = Trees
  <2>1. P \in SUBSET Trees
    BY DEF P
  <2> QED BY <1>2, <1>3, <2>1, TreesHoldBranches, TreeInduction
<1> QED BY <1>4, SearchTreeSize DEF P, IsMap

(* What find comes upon: the node of the key, if the map has it.            *)
LEMMA Found ==
  ASSUME NEW key \in Int
  PROVE  \A n : IsMap(n) =>
            IF key \in KeysOf(n)
              THEN /\ Find(n, key) # map_blank
                   /\ << key, Find(n, key).value >> \in PairsOf(n)
              ELSE Find(n, key) = map_blank
<1> DEFINE P == {n \in Trees : IsMap(n) =>
            IF key \in KeysOf(n)
              THEN /\ Find(n, key) # map_blank
                   /\ << key, Find(n, key).value >> \in PairsOf(n)
              ELSE Find(n, key) = map_blank}
<1>1. \A n \in Trees : Find(n, key) = FoundAt(n, key, Find(n.left, key), Find(n.right, key))
  BY FindUnfolds
<1>2. map_blank \in P
  <2>1. Find(map_blank, key) = map_blank
    BY <1>1, TreesHoldBranches DEF FoundAt
  <2> QED BY <2>1, BlankSearchTree, TreesHoldBranches
<1>3. ASSUME NEW n \in Trees, n # map_blank, n.left \in P, n.right \in P PROVE n \in P
  <2> SUFFICES ASSUME IsMap(n)
               PROVE  IF key \in KeysOf(n)
                        THEN /\ Find(n, key) # map_blank
                             /\ << key, Find(n, key).value >> \in PairsOf(n)
                        ELSE Find(n, key) = map_blank
    OBVIOUS
  <2>1. /\ Get(n) = n /\ n.key \in Int
        /\ IsMap(n.left) /\ IsMap(n.right)
        /\ \A k \in KeysOf(n.left) : k \in Int /\ k < n.key
        /\ \A k \in KeysOf(n.right) : k \in Int /\ n.key < k
        /\ KeysOf(n) = {n.key} \cup KeysOf(n.left) \cup KeysOf(n.right)
        /\ PairsOf(n) = {<< n.key, n.value >>} \cup PairsOf(n.left) \cup PairsOf(n.right)
    BY <1>3, MapParts
  <2>2. Find(n, key) = IF n.key = key THEN n
                       ELSE IF key < n.key THEN Find(n.left, key) ELSE Find(n.right, key)
    BY <1>1, <1>3, <2>1 DEF FoundAt
  <2>3. /\ IF key \in KeysOf(n.left)
             THEN /\ Find(n.left, key) # map_blank
                  /\ << key, Find(n.left, key).value >> \in PairsOf(n.left)
             ELSE Find(n.left, key) = map_blank
        /\ IF key \in KeysOf(n.right)
             THEN /\ Find(n.right, key) # map_blank
                  /\ << key, Find(n.right, key).value >> \in PairsOf(n.right)
             ELSE Find(n.right, key) = map_blank
    BY <1>3, <2>1
  <2> HIDE DEF P
  <2>4. CASE key = n.key
    BY <1>3, <2>1, <2>2, <2>4
  <2>5. CASE key < n.key
    <3>1. Find(n, key) = Find(n.left, key) /\ key \notin KeysOf(n.right) /\ key # n.key
      BY <2>1, <2>2, <2>5
    <3> QED BY <2>1, <2>3, <3>1
  <2>6. CASE n.key < key
    <3>1. Find(n, key) = Find(n.right, key) /\ key \notin KeysOf(n.left) /\ key # n.key
      BY <2>1, <2>2, <2>6
    <3> QED BY <2>1, <2>3, <3>1
  <2> QED BY <2>1, <2>4, <2>5, <2>6
<1> HIDE DEF P
<1>4. P = Trees
  <2>1. P \in SUBSET Trees
    BY DEF P
  <2> QED BY <1>2, <1>3, <2>1, TreesHoldBranches, TreeInduction
<1> QED BY <1>4, SearchTreeSize DEF P, IsMap

-----------------------------------------------------------------------------
(* The map of a program.                                                    *)
MapInvariant == IsMap(map)

LEMMA Offered ==
  \A k \in Keys : k \in Int /\ \A v \in ValuesOf(k) : v \in Int
BY KeysAssumption DEF ValuesOf

LEMMA MapInit == Init => MapInvariant
BY BlankMap DEF Init, MapInvariant

LEMMA MapStep == MapInvariant /\ [Next]_vars => MapInvariant'
<1> SUFFICES ASSUME IsMap(map), [Next]_vars PROVE IsMap(map')
  BY DEF MapInvariant
<1>1. ASSUME NEW k \in Keys, NEW v \in ValuesOf(k), Map_Insert(k, v) PROVE IsMap(map')
  BY <1>1, Offered, Inserted DEF Map_Insert, IsInserted
<1>2. ASSUME NEW k \in Keys, Map_Remove(k) PROVE IsMap(map')
  BY <1>2, Offered, Removed DEF Map_Remove, IsRemoved
<1>3. CASE map' = map
  BY <1>3
<1>4. \/ \E k \in Keys : \E v \in ValuesOf(k) : Map_Insert(k, v)
      \/ \E k \in Keys : Map_Remove(k)
      \/ map' = map
  BY DEF Next, Map_Lookup, Map_Contains, Map_Size, Map_Iterate, vars
<1> QED BY <1>1, <1>2, <1>3, <1>4

LEMMA MapIsMap == Spec => []MapInvariant
BY MapInit, MapStep, PTL DEF Spec

LEMMA BalancedMap == \A t : IsMap(t) => IsBalanced(t)
<1> SUFFICES ASSUME NEW t, IsMap(t), NEW n \in Nodes[t]
             PROVE  /\ Get(n.left).level = n.level - 1
                    /\ Get(n.right).level \in {n.level - 1, n.level}
                    /\ Get(Get(n.right).right).level < n.level
  BY DEF IsBalanced
<1>1. n \in Has(t)
  BY SearchTreeSize, NodesAgree DEF IsMap
<1> QED BY <1>1 DEF IsMap, Shaped, IsAANode, Level, Right

(* The tree of a map keeps the shape of an AA-tree, so that its depth is    *)
(* logarithmic, through every history of inserts and removes: skew and      *)
(* split on insert, and the up to three skews and two splits of remove, are *)
(* enough.                                                                  *)
THEOREM BalancedThroughout == Spec => []Balanced
<1>1. MapInvariant => Balanced
  BY BalancedMap DEF MapInvariant, Balanced
<1> QED BY <1>1, MapIsMap, PTL

-----------------------------------------------------------------------------
(* A map's contents.                                                        *)
LEMMA ContentsOfMap ==
  ASSUME NEW t, IsMap(t)
  PROVE  /\ Contents(t) = [k \in KeysOf(t) |-> Contents(t)[k]]
         /\ DOMAIN Contents(t) = KeysOf(t)
         /\ \A k \in KeysOf(t) : << k, Contents(t)[k] >> \in PairsOf(t)
         /\ \A p \in PairsOf(t) : Contents(t)[p[1]] = p[2]
<1> DEFINE node(k) == CHOOSE n \in Has(t) : n.key = k
           c == [k \in KeysOf(t) |-> node(k).value]
<1>1. Nodes[t] = Has(t)
  BY SearchTreeSize, NodesAgree DEF IsMap
<1>2. Contents(t) = c
  BY <1>1 DEF Contents, KeysOf
<1>3. \A k \in KeysOf(t) : node(k) \in Has(t) /\ node(k).key = k
  BY HasPair
<1>4. ASSUME NEW k \in KeysOf(t) PROVE << k, c[k] >> \in PairsOf(t)
  <2>1. c[k] = node(k).value
    OBVIOUS
  <2> HIDE DEF node, c
  <2>2. << node(k).key, node(k).value >> \in PairsOf(t)
    BY <1>3, HasPair
  <2> QED BY <1>3, <2>1, <2>2
<1>5. DOMAIN c = KeysOf(t)
  OBVIOUS
<1> HIDE DEF c
<1>6. ASSUME NEW p \in PairsOf(t) PROVE c[p[1]] = p[2]
  <2>1. p[1] \in KeysOf(t) /\ p = << p[1], p[2] >>
    BY HasPair
  <2>2. << p[1], c[p[1]] >> \in PairsOf(t)
    BY <1>4, <2>1
  <2>3. << p[1], c[p[1]] >>[1] = p[1] /\ << p[1], c[p[1]] >>[2] = c[p[1]]
    OBVIOUS
  <2>4. << p[1], c[p[1]] >> = p
    BY <2>2, <2>3, UniquePairs DEF IsMap
  <2> QED BY <2>3, <2>4
<1>7. c = [k \in KeysOf(t) |-> c[k]]
  BY DEF c
<1> QED BY <1>2, <1>4, <1>5, <1>6, <1>7

With(c, k, v) == [x \in DOMAIN c \cup {k} |-> IF x = k THEN v ELSE c[x]]
Without(c, k) == [x \in DOMAIN c \ {k} |-> c[x]]

LEMMA InsertedContents ==
  ASSUME NEW t, IsMap(t), NEW m, NEW k, NEW v, IsInserted(m, t, k, v)
  PROVE  Contents(m) = With(Contents(t), k, v)
<1> DEFINE c == Contents(t)
           d == Contents(m)
<1>1. IsMap(m) /\ PairsOf(m) = Put(PairsOf(t), k, v) /\ KeysOf(m) = KeysOf(t) \cup {k}
  BY PutKeys DEF IsInserted
<1>2. DOMAIN c = KeysOf(t) /\ \A x \in KeysOf(t) : << x, c[x] >> \in PairsOf(t)
  BY ContentsOfMap
<1>3. d = [x \in KeysOf(m) |-> d[x]] /\ \A p \in PairsOf(m) : d[p[1]] = p[2]
  BY <1>1, ContentsOfMap
<1> HIDE DEF c, d
<1>4. d[k] = v
  <2>1. << k, v >> \in PairsOf(m) /\ << k, v >>[1] = k /\ << k, v >>[2] = v
    BY <1>1 DEF Put
  <2> QED BY <1>3, <2>1
<1>5. ASSUME NEW x \in KeysOf(t), x # k PROVE d[x] = c[x]
  <2>1. << x, c[x] >>[1] = x /\ << x, c[x] >>[2] = c[x]
    OBVIOUS
  <2>2. << x, c[x] >> \in PairsOf(m)
    BY <1>1, <1>2, <1>5, <2>1 DEF Put, Drop
  <2> QED BY <1>3, <2>1, <2>2
<1>6. [x \in KeysOf(m) |-> d[x]] = [x \in KeysOf(t) \cup {k} |-> IF x = k THEN v ELSE c[x]]
  BY <1>1, <1>4, <1>5
<1>7. d = [x \in DOMAIN c \cup {k} |-> IF x = k THEN v ELSE c[x]]
  BY <1>2, <1>3, <1>6
<1> QED BY <1>7 DEF c, d, With

LEMMA RemovedContents ==
  ASSUME NEW t, IsMap(t), NEW m, NEW k, IsRemoved(m, t, k)
  PROVE  Contents(m) = Without(Contents(t), k)
<1> DEFINE c == Contents(t)
           d == Contents(m)
<1>1. IsMap(m) /\ PairsOf(m) = Drop(PairsOf(t), k) /\ KeysOf(m) = KeysOf(t) \ {k}
  BY DropKeys DEF IsRemoved
<1>2. DOMAIN c = KeysOf(t) /\ \A x \in KeysOf(t) : << x, c[x] >> \in PairsOf(t)
  BY ContentsOfMap
<1>3. d = [x \in KeysOf(m) |-> d[x]] /\ \A p \in PairsOf(m) : d[p[1]] = p[2]
  BY <1>1, ContentsOfMap
<1> HIDE DEF c, d
<1>4. ASSUME NEW x \in KeysOf(t) \ {k} PROVE d[x] = c[x]
  <2>1. << x, c[x] >>[1] = x /\ << x, c[x] >>[2] = c[x]
    OBVIOUS
  <2>2. << x, c[x] >> \in PairsOf(m)
    BY <1>1, <1>2, <1>4, <2>1 DEF Drop
  <2> QED BY <1>3, <2>1, <2>2
<1>5. [x \in KeysOf(m) |-> d[x]] = [x \in KeysOf(t) \ {k} |-> c[x]]
  BY <1>1, <1>4
<1>6. d = [x \in DOMAIN c \ {k} |-> c[x]]
  BY <1>2, <1>3, <1>5
<1> QED BY <1>6 DEF c, d, Without

-----------------------------------------------------------------------------
(* Iterators: the nodes still to come, each followed by its right branch.   *)
PairsFrom(n) == {<< n.key, n.value >>} \cup PairsOf(n.right)
Ahead(s) == UNION {PairsFrom(s[i]) : i \in 1..Len(s)}

IsStack(s) ==
    /\ s \in Seq(Trees \ {map_blank})
    /\ \A i \in 1..Len(s) : IsMap(s[i])
    /\ \A i, j \in 1..Len(s) : i < j => \A p \in PairsFrom(s[i]) : p[1] < s[j].key

LEMMA EmptyStack == IsStack(<< >>) /\ Ahead(<< >>) = {}
<1>1. << >> \in Seq(Trees \ {map_blank}) /\ Len(<< >>) = 0
  BY EmptySeq
<1> QED BY <1>1 DEF IsStack, Ahead

LEMMA OneStack ==
  ASSUME NEW n, IsMap(n), n # map_blank
  PROVE  IsStack(<< n >>) /\ Ahead(<< n >>) = PairsFrom(n)
<1>1. n \in Trees \ {map_blank}
  BY MapParts
<1>2. << n >> \in Seq(Trees \ {map_blank}) /\ Len(<< n >>) = 1 /\ << n >>[1] = n
  BY <1>1
<1>3. 1..Len(<< n >>) = {1}
  BY <1>2
<1> QED BY <1>2, <1>3 DEF IsStack, Ahead

LEMMA JoinedStack ==
  ASSUME NEW s, IsStack(s), NEW t, IsStack(t),
         \A p \in Ahead(s) : \A j \in 1..Len(t) : p[1] < t[j].key
  PROVE  IsStack(s \o t) /\ Ahead(s \o t) = Ahead(s) \cup Ahead(t)
<1> DEFINE u == s \o t
           m == Len(s)
           n == Len(t)
<1>1. s \in Seq(Trees \ {map_blank}) /\ t \in Seq(Trees \ {map_blank})
  BY DEF IsStack
<1>2. m \in Nat /\ n \in Nat
  BY <1>1, LenProperties
<1>3. /\ u \in Seq(Trees \ {map_blank}) /\ Len(u) = m + n
      /\ \A i \in 1..(m + n) : u[i] = IF i <= m THEN s[i] ELSE t[i - m]
  BY <1>1, ConcatProperties
<1> HIDE DEF u
<1>4. \A i \in 1..m : u[i] = s[i] /\ i \in 1..(m + n)
  BY <1>2, <1>3
<1>5. \A j \in 1..n : u[m + j] = t[j] /\ m + j \in 1..(m + n)
  <2> TAKE j \in 1..n
  <2>1. m + j \in 1..(m + n) /\ ~ (m + j <= m) /\ (m + j) - m = j
    BY <1>2
  <2> QED BY <1>3, <2>1
<1>6. \A i \in 1..(m + n) : i \in 1..m \/ \E j \in 1..n : i = m + j
  <2> TAKE i \in 1..(m + n)
  <2>1. CASE i <= m
    BY <1>2, <2>1
  <2>2. CASE ~ (i <= m)
    <3>1. i - m \in 1..n /\ i = m + (i - m)
      BY <1>2, <2>2
    <3> QED BY <3>1
  <2> QED BY <2>1, <2>2
<1>7. Ahead(u) = Ahead(s) \cup Ahead(t)
  <2>1. Ahead(u) \subseteq Ahead(s) \cup Ahead(t)
    <3> SUFFICES ASSUME NEW i \in 1..(m + n) PROVE PairsFrom(u[i]) \subseteq Ahead(s) \cup Ahead(t)
      BY <1>3 DEF Ahead
    <3>1. CASE i \in 1..m
      BY <1>4, <3>1 DEF Ahead
    <3>2. CASE \E j \in 1..n : i = m + j
      BY <1>5, <3>2 DEF Ahead
    <3> QED BY <1>6, <3>1, <3>2
  <2>2. Ahead(s) \subseteq Ahead(u)
    <3> SUFFICES ASSUME NEW i \in 1..m PROVE PairsFrom(s[i]) \subseteq Ahead(u)
      BY DEF Ahead
    <3> QED BY <1>3, <1>4 DEF Ahead
  <2>3. Ahead(t) \subseteq Ahead(u)
    <3> SUFFICES ASSUME NEW j \in 1..n PROVE PairsFrom(t[j]) \subseteq Ahead(u)
      BY DEF Ahead
    <3> QED BY <1>3, <1>5 DEF Ahead
  <2> QED BY <2>1, <2>2, <2>3
<1>8. ASSUME NEW i \in 1..(m + n) PROVE IsMap(u[i])
  <2>1. CASE i \in 1..m
    BY <1>4, <2>1 DEF IsStack
  <2>2. CASE \E j \in 1..n : i = m + j
    BY <1>5, <2>2 DEF IsStack
  <2> QED BY <1>6, <2>1, <2>2
<1>9. ASSUME NEW i \in 1..(m + n), NEW j \in 1..(m + n), i < j, NEW p \in PairsFrom(u[i])
      PROVE  p[1] < u[j].key
  <2>1. CASE i \in 1..m /\ j \in 1..m
    BY <1>4, <1>9, <2>1 DEF IsStack
  <2>2. ASSUME i \in 1..m, NEW y \in 1..n, j = m + y PROVE p[1] < u[j].key
    <3>1. p \in Ahead(s)
      BY <1>4, <2>2 DEF Ahead
    <3> QED BY <1>5, <2>2, <3>1
  <2>3. ASSUME NEW x \in 1..n, i = m + x, NEW y \in 1..n, j = m + y PROVE p[1] < u[j].key
    <3>1. x < y
      BY <1>2, <1>9, <2>3
    <3>2. p \in PairsFrom(t[x])
      BY <1>5, <2>3
    <3> QED BY <1>5, <2>3, <3>1, <3>2 DEF IsStack
  <2>4. ASSUME NEW x \in 1..n, i = m + x, j \in 1..m PROVE FALSE
    BY <1>2, <1>9, <2>4
  <2> QED BY <1>6, <2>1, <2>2, <2>3, <2>4
<1>10. IsStack(u)
  BY <1>3, <1>8, <1>9 DEF IsStack
<1> QED BY <1>7, <1>10 DEF u

(* Dig puts a tree's left spine on the stack: the whole tree is ahead.      *)
LEMMA SpineStack ==
  \A t : IsMap(t) => IsStack(LeftSpine[t]) /\ Ahead(LeftSpine[t]) = PairsOf(t)
<1> DEFINE P == {t \in Trees : IsMap(t) =>
                    IsStack(LeftSpine[t]) /\ Ahead(LeftSpine[t]) = PairsOf(t)}
<1>1. map_blank \in P
  <2>1. LeftSpine[map_blank] = << >> /\ map_blank \in Trees
    BY SpineUnfolds, TreesHoldBranches
  <2> QED BY <2>1, EmptyStack, BlankSearchTree
<1>2. ASSUME NEW n \in Trees, n # map_blank, n.left \in P PROVE n \in P
  <2> SUFFICES ASSUME IsMap(n) PROVE IsStack(LeftSpine[n]) /\ Ahead(LeftSpine[n]) = PairsOf(n)
    OBVIOUS
  <2>1. /\ n.key \in Int /\ IsMap(n.left)
        /\ \A k \in KeysOf(n.left) : k \in Int /\ k < n.key
        /\ PairsOf(n) = {<< n.key, n.value >>} \cup PairsOf(n.left) \cup PairsOf(n.right)
    BY <1>2, MapParts
  <2>2. IsStack(LeftSpine[n.left]) /\ Ahead(LeftSpine[n.left]) = PairsOf(n.left)
    BY <1>2, <2>1
  <2> HIDE DEF P
  <2>3. LeftSpine[n] = LeftSpine[n.left] \o << n >>
    <3>1. LeftSpine[n.left] \in Seq(Trees \ {map_blank}) /\ n \in Trees \ {map_blank}
      BY <1>2, <2>2 DEF IsStack
    <3> QED BY <1>2, <3>1, SpineUnfolds, AppendIsConcat
  <2>4. IsStack(<< n >>) /\ Ahead(<< n >>) = PairsFrom(n)
    BY <1>2, OneStack
  <2>5. \A p \in Ahead(LeftSpine[n.left]) : \A j \in 1..Len(<< n >>) : p[1] < << n >>[j].key
    <3>1. \A p \in PairsOf(n.left) : p[1] < n.key
      BY <2>1, HasPair
    <3>2. \A j \in 1..Len(<< n >>) : << n >>[j] = n
      OBVIOUS
    <3> QED BY <2>2, <3>1, <3>2
  <2>6. IsStack(LeftSpine[n]) /\ Ahead(LeftSpine[n]) = PairsOf(n.left) \cup PairsFrom(n)
    BY <2>2, <2>3, <2>4, <2>5, JoinedStack
  <2> QED BY <2>1, <2>6 DEF PairsFrom
<1> HIDE DEF P
<1>3. P = Trees
  <2>1. P \in SUBSET Trees
    BY DEF P
  <2> QED BY <1>1, <1>2, <2>1, TreesHoldBranches, TreeInduction
<1> QED BY <1>3, SearchTreeSize DEF P, IsMap

LEMMA StackTop ==
  ASSUME NEW s, IsStack(s), s # MaperatorDone
  PROVE  LET h == Head(s)
         IN /\ IsMap(h) /\ h # map_blank /\ h \in Trees
            /\ << h.key, h.value >> \in Ahead(s)
            /\ IsStack(Tail(s))
            /\ Ahead(s) = PairsFrom(h) \cup Ahead(Tail(s))
            /\ \A p \in PairsFrom(h) : \A j \in 1..Len(Tail(s)) : p[1] < Tail(s)[j].key
<1> DEFINE h == Head(s)
           t == Tail(s)
           n == Len(t)
<1>1. s \in Seq(Trees \ {map_blank}) /\ s # << >>
  BY DEF IsStack, MaperatorDone
<1>2. /\ h \in Trees \ {map_blank} /\ t \in Seq(Trees \ {map_blank})
      /\ n = Len(s) - 1 /\ \A i \in 1..n : t[i] = s[i + 1]
  BY <1>1, HeadTailProperties
<1>3. n \in Nat /\ Len(s) = n + 1 /\ h = s[1]
  BY <1>1, <1>2, LenProperties
<1> HIDE DEF h, t
<1>4. 1 \in 1..Len(s) /\ \A i \in 1..n : i + 1 \in 1..Len(s) /\ 1 < i + 1
  BY <1>3
<1>5. \A i \in 1..Len(s) : i = 1 \/ \E j \in 1..n : i = j + 1
  <2> TAKE i \in 1..Len(s)
  <2>1. i = 1 \/ (i - 1 \in 1..n /\ i = (i - 1) + 1)
    BY <1>3
  <2> QED BY <2>1
<1>6. IsMap(h) /\ \A i \in 1..n : IsMap(t[i])
  BY <1>2, <1>3, <1>4 DEF IsStack
<1>7. \A p \in PairsFrom(h) : \A j \in 1..n : p[1] < t[j].key
  BY <1>2, <1>3, <1>4 DEF IsStack
<1>8. IsStack(t)
  <2>1. ASSUME NEW i \in 1..n, NEW j \in 1..n, i < j, NEW p \in PairsFrom(t[i])
        PROVE  p[1] < t[j].key
    <3>1. i + 1 < j + 1
      BY <2>1
    <3> QED BY <1>2, <1>4, <2>1, <3>1 DEF IsStack
  <2> QED BY <1>2, <1>6, <2>1 DEF IsStack
<1>9. Ahead(s) = PairsFrom(h) \cup Ahead(t)
  <2>1. Ahead(s) \subseteq PairsFrom(h) \cup Ahead(t)
    <3> SUFFICES ASSUME NEW i \in 1..Len(s) PROVE PairsFrom(s[i]) \subseteq PairsFrom(h) \cup Ahead(t)
      BY DEF Ahead
    <3> QED BY <1>2, <1>3, <1>5 DEF Ahead
  <2>2. PairsFrom(h) \subseteq Ahead(s)
    BY <1>3, <1>4 DEF Ahead
  <2>3. Ahead(t) \subseteq Ahead(s)
    <3> SUFFICES ASSUME NEW j \in 1..n PROVE PairsFrom(t[j]) \subseteq Ahead(s)
      BY DEF Ahead
    <3> QED BY <1>2, <1>4 DEF Ahead
  <2> QED BY <2>1, <2>2, <2>3
<1>10. << h.key, h.value >> \in Ahead(s)
  BY <1>9 DEF PairsFrom
<1> QED BY <1>2, <1>6, <1>7, <1>8, <1>9, <1>10 DEF h, t

KeysAhead(s) == {p[1] : p \in Ahead(s)}

LEMMA StackKeys ==
  ASSUME NEW s, IsStack(s), NEW p \in Ahead(s)
  PROVE  \E i \in 1..Len(s) : p \in PairsFrom(s[i]) /\ s[i].key \in Int /\ p[1] \in Int /\ s[i].key <= p[1]
<1>1. PICK i \in 1..Len(s) : p \in PairsFrom(s[i])
  BY DEF Ahead
<1> DEFINE n == s[i]
<1>2. IsMap(n) /\ n # map_blank
  <2>1. n \in Trees \ {map_blank}
    BY ElementOfSeq DEF IsStack
  <2> QED BY <2>1 DEF IsStack
<1> HIDE DEF n
<1>3. n.key \in Int /\ \A k \in KeysOf(n.right) : k \in Int /\ n.key < k
  BY <1>2, MapParts
<1>4. p \in PairsFrom(n)
  BY <1>1 DEF n
<1>5. p[1] \in Int /\ n.key <= p[1]
  <2>1. CASE p = << n.key, n.value >>
    <3>1. << n.key, n.value >>[1] = n.key
      OBVIOUS
    <3> QED BY <1>3, <2>1, <3>1
  <2>2. CASE p \in PairsOf(n.right)
    BY <1>3, <2>2, HasPair
  <2> QED BY <1>4, <2>1, <2>2 DEF PairsFrom
<1> QED BY <1>3, <1>4, <1>5 DEF n

(* NextOf goes on from the node on top of the stack, the one with the least *)
(* key ahead.                                                               *)
LEMMA NextStack ==
  ASSUME NEW s, IsStack(s), s # MaperatorDone
  PROVE  /\ Head(s).key \in KeysAhead(s) /\ Head(s).key \in Int
         /\ << Head(s).key, Head(s).value >> \in Ahead(s)
         /\ IsStack(NextOf(s))
         /\ Ahead(NextOf(s)) \subseteq Ahead(s)
         /\ KeysAhead(NextOf(s)) = KeysAhead(s) \ {Head(s).key}
         /\ \A k \in KeysAhead(NextOf(s)) : k \in Int /\ Head(s).key < k
<1> DEFINE h == Head(s)
           t == Tail(s)
           top == << h.key, h.value >>
<1>1. /\ IsMap(h) /\ h # map_blank /\ h \in Trees
      /\ top \in Ahead(s)
      /\ IsStack(t)
      /\ Ahead(s) = PairsFrom(h) \cup Ahead(t)
      /\ \A p \in PairsFrom(h) : \A j \in 1..Len(t) : p[1] < t[j].key
  BY StackTop
<1>2. NextOf(s) = LeftSpine[h.right] \o t
  BY DEF NextOf, Dig
<1> HIDE DEF h, t
<1>3. top[1] = h.key
  OBVIOUS
<1> HIDE DEF top
<1>4. /\ h.key \in Int /\ IsMap(h.right)
      /\ \A k \in KeysOf(h.right) : k \in Int /\ h.key < k
  BY <1>1, MapParts
<1>5. PairsFrom(h) = {top} \cup PairsOf(h.right)
  BY DEF PairsFrom, top
<1>6. IsStack(LeftSpine[h.right]) /\ Ahead(LeftSpine[h.right]) = PairsOf(h.right)
  BY <1>4, SpineStack
<1>7. IsStack(NextOf(s)) /\ Ahead(NextOf(s)) = PairsOf(h.right) \cup Ahead(t)
  BY <1>1, <1>2, <1>5, <1>6, JoinedStack
<1>8. ASSUME NEW p \in PairsOf(h.right) \cup Ahead(t) PROVE p[1] \in Int /\ h.key < p[1]
  <2>1. CASE p \in PairsOf(h.right)
    BY <1>4, <2>1, HasPair
  <2>2. CASE p \in Ahead(t)
    <3>1. PICK j \in 1..Len(t) : t[j].key \in Int /\ p[1] \in Int /\ t[j].key <= p[1]
      BY <1>1, <2>2, StackKeys
    <3>2. h.key < t[j].key
      BY <1>1, <1>3, <1>5
    <3> QED BY <1>4, <3>1, <3>2
  <2> QED BY <2>1, <2>2
<1>9. h.key \in KeysAhead(s)
  BY <1>1, <1>3 DEF KeysAhead
<1>10. \A k \in KeysAhead(NextOf(s)) : k \in Int /\ h.key < k
  BY <1>7, <1>8 DEF KeysAhead
<1>11. KeysAhead(NextOf(s)) = KeysAhead(s) \ {h.key}
  <2>1. h.key \notin KeysAhead(NextOf(s))
    BY <1>4, <1>10
  <2>2. Ahead(s) = {top} \cup Ahead(NextOf(s))
    BY <1>1, <1>5, <1>7
  <2>3. KeysAhead(s) = {h.key} \cup KeysAhead(NextOf(s))
    BY <1>3, <2>2 DEF KeysAhead
  <2> QED BY <2>1, <2>3
<1>12. Ahead(NextOf(s)) \subseteq Ahead(s)
  BY <1>1, <1>5, <1>7
<1> QED BY <1>1, <1>4, <1>7, <1>9, <1>10, <1>11, <1>12 DEF h, top

LEMMA StackDone == \A s : IsStack(s) => (s = MaperatorDone <=> KeysAhead(s) = {})
<1> TAKE s
<1> HAVE IsStack(s)
<1>1. s = MaperatorDone => KeysAhead(s) = {}
  BY EmptyStack DEF MaperatorDone, KeysAhead
<1>2. s # MaperatorDone => KeysAhead(s) # {}
  BY NextStack
<1> QED BY <1>1, <1>2

(* The iterators of a loop.                                                 *)
StepFrom(iter) == IF iter = MaperatorDone THEN iter ELSE NextOf(iter)

LEMMA WalkUnfolds ==
  ASSUME NEW t, IsMap(t)
  PROVE  \E at : /\ at[0] = LeftSpine[t]
                 /\ \A i \in Nat : at[i + 1] = StepFrom(at[i])
                 /\ Walk(t) = LET valid == {i \in 0..Cardinality(Keys) : at[i] # MaperatorDone}
                              IN [i \in 1..Cardinality(valid) |->
                                    << Head(at[i - 1]).key, Head(at[i - 1]).value >>]
<1> DEFINE T == Seq(Trees \ {map_blank})
           R == {p \in Nat \X Nat : p[1] < p[2]}
           start == Dig(t, MaperatorDone)
           body(i, g) == IF i = 0 THEN start ELSE StepFrom(g[i - 1])
           F == [p \in Nat \X [Nat -> T] |-> body(p[1], p[2])]
           Unfolded(f) == f = [i \in Nat |-> IF i = 0 THEN Dig(t, MaperatorDone)
                                 ELSE LET iter == f[i - 1]
                                      IN IF iter = MaperatorDone THEN iter ELSE NextOf(iter)]
           found == CHOOSE f : Unfolded(f)
<1>1. start = LeftSpine[t] /\ start \in T
  <2>1. LeftSpine[t] \in T
    BY SpineStack DEF IsStack
  <2>2. LeftSpine[t] \o << >> = LeftSpine[t]
    BY <2>1, ConcatEmptySeq
  <2> QED BY <2>1, <2>2 DEF Dig, MaperatorDone
<1>2. ASSUME NEW s \in T PROVE StepFrom(s) \in T
  <2>1. CASE s = MaperatorDone
    BY <2>1 DEF StepFrom
  <2>2. CASE s # MaperatorDone
    <3>1. Head(s) \in Trees \ {map_blank} /\ Tail(s) \in T
      BY <2>2, HeadTailProperties DEF MaperatorDone
    <3>2. Head(s).right \in Trees
      BY <3>1, TreesHoldBranches DEF HoldsBranches
    <3>3. LeftSpine[Head(s).right] \in T
      BY <3>2, SpineType
    <3>4. LeftSpine[Head(s).right] \o Tail(s) \in T
      BY <3>1, <3>3, ConcatProperties
    <3> QED BY <2>2, <3>4 DEF StepFrom, NextOf, Dig
  <2> QED BY <2>1, <2>2
<1>3. F \in [Nat \X [Nat -> T] -> T]
  <2>1. ASSUME NEW i \in Nat, NEW g \in [Nat -> T] PROVE body(i, g) \in T
    <3>1. i # 0 => i - 1 \in Nat
      OBVIOUS
    <3> HIDE DEF T, start
    <3> QED BY <1>1, <1>2, <3>1
  <2> QED BY <2>1
<1>4. \A i \in Nat, g \in [Nat -> T] : F[<<i, g>>] = body(i, g)
  OBVIOUS
<1>5. IsWellFoundedOn(R, Nat) /\ IsTransitive(Nat, R)
  <2>1. IsWellFoundedOn(R, Nat)
    BY NatLessThanWellFounded DEF OpToRel
  <2> QED BY <2>1 DEF IsTransitive
<1>6. LooksBelow(Nat, R, T, F)
  <2> SUFFICES ASSUME NEW i \in Nat, NEW g \in [Nat -> T], NEW h \in [Nat -> T],
                      \A y \in Nat : << y, i >> \in R => g[y] = h[y]
               PROVE  F[<<i, g>>] = F[<<i, h>>]
    BY DEF LooksBelow
  <2>0. \A x, y \in Nat : << x, y >> \in R <=> x < y
    OBVIOUS
  <2> HIDE DEF R, F, start, T
  <2>2. i # 0 => i - 1 \in Nat /\ i - 1 < i
    OBVIOUS
  <2>1. i # 0 => i - 1 \in Nat /\ << i - 1, i >> \in R
    BY <2>0, <2>2
  <2> QED BY <1>4, <2>1
<1> HIDE DEF F, R
<1>7. PICK f \in [Nat -> T] : Solves(f, Nat, F)
  <2>1. T # {}
    BY <1>1
  <2> HIDE DEF T
  <2> QED BY <1>3, <1>5, <1>6, <2>1, Recursion
<1>8. Unfolded(f)
  <2>1. \A i \in Nat : f[i] = body(i, f)
    BY <1>4, <1>7 DEF Solves
  <2>2. f = [i \in Nat |-> body(i, f)]
    BY <1>7, <2>1
  <2> QED BY <2>2 DEF StepFrom
<1>9. Unfolded(found)
  <2> HIDE DEF Unfolded
  <2> QED BY <1>8
<1>10. Walk(t) = LET valid == {i \in 0..Cardinality(Keys) : found[i] # MaperatorDone}
                 IN [i \in 1..Cardinality(valid) |->
                       << Head(found[i - 1]).key, Head(found[i - 1]).value >>]
  BY DEF Walk
<1> HIDE DEF found
<1>11. found[0] = LeftSpine[t]
  BY <1>1, <1>9
<1>12. ASSUME NEW i \in Nat PROVE found[i + 1] = StepFrom(found[i])
  <2>1. i + 1 \in Nat /\ i + 1 # 0 /\ (i + 1) - 1 = i
    OBVIOUS
  <2> HIDE DEF start
  <2> QED BY <1>9, <2>1 DEF StepFrom
<1> QED BY <1>10, <1>11, <1>12

(* A loop over a map sees its pairs once each, in the order of their keys.  *)
LEMMA Walked ==
  ASSUME NEW t, IsMap(t), NEW N, N = Cardinality(KeysOf(t))
  PROVE  /\ N \in Nat /\ Walk(t) \in Seq(PairsOf(t)) /\ Len(Walk(t)) = N
         /\ \A i, j \in 1..N : i < j => Walk(t)[i][1] < Walk(t)[j][1]
<1>1. PICK at : /\ at[0] = LeftSpine[t]
                /\ \A i \in Nat : at[i + 1] = StepFrom(at[i])
                /\ Walk(t) = LET valid == {i \in 0..Cardinality(Keys) : at[i] # MaperatorDone}
                             IN [i \in 1..Cardinality(valid) |->
                                   << Head(at[i - 1]).key, Head(at[i - 1]).value >>]
  BY WalkUnfolds
<1>2. /\ N \in Nat /\ IsFiniteSet(KeysOf(t))
      /\ Cardinality(Keys) \in Nat /\ N <= Cardinality(Keys)
  <2>1. KeysOf(t) \subseteq Keys /\ IsFiniteSet(Keys) /\ IsFiniteSet(KeysOf(t)) /\ N \in Nat
    BY KeysOfTypes, KeysAssumption, SearchTreeSize DEF IsMap
  <2> QED BY <2>1, FS_Subset, FS_CardinalityType
<1> DEFINE Fine(i) == /\ IsStack(at[i]) /\ Ahead(at[i]) \subseteq PairsOf(t)
                      /\ IsFiniteSet(KeysAhead(at[i]))
                      /\ Cardinality(KeysAhead(at[i])) = N - i
           P == {i \in Nat : i <= N => Fine(i)}
<1>3. 0 \in P
  <2>1. IsStack(at[0]) /\ Ahead(at[0]) = PairsOf(t)
    BY <1>1, SpineStack
  <2>2. KeysAhead(at[0]) = KeysOf(t)
    BY <2>1, KeysOfPairs DEF KeysAhead
  <2>3. N = N - 0
    BY <1>2
  <2> QED BY <1>2, <2>1, <2>2, <2>3
<1>4. ASSUME NEW i \in Nat, i < N, Fine(i)
      PROVE  /\ at[i] # MaperatorDone /\ at[i + 1] = NextOf(at[i])
             /\ Fine(i + 1)
             /\ << Head(at[i]).key, Head(at[i]).value >> \in PairsOf(t)
             /\ Head(at[i]).key \in KeysAhead(at[i])
             /\ KeysAhead(at[i + 1]) \subseteq KeysAhead(at[i])
             /\ \A k \in KeysAhead(at[i + 1]) : Head(at[i]).key < k
  <2>1. KeysAhead(at[i]) # {}
    <3>1. N - i # 0
      BY <1>2, <1>4
    <3> QED BY <1>4, <3>1, FS_EmptySet
  <2>2. at[i] # MaperatorDone
    BY <1>4, <2>1, StackDone
  <2>3. at[i + 1] = NextOf(at[i])
    BY <1>1, <2>2 DEF StepFrom
  <2>4. /\ Head(at[i]).key \in KeysAhead(at[i])
        /\ << Head(at[i]).key, Head(at[i]).value >> \in Ahead(at[i])
        /\ IsStack(at[i + 1])
        /\ Ahead(at[i + 1]) \subseteq Ahead(at[i])
        /\ KeysAhead(at[i + 1]) = KeysAhead(at[i]) \ {Head(at[i]).key}
        /\ \A k \in KeysAhead(at[i + 1]) : Head(at[i]).key < k
    BY <1>4, <2>2, <2>3, NextStack
  <2>5. /\ IsFiniteSet(KeysAhead(at[i + 1]))
        /\ Cardinality(KeysAhead(at[i + 1])) = Cardinality(KeysAhead(at[i])) - 1
    <3> DEFINE K == KeysAhead(at[i])
               x == Head(at[i]).key
    <3>1. IsFiniteSet(K) /\ x \in K
      BY <1>4, <2>4
    <3> HIDE DEF K, x
    <3>2. IsFiniteSet(K \ {x}) /\ Cardinality(K \ {x}) = Cardinality(K) - 1
      BY <3>1, FS_RemoveElement
    <3> QED BY <2>4, <3>2 DEF K, x
  <2>6. Cardinality(KeysAhead(at[i + 1])) = N - (i + 1)
    BY <1>2, <1>4, <2>5
  <2> QED BY <1>4, <2>2, <2>3, <2>4, <2>5, <2>6
<1>5. ASSUME NEW i \in P PROVE i + 1 \in P
  <2> SUFFICES ASSUME i + 1 <= N PROVE Fine(i + 1)
    OBVIOUS
  <2>1. i \in Nat /\ i < N /\ Fine(i)
    BY <1>2
  <2> HIDE DEF Fine
  <2> QED BY <1>4, <2>1
<1> HIDE DEF P
<1>6. P = Nat
  <2>1. P \in SUBSET Nat
    BY DEF P
  <2> QED BY <1>3, <1>5, <2>1, Induction
<1>7. \A i \in Nat : i <= N => Fine(i)
  BY <1>6 DEF P
<1>8. \A i \in Nat : N <= i => at[i] = MaperatorDone
  <2> DEFINE Q == {i \in Nat : N <= i => at[i] = MaperatorDone}
  <2>1. at[N] = MaperatorDone
    <3>1. IsStack(at[N]) /\ IsFiniteSet(KeysAhead(at[N])) /\ Cardinality(KeysAhead(at[N])) = N - N
      BY <1>2, <1>7
    <3>2. KeysAhead(at[N]) = {}
      <4>1. N - N = 0
        BY <1>2
      <4> QED BY <3>1, <4>1, FS_EmptySet
    <3> QED BY <3>1, <3>2, StackDone
  <2>2. 0 \in Q
    <3>1. N <= 0 => N = 0
      BY <1>2
    <3> QED BY <2>1, <3>1
  <2>3. ASSUME NEW i \in Q PROVE i + 1 \in Q
    <3>1. CASE N = i + 1
      BY <2>1, <3>1
    <3>2. CASE N # i + 1
      <4> SUFFICES ASSUME N <= i + 1 PROVE at[i + 1] = MaperatorDone
        OBVIOUS
      <4>1. N <= i
        BY <1>2, <3>2
      <4> QED BY <1>1, <4>1 DEF StepFrom
    <3> QED BY <3>1, <3>2
  <2> HIDE DEF Q
  <2>4. Q = Nat
    <3>1. Q \in SUBSET Nat
      BY DEF Q
    <3> QED BY <2>2, <2>3, <3>1, Induction
  <2> QED BY <2>4 DEF Q
<1> DEFINE pair(i) == << Head(at[i - 1]).key, Head(at[i - 1]).value >>
<1>9. Walk(t) = [i \in 1..N |-> pair(i)]
  <2> DEFINE valid == {i \in 0..Cardinality(Keys) : at[i] # MaperatorDone}
  <2>1. valid = 0..(N - 1)
    <3>1. ASSUME NEW i \in 0..(N - 1) PROVE i \in valid
      <4>1. i \in Nat /\ i < N /\ i <= N /\ i \in 0..Cardinality(Keys)
        BY <1>2
      <4>2. Fine(i)
        BY <1>7, <4>1
      <4> HIDE DEF Fine
      <4> QED BY <1>4, <4>1, <4>2
    <3>2. ASSUME NEW i \in valid PROVE i \in 0..(N - 1)
      <4>1. i \in Nat /\ ~ (N <= i)
        BY <1>8
      <4> QED BY <1>2, <4>1
    <3> QED BY <3>1, <3>2
  <2>2. Cardinality(0..(N - 1)) = N
    <3>1. 0 \in Int /\ N - 1 \in Int
      BY <1>2
    <3>2. Cardinality(0..(N - 1)) = IF 0 > N - 1 THEN 0 ELSE (N - 1) - 0 + 1
      BY <3>1, FS_Interval
    <3> QED BY <1>2, <3>2
  <2>3. Cardinality(valid) = N
    BY <2>1, <2>2
  <2> HIDE DEF valid
  <2>4. Walk(t) = [i \in 1..Cardinality(valid) |-> pair(i)]
    BY <1>1 DEF valid
  <2> QED BY <2>3, <2>4
<1>10. ASSUME NEW i \in 1..N
       PROVE  /\ i - 1 \in Nat /\ i - 1 < N /\ i - 1 <= N /\ (i - 1) + 1 = i /\ Fine(i - 1)
              /\ pair(i) \in PairsOf(t)
  <2>1. i - 1 \in Nat /\ i - 1 < N /\ i - 1 <= N /\ (i - 1) + 1 = i
    BY <1>2
  <2>2. Fine(i - 1)
    BY <1>7, <2>1
  <2> HIDE DEF Fine
  <2>3. pair(i) \in PairsOf(t)
    BY <1>4, <2>1, <2>2
  <2> QED BY <2>1, <2>2, <2>3
<1>11. \A j \in Nat : \A i \in Nat : i <= j /\ j <= N => KeysAhead(at[j]) \subseteq KeysAhead(at[i])
  <2> DEFINE Q == {j \in Nat : \A i \in Nat : i <= j /\ j <= N => KeysAhead(at[j]) \subseteq KeysAhead(at[i])}
  <2>1. 0 \in Q
    <3>1. \A i \in Nat : i <= 0 => i = 0
      OBVIOUS
    <3> QED BY <3>1
  <2>2. ASSUME NEW j \in Q PROVE j + 1 \in Q
    <3> SUFFICES ASSUME NEW i \in Nat, i <= j + 1, j + 1 <= N
                 PROVE  KeysAhead(at[j + 1]) \subseteq KeysAhead(at[i])
      OBVIOUS
    <3>1. j \in Nat /\ j < N /\ j <= N
      BY <1>2
    <3>2. KeysAhead(at[j + 1]) \subseteq KeysAhead(at[j])
      <4>1. Fine(j)
        BY <1>7, <3>1
      <4> HIDE DEF Fine, Q
      <4> QED BY <1>4, <3>1, <4>1
    <3>3. CASE i = j + 1
      BY <3>3
    <3>4. CASE i <= j
      BY <3>1, <3>2, <3>4
    <3>5. i = j + 1 \/ i <= j
      BY <3>1
    <3> QED BY <3>3, <3>4, <3>5
  <2> HIDE DEF Q
  <2>3. Q = Nat
    <3>1. Q \in SUBSET Nat
      BY DEF Q
    <3> QED BY <2>1, <2>2, <3>1, Induction
  <2> QED BY <2>3 DEF Q
<1>12. ASSUME NEW i \in 1..N, NEW j \in 1..N, i < j PROVE pair(i)[1] < pair(j)[1]
  <2>1. i - 1 \in Nat /\ i - 1 < N /\ (i - 1) + 1 = i /\ Fine(i - 1)
        /\ j - 1 \in Nat /\ j - 1 < N /\ Fine(j - 1)
    BY <1>10
  <2>2. i <= j - 1 /\ j - 1 <= N /\ i \in Nat
    BY <1>2, <1>12
  <2> HIDE DEF Fine
  <2>3. Head(at[j - 1]).key \in KeysAhead(at[j - 1])
    BY <1>4, <2>1
  <2>4. KeysAhead(at[j - 1]) \subseteq KeysAhead(at[i])
    BY <1>11, <2>1, <2>2
  <2>5. \A k \in KeysAhead(at[(i - 1) + 1]) : Head(at[i - 1]).key < k
    BY <1>4, <2>1
  <2>6. Head(at[i - 1]).key < Head(at[j - 1]).key
    BY <2>1, <2>3, <2>4, <2>5
  <2>7. pair(i)[1] = Head(at[i - 1]).key /\ pair(j)[1] = Head(at[j - 1]).key
    OBVIOUS
  <2> QED BY <2>6, <2>7
<1>13. Walk(t) \in Seq(PairsOf(t)) /\ Len(Walk(t)) = N /\ \A i \in 1..N : Walk(t)[i] = pair(i)
  <2> HIDE DEF pair
  <2>1. [i \in 1..N |-> pair(i)] \in Seq(PairsOf(t))
    BY <1>2, <1>10, IsASeq
  <2>2. Len([i \in 1..N |-> pair(i)]) = N /\ \A i \in 1..N : [x \in 1..N |-> pair(x)][i] = pair(i)
    BY <1>2
  <2> QED BY <1>9, <2>1, <2>2
<1> HIDE DEF pair
<1> QED BY <1>2, <1>12, <1>13

-----------------------------------------------------------------------------
(* The tree answers as a map does.                                          *)
IterateAsMap == map' = map /\ answer' = << "pairs" >> \o Walk(map)

LEMMA SameCardinality == \A S : Plain!Cardinality(S) = Cardinality(S)
BY DEF Plain!Cardinality, Cardinality

LEMMA NextContents == Contents(map)' = Contents(map')
BY DEF Contents

LEMMA KeyedInit == Init => Plain!Init
<1> SUFFICES ASSUME Init PROVE Plain!Init
  OBVIOUS
<1>1. map = map_blank /\ answer = << "none" >>
  BY DEF Init
<1>2. Contents(map_blank) = [k \in KeysOf(map_blank) |-> Contents(map_blank)[k]]
  BY ContentsOfMap, BlankMap
<1>3. KeysOf(map_blank) = {}
  BY BlankSearchTree
<1>4. Contents(map_blank) = << >>
  <2>1. [k \in {} |-> Contents(map_blank)[k]] = << >>
    OBVIOUS
  <2> QED BY <1>2, <1>3, <2>1
<1> QED BY <1>1, <1>4 DEF Plain!Init

LEMMA KeyedIterate == MapInvariant /\ IterateAsMap => Plain!Iterate
<1> SUFFICES ASSUME IsMap(map), IterateAsMap PROVE Plain!Iterate
  BY DEF MapInvariant
<1> DEFINE content == Contents(map)
           w == Walk(map)
           N == Cardinality(KeysOf(map))
<1>1. map' = map /\ answer' = << "pairs" >> \o w
  BY DEF IterateAsMap
<1>2. /\ N \in Nat /\ w \in Seq(PairsOf(map)) /\ Len(w) = N
      /\ \A i, j \in 1..N : i < j => w[i][1] < w[j][1]
  BY Walked
<1>3. DOMAIN content = KeysOf(map) /\ \A p \in PairsOf(map) : content[p[1]] = p[2]
  BY ContentsOfMap
<1> HIDE DEF w, content, N
<1>4. answer'[1] = "pairs" /\ Tail(answer') = w
  <2> DEFINE S == {"pairs"} \cup PairsOf(map)
  <2>1. << "pairs" >> \in Seq(S) /\ Len(<< "pairs" >>) = 1 /\ << "pairs" >>[1] = "pairs"
    OBVIOUS
  <2>2. w \in Seq(S)
    <3>1. PairsOf(map) \subseteq S
      OBVIOUS
    <3> HIDE DEF S
    <3> QED BY <1>2, <3>1, SeqMonotonic
  <2> HIDE DEF S
  <2>3. /\ answer' \in Seq(S) /\ Len(answer') = 1 + N
        /\ \A i \in 1..(1 + N) : answer'[i] = IF i <= 1 THEN << "pairs" >>[i] ELSE w[i - 1]
    BY <1>1, <1>2, <2>1, <2>2, ConcatProperties
  <2>4. answer'[1] = "pairs" /\ answer' # << >>
    <3>1. 1 \in 1..(1 + N)
      BY <1>2
    <3>2. answer'[1] = "pairs"
      BY <2>1, <2>3, <3>1
    <3>3. Len(answer') # 0
      BY <1>2, <2>3
    <3> QED BY <3>2, <3>3, EmptySeq
  <2>5. /\ Tail(answer') \in Seq(S) /\ Len(Tail(answer')) = N
        /\ \A i \in 1..N : Tail(answer')[i] = answer'[i + 1]
    <3>1. Len(Tail(answer')) = Len(answer') - 1
          /\ Tail(answer') \in Seq(S)
          /\ \A i \in 1..Len(Tail(answer')) : Tail(answer')[i] = answer'[i + 1]
      BY <2>3, <2>4, HeadTailProperties
    <3>2. (1 + N) - 1 = N
      BY <1>2
    <3> QED BY <2>3, <3>1, <3>2
  <2>6. \A i \in 1..N : Tail(answer')[i] = w[i]
    <3> TAKE i \in 1..N
    <3>1. i + 1 \in 1..(1 + N) /\ ~ (i + 1 <= 1) /\ (i + 1) - 1 = i
      BY <1>2
    <3> QED BY <2>3, <2>5, <3>1
  <2>7. Tail(answer') = w
    BY <1>2, <2>2, <2>5, <2>6, SeqEqual
  <2> QED BY <2>4, <2>7
<1>5. DOMAIN w = 1..N
  BY <1>2, LenProperties
<1>6. Len(w) = Cardinality(DOMAIN content)
  BY <1>2, <1>3 DEF N
<1>10. Cardinality(DOMAIN content) = Plain!Cardinality(DOMAIN content)
  BY SameCardinality
<1>7. Plain!IsOrdered(w)
  BY <1>2, <1>5 DEF Plain!IsOrdered
<1>8. \A i \in DOMAIN w : w[i][1] \in DOMAIN content /\ w[i][2] = content[w[i][1]]
  <2> TAKE i \in DOMAIN w
  <2>1. w[i] \in PairsOf(map)
    BY <1>2, <1>5, ElementOfSeq
  <2> QED BY <1>3, <2>1, HasPair
<1>9. UNCHANGED content
  BY <1>1 DEF content
<1> QED BY <1>4, <1>6, <1>7, <1>8, <1>9, <1>10 DEF Plain!Iterate, content

LEMMA KeyedStep == MapInvariant /\ [Next]_vars => [Plain!Next]_<<Contents(map), answer>>
<1> SUFFICES ASSUME IsMap(map), [Next]_vars PROVE [Plain!Next]_<<Contents(map), answer>>
  BY DEF MapInvariant
<1>0. /\ DOMAIN Contents(map) = KeysOf(map)
      /\ \A p \in PairsOf(map) : Contents(map)[p[1]] = p[2]
  BY ContentsOfMap
<1>1. ASSUME NEW k \in Keys, NEW v \in ValuesOf(k), Map_Insert(k, v) PROVE Plain!Insert(k, v)
  <2>1. IsInserted(map', map, k, v) /\ answer' = << "none" >>
    BY <1>1, Offered, Inserted DEF Map_Insert
  <2>2. Contents(map') = With(Contents(map), k, v)
    BY <2>1, InsertedContents
  <2> QED BY <2>1, <2>2, NextContents DEF Plain!Insert, With
<1>2. ASSUME NEW k \in Keys, Map_Remove(k) PROVE Plain!Remove(k)
  <2>1. IsRemoved(map', map, k) /\ answer' = << "none" >>
    BY <1>2, Offered, Removed DEF Map_Remove
  <2>2. Contents(map') = Without(Contents(map), k)
    BY <2>1, RemovedContents
  <2> QED BY <2>1, <2>2, NextContents DEF Plain!Remove, Plain!Restrict, Without
<1>3. ASSUME NEW k \in Keys, Map_Lookup(k) PROVE Plain!Lookup(k)
  <2>1. IF k \in KeysOf(map)
          THEN Find(map, k) # map_blank /\ << k, Find(map, k).value >> \in PairsOf(map)
          ELSE Find(map, k) = map_blank
    BY Offered, Found
  <2>2. k \in KeysOf(map) => Contents(map)[k] = Find(map, k).value
    <3>1. << k, Find(map, k).value >>[1] = k
          /\ << k, Find(map, k).value >>[2] = Find(map, k).value
      OBVIOUS
    <3> QED BY <1>0, <2>1, <3>1
  <2> QED BY <1>0, <1>3, <2>1, <2>2 DEF Map_Lookup, Plain!Lookup, KeyNotFound, Plain!NotFound
<1>4. ASSUME NEW k \in Keys, Map_Contains(k) PROVE Plain!Contains(k)
  <2>1. k \in KeysOf(map) <=> Find(map, k) # map_blank
    BY Offered, Found
  <2> QED BY <1>0, <1>4, <2>1 DEF Map_Contains, Plain!Contains
<1>5. ASSUME Map_Size PROVE Plain!Size
  <2>1. Get(map).size = Cardinality(KeysOf(map))
    BY SearchTreeSize DEF IsMap
  <2> QED BY <1>0, <1>5, <2>1, SameCardinality DEF Map_Size, Plain!Size
<1>6. ASSUME Map_Iterate PROVE Plain!Iterate
  BY <1>6, KeyedIterate DEF Map_Iterate, IterateAsMap, MapInvariant
<1>7. ASSUME UNCHANGED vars PROVE UNCHANGED <<Contents(map), answer>>
  BY <1>7 DEF vars
<1> QED BY <1>1, <1>2, <1>3, <1>4, <1>5, <1>6, <1>7 DEF Next, Plain!Next

(* Insert, remove, lookup, contains, size and a loop answer as those of a   *)
(* function from keys to values do: no pair is lost when links are put      *)
(* right, a key has its latest value, and a loop sees each pair once, in    *)
(* the order of the keys.                                                   *)
THEOREM AnswersAsKeyedMap == Spec => ImplementsKeyedMap
<1> QED BY KeyedInit, KeyedStep, MapIsMap, PTL DEF Spec, ImplementsKeyedMap, Plain!Spec
=============================================================================
