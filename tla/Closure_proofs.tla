--------------------------- MODULE Closure_proofs ---------------------------
(* Induction on naturals, stated with sets; what follows a function that    *)
(* adds to a set, step by step, until there is nothing to add: how Reach of *)
(* Collector and Chain of Zones are defined; and recursive definitions on a *)
(* set with a well-founded order, like Meaning of BlockPrograms.            *)
EXTENDS Integers, FiniteSetTheorems, WellFoundedInduction, TLAPS

LEMMA LeastElement ==
  ASSUME NEW S \in SUBSET Nat, S # {}
  PROVE  \E m \in S : \A r \in S : m <= r
<1> DEFINE Less == {ss \in Nat \X Nat : ss[1] < ss[2]}
<1>1. IsWellFoundedOn(Less, Nat)
  BY NatLessThanWellFounded DEF OpToRel
<1>2. PICK m \in S : \A r \in S : ~ <<r, m>> \in Less
  <2> HIDE DEF Less
  <2> QED BY <1>1, WFMin
<1>3. \A r \in S : m <= r
  <2> SUFFICES ASSUME NEW r \in S, r < m PROVE FALSE
    BY SMT
  <2>1. <<r, m>> \in Nat \X Nat
    BY Zenon
  <2> QED BY <1>2, <2>1
<1> QED BY <1>3

LEMMA Induction ==
  ASSUME NEW S \in SUBSET Nat, 0 \in S, \A n \in S : n + 1 \in S
  PROVE  S = Nat
<1> SUFFICES ASSUME Nat \ S # {} PROVE FALSE
  OBVIOUS
<1>1. PICK m \in Nat \ S : \A r \in Nat \ S : m <= r
  BY LeastElement
<1>2. m - 1 \in Nat /\ m = (m - 1) + 1 /\ ~ m <= m - 1
  OBVIOUS
<1> QED BY <1>1, <1>2

(* The first L sets of an iteration of G from s.                            *)
Steps(f, L, s, G) == f[0] = s /\ \A n \in 1..L : f[n] = G[f[n - 1]]
StepsWithin(U, f, L, s, G) ==
    f[0] = s /\ \A n \in 1..L : f[n - 1] \in SUBSET U => f[n] = G[f[n - 1]]
WorksIn(U, G) == G \in [SUBSET U -> SUBSET U]
StaysIn(T, G) == \A S \in SUBSET T : G[S] \in SUBSET T

LEMMA Iteration ==
  ASSUME NEW U, NEW s \in SUBSET U, NEW G \in [SUBSET U -> SUBSET U], NEW L \in Nat
  PROVE  \E f \in [0..L -> SUBSET U] : Steps(f, L, s, G)
<1> DEFINE Has == {n \in Nat : \E f \in [0..n -> SUBSET U] : Steps(f, n, s, G)}
<1>1. 0 \in Has
  <2> DEFINE f == [n \in 0..0 |-> s]
  <2>1. f \in [0..0 -> SUBSET U] /\ Steps(f, 0, s, G)
    BY DEF Steps
  <2> QED BY <2>1
<1>2. ASSUME NEW n \in Has PROVE n + 1 \in Has
  <2>1. n \in Nat /\ n + 1 \in Nat
    OBVIOUS
  <2>2. PICK f \in [0..n -> SUBSET U] : Steps(f, n, s, G)
    OBVIOUS
  <2> DEFINE g == [i \in 0..(n + 1) |-> IF i <= n THEN f[i] ELSE G[f[n]]]
  <2>3. g \in [0..(n + 1) -> SUBSET U]
    BY <2>1, <2>2
  <2>4. \A i \in 0..n : g[i] = f[i]
    BY <2>1
  <2>5. g[n + 1] = G[f[n]]
    BY <2>1
  <2> HIDE DEF g
  <2>6. ASSUME NEW i \in 1..(n + 1) PROVE g[i] = G[g[i - 1]]
    <3>1. CASE i = n + 1
      BY <2>1, <2>4, <2>5, <3>1
    <3>2. CASE i \in 1..n
      BY <2>1, <2>2, <2>4, <3>2 DEF Steps
    <3> QED BY <2>1, <3>1, <3>2
  <2>7. Steps(g, n + 1, s, G)
    BY <2>1, <2>2, <2>4, <2>6 DEF Steps
  <2> QED BY <2>1, <2>3, <2>7
<1> HIDE DEF Has
<1>3. Has = Nat
  BY <1>1, <1>2, Induction DEF Has
<1> QED BY <1>3 DEF Has

LEMMA StepsTyped ==
  ASSUME NEW U, NEW s \in SUBSET U, NEW G \in [SUBSET U -> SUBSET U], NEW L \in Nat,
         NEW f, StepsWithin(U, f, L, s, G)
  PROVE  Steps(f, L, s, G) /\ \A n \in 0..L : f[n] \in SUBSET U
<1> DEFINE Fine == {n \in Nat : n <= L => f[n] \in SUBSET U}
<1>1. 0 \in Fine
  BY DEF StepsWithin
<1>2. ASSUME NEW n \in Fine PROVE n + 1 \in Fine
  <2>1. n \in Nat /\ n + 1 \in Nat /\ (n + 1) - 1 = n
    OBVIOUS
  <2>2. n + 1 <= L => n <= L /\ n + 1 \in 1..L
    BY <2>1
  <2>3. n + 1 <= L => f[n + 1] = G[f[n]]
    BY <2>1, <2>2 DEF StepsWithin
  <2> QED BY <2>1, <2>2, <2>3
<1> HIDE DEF Fine
<1>3. Fine = Nat
  BY <1>1, <1>2, Induction DEF Fine
<1>4. \A n \in 0..L : f[n] \in SUBSET U
  BY <1>3 DEF Fine
<1>5. \A n \in 1..L : n - 1 \in 0..L
  OBVIOUS
<1> QED BY <1>4, <1>5 DEF Steps, StepsWithin

LEMMA StepsInside ==
  ASSUME NEW U, NEW s \in SUBSET U, NEW G, WorksIn(U, G), NEW L \in Nat,
         NEW f, Steps(f, L, s, G)
  PROVE  f[L] \in SUBSET U
<1>1. StepsWithin(U, f, L, s, G) /\ G \in [SUBSET U -> SUBSET U]
  BY DEF Steps, StepsWithin, WorksIn
<1>2. L \in 0..L
  OBVIOUS
<1> QED BY <1>1, <1>2, StepsTyped

(* Each set but a last one adds an element, so after as many steps as there *)
(* are elements nothing is left to add.                                     *)
LEMMA ClosureReached ==
  ASSUME NEW U, IsFiniteSet(U), NEW s \in SUBSET U, NEW G \in [SUBSET U -> SUBSET U],
         \A S \in SUBSET U : S \subseteq G[S],
         NEW L \in Nat, Cardinality(U) <= L + Cardinality(s),
         NEW f, Steps(f, L, s, G)
  PROVE  G[f[L]] = f[L] /\ s \subseteq f[L]
<1>1. \A n \in 0..L : f[n] \in SUBSET U
  <2>1. StepsWithin(U, f, L, s, G)
    BY DEF Steps, StepsWithin
  <2> QED BY <2>1, StepsTyped
<1>2. Cardinality(s) \in Nat /\ Cardinality(U) \in Nat
  BY FS_CardinalityType, FS_Subset
<1> DEFINE Grown(n) == s \subseteq f[n] /\ (G[f[n]] = f[n] \/ Cardinality(f[n]) >= n + Cardinality(s))
           Grows == {n \in Nat : n <= L => Grown(n)}
<1>3. 0 \in Grows
  BY <1>2 DEF Steps
<1>4. ASSUME NEW n \in Grows PROVE n + 1 \in Grows
  <2> SUFFICES ASSUME n + 1 <= L PROVE Grown(n + 1)
    OBVIOUS
  <2>1. n \in Nat /\ n \in 0..L /\ n + 1 \in 1..L /\ n + 1 \in 0..L /\ (n + 1) - 1 = n
    OBVIOUS
  <2>2. Grown(n)
    BY <2>1
  <2>3. f[n + 1] = G[f[n]] /\ f[n] \in SUBSET U /\ f[n] \subseteq G[f[n]] /\ f[n + 1] \in SUBSET U
    BY <1>1, <2>1 DEF Steps
  <2>4. CASE G[f[n]] = f[n]
    BY <2>2, <2>3, <2>4
  <2>5. CASE G[f[n]] # f[n]
    <3>1. PICK x \in f[n + 1] : x \notin f[n]
      BY <2>3, <2>5
    <3>2. IsFiniteSet(f[n]) /\ IsFiniteSet(f[n + 1])
      BY <2>3, FS_Subset
    <3>3. IsFiniteSet(f[n] \cup {x}) /\ Cardinality(f[n] \cup {x}) = Cardinality(f[n]) + 1
      BY <3>1, <3>2, FS_AddElement
    <3>4. f[n] \cup {x} \in SUBSET f[n + 1]
      BY <2>3, <3>1
    <3>5. Cardinality(f[n] \cup {x}) <= Cardinality(f[n + 1])
      BY <3>2, <3>4, FS_Subset
    <3>6. Cardinality(f[n]) \in Nat /\ Cardinality(f[n + 1]) \in Nat
      BY <3>2, FS_CardinalityType
    <3>7. Cardinality(f[n + 1]) >= (n + 1) + Cardinality(s)
      BY <1>2, <2>1, <2>2, <2>5, <3>3, <3>5, <3>6
    <3> QED BY <2>2, <2>3, <3>7
  <2> QED BY <2>4, <2>5
<1>5. Grown(L)
  <2> HIDE DEF Grows
  <2>1. Grows = Nat
    BY <1>3, <1>4, Induction DEF Grows
  <2> QED BY <2>1 DEF Grows
<1>6. CASE Cardinality(f[L]) >= L + Cardinality(s)
  <2>1. f[L] \in SUBSET U /\ IsFiniteSet(f[L]) /\ Cardinality(f[L]) \in Nat
    BY <1>1, FS_Subset, FS_CardinalityType
  <2>2. Cardinality(f[L]) <= Cardinality(U)
    BY <2>1, FS_Subset
  <2>3. Cardinality(U) = Cardinality(f[L])
    BY <1>2, <1>6, <2>1, <2>2
  <2>4. f[L] = U
    BY <2>1, <2>3, FS_Subset
  <2> QED BY <1>5, <2>4
<1> QED BY <1>5, <1>6

LEMMA ClosureLeast ==
  ASSUME NEW U, NEW s \in SUBSET U, NEW G \in [SUBSET U -> SUBSET U], NEW L \in Nat,
         NEW f, Steps(f, L, s, G),
         NEW T \in SUBSET U, s \subseteq T, StaysIn(T, G)
  PROVE  f[L] \subseteq T
<1> DEFINE Fine == {n \in Nat : n <= L => f[n] \subseteq T}
<1>1. 0 \in Fine
  BY DEF Steps
<1>2. ASSUME NEW n \in Fine PROVE n + 1 \in Fine
  <2>1. n \in Nat /\ n + 1 \in Nat /\ (n + 1) - 1 = n
    OBVIOUS
  <2>2. n + 1 <= L => n <= L /\ n + 1 \in 1..L
    BY <2>1
  <2>3. n + 1 <= L => f[n + 1] = G[f[n]]
    BY <2>1, <2>2 DEF Steps
  <2> QED BY <2>1, <2>2, <2>3 DEF StaysIn
<1> HIDE DEF Fine
<1>3. Fine = Nat
  BY <1>1, <1>2, Induction DEF Fine
<1> QED BY <1>3 DEF Fine

-----------------------------------------------------------------------------
(* A recursive definition f[x] = F[<<x, f>>] on a set S, where F looks at f *)
(* only below x, has a solution.                                            *)
LooksBelow(S, R, T, F) ==
    \A x \in S : \A g, h \in [S -> T] :
        (\A y \in S : <<y, x>> \in R => g[y] = h[y]) => F[<<x, g>>] = F[<<x, h>>]
IsTransitive(S, R) == \A x, y, z \in S : <<x, y>> \in R /\ <<y, z>> \in R => <<x, z>> \in R

(* g is a solution at x and below.                                          *)
SolvesTo(g, x, S, R, F) ==
    \A y \in S : y = x \/ <<y, x>> \in R => g[y] = F[<<y, g>>]

LEMMA SolutionsAgree ==
  ASSUME NEW S, NEW R, IsWellFoundedOn(R, S), IsTransitive(S, R), NEW T, NEW F,
         LooksBelow(S, R, T, F), NEW x \in S,
         NEW g \in [S -> T], NEW h \in [S -> T],
         SolvesTo(g, x, S, R, F), SolvesTo(h, x, S, R, F)
  PROVE  g[x] = h[x]
<1> DEFINE Within == {y \in S : y = x \/ <<y, x>> \in R}
           Bad == {y \in Within : g[y] # h[y]}
<1>1. SUFFICES ASSUME Bad # {} PROVE FALSE
  OBVIOUS
<1>2. PICK y \in Bad : \A z \in Bad : ~ <<z, y>> \in R
  <2>1. Bad \subseteq S
    OBVIOUS
  <2> HIDE DEF Bad
  <2> QED BY <1>1, <2>1, WFMin
<1>3. ASSUME NEW z \in S, <<z, y>> \in R PROVE g[z] = h[z]
  <2>1. z \in Within
    BY <1>3 DEF IsTransitive
  <2> QED BY <1>2, <1>3, <2>1
<1>4. F[<<y, g>>] = F[<<y, h>>]
  BY <1>3 DEF LooksBelow
<1>5. g[y] = F[<<y, g>>] /\ h[y] = F[<<y, h>>]
  BY DEF SolvesTo
<1> QED BY <1>4, <1>5

LEMMA SolvesBelow ==
  ASSUME NEW S, NEW R, IsTransitive(S, R), NEW F, NEW x \in S, NEW g,
         SolvesTo(g, x, S, R, F), NEW y \in S, <<y, x>> \in R
  PROVE  SolvesTo(g, y, S, R, F)
BY DEF SolvesTo, IsTransitive

(* Solutions for all of U make up one.                                      *)
IsClosed(U, S, R) == U \subseteq S /\ \A y \in U : \A z \in S : <<z, y>> \in R => z \in U
IsSolved(U, S, R, T, F) == \A y \in U : \E g \in [S -> T] : SolvesTo(g, y, S, R, F)
Solves(f, U, F) == \A y \in U : f[y] = F[<<y, f>>]

LEMMA SolutionsJoin ==
  ASSUME NEW S, NEW R, IsWellFoundedOn(R, S), IsTransitive(S, R), NEW T, T # {},
         NEW F \in [S \X [S -> T] -> T], LooksBelow(S, R, T, F),
         NEW U, IsClosed(U, S, R), IsSolved(U, S, R, T, F)
  PROVE  \E f \in [S -> T] : Solves(f, U, F)
<1> USE DEF IsClosed, IsSolved, Solves
<1> DEFINE Values(y) == {v \in T : \E g \in [S -> T] : SolvesTo(g, y, S, R, F) /\ v = g[y]}
           f == [y \in S |-> IF y \in U THEN CHOOSE v \in T : v \in Values(y)
                                        ELSE CHOOSE v \in T : TRUE]
<1>1. ASSUME NEW y \in U, NEW g \in [S -> T], SolvesTo(g, y, S, R, F) PROVE f[y] = g[y]
  <2>1. g[y] \in Values(y) /\ y \in S
    BY <1>1
  <2>2. \A v \in Values(y) : v = g[y]
    BY <1>1, <2>1, SolutionsAgree
  <2>3. f[y] = CHOOSE v \in T : v \in Values(y)
    BY <2>1
  <2> HIDE DEF f, Values
  <2>4. (CHOOSE v \in T : v \in Values(y)) \in Values(y)
    <3>1. g[y] \in T
      BY <2>1
    <3> QED BY <2>1, <3>1
  <2> QED BY <2>2, <2>3, <2>4
<1>2. f \in [S -> T]
  <2>1. \A y \in S : f[y] \in T
    <3> SUFFICES ASSUME NEW y \in S PROVE f[y] \in T
      OBVIOUS
    <3>1. CASE y \in U
      BY <1>1, <3>1
    <3>2. CASE y \notin U
      <4>1. f[y] = CHOOSE v \in T : TRUE
        BY <3>2
      <4> QED BY <4>1
    <3> QED BY <3>1, <3>2
  <2> QED BY <2>1
<1> HIDE DEF f
<1>3. ASSUME NEW y \in U PROVE f[y] = F[<<y, f>>]
  <2>1. PICK g \in [S -> T] : SolvesTo(g, y, S, R, F)
    OBVIOUS
  <2>2. y \in S
    OBVIOUS
  <2>3. ASSUME NEW z \in S, <<z, y>> \in R PROVE f[z] = g[z]
    <3>1. z \in U /\ SolvesTo(g, z, S, R, F)
      BY <2>1, <2>2, <2>3, SolvesBelow
    <3> QED BY <1>1, <3>1
  <2>4. F[<<y, f>>] = F[<<y, g>>]
    BY <1>2, <2>3 DEF LooksBelow
  <2>5. g[y] = F[<<y, g>>]
    BY <2>1 DEF SolvesTo
  <2> QED BY <1>1, <2>1, <2>4, <2>5
<1> QED BY <1>2, <1>3

LEMMA Recursion ==
  ASSUME NEW S, NEW R, IsWellFoundedOn(R, S), IsTransitive(S, R), NEW T, T # {},
         NEW F \in [S \X [S -> T] -> T], LooksBelow(S, R, T, F)
  PROVE  \E f \in [S -> T] : Solves(f, S, F)
<1> DEFINE Solved == {x \in S : \E g \in [S -> T] : SolvesTo(g, x, S, R, F)}
<1>1. Solved = S
  <2> SUFFICES ASSUME S \ Solved # {} PROVE FALSE
    OBVIOUS
  <2>1. PICK x \in S \ Solved : \A y \in S \ Solved : ~ <<y, x>> \in R
    <3> HIDE DEF Solved
    <3> QED BY WFMin
  <2> DEFINE U == {y \in S : <<y, x>> \in R}
  <2>2. PICK g \in [S -> T] : Solves(g, U, F)
    <3>1. IsClosed(U, S, R)
      BY DEF IsTransitive, IsClosed
    <3>2. IsSolved(U, S, R, T, F)
      BY <2>1 DEF IsSolved
    <3> HIDE DEF U
    <3> QED BY <3>1, <3>2, SolutionsJoin
  <2> DEFINE h == [g EXCEPT ![x] = F[<<x, g>>]]
  <2>3. <<x, x>> \notin R
    BY WellFoundedIsIrreflexive
  <2>4. F[<<x, g>>] \in T
    OBVIOUS
  <2>5. h \in [S -> T] /\ h[x] = F[<<x, g>>] /\ \A y \in S : y # x => h[y] = g[y]
    BY <2>4
  <2> HIDE DEF h
  <2>6. ASSUME NEW y \in S, y = x \/ <<y, x>> \in R PROVE h[y] = F[<<y, h>>]
    <3>1. \A z \in S : <<z, y>> \in R => z # x
      BY <2>3, <2>6 DEF IsTransitive
    <3>2. F[<<y, h>>] = F[<<y, g>>]
      BY <2>5, <3>1 DEF LooksBelow
    <3>3. CASE y = x
      BY <2>5, <3>2, <3>3
    <3>4. CASE y # x
      <4>1. y \in U
        BY <2>6, <3>4
      <4> QED BY <2>2, <2>5, <3>2, <3>4, <4>1 DEF Solves
    <3> QED BY <3>3, <3>4
  <2>7. SolvesTo(h, x, S, R, F)
    BY <2>6 DEF SolvesTo
  <2> QED BY <2>5, <2>7
<1>2. IsSolved(S, S, R, T, F)
  BY <1>1 DEF IsSolved
<1>3. IsClosed(S, S, R)
  BY DEF IsClosed
<1> HIDE DEF Solved
<1> QED BY <1>2, <1>3, SolutionsJoin
=============================================================================
