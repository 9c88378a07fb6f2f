-------------------------- MODULE Segments_proofs --------------------------
(* For any functions, however deep their blocks and loops nest: a task      *)
(* performs its actions, and a generator hands out its values, in the order *)
(* of the source text, each of them once, and the assert of                 *)
(* Loop_Action_Send holds.                                                  *)
EXTENDS Segments, Closure_proofs, SequenceTheorems, TLAPS

USE ShapeAssumption, ProgramsAssumption
USE DEF ShapeAssumption, ProgramsAssumption, Result, Thrown

-----------------------------------------------------------------------------
(* The levels of nesting.                                                   *)
LevelsTo(f, n) == \A k \in 0..n : f[k] = NestedIn(IF k = 0 THEN {} ELSE f[k - 1])

LEMMA LevelsExist ==
  ASSUME NEW n \in Nat PROVE \E f : LevelsTo(f, n)
<1> DEFINE Has == {m \in Nat : \E f : LevelsTo(f, m)}
<1>1. 0 \in Has
  <2> DEFINE f == [k \in 0..0 |-> NestedIn({})]
  <2>1. LevelsTo(f, 0)
    BY DEF LevelsTo
  <2> QED BY <2>1
<1>2. ASSUME NEW m \in Has PROVE m + 1 \in Has
  <2>1. PICK f : LevelsTo(f, m)
    OBVIOUS
  <2> DEFINE g == [k \in 0..(m + 1) |-> IF k <= m THEN f[k] ELSE NestedIn(f[m])]
  <2>2. m \in Nat /\ m + 1 \in Nat
    OBVIOUS
  <2>3. /\ \A k \in 0..m : g[k] = f[k]
        /\ g[m + 1] = NestedIn(f[m])
    BY <2>2
  <2> HIDE DEF g
  <2>4. ASSUME NEW k \in 0..(m + 1) PROVE g[k] = NestedIn(IF k = 0 THEN {} ELSE g[k - 1])
    <3>1. CASE k = m + 1
      BY <2>2, <2>3, <3>1
    <3>2. CASE k \in 0..m
      <4>1. f[k] = NestedIn(IF k = 0 THEN {} ELSE f[k - 1])
        BY <2>1, <3>2 DEF LevelsTo
      <4>2. k # 0 => g[k - 1] = f[k - 1]
        BY <2>2, <2>3, <3>2
      <4> QED BY <2>3, <3>2, <4>1, <4>2
    <3> QED BY <2>2, <3>1, <3>2
  <2>5. LevelsTo(g, m + 1)
    BY <2>4 DEF LevelsTo
  <2> QED BY <2>2, <2>5
<1> HIDE DEF Has
<1>3. Has = Nat
  BY <1>1, <1>2, Induction DEF Has
<1> QED BY <1>3 DEF Has

LEMMA LevelsAgree ==
  ASSUME NEW m \in Nat, NEW n \in Nat, NEW f, NEW g, LevelsTo(f, m), LevelsTo(g, n), m <= n
  PROVE  f[m] = g[m]
<1> DEFINE Same == {k \in Nat : k <= m => f[k] = g[k]}
<1>1. 0 \in Same
  BY DEF LevelsTo
<1>2. ASSUME NEW k \in Same PROVE k + 1 \in Same
  <2> SUFFICES ASSUME k + 1 <= m PROVE f[k + 1] = g[k + 1]
    OBVIOUS
  <2>1. k + 1 \in 0..m /\ k + 1 \in 0..n /\ k + 1 # 0 /\ (k + 1) - 1 = k /\ k <= m
    OBVIOUS
  <2>2. f[k + 1] = NestedIn(f[k]) /\ g[k + 1] = NestedIn(g[k])
    BY <2>1 DEF LevelsTo
  <2> QED BY <2>1, <2>2
<1> HIDE DEF Same
<1>3. Same = Nat
  BY <1>1, <1>2, Induction DEF Same
<1> QED BY <1>3 DEF Same

LEMMA NestedLevels ==
  \A d \in Nat : NestedTo[d] = NestedIn(IF d = 0 THEN {} ELSE NestedTo[d - 1])
<1> DEFINE Unfolded(f) == f = [d \in Nat |-> NestedIn(IF d = 0 THEN {} ELSE f[d - 1])]
           levels(d) == CHOOSE f : LevelsTo(f, d)
           f == [d \in Nat |-> levels(d)[d]]
<1>1. ASSUME NEW d \in Nat PROVE LevelsTo(levels(d), d)
  BY LevelsExist
<1>2. Unfolded(f)
  <2>1. ASSUME NEW d \in Nat PROVE f[d] = NestedIn(IF d = 0 THEN {} ELSE f[d - 1])
    <3>1. f[d] = levels(d)[d] /\ (d # 0 => d - 1 \in Nat /\ f[d - 1] = levels(d - 1)[d - 1])
      OBVIOUS
    <3> HIDE DEF f, levels
    <3>2. levels(d)[d] = NestedIn(IF d = 0 THEN {} ELSE levels(d)[d - 1])
      BY <1>1 DEF LevelsTo
    <3>3. ASSUME d # 0 PROVE levels(d)[d - 1] = levels(d - 1)[d - 1]
      <4>1. d - 1 \in Nat /\ d - 1 <= d
        BY <3>3
      <4> QED BY <1>1, <4>1, LevelsAgree
    <3> QED BY <3>1, <3>2, <3>3
  <2>2. f = [d \in Nat |-> f[d]]
    OBVIOUS
  <2> HIDE DEF f
  <2>3. [d \in Nat |-> f[d]] = [d \in Nat |-> NestedIn(IF d = 0 THEN {} ELSE f[d - 1])]
    BY <2>1
  <2> QED BY <2>2, <2>3
<1> DEFINE found == CHOOSE g : Unfolded(g)
<1>3. Unfolded(found)
  <2> HIDE DEF Unfolded
  <2> QED BY <1>2
<1>4. NestedTo = found
  BY DEF NestedTo
<1> HIDE DEF found
<1> QED BY <1>3, <1>4

LEMMA NestedInMonotonic ==
  ASSUME NEW S, NEW T, S \subseteq T PROVE NestedIn(S) \subseteq NestedIn(T)
<1>1. PlainSteps \cup S \subseteq PlainSteps \cup T
  OBVIOUS
<1>2. \A A, B : A \subseteq B => Seq(A) \subseteq Seq(B)
  BY SeqMonotonic
<1>3. Seq(PlainSteps \cup S) \subseteq Seq(PlainSteps \cup T)
  BY <1>1, <1>2
<1>4. Blocks(PlainSteps \cup S) \subseteq Blocks(PlainSteps \cup T)
  BY <1>3 DEF Blocks
<1>5. Rounds(PlainSteps \cup S) \subseteq Rounds(PlainSteps \cup T)
  BY <1>3 DEF Rounds
<1>6. Seq(Rounds(PlainSteps \cup S)) \subseteq Seq(Rounds(PlainSteps \cup T))
  BY <1>2, <1>5
<1>7. Loops(PlainSteps \cup S) \subseteq Loops(PlainSteps \cup T)
  BY <1>6 DEF Loops
<1> QED BY <1>4, <1>7 DEF NestedIn

LEMMA LevelsGrow == \A d \in Nat : NestedTo[d] \subseteq NestedTo[d + 1]
<1> DEFINE Grows == {d \in Nat : NestedTo[d] \subseteq NestedTo[d + 1]}
<1>0. \A d \in Nat : NestedTo[d + 1] = NestedIn(NestedTo[d])
  <2>1. \A d \in Nat : d + 1 \in Nat /\ d + 1 # 0 /\ (d + 1) - 1 = d
    OBVIOUS
  <2> QED BY <2>1, NestedLevels
<1>1. 0 \in Grows
  <2>1. NestedTo[0] = NestedIn({}) /\ NestedTo[0 + 1] = NestedIn(NestedTo[0])
    BY <1>0, NestedLevels
  <2>2. {} \subseteq NestedTo[0]
    OBVIOUS
  <2> QED BY <2>1, <2>2, NestedInMonotonic
<1>2. ASSUME NEW d \in Grows PROVE d + 1 \in Grows
  <2>1. d \in Nat /\ d + 1 \in Nat /\ NestedTo[d] \subseteq NestedTo[d + 1]
    OBVIOUS
  <2>2. NestedTo[d + 1] = NestedIn(NestedTo[d]) /\ NestedTo[(d + 1) + 1] = NestedIn(NestedTo[d + 1])
    BY <1>0, <2>1
  <2> QED BY <2>1, <2>2, NestedInMonotonic
<1> HIDE DEF Grows
<1>3. Grows = Nat
  BY <1>1, <1>2, Induction DEF Grows
<1> QED BY <1>3 DEF Grows

LEMMA LevelsInside ==
  ASSUME NEW d \in Nat, NEW e \in Nat, d <= e PROVE NestedTo[d] \subseteq NestedTo[e]
<1> DEFINE Inside == {n \in Nat : NestedTo[d] \subseteq NestedTo[d + n]}
<1>1. 0 \in Inside
  OBVIOUS
<1>2. ASSUME NEW n \in Inside PROVE n + 1 \in Inside
  <2>1. NestedTo[d + n] \subseteq NestedTo[(d + n) + 1] /\ d + (n + 1) = (d + n) + 1
    BY LevelsGrow
  <2> QED BY <2>1
<1> HIDE DEF Inside
<1>3. Inside = Nat
  BY <1>1, <1>2, Induction DEF Inside
<1>4. e - d \in Nat /\ d + (e - d) = e
  OBVIOUS
<1> QED BY <1>3, <1>4 DEF Inside

-----------------------------------------------------------------------------
(* The first statement of a block or loop, and the rest of it, are smaller: *)
(* less deep, or a block and not a loop, or shorter.                        *)
IsLevel(d, s) == s \in NestedTo[d] /\ \A e \in Nat : s \in NestedTo[e] => d <= e
Level(s) == CHOOSE d \in Nat : IsLevel(d, s)
Rank(s) == 2 * Level(s) + (IF s.op = "loop" THEN 1 ELSE 0)
Size(s) == IF s.op = "block" THEN Len(s.body) ELSE Len(s.rounds)
Smaller(x, y) == Rank(x) < Rank(y) \/ (Rank(x) = Rank(y) /\ Size(x) < Size(y))
Below == {p \in Nested \X Nested : Smaller(p[1], p[2])}

LEMMA LevelExists ==
  ASSUME NEW d \in Nat, NEW s \in NestedTo[d]
  PROVE  Level(s) \in Nat /\ IsLevel(Level(s), s) /\ Level(s) <= d
<1>1. \E e \in Nat : IsLevel(e, s)
  <2> DEFINE S == {e \in Nat : s \in NestedTo[e]}
  <2>1. S \in SUBSET Nat /\ S # {}
    OBVIOUS
  <2>2. PICK e \in S : \A r \in S : e <= r
    <3> HIDE DEF S
    <3> QED BY <2>1, LeastElement
  <2> QED BY <2>2 DEF IsLevel
<1>2. Level(s) \in Nat /\ IsLevel(Level(s), s)
  BY <1>1 DEF Level
<1> QED BY <1>2 DEF IsLevel

Inner(d) == PlainSteps \cup (IF d = 0 THEN {} ELSE NestedTo[d - 1])

LEMMA NestedShape ==
  ASSUME NEW d \in Nat, NEW s \in NestedTo[d]
  PROVE  \/ /\ s.op = "block" /\ s = Block(s.body) /\ s.body \in Seq(Inner(d))
         \/ /\ s.op = "loop" /\ s = Loop(s.rounds, s.end)
            /\ s.rounds \in Seq(Rounds(Inner(d))) /\ s.end \in {Result, Thrown}
<1>1. s \in Blocks(Inner(d)) \cup Loops(Inner(d))
  BY NestedLevels DEF Inner, NestedIn
<1>2. CASE s \in Blocks(Inner(d))
  BY <1>2 DEF Blocks, Block
<1>3. CASE s \in Loops(Inner(d))
  BY <1>3 DEF Loops, Loop
<1> QED BY <1>1, <1>2, <1>3

LEMMA NestedMade ==
  ASSUME NEW d \in Nat
  PROVE  /\ \A b \in Seq(Inner(d)) : Block(b) \in NestedTo[d]
         /\ \A r \in Seq(Rounds(Inner(d))), e \in {Result, Thrown} : Loop(r, e) \in NestedTo[d]
<1>1. NestedTo[d] = Blocks(Inner(d)) \cup Loops(Inner(d))
  BY NestedLevels DEF Inner, NestedIn
<1>2. \A b \in Seq(Inner(d)) : Block(b) \in Blocks(Inner(d))
  BY DEF Block, Blocks
<1>3. \A r \in Seq(Rounds(Inner(d))), e \in {Result, Thrown} : Loop(r, e) \in Loops(Inner(d))
  BY DEF Loop, Loops
<1> QED BY <1>1, <1>2, <1>3

LEMMA RankTyped ==
  ASSUME NEW s \in Nested
  PROVE  /\ s.op \in {"block", "loop"} /\ Level(s) \in Nat /\ Level(s) <= Depth
         /\ s \in NestedTo[Level(s)] /\ Rank(s) \in Nat /\ Size(s) \in Nat
<1>1. Level(s) \in Nat /\ IsLevel(Level(s), s) /\ Level(s) <= Depth
  BY LevelExists DEF Nested
<1>2. s \in NestedTo[Level(s)]
  BY <1>1 DEF IsLevel
<1>3. s.op \in {"block", "loop"} /\ Size(s) \in Nat
  BY <1>1, <1>2, NestedShape, LenProperties DEF Size
<1> QED BY <1>1, <1>2, <1>3 DEF Rank

LEMMA BelowWellFounded == IsWellFoundedOn(Below, Nested) /\ IsTransitive(Nested, Below)
<1>1. ASSUME NEW T \in SUBSET Nested, T # {}
      PROVE  \E x \in T : \A y \in T : ~ <<y, x>> \in Below
  <2> DEFINE ranks == {Rank(x) : x \in T}
  <2>1. ranks \in SUBSET Nat /\ ranks # {}
    BY <1>1, RankTyped
  <2>2. PICK m \in ranks : \A r \in ranks : m <= r
    <3> HIDE DEF ranks
    <3> QED BY <2>1, LeastElement
  <2> DEFINE sizes == {Size(x) : x \in {y \in T : Rank(y) = m}}
  <2>3. sizes \in SUBSET Nat /\ sizes # {}
    BY <2>2, RankTyped
  <2>4. PICK n \in sizes : \A r \in sizes : n <= r
    <3> HIDE DEF sizes
    <3> QED BY <2>3, LeastElement
  <2>5. PICK x \in T : Rank(x) = m /\ Size(x) = n
    BY <2>4
  <2>6. ASSUME NEW y \in T, <<y, x>> \in Below PROVE FALSE
    <3>1. Smaller(y, x)
      BY <2>6 DEF Below
    <3>2. m <= Rank(y) /\ (Rank(y) = m => n <= Size(y))
      BY <2>2, <2>4
    <3>3. Rank(y) \in Nat /\ Size(y) \in Nat /\ m \in Nat /\ n \in Nat
      BY <2>1, <2>3, RankTyped
    <3> QED BY <2>5, <3>1, <3>2, <3>3 DEF Smaller
  <2> QED BY <2>6
<1>2. IsWellFoundedOn(Below, Nested)
  BY <1>1, MinWF
<1>3. ASSUME NEW x \in Nested, NEW y \in Nested, NEW z \in Nested,
             <<x, y>> \in Below, <<y, z>> \in Below
      PROVE  <<x, z>> \in Below
  <2>1. Smaller(x, y) /\ Smaller(y, z)
    BY <1>3 DEF Below
  <2>2. /\ Rank(x) \in Nat /\ Rank(y) \in Nat /\ Rank(z) \in Nat
        /\ Size(x) \in Nat /\ Size(y) \in Nat /\ Size(z) \in Nat
    BY RankTyped
  <2>3. Smaller(x, z)
    BY <2>1, <2>2 DEF Smaller
  <2> QED BY <2>3 DEF Below
<1> QED BY <1>2, <1>3 DEF IsTransitive

LEMMA RankBounded ==
  ASSUME NEW d \in Nat, d <= Depth, NEW s \in NestedTo[d]
  PROVE  s \in Nested /\ Rank(s) <= 2 * d + (IF s.op = "loop" THEN 1 ELSE 0)
<1>1. s \in Nested
  BY LevelsInside DEF Nested
<1>2. Level(s) \in Nat /\ Level(s) <= d
  BY LevelExists
<1> QED BY <1>1, <1>2 DEF Rank

LEMMA PlainOrNested ==
  /\ \A s \in PlainSteps : s.op = "step" /\ s.value \in Values \cup {Thrown}
  /\ \A s \in Nested : s.op \in {"block", "loop"}
<1>1. \A s \in PlainSteps : s.op = "step" /\ s.value \in Values \cup {Thrown}
  BY DEF PlainSteps
<1> QED BY <1>1, RankTyped

LEMMA BlockParts ==
  ASSUME NEW s \in Nested, s.op = "block", ~IsEmpty(s)
  PROVE  /\ First(s) \in PlainSteps \cup Nested
         /\ First(s) \in Nested => <<First(s), s>> \in Below
         /\ Rest(s) \in Nested /\ <<Rest(s), s>> \in Below
         /\ Rest(s).op = "block"
<1> DEFINE d == Level(s)
<1>1. d \in Nat /\ d <= Depth /\ s \in NestedTo[d] /\ Rank(s) = 2 * d
  BY RankTyped DEF Rank
<1> HIDE DEF d
<1>2. s.body \in Seq(Inner(d)) /\ s.body # << >>
  <2>1. s.body \in Seq(Inner(d))
    BY <1>1, NestedShape
  <2> QED BY <2>1 DEF IsEmpty
<1>3. /\ Head(s.body) \in Inner(d) /\ Tail(s.body) \in Seq(Inner(d))
      /\ Len(Tail(s.body)) = Len(s.body) - 1 /\ Len(s.body) \in Nat
  BY <1>2, HeadTailProperties, LenProperties
<1>4. First(s) = Head(s.body) /\ Rest(s) = Block(Tail(s.body))
  BY DEF First, Rest
<1>5. /\ Rest(s) \in NestedTo[d] /\ Rest(s).op = "block"
      /\ Size(Rest(s)) = Len(s.body) - 1 /\ Size(s) = Len(s.body)
  <2>1. Block(Tail(s.body)) \in NestedTo[d]
    BY <1>1, <1>3, NestedMade
  <2>2. Block(Tail(s.body)).op = "block" /\ Block(Tail(s.body)).body = Tail(s.body)
    BY DEF Block
  <2> QED BY <1>3, <1>4, <2>1, <2>2 DEF Size
<1>6. Rest(s) \in Nested /\ <<Rest(s), s>> \in Below
  <2>1. Rest(s) \in Nested /\ Rank(Rest(s)) <= 2 * d
    BY <1>1, <1>5, RankBounded
  <2>2. Rank(Rest(s)) \in Nat
    BY <2>1, RankTyped
  <2>3. Smaller(Rest(s), s)
    BY <1>1, <1>3, <1>5, <2>1, <2>2 DEF Smaller
  <2> QED BY <2>1, <2>3 DEF Below
<1>7. First(s) \notin PlainSteps => First(s) \in Nested /\ <<First(s), s>> \in Below
  <2> SUFFICES ASSUME First(s) \notin PlainSteps
               PROVE  First(s) \in Nested /\ <<First(s), s>> \in Below
    OBVIOUS
  <2>1. d # 0 /\ First(s) \in NestedTo[d - 1] /\ d - 1 \in Nat /\ d - 1 <= Depth
    BY <1>1, <1>3, <1>4 DEF Inner
  <2>2. First(s) \in Nested /\ Rank(First(s)) <= 2 * (d - 1) + 1
    <3>1. /\ First(s) \in Nested
          /\ Rank(First(s)) <= 2 * (d - 1) + (IF First(s).op = "loop" THEN 1 ELSE 0)
      BY <2>1, RankBounded
    <3>2. Rank(First(s)) \in Nat
      BY <3>1, RankTyped
    <3> QED BY <2>1, <3>1, <3>2
  <2>3. Rank(First(s)) \in Nat
    BY <2>2, RankTyped
  <2>4. Smaller(First(s), s)
    BY <1>1, <2>1, <2>2, <2>3 DEF Smaller
  <2> QED BY <2>2, <2>4 DEF Below
<1>8. ~ (First(s) \in PlainSteps /\ First(s) \in Nested)
  BY PlainOrNested
<1> QED BY <1>5, <1>6, <1>7, <1>8

LEMMA LoopParts ==
  ASSUME NEW s \in Nested, s.op = "loop", ~IsEmpty(s)
  PROVE  /\ First(s) \in Nested /\ <<First(s), s>> \in Below
         /\ First(s).op = "block" /\ ~IsEmpty(First(s))
         /\ Rest(s) \in Nested /\ <<Rest(s), s>> \in Below
         /\ Rest(s).op = "loop"
<1> DEFINE d == Level(s)
<1>1. d \in Nat /\ d <= Depth /\ s \in NestedTo[d] /\ Rank(s) = 2 * d + 1
  BY RankTyped DEF Rank
<1> HIDE DEF d
<1>2. s.rounds \in Seq(Rounds(Inner(d))) /\ s.rounds # << >> /\ s.end \in {Result, Thrown}
  <2>1. s.rounds \in Seq(Rounds(Inner(d))) /\ s.end \in {Result, Thrown}
    BY <1>1, NestedShape
  <2> QED BY <2>1 DEF IsEmpty
<1>3. /\ Head(s.rounds) \in Rounds(Inner(d)) /\ Tail(s.rounds) \in Seq(Rounds(Inner(d)))
      /\ Len(Tail(s.rounds)) = Len(s.rounds) - 1 /\ Len(s.rounds) \in Nat
  BY <1>2, HeadTailProperties, LenProperties
<1>4. First(s) = Head(s.rounds) /\ Rest(s) = Loop(Tail(s.rounds), s.end)
  BY DEF First, Rest
<1>5. /\ Rest(s) \in NestedTo[d] /\ Rest(s).op = "loop"
      /\ Size(Rest(s)) = Len(s.rounds) - 1 /\ Size(s) = Len(s.rounds)
  <2>1. Loop(Tail(s.rounds), s.end) \in NestedTo[d]
    BY <1>1, <1>2, <1>3, NestedMade
  <2>2. Loop(Tail(s.rounds), s.end).op = "loop"
        /\ Loop(Tail(s.rounds), s.end).rounds = Tail(s.rounds)
    BY DEF Loop
  <2> QED BY <1>3, <1>4, <2>1, <2>2 DEF Size
<1>6. Rest(s) \in Nested /\ <<Rest(s), s>> \in Below
  <2>1. Rest(s) \in Nested /\ Rank(Rest(s)) <= 2 * d + 1
    BY <1>1, <1>5, RankBounded
  <2>2. Rank(Rest(s)) \in Nat
    BY <2>1, RankTyped
  <2>3. Smaller(Rest(s), s)
    BY <1>1, <1>3, <1>5, <2>1, <2>2 DEF Smaller
  <2> QED BY <2>1, <2>3 DEF Below
<1>7. /\ First(s).op = "block" /\ First(s) = Block(First(s).body)
      /\ First(s).body \in Seq(Inner(d)) /\ First(s).body # << >>
  BY <1>3, <1>4 DEF Rounds, Block
<1>8. First(s) \in NestedTo[d]
  BY <1>1, <1>7, NestedMade
<1>9. First(s) \in Nested /\ Rank(First(s)) <= 2 * d
  BY <1>1, <1>7, <1>8, RankBounded
<1>10. <<First(s), s>> \in Below
  <2>1. Rank(First(s)) \in Nat
    BY <1>9, RankTyped
  <2>2. Smaller(First(s), s)
    BY <1>1, <1>9, <2>1 DEF Smaller
  <2> QED BY <1>9, <2>2 DEF Below
<1> QED BY <1>5, <1>6, <1>7, <1>9, <1>10 DEF IsEmpty

(* What the recursive definitions need to know of the two.                  *)
LEMMA Parts ==
  ASSUME NEW s \in Nested, ~IsEmpty(s)
  PROVE  /\ \/ First(s).op = "step" /\ First(s).value \in Values \cup {Thrown}
            \/ First(s).op # "step" /\ First(s) \in Nested /\ <<First(s), s>> \in Below
         /\ Rest(s) \in Nested /\ <<Rest(s), s>> \in Below
         /\ s.op = "loop" => /\ First(s) \in Nested /\ First(s).op = "block"
                             /\ ~IsEmpty(First(s))
<1>1. s.op \in {"block", "loop"}
  BY PlainOrNested
<1>2. CASE s.op = "block"
  BY <1>2, BlockParts, PlainOrNested
<1>3. CASE s.op = "loop"
  BY <1>3, LoopParts, PlainOrNested
<1> QED BY <1>1, <1>2, <1>3

LEMMA Ends == \A s \in Nested : End(s) \in {Result, Thrown}
<1> TAKE s \in Nested
<1>1. Level(s) \in Nat /\ s \in NestedTo[Level(s)]
  BY RankTyped
<1> QED BY <1>1, NestedShape DEF End

-----------------------------------------------------------------------------
(* Meaning, Start and Iterate are what their definitions say: each of them  *)
(* looks below its argument only.                                           *)
LEMMA NestedRecursion ==
  ASSUME NEW T, T # {}, NEW F \in [Nested \X [Nested -> T] -> T],
         LooksBelow(Nested, Below, T, F)
  PROVE  \E f \in [Nested -> T] : Solves(f, Nested, F)
BY BelowWellFounded, Recursion

Shown == Values \cup {Thrown}
Objects == [answer : Values \cup {Result, Thrown}, wrappers : Seq(Nested)]

MeaningOf(s, g) ==
    IF IsEmpty(s) THEN IF End(s) = Thrown THEN << Thrown >> ELSE << >>
    ELSE LET first == First(s)
         IN (IF first.op = "step" THEN << first.value >> ELSE g[first]) \o g[Rest(s)]

StartOf(s, g) ==
    IF IsEmpty(s) THEN Answer(End(s))
    ELSE LET first == First(s)
             action == IF first.op = "step" THEN Answer(first.value) ELSE g[first]
         IN IF s.op = "block" THEN MakeSubtask(action, Rest(s))
                              ELSE TaskRound(action, Rest(s))

IterateOf(s, g) ==
    IF IsEmpty(s) THEN Answer(End(s))
    ELSE LET first == First(s)
             next == g[Rest(s)]
         IN IF first.op = "step" THEN MakeIterator(first.value, Rest(s))
            ELSE IF s.op = "block" THEN MakeSubsequence(g[first], Rest(s), next)
                                   ELSE SequenceRound(g[first], Rest(s), next)

(* f answers what its definition says.                                      *)
Meant(f) == \A s \in Nested : f[s] = MeaningOf(s, f)
Started(f) == \A s \in Nested : f[s] = StartOf(s, f)
Iterated(f) == \A s \in Nested : f[s] = IterateOf(s, f)

LEMMA MeaningUnfolds == Meaning \in [Nested -> Seq(Shown)] /\ Meant(Meaning)
<1> DEFINE T == Seq(Shown)
           F == [a \in Nested \X [Nested -> T] |-> MeaningOf(a[1], a[2])]
<1>0. /\ << >> \in T /\ \A v \in Shown : << v >> \in T
      /\ \A u, v \in T : u \o v \in T
  BY ConcatProperties
<1> HIDE DEF T
<1>1. ASSUME NEW s \in Nested, NEW g \in [Nested -> T] PROVE MeaningOf(s, g) \in T
  <2>1. CASE IsEmpty(s)
    BY <1>0, <2>1 DEF MeaningOf, Shown
  <2>2. CASE ~IsEmpty(s)
    <3>1. (IF First(s).op = "step" THEN << First(s).value >> ELSE g[First(s)]) \in T
      <4>1. CASE First(s).op = "step"
        BY <1>0, <2>2, <4>1, Parts DEF Shown
      <4>2. CASE First(s).op # "step"
        BY <2>2, <4>2, Parts
      <4> QED BY <4>1, <4>2
    <3>2. g[Rest(s)] \in T
      BY <2>2, Parts
    <3>3. MeaningOf(s, g) = (IF First(s).op = "step" THEN << First(s).value >> ELSE g[First(s)])
                              \o g[Rest(s)]
      BY <2>2 DEF MeaningOf
    <3> QED BY <1>0, <3>1, <3>2, <3>3
  <2> QED BY <2>1, <2>2
<1>2. ASSUME NEW s \in Nested, NEW g \in [Nested -> T], NEW h \in [Nested -> T],
             \A y \in Nested : <<y, s>> \in Below => g[y] = h[y]
      PROVE  MeaningOf(s, g) = MeaningOf(s, h)
  <2>1. ~IsEmpty(s) => g[Rest(s)] = h[Rest(s)]
    BY <1>2, Parts
  <2>2. ~IsEmpty(s) => First(s).op = "step" \/ g[First(s)] = h[First(s)]
    BY <1>2, Parts
  <2> QED BY <2>1, <2>2 DEF MeaningOf
<1>3. F \in [Nested \X [Nested -> T] -> T] /\ T # {}
  BY <1>0, <1>1
<1>4. \A s \in Nested : \A g \in [Nested -> T] : F[<<s, g>>] = MeaningOf(s, g)
  OBVIOUS
<1> HIDE DEF F
<1>5. LooksBelow(Nested, Below, T, F)
  BY <1>2, <1>4 DEF LooksBelow
<1>6. PICK f \in [Nested -> T] : Solves(f, Nested, F)
  BY <1>3, <1>5, NestedRecursion
<1>7. f = [s \in Nested |-> MeaningOf(s, f)]
  <2>1. \A s \in Nested : f[s] = MeaningOf(s, f)
    BY <1>4, <1>6 DEF Solves
  <2>2. f = [s \in Nested |-> f[s]]
    OBVIOUS
  <2> QED BY <2>1, <2>2
<1> DEFINE Unfolded(g) == g = [s \in Nested |-> MeaningOf(s, g)]
           found == CHOOSE g : Unfolded(g)
<1>8. Meaning = found
  BY DEF Meaning, MeaningOf
<1>9. Unfolded(found)
  <2>1. Unfolded(f)
    BY <1>7
  <2> HIDE DEF Unfolded
  <2> QED BY <2>1
<1>10. Meant(Meaning) /\ Meaning = [s \in Nested |-> Meaning[s]]
  <2> HIDE DEF found
  <2>1. Meaning = [s \in Nested |-> MeaningOf(s, Meaning)]
    BY <1>8, <1>9
  <2> QED BY <2>1 DEF Meant
<1>11. \A s \in Nested : Meaning[s] = f[s]
  <2> DEFINE Bad == {s \in Nested : Meaning[s] # f[s]}
  <2>1. SUFFICES ASSUME Bad # {} PROVE FALSE
    OBVIOUS
  <2>2. PICK s \in Bad : \A y \in Bad : ~ <<y, s>> \in Below
    <3>1. Bad \subseteq Nested
      OBVIOUS
    <3> HIDE DEF Bad
    <3> QED BY <2>1, <3>1, BelowWellFounded, WFMin
  <2>3. \A y \in Nested : <<y, s>> \in Below => Meaning[y] = f[y]
    BY <2>2
  <2>4. ~IsEmpty(s) => Meaning[Rest(s)] = f[Rest(s)]
    BY <2>3, Parts
  <2>5. ~IsEmpty(s) => First(s).op = "step" \/ Meaning[First(s)] = f[First(s)]
    BY <2>3, Parts
  <2>6. MeaningOf(s, Meaning) = MeaningOf(s, f)
    BY <2>4, <2>5 DEF MeaningOf
  <2>7. Meaning[s] = MeaningOf(s, Meaning) /\ f[s] = MeaningOf(s, f)
    BY <1>4, <1>6, <1>10 DEF Solves, Meant
  <2> QED BY <2>6, <2>7
<1> QED BY <1>10, <1>11 DEF T

LEMMA ObjectsMade ==
  /\ \A v \in Values \cup {Result, Thrown}, w \in Seq(Nested) :
        /\ Object(v, w) \in Objects
        /\ Object(v, w).answer = v /\ Object(v, w).wrappers = w
  /\ \A v \in Values \cup {Result, Thrown} : Answer(v) \in Objects
  /\ Exception \in Objects
  /\ \A v \in Shown, x \in Nested : MakeIterator(v, x) \in Objects
  /\ \A o \in Objects, x \in Nested : Wrap(o, x) \in Objects
<1>1. \A v \in Values \cup {Result, Thrown}, w \in Seq(Nested) :
        /\ Object(v, w) \in Objects
        /\ Object(v, w).answer = v /\ Object(v, w).wrappers = w
  BY DEF Object, Objects
<1>2. << >> \in Seq(Nested) /\ \A x \in Nested : << x >> \in Seq(Nested)
  OBVIOUS
<1>3. \A v \in Values \cup {Result, Thrown} : Answer(v) \in Objects
  BY <1>1, <1>2 DEF Answer
<1>4. Exception \in Objects
  BY <1>3 DEF Exception
<1>5. \A v \in Shown, x \in Nested : MakeIterator(v, x) \in Objects
  BY <1>1, <1>2 DEF MakeIterator, Shown
<1>6. ASSUME NEW o \in Objects, NEW x \in Nested PROVE Wrap(o, x) \in Objects
  <2>1. o.answer \in Values \cup {Result, Thrown} /\ o.wrappers \in Seq(Nested)
    BY DEF Objects
  <2>2. << x >> \o o.wrappers \in Seq(Nested)
    BY <1>2, <2>1, ConcatProperties
  <2> QED BY <1>1, <2>1, <2>2 DEF Wrap
<1> QED BY <1>1, <1>3, <1>4, <1>5, <1>6

LEMMA StartUnfolds == Start \in [Nested -> Objects] /\ Started(Start)
<1> DEFINE F == [a \in Nested \X [Nested -> Objects] |-> StartOf(a[1], a[2])]
<1>1. ASSUME NEW s \in Nested, NEW g \in [Nested -> Objects] PROVE StartOf(s, g) \in Objects
  <2>1. CASE IsEmpty(s)
    BY <2>1, Ends, ObjectsMade DEF StartOf
  <2>2. CASE ~IsEmpty(s)
    <3> DEFINE action == IF First(s).op = "step" THEN Answer(First(s).value) ELSE g[First(s)]
    <3>1. action \in Objects
      <4>1. CASE First(s).op = "step"
        BY <2>2, <4>1, Parts, ObjectsMade DEF Shown
      <4>2. CASE First(s).op # "step"
        BY <2>2, <4>2, Parts
      <4> QED BY <4>1, <4>2
    <3>2. Rest(s) \in Nested
      BY <2>2, Parts
    <3>3. MakeSubtask(action, Rest(s)) \in Objects /\ TaskRound(action, Rest(s)) \in Objects
      BY <3>1, <3>2, ObjectsMade DEF MakeSubtask, TaskRound
    <3> QED BY <2>2, <3>3 DEF StartOf
  <2> QED BY <2>1, <2>2
<1>2. ASSUME NEW s \in Nested, NEW g, NEW h,
             \A y \in Nested : <<y, s>> \in Below => g[y] = h[y]
      PROVE  StartOf(s, g) = StartOf(s, h)
  <2>1. ~IsEmpty(s) => g[Rest(s)] = h[Rest(s)]
    BY <1>2, Parts
  <2>2. ~IsEmpty(s) => First(s).op = "step" \/ g[First(s)] = h[First(s)]
    BY <1>2, Parts
  <2> QED BY <2>1, <2>2 DEF StartOf
<1>3. F \in [Nested \X [Nested -> Objects] -> Objects] /\ Objects # {}
  BY <1>1, ObjectsMade
<1>4. \A s \in Nested : \A g \in [Nested -> Objects] : F[<<s, g>>] = StartOf(s, g)
  OBVIOUS
<1> HIDE DEF F
<1>5. LooksBelow(Nested, Below, Objects, F)
  BY <1>2, <1>4 DEF LooksBelow
<1>6. PICK f \in [Nested -> Objects] : Solves(f, Nested, F)
  BY <1>3, <1>5, NestedRecursion
<1> DEFINE Unfolded(g) == g = [s \in Nested |-> StartOf(s, g)]
           found == CHOOSE g : Unfolded(g)
<1>7. Unfolded(found)
  <2>1. \A s \in Nested : f[s] = StartOf(s, f)
    BY <1>4, <1>6 DEF Solves
  <2>2. f = [s \in Nested |-> f[s]]
    OBVIOUS
  <2>3. Unfolded(f)
    BY <2>1, <2>2
  <2> HIDE DEF Unfolded
  <2> QED BY <2>3
<1>8. Start = found
  BY DEF Start, StartOf
<1>9. Started(Start) /\ Start = [s \in Nested |-> Start[s]]
  <2> HIDE DEF found
  <2>1. Start = [s \in Nested |-> StartOf(s, Start)]
    BY <1>7, <1>8
  <2> QED BY <2>1 DEF Started
<1>10. \A s \in Nested : Start[s] = f[s]
  <2> DEFINE Bad == {s \in Nested : Start[s] # f[s]}
  <2>1. SUFFICES ASSUME Bad # {} PROVE FALSE
    OBVIOUS
  <2>2. PICK s \in Bad : \A y \in Bad : ~ <<y, s>> \in Below
    <3>1. Bad \subseteq Nested
      OBVIOUS
    <3> HIDE DEF Bad
    <3> QED BY <2>1, <3>1, BelowWellFounded, WFMin
  <2>3. \A y \in Nested : <<y, s>> \in Below => Start[y] = f[y]
    BY <2>2
  <2>4. StartOf(s, Start) = StartOf(s, f)
    BY <1>2, <2>3
  <2>5. Start[s] = StartOf(s, Start) /\ f[s] = StartOf(s, f)
    BY <1>4, <1>6, <1>9 DEF Solves, Started
  <2> QED BY <2>4, <2>5
<1> QED BY <1>9, <1>10

LEMMA IterateUnfolds == Iterate \in [Nested -> Objects] /\ Iterated(Iterate)
<1> DEFINE F == [a \in Nested \X [Nested -> Objects] |-> IterateOf(a[1], a[2])]
<1>1. ASSUME NEW s \in Nested, NEW g \in [Nested -> Objects] PROVE IterateOf(s, g) \in Objects
  <2>1. CASE IsEmpty(s)
    BY <2>1, Ends, ObjectsMade DEF IterateOf
  <2>2. CASE ~IsEmpty(s)
    <3>1. Rest(s) \in Nested /\ g[Rest(s)] \in Objects
      BY <2>2, Parts
    <3>2. CASE First(s).op = "step"
      <4>1. MakeIterator(First(s).value, Rest(s)) \in Objects
        BY <2>2, <3>1, <3>2, Parts, ObjectsMade DEF Shown
      <4> QED BY <2>2, <3>2, <4>1 DEF IterateOf
    <3>3. CASE First(s).op # "step"
      <4>1. g[First(s)] \in Objects
        BY <2>2, <3>3, Parts
      <4>2. /\ MakeSubsequence(g[First(s)], Rest(s), g[Rest(s)]) \in Objects
            /\ SequenceRound(g[First(s)], Rest(s), g[Rest(s)]) \in Objects
        BY <3>1, <4>1, ObjectsMade DEF MakeSubsequence, SequenceRound
      <4> QED BY <2>2, <3>3, <4>2 DEF IterateOf
    <3> QED BY <3>2, <3>3
  <2> QED BY <2>1, <2>2
<1>2. ASSUME NEW s \in Nested, NEW g, NEW h,
             \A y \in Nested : <<y, s>> \in Below => g[y] = h[y]
      PROVE  IterateOf(s, g) = IterateOf(s, h)
  <2>1. ~IsEmpty(s) => g[Rest(s)] = h[Rest(s)]
    BY <1>2, Parts
  <2>2. ~IsEmpty(s) => First(s).op = "step" \/ g[First(s)] = h[First(s)]
    BY <1>2, Parts
  <2> QED BY <2>1, <2>2 DEF IterateOf
<1>3. F \in [Nested \X [Nested -> Objects] -> Objects] /\ Objects # {}
  BY <1>1, ObjectsMade
<1>4. \A s \in Nested : \A g \in [Nested -> Objects] : F[<<s, g>>] = IterateOf(s, g)
  OBVIOUS
<1> HIDE DEF F
<1>5. LooksBelow(Nested, Below, Objects, F)
  BY <1>2, <1>4 DEF LooksBelow
<1>6. PICK f \in [Nested -> Objects] : Solves(f, Nested, F)
  BY <1>3, <1>5, NestedRecursion
<1> DEFINE Unfolded(g) == g = [s \in Nested |-> IterateOf(s, g)]
           found == CHOOSE g : Unfolded(g)
<1>7. Unfolded(found)
  <2>1. \A s \in Nested : f[s] = IterateOf(s, f)
    BY <1>4, <1>6 DEF Solves
  <2>2. f = [s \in Nested |-> f[s]]
    OBVIOUS
  <2>3. Unfolded(f)
    BY <2>1, <2>2
  <2> HIDE DEF Unfolded
  <2> QED BY <2>3
<1>8. Iterate = found
  BY DEF Iterate, IterateOf
<1>9. Iterated(Iterate) /\ Iterate = [s \in Nested |-> Iterate[s]]
  <2> HIDE DEF found
  <2>1. Iterate = [s \in Nested |-> IterateOf(s, Iterate)]
    BY <1>7, <1>8
  <2> QED BY <2>1 DEF Iterated
<1>10. \A s \in Nested : Iterate[s] = f[s]
  <2> DEFINE Bad == {s \in Nested : Iterate[s] # f[s]}
  <2>1. SUFFICES ASSUME Bad # {} PROVE FALSE
    OBVIOUS
  <2>2. PICK s \in Bad : \A y \in Bad : ~ <<y, s>> \in Below
    <3>1. Bad \subseteq Nested
      OBVIOUS
    <3> HIDE DEF Bad
    <3> QED BY <2>1, <3>1, BelowWellFounded, WFMin
  <2>3. \A y \in Nested : <<y, s>> \in Below => Iterate[y] = f[y]
    BY <2>2
  <2>4. IterateOf(s, Iterate) = IterateOf(s, f)
    BY <1>2, <2>3
  <2>5. Iterate[s] = IterateOf(s, Iterate) /\ f[s] = IterateOf(s, f)
    BY <1>4, <1>6, <1>9 DEF Solves, Iterated
  <2> QED BY <2>4, <2>5
<1> QED BY <1>9, <1>10

-----------------------------------------------------------------------------
(* What the wrappers of an object still have to hand out: the innermost     *)
(* first, then what is around it.                                           *)
Tally(w, r) ==
    /\ r \in [0..Len(w) -> Seq(Shown)] /\ r[0] = << >>
    /\ \A k \in 1..Len(w) : r[k] = Meaning[w[k]] \o r[k - 1]
LeftBy(w, m) == \E r : Tally(w, r) /\ r[Len(w)] = m

LEMMA Concat ==
  /\ << >> \in Seq(Shown)
  /\ \A a, b \in Seq(Shown) : a \o b \in Seq(Shown)
  /\ \A a \in Seq(Shown) : << >> \o a = a /\ a \o << >> = a
BY ConcatProperties, ConcatEmptySeq

LEMMA Associative == \A a, b, c \in Seq(Shown) : (a \o b) \o c = a \o (b \o c)
BY ConcatAssociative

LEMMA NothingLeft == LeftBy(<< >>, << >>)
<1> DEFINE r == [k \in 0..0 |-> << >>]
<1>1. Tally(<< >>, r) /\ r[Len(<< >>)] = << >>
  BY Concat DEF Tally
<1> QED BY <1>1 DEF LeftBy

LEMMA LeftByOne ==
  ASSUME NEW x \in Nested PROVE LeftBy(<< x >>, Meaning[x])
<1> DEFINE r == [k \in 0..1 |-> IF k = 0 THEN << >> ELSE Meaning[x]]
<1>1. Meaning[x] \in Seq(Shown)
  BY MeaningUnfolds
<1>2. Tally(<< x >>, r)
  BY <1>1, Concat DEF Tally
<1>3. r[Len(<< x >>)] = Meaning[x]
  OBVIOUS
<1> HIDE DEF r
<1> QED BY <1>2, <1>3 DEF LeftBy

LEMMA LeftByTyped ==
  ASSUME NEW w \in Seq(Nested), NEW m, LeftBy(w, m) PROVE m \in Seq(Shown)
BY LenProperties DEF LeftBy, Tally

(* v inside u.                                                              *)
LEMMA LeftByBoth ==
  ASSUME NEW u \in Seq(Nested), NEW v \in Seq(Nested), NEW m, NEW n,
         LeftBy(u, m), LeftBy(v, n)
  PROVE  u \o v \in Seq(Nested) /\ LeftBy(u \o v, n \o m)
<1>1. PICK p : Tally(u, p) /\ p[Len(u)] = m
  BY DEF LeftBy
<1>2. PICK q : Tally(v, q) /\ q[Len(v)] = n
  BY DEF LeftBy
<1> DEFINE w == u \o v
           r == [k \in 0..Len(w) |-> IF k <= Len(u) THEN p[k] ELSE q[k - Len(u)] \o m]
<1>3. /\ w \in Seq(Nested) /\ Len(w) = Len(u) + Len(v) /\ Len(u) \in Nat /\ Len(v) \in Nat
      /\ \A k \in 1..Len(u) : w[k] = u[k]
      /\ \A k \in 1..Len(w) : k > Len(u) => w[k] = v[k - Len(u)]
  BY ConcatProperties, LenProperties
<1> HIDE DEF w
<1>4. m \in Seq(Shown) /\ n \in Seq(Shown)
  BY LeftByTyped
<1>5. /\ p \in [0..Len(u) -> Seq(Shown)] /\ p[0] = << >>
      /\ q \in [0..Len(v) -> Seq(Shown)] /\ q[0] = << >>
  BY <1>1, <1>2 DEF Tally
<1>6. ASSUME NEW k \in 0..Len(w)
      PROVE  /\ k <= Len(u) => r[k] = p[k]
             /\ k >= Len(u) => r[k] = q[k - Len(u)] \o m
             /\ r[k] \in Seq(Shown)
  <2>1. CASE k < Len(u)
    <3>1. r[k] = p[k] /\ k \in 0..Len(u) /\ ~ k >= Len(u)
      BY <1>3, <2>1
    <3> HIDE DEF r
    <3>2. p[k] \in Seq(Shown)
      BY <1>5, <3>1
    <3> QED BY <3>1, <3>2
  <2>2. CASE k = Len(u)
    <3>1. r[k] = p[k] /\ k - Len(u) = 0 /\ p[k] = m
      BY <1>1, <1>3, <2>2
    <3> HIDE DEF r
    <3> QED BY <1>3, <1>4, <1>5, <2>2, <3>1, Concat
  <2>3. CASE k > Len(u)
    <3>1. r[k] = q[k - Len(u)] \o m /\ k - Len(u) \in 0..Len(v) /\ ~ k <= Len(u)
      BY <1>3, <2>3
    <3> HIDE DEF r
    <3>2. q[k - Len(u)] \in Seq(Shown)
      BY <1>5, <3>1
    <3> QED BY <1>4, <3>1, <3>2, Concat
  <2>4. k \in Int /\ Len(u) \in Int
    BY <1>3
  <2> QED BY <2>1, <2>2, <2>3, <2>4
<1>7. r = [k \in 0..Len(w) |-> r[k]]
  OBVIOUS
<1> HIDE DEF r
<1>8. ASSUME NEW k \in 1..Len(w) PROVE r[k] = Meaning[w[k]] \o r[k - 1]
  <2>1. CASE k <= Len(u)
    <3>1. k \in 1..Len(u) /\ k \in 0..Len(w) /\ k - 1 \in 0..Len(w) /\ k - 1 <= Len(u)
      BY <1>3, <2>1
    <3>2. r[k] = p[k] /\ r[k - 1] = p[k - 1] /\ w[k] = u[k]
      BY <1>3, <1>6, <2>1, <3>1
    <3>3. p[k] = Meaning[u[k]] \o p[k - 1]
      BY <1>1, <3>1 DEF Tally
    <3> QED BY <3>2, <3>3
  <2>2. CASE k > Len(u)
    <3> DEFINE j == k - Len(u)
    <3>0. j = k - Len(u)
      OBVIOUS
    <3>1. j \in 1..Len(v) /\ k \in 0..Len(w) /\ k - 1 \in 0..Len(w) /\ k - 1 >= Len(u)
          /\ (k - 1) - Len(u) = j - 1 /\ j - 1 \in 0..Len(v)
      BY <1>3, <2>2
    <3> HIDE DEF j
    <3>2. r[k] = q[j] \o m
      BY <1>3, <1>6, <2>2, <3>0, <3>1
    <3>8. r[k - 1] = q[j - 1] \o m
      BY <1>6, <3>1
    <3>3. w[k] = v[j]
      BY <1>3, <2>2, <3>0
    <3>4. q[j] = Meaning[v[j]] \o q[j - 1]
      BY <1>2, <3>1 DEF Tally
    <3>5. v[j] \in Nested /\ q[j - 1] \in Seq(Shown)
      BY <1>5, <3>1, ElementOfSeq
    <3>6. Meaning[v[j]] \in Seq(Shown)
      BY <3>5, MeaningUnfolds
    <3>7. q[j] \o m = Meaning[v[j]] \o (q[j - 1] \o m)
      <4> DEFINE a == Meaning[v[j]]
                 b == q[j - 1]
      <4>1. a \in Seq(Shown) /\ b \in Seq(Shown) /\ q[j] = a \o b
        BY <3>4, <3>5, <3>6
      <4> HIDE DEF a, b
      <4>2. (a \o b) \o m = a \o (b \o m)
        <5>1. a \in Seq(Shown) /\ b \in Seq(Shown) /\ m \in Seq(Shown)
          BY <1>4, <4>1
        <5> QED BY <5>1, Associative, Zenon
      <4>3. q[j] \o m = a \o (b \o m)
        BY <4>1, <4>2, Zenon
      <4> QED BY <4>3 DEF a, b
    <3> QED BY <3>2, <3>3, <3>7, <3>8
  <2>3. k <= Len(u) \/ k > Len(u)
    BY <1>3
  <2> QED BY <2>1, <2>2, <2>3
<1>9. r[0] = << >> /\ r[Len(w)] = n \o m
  <2>1. 0 \in 0..Len(w) /\ Len(w) \in 0..Len(w) /\ 0 <= Len(u) /\ Len(w) >= Len(u)
        /\ Len(w) - Len(u) = Len(v)
    BY <1>3
  <2> QED BY <1>2, <1>5, <1>6, <2>1
<1>10. r \in [0..Len(w) -> Seq(Shown)]
  BY <1>6, <1>7
<1>11. LeftBy(w, n \o m)
  BY <1>8, <1>9, <1>10 DEF LeftBy, Tally
<1> QED BY <1>3, <1>11 DEF w

LEMMA TallyOuter ==
  ASSUME NEW w \in Seq(Nested), NEW r, Tally(w, r), NEW i \in 0..Len(w)
  PROVE  LeftBy(SubSeq(w, 1, i), r[i])
<1> DEFINE u == SubSeq(w, 1, i)
           q == [k \in 0..i |-> r[k]]
<1>1. Len(w) \in Nat /\ i \in Nat
  BY LenProperties
<1>2. Len(u) = i /\ \A k \in 1..i : u[k] = w[k]
  BY <1>1
<1> HIDE DEF u
<1>3. /\ r \in [0..Len(w) -> Seq(Shown)] /\ r[0] = << >>
      /\ \A k \in 1..Len(w) : r[k] = Meaning[w[k]] \o r[k - 1]
  BY DEF Tally
<1>4. q \in [0..i -> Seq(Shown)] /\ q[0] = << >> /\ q[i] = r[i]
  BY <1>1, <1>3
<1>5. ASSUME NEW k \in 1..i PROVE q[k] = Meaning[u[k]] \o q[k - 1]
  <2>1. k \in 1..Len(w) /\ k \in 0..i /\ k - 1 \in 0..i
    BY <1>1
  <2>2. q[k] = r[k] /\ q[k - 1] = r[k - 1]
    BY <2>1
  <2> HIDE DEF q
  <2> QED BY <1>2, <1>3, <2>1, <2>2
<1> HIDE DEF q
<1>6. Tally(u, q)
  BY <1>2, <1>4, <1>5 DEF Tally
<1> QED BY <1>2, <1>4, <1>6 DEF LeftBy, u

(* Where the inner wrappers have nothing to hand out.                       *)
LEMMA LeftByOuter ==
  ASSUME NEW w \in Seq(Nested), NEW m, LeftBy(w, m),
         NEW i \in 0..Len(w), \A j \in (i + 1)..Len(w) : Meaning[w[j]] = << >>
  PROVE  LeftBy(SubSeq(w, 1, i), m)
<1>1. PICK r : Tally(w, r) /\ r[Len(w)] = m
  BY DEF LeftBy
<1>2. Len(w) \in Nat
  BY LenProperties
<1> DEFINE Same == {n \in Nat : i + n <= Len(w) => r[i + n] = r[i]}
<1>3. 0 \in Same
  OBVIOUS
<1>4. ASSUME NEW n \in Same PROVE n + 1 \in Same
  <2> SUFFICES ASSUME i + (n + 1) <= Len(w) PROVE r[i + (n + 1)] = r[i]
    OBVIOUS
  <2> DEFINE j == i + (n + 1)
  <2>1. j \in (i + 1)..Len(w) /\ j \in 1..Len(w) /\ j - 1 = i + n /\ i + n \in 0..Len(w)
    BY <1>2
  <2>2. r[i + n] = r[i]
    BY <2>1
  <2> HIDE DEF j
  <2>3. r[j] = Meaning[w[j]] \o r[j - 1] /\ r[i + n] \in Seq(Shown)
    BY <1>1, <2>1 DEF Tally
  <2>4. r[j] = r[i]
    BY <2>1, <2>2, <2>3, Concat
  <2> QED BY <2>4 DEF j
<1>5. Same = Nat
  <2> HIDE DEF Same
  <2> QED BY <1>3, <1>4, Induction DEF Same
<1>6. r[i] = m
  <2>1. Len(w) - i \in Nat /\ i + (Len(w) - i) = Len(w)
    BY <1>2
  <2>2. Len(w) - i \in Same
    BY <1>5, <2>1
  <2> HIDE DEF Same
  <2>3. r[i + (Len(w) - i)] = r[i]
    BY <1>2, <2>1, <2>2 DEF Same
  <2> QED BY <1>1, <2>1, <2>3
<1> QED BY <1>1, <1>6, TallyOuter

LEMMA LeftByStep ==
  ASSUME NEW w \in Seq(Nested), NEW m, LeftBy(w, m), w # << >>
  PROVE  \E p \in Seq(Shown) : /\ LeftBy(SubSeq(w, 1, Len(w) - 1), p)
                               /\ m = Meaning[w[Len(w)]] \o p
<1>1. PICK r : Tally(w, r) /\ r[Len(w)] = m
  BY DEF LeftBy
<1> DEFINE n == Len(w) - 1
<1>2. n \in 0..Len(w) /\ Len(w) \in 1..Len(w) /\ n = Len(w) - 1
  BY EmptySeq, LenProperties
<1> HIDE DEF n
<1>3. r[Len(w)] = Meaning[w[Len(w)]] \o r[n] /\ r[n] \in Seq(Shown)
  BY <1>1, <1>2 DEF Tally
<1>4. LeftBy(SubSeq(w, 1, n), r[n])
  BY <1>1, <1>2, TallyOuter
<1> QED BY <1>1, <1>2, <1>3, <1>4

-----------------------------------------------------------------------------
(* What an object is about to hand out, with what is left after that.  An   *)
(* exception may stand for more than itself: nobody gets to see the rest.   *)
Front(v) == IF v = Result THEN << >> ELSE << v >>
Shows(o, m) == \E n \in Seq(Shown) : LeftBy(o.wrappers, n) /\ m = Front(o.answer) \o n
StartsThrown(m) == m # << >> /\ m[1] = Thrown
Faithful(o, m) == Shows(o, m) \/ (o = Exception /\ StartsThrown(m))
EndsWell(o) == o.wrappers = << >> => o.answer \in {Result, Thrown}

LEMMA FrontTyped == \A v \in Values \cup {Result, Thrown} : Front(v) \in Seq(Shown)
<1> TAKE v \in Values \cup {Result, Thrown}
<1>1. CASE v = Result
  BY <1>1 DEF Front
<1>2. CASE v # Result
  <2>1. v \in Shown
    BY <1>2 DEF Shown
  <2> QED BY <1>2, <2>1 DEF Front
<1> QED BY <1>1, <1>2

LEMMA AnswerShows ==
  ASSUME NEW v \in Values \cup {Result, Thrown} PROVE Shows(Answer(v), Front(v))
<1>1. Answer(v).answer = v /\ Answer(v).wrappers = << >>
  BY DEF Answer, Object
<1>2. Front(v) \in Seq(Shown)
  BY FrontTyped
<1>3. LeftBy(<< >>, << >>) /\ << >> \in Seq(Shown) /\ Front(v) = Front(v) \o << >>
  BY <1>2, NothingLeft, Concat
<1> QED BY <1>1, <1>3 DEF Shows

LEMMA AnswersAre ==
  ASSUME NEW o \in Objects, o.wrappers = << >> PROVE o = Answer(o.answer)
BY DEF Objects, Answer, Object

LEMMA WrapShows ==
  ASSUME NEW o \in Objects, NEW m, Shows(o, m), NEW x \in Nested
  PROVE  Shows(Wrap(o, x), m \o Meaning[x])
<1>1. PICK n \in Seq(Shown) : LeftBy(o.wrappers, n) /\ m = Front(o.answer) \o n
  BY DEF Shows
<1>2. o.answer \in Values \cup {Result, Thrown} /\ o.wrappers \in Seq(Nested)
  BY DEF Objects
<1>3. << x >> \in Seq(Nested) /\ LeftBy(<< x >>, Meaning[x]) /\ Meaning[x] \in Seq(Shown)
  BY LeftByOne, MeaningUnfolds
<1>4. LeftBy(<< x >> \o o.wrappers, n \o Meaning[x])
  BY <1>1, <1>2, <1>3, LeftByBoth
<1>5. Wrap(o, x).answer = o.answer /\ Wrap(o, x).wrappers = << x >> \o o.wrappers
  BY DEF Wrap, Object
<1>6. m \o Meaning[x] = Front(o.answer) \o (n \o Meaning[x])
  <2> DEFINE a == Front(o.answer)
             c == Meaning[x]
  <2>1. a \in Seq(Shown) /\ n \in Seq(Shown) /\ c \in Seq(Shown)
    BY <1>2, <1>3, FrontTyped
  <2>2. m = a \o n
    BY <1>1
  <2> HIDE DEF a, c
  <2>3. (a \o n) \o c = a \o (n \o c)
    BY <2>1, Associative, Zenon
  <2> QED BY <2>2, <2>3 DEF a, c
<1>7. n \o Meaning[x] \in Seq(Shown)
  BY <1>3, Concat
<1> QED BY <1>4, <1>5, <1>6, <1>7 DEF Shows

LEMMA SmallestBelow ==
  ASSUME NEW T \in SUBSET Nested, T # {}
  PROVE  \E s \in T : \A y \in Nested : <<y, s>> \in Below => y \notin T
BY BelowWellFounded, WFMin

LEMMA WrapRuns ==
  ASSUME NEW o \in Objects, NEW x \in Nested
  PROVE  /\ Wrap(o, x).wrappers # << >> /\ EndsWell(Wrap(o, x))
         /\ Wrap(o, x).answer = o.answer
         /\ Len(Wrap(o, x).wrappers) = Len(o.wrappers) + 1
         /\ o.wrappers # << >> =>
              Wrap(o, x).wrappers[Len(Wrap(o, x).wrappers)] = o.wrappers[Len(o.wrappers)]
         /\ o.wrappers = << >> => Wrap(o, x).wrappers[Len(Wrap(o, x).wrappers)] = x
<1>1. o.wrappers \in Seq(Nested) /\ << x >> \in Seq(Nested) /\ Len(<< x >>) = 1
  BY DEF Objects
<1> DEFINE w == << x >> \o o.wrappers
<1>2. /\ Len(w) = Len(o.wrappers) + 1 /\ Len(o.wrappers) \in Nat
      /\ \A i \in 1..Len(w) : w[i] = IF i <= 1 THEN << x >>[i] ELSE o.wrappers[i - 1]
  BY <1>1, ConcatProperties, LenProperties
<1>3. Wrap(o, x).wrappers = w /\ Wrap(o, x).answer = o.answer
  BY DEF Wrap, Object
<1> HIDE DEF w
<1>4. w # << >>
  BY <1>2
<1>5. o.wrappers # << >> => Len(o.wrappers) > 0
  BY <1>1, <1>2, EmptySeq
<1>6. o.wrappers # << >> => w[Len(w)] = o.wrappers[Len(o.wrappers)]
  BY <1>2, <1>5
<1>7. o.wrappers = << >> => w[Len(w)] = x
  BY <1>2
<1> QED BY <1>2, <1>3, <1>4, <1>6, <1>7 DEF EndsWell

Innermost(o) == o.wrappers[Len(o.wrappers)]
StartsWell(s) ==
    /\ Shows(Start[s], Meaning[s]) /\ EndsWell(Start[s])
    /\ Start[s].wrappers # << >> => Innermost(Start[s]).op # "loop"
    /\ s.op = "block" /\ ~IsEmpty(s) => Start[s].wrappers # << >>

LEMMA StartCorrect == \A s \in Nested : StartsWell(s)
<1> DEFINE Bad == {s \in Nested : ~StartsWell(s)}
<1>1. SUFFICES ASSUME Bad # {} PROVE FALSE
  OBVIOUS
<1>2. PICK s \in Bad : \A y \in Nested : <<y, s>> \in Below => y \notin Bad
  <2>1. Bad \in SUBSET Nested
    OBVIOUS
  <2> HIDE DEF Bad
  <2> QED BY <1>1, <2>1, SmallestBelow
<1>3. \A y \in Nested : <<y, s>> \in Below => StartsWell(y)
  BY <1>2
<1>4. SUFFICES StartsWell(s)
  BY <1>2
<1>5. s \in Nested /\ s.op \in {"block", "loop"}
  BY PlainOrNested
<1> HIDE DEF Bad
<1>6. Start[s] = StartOf(s, Start) /\ Meaning[s] = MeaningOf(s, Meaning)
  BY <1>5, StartUnfolds, MeaningUnfolds DEF Started, Meant
<1>7. CASE IsEmpty(s)
  <2>1. Start[s] = Answer(End(s)) /\ End(s) \in {Result, Thrown}
    BY <1>5, <1>6, <1>7, Ends DEF StartOf
  <2>2. Meaning[s] = Front(End(s))
    BY <1>6, <1>7, <2>1 DEF MeaningOf, Front
  <2>3. Answer(End(s)).wrappers = << >> /\ Answer(End(s)).answer = End(s)
    BY DEF Answer, Object
  <2>4. Shows(Answer(End(s)), Front(End(s)))
    BY <2>1, AnswerShows
  <2> QED BY <1>7, <2>1, <2>2, <2>3, <2>4 DEF StartsWell, EndsWell
<1>8. CASE ~IsEmpty(s)
  <2> DEFINE first == First(s)
             action == IF first.op = "step" THEN Answer(first.value) ELSE Start[first]
             shown == IF first.op = "step" THEN << first.value >> ELSE Meaning[first]
  <2>1. /\ \/ first.op = "step" /\ first.value \in Shown
           \/ first.op # "step" /\ first \in Nested /\ StartsWell(first)
        /\ Rest(s) \in Nested
        /\ s.op = "loop" => /\ first \in Nested /\ first.op = "block" /\ ~IsEmpty(first)
    BY <1>3, <1>5, <1>8, Parts DEF Shown
  <2>2. Meaning[s] = shown \o Meaning[Rest(s)]
    BY <1>6, <1>8 DEF MeaningOf
  <2>3. action \in Objects /\ Shows(action, shown)
    <3>1. CASE first.op = "step"
      <4>1. first.value \in Values \cup {Result, Thrown} /\ Front(first.value) = << first.value >>
        BY <2>1, <3>1 DEF Shown, Front
      <4> QED BY <3>1, <4>1, AnswerShows, ObjectsMade
    <3>2. CASE first.op # "step"
      BY <2>1, <3>2, StartUnfolds DEF StartsWell
    <3> QED BY <3>1, <3>2
  <2>4. action.wrappers # << >> => Innermost(action).op # "loop"
    <3>1. CASE first.op = "step"
      BY <3>1 DEF Answer, Object
    <3>2. CASE first.op # "step"
      BY <2>1, <3>2 DEF StartsWell
    <3> QED BY <3>1, <3>2
  <2>5. s.op = "loop" => action.wrappers # << >> /\ action # Exception
    <3> SUFFICES ASSUME s.op = "loop" PROVE action.wrappers # << >> /\ action # Exception
      OBVIOUS
    <3>1. action.wrappers # << >>
      BY <2>1 DEF StartsWell
    <3>2. Exception.wrappers = << >>
      BY DEF Exception, Answer, Object
    <3> QED BY <3>1, <3>2
  <2>6. Start[s] = Wrap(action, Rest(s))
    <3>1. Start[s] = IF s.op = "block" THEN MakeSubtask(action, Rest(s))
                                       ELSE TaskRound(action, Rest(s))
      BY <1>6, <1>8 DEF StartOf
    <3> HIDE DEF action
    <3> QED BY <1>5, <2>5, <3>1 DEF MakeSubtask, TaskRound
  <2>7. s.op = "block" => Rest(s).op = "block"
    BY <1>5, <1>8, BlockParts
  <2> HIDE DEF action, shown, first
  <2>8. Shows(Start[s], Meaning[s])
    BY <2>1, <2>2, <2>3, <2>6, WrapShows
  <2>9. EndsWell(Start[s]) /\ Start[s].wrappers # << >>
    BY <2>1, <2>3, <2>6, WrapRuns
  <2>10. Innermost(Start[s]).op # "loop"
    <3>1. CASE action.wrappers # << >>
      <4>1. Innermost(Start[s]) = Innermost(action)
        BY <2>1, <2>3, <2>6, <3>1, WrapRuns DEF Innermost
      <4> QED BY <2>4, <3>1, <4>1
    <3>2. CASE action.wrappers = << >>
      <4>1. Innermost(Start[s]) = Rest(s)
        BY <2>1, <2>3, <2>6, <3>2, WrapRuns DEF Innermost
      <4> QED BY <1>5, <2>5, <2>7, <3>2, <4>1
    <3> QED BY <3>1, <3>2
  <2> QED BY <2>8, <2>9, <2>10 DEF StartsWell
<1> QED BY <1>7, <1>8

LEMMA ThrownPassed ==
  ASSUME NEW a \in Seq(Shown), NEW b \in Seq(Shown), StartsThrown(a) PROVE StartsThrown(a \o b)
<1>1. Len(a) \in Nat /\ Len(a) > 0 /\ Len(b) \in Nat
  BY EmptySeq, LenProperties DEF StartsThrown
<1>2. Len(a \o b) = Len(a) + Len(b) /\ (a \o b)[1] = a[1]
  BY <1>1, ConcatProperties
<1> QED BY <1>1, <1>2 DEF StartsThrown

LEMMA ExceptionThrows ==
  ASSUME NEW m \in Seq(Shown), Faithful(Exception, m) PROVE StartsThrown(m)
<1>1. SUFFICES ASSUME Shows(Exception, m) PROVE StartsThrown(m)
  BY DEF Faithful
<1>2. Exception.answer = Thrown
  BY DEF Exception, Answer, Object
<1>3. PICK n \in Seq(Shown) : m = << Thrown >> \o n
  BY <1>1, <1>2 DEF Shows, Front
<1>4. << Thrown >> \in Seq(Shown) /\ StartsThrown(<< Thrown >>)
  BY DEF Shown, StartsThrown
<1> QED BY <1>3, <1>4, ThrownPassed

LEMMA AnswerFaithful ==
  ASSUME NEW m \in Seq(Shown), Faithful(Answer(Result), m) PROVE m = << >>
<1>1. Answer(Result).answer = Result /\ Answer(Result).wrappers = << >>
      /\ Exception.answer = Thrown
  BY DEF Exception, Answer, Object
<1>2. PICK n \in Seq(Shown) : LeftBy(<< >>, n) /\ m = << >> \o n
  BY <1>1 DEF Faithful, Shows, Front
<1>3. n = << >>
  BY <1>2 DEF LeftBy, Tally
<1> QED BY <1>2, <1>3

YieldsWell(s) ==
    /\ Faithful(Iterate[s], Meaning[s]) /\ EndsWell(Iterate[s])
    /\ Iterate[s].wrappers # << >> => Iterate[s].answer # Result

LEMMA IterateCorrect == \A s \in Nested : YieldsWell(s)
<1> DEFINE Bad == {s \in Nested : ~YieldsWell(s)}
<1>1. SUFFICES ASSUME Bad # {} PROVE FALSE
  OBVIOUS
<1>2. PICK s \in Bad : \A y \in Nested : <<y, s>> \in Below => y \notin Bad
  <2>1. Bad \in SUBSET Nested
    OBVIOUS
  <2> HIDE DEF Bad
  <2> QED BY <1>1, <2>1, SmallestBelow
<1>3. \A y \in Nested : <<y, s>> \in Below => YieldsWell(y)
  BY <1>2
<1>4. SUFFICES YieldsWell(s)
  BY <1>2
<1>5. s \in Nested /\ s.op \in {"block", "loop"}
  BY PlainOrNested
<1> HIDE DEF Bad
<1>6. Iterate[s] = IterateOf(s, Iterate) /\ Meaning[s] = MeaningOf(s, Meaning)
  BY <1>5, IterateUnfolds, MeaningUnfolds DEF Iterated, Meant
<1>7. CASE IsEmpty(s)
  <2>1. Iterate[s] = Answer(End(s)) /\ End(s) \in {Result, Thrown}
    BY <1>5, <1>6, <1>7, Ends DEF IterateOf
  <2>2. Meaning[s] = Front(End(s))
    BY <1>6, <1>7, <2>1 DEF MeaningOf, Front
  <2>3. Answer(End(s)).wrappers = << >> /\ Answer(End(s)).answer = End(s)
    BY DEF Answer, Object
  <2>4. Shows(Answer(End(s)), Front(End(s)))
    BY <2>1, AnswerShows
  <2> QED BY <2>1, <2>2, <2>3, <2>4 DEF YieldsWell, EndsWell, Faithful
<1>8. CASE ~IsEmpty(s)
  <2> DEFINE first == First(s)
             rest == Rest(s)
             shown == IF first.op = "step" THEN << first.value >> ELSE Meaning[first]
  <2>1. /\ \/ first.op = "step" /\ first.value \in Shown
           \/ first.op # "step" /\ first \in Nested /\ YieldsWell(first)
        /\ rest \in Nested /\ YieldsWell(rest)
        /\ s.op = "loop" => first.op # "step"
    BY <1>3, <1>5, <1>8, Parts DEF Shown
  <2>2. Meaning[s] = shown \o Meaning[rest]
    BY <1>6, <1>8 DEF MeaningOf
  <2>3. Meaning[rest] \in Seq(Shown)
    BY <2>1, MeaningUnfolds
  <2>4. CASE first.op = "step"
    <3>1. Iterate[s] = MakeIterator(first.value, rest)
      BY <1>6, <1>8, <2>4 DEF IterateOf
    <3> HIDE DEF first, rest
    <3>2. Iterate[s].answer = first.value /\ Iterate[s].wrappers = << rest >>
      BY <3>1 DEF MakeIterator, Object
    <3>3. first.value \in Shown /\ first.value # Result
      BY <2>1, <2>4 DEF Shown
    <3>4. LeftBy(<< rest >>, Meaning[rest])
      BY <2>1, LeftByOne
    <3>5. Meaning[s] = Front(first.value) \o Meaning[rest]
      BY <2>2, <2>4, <3>3 DEF Front
    <3>6. Shows(Iterate[s], Meaning[s])
      BY <2>3, <3>2, <3>4, <3>5 DEF Shows
    <3> QED BY <3>2, <3>3, <3>6 DEF YieldsWell, Faithful, EndsWell
  <2>5. CASE first.op # "step"
    <3> DEFINE iter == Iterate[first]
    <3>1. Iterate[s] = IF iter = Exception THEN Exception
                       ELSE IF IsRunning(iter) THEN Wrap(iter, rest) ELSE Iterate[rest]
      BY <1>5, <1>6, <1>8, <2>5 DEF IterateOf, MakeSubsequence, SequenceRound
    <3>2. Meaning[s] = Meaning[first] \o Meaning[rest]
      BY <2>2, <2>5
    <3>3. /\ iter \in Objects /\ Faithful(iter, Meaning[first]) /\ EndsWell(iter)
          /\ iter.wrappers # << >> => iter.answer # Result
          /\ first \in Nested /\ Meaning[first] \in Seq(Shown)
      BY <2>1, <2>5, IterateUnfolds, MeaningUnfolds DEF YieldsWell
    <3> HIDE DEF first, rest, iter
    <3>4. CASE iter = Exception
      <4>1. StartsThrown(Meaning[s])
        BY <2>3, <3>2, <3>3, <3>4, ExceptionThrows, ThrownPassed
      <4>2. Iterate[s] = Exception /\ Exception.wrappers = << >> /\ Exception.answer = Thrown
        BY <3>1, <3>4 DEF Exception, Answer, Object
      <4> QED BY <4>1, <4>2 DEF YieldsWell, Faithful, EndsWell
    <3>5. CASE iter # Exception /\ IsRunning(iter)
      <4>1. Iterate[s] = Wrap(iter, rest)
        BY <3>1, <3>5
      <4>2. Shows(Iterate[s], Meaning[s])
        BY <2>1, <3>2, <3>3, <3>5, <4>1, WrapShows DEF Faithful
      <4>3. EndsWell(Iterate[s]) /\ Iterate[s].answer # Result
        BY <2>1, <3>3, <3>5, <4>1, WrapRuns DEF IsRunning
      <4> QED BY <4>2, <4>3 DEF YieldsWell, Faithful
    <3>6. CASE iter # Exception /\ ~IsRunning(iter)
      <4>1. Iterate[s] = Iterate[rest]
        BY <3>1, <3>6
      <4>2. iter = Answer(iter.answer) /\ iter.answer \in {Result, Thrown}
        BY <3>3, <3>6, AnswersAre DEF IsRunning, EndsWell
      <4>3. iter = Answer(Result)
        BY <3>6, <4>2 DEF Exception
      <4>4. Meaning[first] = << >>
        BY <3>3, <4>3, AnswerFaithful
      <4>5. Meaning[s] = Meaning[rest]
        BY <2>3, <3>2, <4>4, Concat
      <4> QED BY <2>1, <4>1, <4>5 DEF YieldsWell
    <3> QED BY <3>4, <3>5, <3>6
  <2> QED BY <2>4, <2>5
<1> QED BY <1>7, <1>8

-----------------------------------------------------------------------------
(* A call of "send" or "next" goes on where the object was.                 *)
LEMMA MaxOfIndices ==
  ASSUME NEW n \in Nat, NEW T \in SUBSET (1..n), T # {}
  PROVE  Max(T) \in T /\ \A j \in T : j <= Max(T)
<1> DEFINE D == {n - j : j \in T}
<1>1. D \in SUBSET Nat /\ D # {}
  <2>1. \A j \in T : j \in 1..n /\ n - j \in Nat
    OBVIOUS
  <2> QED BY <2>1
<1>2. PICK d \in D : \A r \in D : d <= r
  <2> HIDE DEF D
  <2> QED BY <1>1, LeastElement
<1>3. PICK i \in T : d = n - i
  BY <1>2
<1>4. \A j \in T : i >= j
  BY <1>2, <1>3
<1>5. Max(T) \in T /\ \A j \in T : Max(T) >= j
  BY <1>4 DEF Max
<1> QED BY <1>5

BeginsWell(begin) ==
    /\ begin \in [Nested -> Objects]
    /\ \A s \in Nested : Faithful(begin[s], Meaning[s]) /\ EndsWell(begin[s])

(* Whatever goes on was begun.                                              *)
BegunBy(o, begin) ==
    \E x \in Nested : /\ begin[x].wrappers # << >> /\ o.answer = begin[x].answer
                      /\ Innermost(o) = Innermost(begin[x])

LEMMA InnermostOfConcat ==
  ASSUME NEW u \in Seq(Nested), NEW v \in Seq(Nested), v # << >>
  PROVE  u \o v # << >> /\ (u \o v)[Len(u \o v)] = v[Len(v)]
<1>1. Len(v) \in Nat /\ Len(v) > 0 /\ Len(u) \in Nat
  BY EmptySeq, LenProperties
<1>2. /\ Len(u \o v) = Len(u) + Len(v)
      /\ \A i \in 1..Len(u) + Len(v) : (u \o v)[i] = IF i <= Len(u) THEN u[i] ELSE v[i - Len(u)]
  BY ConcatProperties
<1>3. (u \o v)[Len(u) + Len(v)] = v[Len(v)]
  BY <1>1, <1>2
<1> QED BY <1>1, <1>2, <1>3

LEMMA GoesOn ==
  ASSUME NEW o \in Objects, o.wrappers # << >>, NEW n, LeftBy(o.wrappers, n),
         NEW begin, BeginsWell(begin)
  PROVE  /\ GoOn(o, begin) \in Objects /\ Faithful(GoOn(o, begin), n) /\ EndsWell(GoOn(o, begin))
         /\ GoOn(o, begin).wrappers # << >> => BegunBy(GoOn(o, begin), begin)
<1> DEFINE w == o.wrappers
           next == [i \in DOMAIN w |-> begin[w[i]]]
           busy == {i \in DOMAIN w : next[i] # Answer(Result)}
           i == Max(busy)
<1>1. /\ w \in Seq(Nested) /\ Len(w) \in Nat /\ DOMAIN w = 1..Len(w)
      /\ \A j \in 1..Len(w) : w[j] \in Nested
  BY ElementOfSeq, LenProperties DEF Objects
<1>2. n \in Seq(Shown)
  BY <1>1, LeftByTyped
<1>3. \A j \in 1..Len(w) : /\ next[j] = begin[w[j]] /\ next[j] \in Objects
                           /\ Faithful(next[j], Meaning[w[j]]) /\ EndsWell(next[j])
                           /\ Meaning[w[j]] \in Seq(Shown)
  BY <1>1, MeaningUnfolds DEF BeginsWell
<1>4. \A j \in 1..Len(w) : j \notin busy => Meaning[w[j]] = << >>
  <2> TAKE j \in 1..Len(w)
  <2> HAVE j \notin busy
  <2>1. next[j] = Answer(Result)
    BY <1>1
  <2> HIDE DEF next
  <2> QED BY <1>3, <2>1, AnswerFaithful
<1>5. GoOn(o, begin) =
        IF busy = {} THEN Answer(Result)
        ELSE IF next[i] = Exception THEN Exception
             ELSE Object(next[i].answer, SubSeq(w, 1, i - 1) \o next[i].wrappers)
  BY DEF GoOn
<1>6. /\ Answer(Result).wrappers = << >> /\ Answer(Result).answer = Result
      /\ Exception.wrappers = << >> /\ Exception.answer = Thrown
  BY DEF Exception, Answer, Object
<1>7. busy \in SUBSET (1..Len(w)) /\ \A j \in busy : next[j] # Answer(Result)
  BY <1>1
<1>13. LeftBy(w, n)
  OBVIOUS
<1> HIDE DEF next, busy, w
<1>8. CASE busy = {}
  <2>1. LeftBy(SubSeq(w, 1, 0), n)
    <3>1. \A j \in (0 + 1)..Len(w) : Meaning[w[j]] = << >>
      BY <1>4, <1>8
    <3>2. 0 \in 0..Len(w)
      BY <1>1
    <3> QED BY <1>1, <1>13, <3>1, <3>2, LeftByOuter
  <2>2. SubSeq(w, 1, 0) = << >>
    BY SubSeqEmpty
  <2>3. n = << >>
    BY <2>1, <2>2 DEF LeftBy, Tally
  <2>4. Shows(Answer(Result), Front(Result)) /\ Front(Result) = << >>
    BY AnswerShows DEF Front
  <2>5. Faithful(Answer(Result), n)
    BY <2>3, <2>4 DEF Faithful
  <2> QED BY <1>5, <1>6, <1>8, <2>5, ObjectsMade DEF EndsWell
<1>9. CASE busy # {}
  <2>1. i \in busy /\ i \in 1..Len(w) /\ \A j \in busy : j <= i
    BY <1>1, <1>7, <1>9, MaxOfIndices
  <2> HIDE DEF i
  <2> DEFINE u == SubSeq(w, 1, i)
             outer == SubSeq(w, 1, i - 1)
  <2>2. /\ u \in Seq(Nested) /\ Len(u) = i /\ u # << >> /\ u[i] = w[i]
        /\ SubSeq(u, 1, Len(u) - 1) = outer /\ outer \in Seq(Nested)
    <3>1. u \in Seq(Nested) /\ Len(u) = i /\ \A k \in 1..i : u[k] = w[k]
      BY <1>1, <2>1, SubSeqProperties
    <3>2. outer \in Seq(Nested) /\ Len(outer) = i - 1 /\ \A k \in 1..(i - 1) : outer[k] = w[k]
      BY <1>1, <2>1, SubSeqProperties
    <3> HIDE DEF u, outer
    <3> DEFINE t == SubSeq(u, 1, i - 1)
    <3>3. t \in Seq(Nested) /\ Len(t) = i - 1 /\ \A k \in 1..(i - 1) : t[k] = u[k]
      BY <1>1, <2>1, <3>1, SubSeqProperties
    <3> HIDE DEF t
    <3>4. \A k \in 1..(i - 1) : t[k] = outer[k]
      BY <2>1, <3>1, <3>2, <3>3
    <3>5. t = outer
      BY <3>2, <3>3, <3>4, SeqEqual
    <3> QED BY <2>1, <3>1, <3>2, <3>5 DEF t
  <2>3. LeftBy(u, n)
    <3>1. \A j \in (i + 1)..Len(w) : Meaning[w[j]] = << >>
      BY <1>1, <1>4, <2>1
    <3>2. i \in 0..Len(w)
      BY <1>1, <2>1
    <3> QED BY <1>1, <1>13, <3>1, <3>2, LeftByOuter
  <2> HIDE DEF u, outer
  <2>4. PICK p \in Seq(Shown) : LeftBy(outer, p) /\ n = Meaning[w[i]] \o p
    <3>1. PICK p \in Seq(Shown) : LeftBy(SubSeq(u, 1, Len(u) - 1), p) /\ n = Meaning[u[Len(u)]] \o p
      BY <2>2, <2>3, LeftByStep
    <3>2. SubSeq(u, 1, Len(u) - 1) = outer /\ u[Len(u)] = w[i]
      BY <2>2
    <3>3. LeftBy(outer, p) /\ n = Meaning[w[i]] \o p
      BY <3>1, <3>2, Zenon
    <3> QED BY <3>3
  <2>5. /\ next[i] = begin[w[i]] /\ w[i] \in Nested /\ next[i] \in Objects
        /\ Faithful(next[i], Meaning[w[i]]) /\ EndsWell(next[i])
        /\ Meaning[w[i]] \in Seq(Shown) /\ next[i] # Answer(Result)
    BY <1>1, <1>3, <1>7, <2>1
  <2>6. CASE next[i] = Exception
    <3>1. StartsThrown(n)
      BY <2>4, <2>5, <2>6, ExceptionThrows, ThrownPassed
    <3>2. GoOn(o, begin) = Exception
      BY <1>5, <1>9, <2>6
    <3> QED BY <1>6, <3>1, <3>2, ObjectsMade DEF Faithful, EndsWell
  <2>7. CASE next[i] # Exception
    <3> DEFINE v == next[i].wrappers
               a == next[i].answer
               on == GoOn(o, begin)
    <3>1. v \in Seq(Nested) /\ a \in Values \cup {Result, Thrown} /\ v # << >>
      <4>1. v \in Seq(Nested) /\ a \in Values \cup {Result, Thrown}
        BY <2>5 DEF Objects
      <4>2. ASSUME v = << >> PROVE FALSE
        <5>1. next[i] = Answer(a) /\ a \in {Result, Thrown}
          BY <2>5, <4>2, AnswersAre DEF EndsWell
        <5> QED BY <2>5, <2>7, <5>1 DEF Exception
      <4> QED BY <4>1, <4>2
    <3>2. on = Object(a, outer \o v)
      BY <1>5, <1>9, <2>7 DEF outer
    <3>3. PICK k \in Seq(Shown) : LeftBy(v, k) /\ Meaning[w[i]] = Front(a) \o k
      BY <2>5, <2>7 DEF Faithful, Shows
    <3> HIDE DEF v, a, on
    <3>4. outer \o v \in Seq(Nested) /\ LeftBy(outer \o v, k \o p)
      BY <2>2, <2>4, <3>1, <3>3, LeftByBoth
    <3>5. n = Front(a) \o (k \o p) /\ k \o p \in Seq(Shown)
      <4> DEFINE f == Front(a)
      <4>1. f \in Seq(Shown)
        BY <3>1, FrontTyped
      <4>2. n = (f \o k) \o p
        BY <2>4, <3>3
      <4> HIDE DEF f
      <4>3. (f \o k) \o p = f \o (k \o p)
        BY <4>1, Associative, Zenon
      <4>4. k \o p \in Seq(Shown)
        BY Concat
      <4> QED BY <4>2, <4>3, <4>4 DEF f
    <3>6. on \in Objects /\ on.answer = a /\ on.wrappers = outer \o v
      BY <3>1, <3>2, <3>4, ObjectsMade
    <3>7. Shows(on, n)
      BY <3>4, <3>5, <3>6 DEF Shows
    <3>8. on.wrappers # << >> /\ Innermost(on) = v[Len(v)]
      BY <2>2, <3>1, <3>6, InnermostOfConcat DEF Innermost
    <3>9. BegunBy(on, begin)
      <4>1. begin[w[i]].wrappers = v /\ begin[w[i]].answer = a
        BY <2>5 DEF v, a
      <4> QED BY <2>5, <3>1, <3>6, <3>8, <4>1 DEF BegunBy, Innermost
    <3> QED BY <3>6, <3>7, <3>8, <3>9 DEF Faithful, EndsWell, on
  <2> QED BY <2>6, <2>7
<1> QED BY <1>8, <1>9

-----------------------------------------------------------------------------
(* The invariant: the meaning of the program is what was handed out already *)
(* and what the object has left.                                            *)
Remains(m) == \E rest \in Seq(Shown) : m = done \o rest /\ Faithful(object, rest)
Typed ==
    /\ kind \in {"task", "generator"} /\ program \in Nested
    /\ object \in Objects /\ EndsWell(object)
    /\ done \in Seq(Shown)
FlowInv ==
    /\ Typed
    /\ object.wrappers # << >> => BegunBy(object, Begin(kind))
    /\ Remains(Meaning[program])
    /\ stage = "exited" => object.wrappers = << >> /\ object.answer # Thrown
    /\ stage = "failed" => object.answer = Thrown

LEMMA BothBeginWell ==
  ASSUME NEW k \in {"task", "generator"} PROVE BeginsWell(Begin(k))
<1>1. BeginsWell(Start)
  BY StartUnfolds, StartCorrect DEF BeginsWell, StartsWell, Faithful
<1>2. BeginsWell(Iterate)
  BY IterateUnfolds, IterateCorrect DEF BeginsWell, YieldsWell
<1> QED BY <1>1, <1>2 DEF Begin

LEMMA ProgramsNested == Programs \subseteq Nested
BY DEF Functions

LEMMA FlowInit == Init => FlowInv
<1> SUFFICES ASSUME Init PROVE FlowInv
  OBVIOUS
<1>1. kind \in {"task", "generator"} /\ program \in Nested /\ object = Begin(kind)[program]
      /\ stage = "run" /\ done = << >>
  BY ProgramsNested DEF Init
<1>2. BeginsWell(Begin(kind))
  BY <1>1, BothBeginWell
<1>3. object \in Objects /\ EndsWell(object) /\ Faithful(object, Meaning[program])
  BY <1>1, <1>2 DEF BeginsWell
<1>4. Meaning[program] \in Seq(Shown)
  BY <1>1, MeaningUnfolds
<1>5. Remains(Meaning[program])
  BY <1>1, <1>3, <1>4, Concat DEF Remains
<1>6. object.wrappers # << >> => BegunBy(object, Begin(kind))
  BY <1>1 DEF BegunBy
<1> QED BY <1>1, <1>3, <1>5, <1>6, Concat DEF FlowInv, Typed

(* One more value is handed out.                                            *)
LEMMA HandOutStep ==
  ASSUME FlowInv, HandOut, object.wrappers # << >>, object.answer \notin {Result, Thrown},
         stage = "run"
  PROVE  FlowInv'
<1> DEFINE a == object.answer
           on == GoOn(object, Begin(kind))
           M == Meaning[program]
<1>1. /\ kind \in {"task", "generator"} /\ program \in Nested /\ object \in Objects
      /\ done \in Seq(Shown) /\ Remains(M)
  BY DEF FlowInv, Typed
<1>2. /\ done' = Append(done, a) /\ object' = on
      /\ kind' = kind /\ program' = program /\ stage' = "run"
  BY DEF HandOut
<1>3. a \in Shown /\ << a >> \in Seq(Shown) /\ Front(a) = << a >> /\ object # Exception
  BY <1>1 DEF Objects, Shown, Front, Exception, Answer, Object
<1>4. PICK rest \in Seq(Shown) : M = done \o rest /\ Faithful(object, rest)
  BY <1>1 DEF Remains
<1>5. PICK n \in Seq(Shown) : LeftBy(object.wrappers, n) /\ rest = << a >> \o n
  BY <1>3, <1>4 DEF Faithful, Shows
<1>6. BeginsWell(Begin(kind))
  BY <1>1, BothBeginWell
<1>7. /\ on \in Objects /\ Faithful(on, n) /\ EndsWell(on)
      /\ on.wrappers # << >> => BegunBy(on, Begin(kind))
  BY <1>1, <1>5, <1>6, GoesOn
<1>8. M = Append(done, a) \o n
  <2> HIDE DEF a, M
  <2>1. Append(done, a) = done \o << a >>
    BY <1>1, <1>3, AppendIsConcat
  <2>2. (done \o << a >>) \o n = done \o (<< a >> \o n)
    BY <1>1, <1>3, Associative, Zenon
  <2> QED BY <1>4, <1>5, <2>1, <2>2, Zenon
<1>9. Append(done, a) \in Seq(Shown)
  BY <1>1, <1>3, AppendProperties
<1> HIDE DEF a, on
<1>10. Typed'
  BY <1>1, <1>2, <1>7, <1>9 DEF Typed, EndsWell
<1>11. (Meaning[program])' = M
  BY <1>2 DEF M
<1>12. Remains(Meaning[program])'
  BY <1>2, <1>7, <1>8, <1>11 DEF Remains, M
<1>13. (object.wrappers # << >> => BegunBy(object, Begin(kind)))'
  BY <1>2, <1>7 DEF BegunBy, Begin, Innermost
<1> QED BY <1>2, <1>10, <1>12, <1>13 DEF FlowInv

LEMMA FlowStep == FlowInv /\ [Next]_vars => FlowInv'
<1> SUFFICES ASSUME FlowInv, [Next]_vars PROVE FlowInv'
  OBVIOUS
<1>1. /\ kind \in {"task", "generator"} /\ program \in Nested /\ object \in Objects
      /\ EndsWell(object) /\ (object.wrappers # << >> => BegunBy(object, Begin(kind)))
  BY DEF FlowInv, Typed
<1>2. ASSUME NEW t, Become(t), t = "exited" => object.wrappers = << >> /\ object.answer # Thrown,
             t = "failed" => object.answer = Thrown
      PROVE  FlowInv'
  <2>1. stage' = t /\ UNCHANGED <<kind, program, object, done>>
    BY <1>2 DEF Become
  <2>2. Typed'
    BY <2>1 DEF FlowInv, Typed, EndsWell
  <2>3. Remains(Meaning[program])'
    BY <2>1 DEF FlowInv, Remains
  <2>4. (object.wrappers # << >> => BegunBy(object, Begin(kind)))'
    BY <1>1, <2>1 DEF BegunBy, Begin, Innermost
  <2> QED BY <1>2, <2>1, <2>2, <2>3, <2>4 DEF FlowInv
<1>3. CASE Perform
  BY <1>3, HandOutStep DEF Perform, IsRunning, IsAnIOAction
<1>4. CASE Fail
  BY <1>2, <1>4 DEF Fail
<1>5. CASE Abort
  BY <1>2, <1>5 DEF Abort
<1>6. CASE Exit
  BY <1>2, <1>6 DEF Exit, IsRunning
<1>7. CASE Take
  <2>1. object.wrappers # << >> /\ kind = "generator"
    BY <1>7 DEF Take, IsRunning
  <2>2. object.answer # Result
    <3>1. PICK x \in Nested : Iterate[x].wrappers # << >> /\ object.answer = Iterate[x].answer
      BY <1>1, <2>1 DEF BegunBy, Begin
    <3> QED BY <3>1, IterateCorrect DEF YieldsWell
  <2> QED BY <1>7, <2>1, <2>2, HandOutStep DEF Take
<1>8. CASE Stop
  BY <1>2, <1>8 DEF Stop, IsRunning
<1>9. CASE UNCHANGED vars
  <2>1. UNCHANGED <<kind, program, object, stage, done>>
    BY <1>9 DEF vars
  <2>2. Typed'
    BY <2>1 DEF FlowInv, Typed, EndsWell
  <2>3. Remains(Meaning[program])'
    BY <2>1 DEF FlowInv, Remains
  <2>4. (object.wrappers # << >> => BegunBy(object, Begin(kind)))'
    BY <1>1, <2>1 DEF BegunBy, Begin, Innermost
  <2> QED BY <2>1, <2>2, <2>3, <2>4 DEF FlowInv
<1> QED BY <1>3, <1>4, <1>5, <1>6, <1>7, <1>8, <1>9 DEF Next, Halted

LEMMA FlowOrdered == FlowInv => HandedOutInOrder
<1> SUFFICES ASSUME FlowInv PROVE HandedOutInOrder
  OBVIOUS
<1> DEFINE M == Meaning[program]
<1>1. object \in Objects /\ EndsWell(object) /\ done \in Seq(Shown) /\ Remains(M)
  BY DEF FlowInv, Typed
<1>2. PICK rest \in Seq(Shown) : M = done \o rest /\ Faithful(object, rest)
  BY <1>1 DEF Remains
<1> HIDE DEF M
<1>3. /\ M \in Seq(Shown) /\ Len(M) = Len(done) + Len(rest)
      /\ Len(done) \in Nat /\ Len(rest) \in Nat
      /\ \A i \in 1..Len(done) + Len(rest) :
            M[i] = IF i <= Len(done) THEN done[i] ELSE rest[i - Len(done)]
  BY <1>1, <1>2, ConcatProperties, LenProperties
<1>4. InOrder(done, M)
  <2> DEFINE t == SubSeq(M, 1, Len(done))
  <2>1. t \in Seq(Shown) /\ Len(t) = Len(done) /\ \A i \in 1..Len(done) : t[i] = M[i]
    <3>1. \A i \in 1..Len(done) : M[i] \in Shown
      BY <1>3, ElementOfSeq
    <3> QED BY <1>3, <3>1, SubSeqProperties
  <2> HIDE DEF t
  <2>2. \A i \in 1..Len(done) : t[i] = done[i]
    BY <1>3, <2>1
  <2>3. t = done
    BY <1>1, <2>1, <2>2, SeqEqual
  <2> QED BY <1>3, <2>3 DEF InOrder, t
<1>5. ASSUME stage = "exited" PROVE done = M
  <2>1. object.wrappers = << >> /\ object.answer # Thrown
    BY <1>5 DEF FlowInv
  <2>2. object = Answer(Result)
    BY <1>1, <2>1, AnswersAre DEF EndsWell
  <2>3. rest = << >>
    BY <1>2, <2>2, AnswerFaithful
  <2> QED BY <1>1, <1>2, <2>3, Concat
<1>6. ASSUME stage = "failed" PROVE ThrowsAfter(done, M)
  <2>1. object.answer = Thrown
    BY <1>6 DEF FlowInv
  <2>2. StartsThrown(rest)
    <3>1. SUFFICES ASSUME Shows(object, rest) PROVE StartsThrown(rest)
      BY <1>2 DEF Faithful
    <3>2. PICK n \in Seq(Shown) : rest = << Thrown >> \o n
      BY <2>1, <3>1 DEF Shows, Front
    <3>3. << Thrown >> \in Seq(Shown) /\ StartsThrown(<< Thrown >>)
      BY DEF Shown, StartsThrown
    <3> QED BY <3>2, <3>3, ThrownPassed
  <2>3. Len(rest) > 0 /\ rest[1] = Thrown
    BY <1>3, <2>2, EmptySeq DEF StartsThrown
  <2>4. Len(done) + 1 \in 1..Len(done) + Len(rest) /\ (Len(done) + 1) - Len(done) = 1
    BY <1>3, <2>3
  <2>5. M[Len(done) + 1] = Thrown
    BY <1>3, <2>3, <2>4
  <2> QED BY <1>3, <2>3, <2>5 DEF ThrowsAfter
<1> QED BY <1>4, <1>5, <1>6 DEF HandedOutInOrder, M

LEMMA FlowLoops == FlowInv => LoopAssertHolds
<1> SUFFICES ASSUME FlowInv, kind = "task", IsRunning(object)
             PROVE  object.wrappers[Len(object.wrappers)].op # "loop"
  BY DEF LoopAssertHolds
<1>1. PICK x \in Nested : Start[x].wrappers # << >> /\ Innermost(object) = Innermost(Start[x])
  BY DEF FlowInv, BegunBy, Begin, IsRunning
<1>2. Innermost(Start[x]).op # "loop"
  BY <1>1, StartCorrect DEF StartsWell
<1> QED BY <1>1, <1>2 DEF Innermost

(* Whatever the program, what was handed out and what is left of its chain  *)
(* of actions or iterators are together what the source text means.         *)
THEOREM NothingGetsLost == Spec => []FlowInv
<1>1. Init => FlowInv
  BY FlowInit
<1>2. FlowInv /\ [Next]_vars => FlowInv'
  BY FlowStep
<1> QED BY <1>1, <1>2, PTL DEF Spec

(* For every program, however deep its blocks and loops nest: RunIO performs*)
(* its actions once each and in the order of the text, all of them before   *)
(* the program exits, and all before the exception it fails with.           *)
THEOREM TasksInOrder == Spec => []PerformedInOrder
<1>1. FlowInv => PerformedInOrder
  BY FlowOrdered DEF PerformedInOrder
<1> QED BY <1>1, NothingGetsLost, PTL

(* For every generator, however deep its blocks and loops nest and whichever*)
(* of them yield nothing: a consumer sees its values in the order of the    *)
(* text, none twice and none left out.                                      *)
THEOREM GeneratorsInOrder == Spec => []SeenInOrder
<1>1. FlowInv => SeenInOrder
  BY FlowOrdered DEF SeenInOrder
<1> QED BY <1>1, NothingGetsLost, PTL

(* The assert of Loop_Action_Send holds in every program.                   *)
THEOREM LoopAsserts == Spec => []LoopAssertHolds
<1>1. FlowInv => LoopAssertHolds
  BY FlowLoops
<1> QED BY <1>1, NothingGetsLost, PTL

-----------------------------------------------------------------------------
(* The actions of a program whose blocks and loops all have something to    *)
(* hand out.                                                                *)
NeverIdleOf(s, g) ==
    \/ IsEmpty(s)
    \/ /\ First(s).op # "step" => Meaning[First(s)] # << >> /\ g[First(s)]
       /\ g[Rest(s)]

LEMMA NeverIdleUnfolds == \A s \in Nested : NeverIdle[s] = NeverIdleOf(s, NeverIdle)
<1> DEFINE F == [a \in Nested \X [Nested -> BOOLEAN] |-> NeverIdleOf(a[1], a[2])]
<1>1. ASSUME NEW s \in Nested, NEW g, NEW h,
             \A y \in Nested : <<y, s>> \in Below => g[y] = h[y]
      PROVE  NeverIdleOf(s, g) = NeverIdleOf(s, h)
  <2>1. ~IsEmpty(s) => g[Rest(s)] = h[Rest(s)]
    BY <1>1, Parts
  <2>2. ~IsEmpty(s) => First(s).op = "step" \/ g[First(s)] = h[First(s)]
    BY <1>1, Parts
  <2> QED BY <2>1, <2>2 DEF NeverIdleOf
<1>2. \A s \in Nested : \A g \in [Nested -> BOOLEAN] :
        /\ F[<<s, g>>] = NeverIdleOf(s, g)
        /\ F[<<s, g>>] \in BOOLEAN
  <2> TAKE s \in Nested
  <2> TAKE g \in [Nested -> BOOLEAN]
  <2>1. F[<<s, g>>] = NeverIdleOf(s, g)
    OBVIOUS
  <2>2. NeverIdleOf(s, g) \in BOOLEAN
    BY DEF NeverIdleOf
  <2> QED BY <2>1, <2>2
<1>3. F \in [Nested \X [Nested -> BOOLEAN] -> BOOLEAN]
  BY DEF NeverIdleOf
<1> HIDE DEF F
<1>4. LooksBelow(Nested, Below, BOOLEAN, F)
  BY <1>1, <1>2 DEF LooksBelow
<1>5. PICK f \in [Nested -> BOOLEAN] : Solves(f, Nested, F)
  BY <1>3, <1>4, NestedRecursion
<1> DEFINE Unfolded(g) == g = [s \in Nested |-> NeverIdleOf(s, g)]
           found == CHOOSE g : Unfolded(g)
<1>6. Unfolded(found)
  <2>1. \A s \in Nested : f[s] = NeverIdleOf(s, f)
    BY <1>2, <1>5 DEF Solves
  <2>2. f = [s \in Nested |-> f[s]]
    OBVIOUS
  <2>3. Unfolded(f)
    BY <2>1, <2>2
  <2> HIDE DEF Unfolded
  <2> QED BY <2>3
<1>7. NeverIdle = found
  BY DEF NeverIdle, NeverIdleOf
<1> HIDE DEF found
<1>8. NeverIdle = [s \in Nested |-> NeverIdleOf(s, NeverIdle)]
  BY <1>6, <1>7
<1> QED BY <1>8

KeepsBusy(o) ==
    /\ \A i \in 1..Len(o.wrappers) : NeverIdle[o.wrappers[i]]
    /\ o.wrappers # << >> => o.answer # Result

LEMMA StartOfSome ==
  ASSUME NEW s \in Nested, ~IsEmpty(s)
  PROVE  Start[s] = Wrap(IF First(s).op = "step" THEN Answer(First(s).value)
                                                 ELSE Start[First(s)], Rest(s))
<1> DEFINE action == IF First(s).op = "step" THEN Answer(First(s).value) ELSE Start[First(s)]
<1>1. Start[s] = IF s.op = "block" THEN MakeSubtask(action, Rest(s))
                                   ELSE TaskRound(action, Rest(s))
  BY StartUnfolds DEF Started, StartOf
<1>2. s.op = "loop" => action # Exception
  <2> SUFFICES ASSUME s.op = "loop" PROVE action # Exception
    OBVIOUS
  <2>1. First(s) \in Nested /\ First(s).op = "block" /\ ~IsEmpty(First(s))
    BY Parts
  <2>2. Start[First(s)].wrappers # << >> /\ action = Start[First(s)]
    BY <2>1, StartCorrect DEF StartsWell
  <2>3. Exception.wrappers = << >>
    BY DEF Exception, Answer, Object
  <2> QED BY <2>2, <2>3
<1>3. s.op \in {"block", "loop"}
  BY PlainOrNested
<1> HIDE DEF action
<1>4. Start[s] = Wrap(action, Rest(s))
  BY <1>1, <1>2, <1>3 DEF MakeSubtask, TaskRound
<1> QED BY <1>4 DEF action

LEMMA BusyConcat ==
  ASSUME NEW u \in Seq(Nested), NEW v \in Seq(Nested),
         \A i \in 1..Len(u) : NeverIdle[u[i]], \A i \in 1..Len(v) : NeverIdle[v[i]]
  PROVE  \A i \in 1..Len(u \o v) : NeverIdle[(u \o v)[i]]
<1>1. Len(u) \in Nat /\ Len(v) \in Nat /\ Len(u \o v) = Len(u) + Len(v)
  BY ConcatProperties, LenProperties
<1> TAKE i \in 1..Len(u \o v)
<1>2. CASE i <= Len(u)
  <2>1. i \in 1..Len(u) /\ (u \o v)[i] = u[i]
    BY <1>1, <1>2, ConcatProperties
  <2> QED BY <2>1
<1>3. CASE i > Len(u)
  <2>1. i - Len(u) \in 1..Len(v) /\ (u \o v)[i] = v[i - Len(u)]
    BY <1>1, <1>3, ConcatProperties
  <2> QED BY <2>1
<1>4. i <= Len(u) \/ i > Len(u)
  BY <1>1
<1> QED BY <1>2, <1>3, <1>4

LEMMA StartKeepsBusy == \A s \in Nested : NeverIdle[s] => KeepsBusy(Start[s])
<1> DEFINE Bad == {s \in Nested : ~(NeverIdle[s] => KeepsBusy(Start[s]))}
<1>1. SUFFICES ASSUME Bad # {} PROVE FALSE
  OBVIOUS
<1>2. PICK s \in Bad : \A y \in Nested : <<y, s>> \in Below => y \notin Bad
  <2>1. Bad \in SUBSET Nested
    OBVIOUS
  <2> HIDE DEF Bad
  <2> QED BY <1>1, <2>1, SmallestBelow
<1>3. \A y \in Nested : <<y, s>> \in Below /\ NeverIdle[y] => KeepsBusy(Start[y])
  BY <1>2
<1>4. s \in Nested /\ NeverIdle[s]
  BY <1>2
<1>5. SUFFICES KeepsBusy(Start[s])
  BY <1>2
<1> HIDE DEF Bad
<1>6. CASE IsEmpty(s)
  <2>1. Start[s] = Answer(End(s))
    BY <1>4, <1>6, StartUnfolds DEF Started, StartOf
  <2>2. Start[s].wrappers = << >>
    BY <2>1 DEF Answer, Object
  <2> QED BY <2>2 DEF KeepsBusy
<1>7. CASE ~IsEmpty(s)
  <2> DEFINE first == First(s)
             rest == Rest(s)
             action == IF first.op = "step" THEN Answer(first.value) ELSE Start[first]
  <2>1. /\ \/ first.op = "step" /\ first.value \in Shown
           \/ first.op # "step" /\ first \in Nested /\ <<first, s>> \in Below
        /\ rest \in Nested
    BY <1>4, <1>7, Parts DEF Shown
  <2>2. NeverIdle[rest] /\ (first.op # "step" => Meaning[first] # << >> /\ NeverIdle[first])
    BY <1>4, <1>7, NeverIdleUnfolds DEF NeverIdleOf
  <2>3. Start[s] = Wrap(action, rest)
    BY <1>4, <1>7, StartOfSome
  <2>4. action \in Objects /\ KeepsBusy(action) /\ action.answer # Result
    <3>1. CASE first.op = "step"
      <4>1. action = Answer(first.value) /\ first.value \in Shown
        BY <2>1, <3>1
      <4> HIDE DEF action, first
      <4>2. action \in Objects
        BY <4>1, ObjectsMade DEF Shown
      <4>3. action.answer # Result /\ action.wrappers = << >>
        BY <4>1 DEF Answer, Object, Shown
      <4> QED BY <4>2, <4>3 DEF KeepsBusy
    <3>2. CASE first.op # "step"
      <4>1. action = Start[first] /\ first \in Nested /\ KeepsBusy(Start[first])
        BY <1>3, <2>1, <2>2, <3>2
      <4>2. Start[first] \in Objects /\ StartsWell(first) /\ Meaning[first] \in Seq(Shown)
        BY <4>1, StartUnfolds, MeaningUnfolds, StartCorrect
      <4>3. ASSUME Start[first].answer = Result PROVE FALSE
        <5>1. Start[first].wrappers = << >>
          BY <4>1, <4>3 DEF KeepsBusy
        <5>2. Start[first] = Answer(Result)
          BY <4>2, <4>3, <5>1, AnswersAre
        <5>3. Meaning[first] = << >>
          BY <4>2, <5>2, AnswerFaithful DEF StartsWell, Faithful
        <5> QED BY <2>2, <3>2, <5>3
      <4> QED BY <4>1, <4>2, <4>3
    <3> QED BY <3>1, <3>2
  <2> HIDE DEF action, first, rest
  <2>5. Start[s].answer = action.answer /\ Start[s].wrappers = << rest >> \o action.wrappers
    BY <2>3 DEF Wrap, Object
  <2>6. \A i \in 1..Len(<< rest >>) : NeverIdle[<< rest >>[i]]
    BY <2>2
  <2>7. << rest >> \in Seq(Nested) /\ action.wrappers \in Seq(Nested)
    BY <2>1, <2>4 DEF Objects
  <2>8. \A i \in 1..Len(Start[s].wrappers) : NeverIdle[Start[s].wrappers[i]]
    BY <2>4, <2>5, <2>6, <2>7, BusyConcat DEF KeepsBusy
  <2> QED BY <2>4, <2>5, <2>8 DEF KeepsBusy
<1> QED BY <1>6, <1>7

LEMMA GoesOnBusy ==
  ASSUME NEW o \in Objects, KeepsBusy(o) PROVE KeepsBusy(GoOn(o, Start))
<1> DEFINE w == o.wrappers
           next == [i \in DOMAIN w |-> Start[w[i]]]
           busy == {i \in DOMAIN w : next[i] # Answer(Result)}
           i == Max(busy)
<1>1. /\ w \in Seq(Nested) /\ Len(w) \in Nat /\ DOMAIN w = 1..Len(w)
      /\ \A j \in 1..Len(w) : w[j] \in Nested /\ NeverIdle[w[j]]
  BY ElementOfSeq, LenProperties DEF Objects, KeepsBusy
<1>2. GoOn(o, Start) =
        IF busy = {} THEN Answer(Result)
        ELSE IF next[i] = Exception THEN Exception
             ELSE Object(next[i].answer, SubSeq(w, 1, i - 1) \o next[i].wrappers)
  BY DEF GoOn
<1>3. /\ busy \in SUBSET (1..Len(w)) /\ \A j \in busy : next[j] # Answer(Result)
      /\ \A j \in 1..Len(w) : next[j] = Start[w[j]]
  BY <1>1
<1>4. KeepsBusy(Answer(Result)) /\ KeepsBusy(Exception)
  BY DEF KeepsBusy, Exception, Answer, Object
<1> HIDE DEF next, busy, w
<1>5. CASE busy # {} /\ next[i] # Exception
  <2>1. i \in 1..Len(w) /\ next[i] # Answer(Result) /\ next[i] = Start[w[i]]
    BY <1>1, <1>3, <1>5, MaxOfIndices
  <2> HIDE DEF i
  <2> DEFINE outer == SubSeq(w, 1, i - 1)
             v == next[i].wrappers
             a == next[i].answer
  <2>2. next[i] \in Objects /\ EndsWell(next[i]) /\ KeepsBusy(next[i])
    BY <1>1, <2>1, StartUnfolds, StartCorrect, StartKeepsBusy DEF StartsWell
  <2>3. outer \in Seq(Nested) /\ \A j \in 1..Len(outer) : NeverIdle[outer[j]]
    <3>1. outer \in Seq(Nested) /\ Len(outer) = i - 1 /\ \A k \in 1..(i - 1) : outer[k] = w[k]
      BY <1>1, <2>1, SubSeqProperties
    <3> HIDE DEF outer
    <3>2. \A k \in 1..(i - 1) : k \in 1..Len(w)
      BY <1>1, <2>1
    <3> QED BY <1>1, <3>1, <3>2
  <2>4. v \in Seq(Nested) /\ \A j \in 1..Len(v) : NeverIdle[v[j]]
    BY <2>2 DEF Objects, KeepsBusy
  <2>5. a # Result
    <3>1. SUFFICES ASSUME v = << >>, a = Result PROVE FALSE
      BY <2>2 DEF KeepsBusy
    <3>2. next[i] = Answer(Result)
      BY <2>2, <3>1, AnswersAre
    <3> QED BY <2>1, <3>2
  <2>6. GoOn(o, Start) = Object(a, outer \o v)
    BY <1>2, <1>5
  <2> HIDE DEF outer, v, a
  <2>7. \A j \in 1..Len(outer \o v) : NeverIdle[(outer \o v)[j]]
    BY <2>3, <2>4, BusyConcat
  <2>8. GoOn(o, Start).answer = a /\ GoOn(o, Start).wrappers = outer \o v
    BY <2>6 DEF Object
  <2> QED BY <2>5, <2>7, <2>8 DEF KeepsBusy
<1> QED BY <1>2, <1>4, <1>5

BusyInv == kind = "task" /\ NeverIdle[program] => KeepsBusy(object) /\ stage # "aborted"

(* RunIO never aborts a task for a response that is not an IO action when   *)
(* every block and loop of its program has something to perform: "as long   *)
(* as the task is running, its responses must be IO actions" fails for the  *)
(* idle ones only.                                                          *)
THEOREM BusyTasksAreNotAborted ==
  Spec => [](kind = "task" /\ NeverIdle[program] => ResponsesAreActions)
<1>1. Init => BusyInv
  <2> SUFFICES ASSUME Init, kind = "task", NeverIdle[program]
               PROVE  KeepsBusy(object) /\ stage # "aborted"
    BY DEF BusyInv
  <2>1. object = Start[program] /\ program \in Nested /\ stage = "run"
    BY ProgramsNested DEF Init, Begin
  <2> QED BY <2>1, StartKeepsBusy
<1>2. FlowInv /\ BusyInv /\ [Next]_vars => BusyInv'
  <2> SUFFICES ASSUME FlowInv, BusyInv, [Next]_vars, kind' = "task", NeverIdle[program']
               PROVE  KeepsBusy(object') /\ stage' # "aborted"
    BY DEF BusyInv
  <2>1. kind' = kind /\ program' = program
    BY DEF Next, Perform, Fail, Abort, Exit, Take, Stop, Halted, HandOut, Become, vars
  <2>2. KeepsBusy(object) /\ stage # "aborted" /\ object \in Objects
    BY <2>1 DEF BusyInv, FlowInv, Typed
  <2>3. ~ Abort
    BY <2>2 DEF Abort, IsRunning, KeepsBusy
  <2>4. CASE HandOut /\ stage' = stage
    <3>1. object' = GoOn(object, Start)
      BY <2>1, <2>4 DEF HandOut, Begin
    <3> QED BY <2>2, <2>4, <3>1, GoesOnBusy
  <2>5. CASE object' = object /\ stage' \in {stage, "failed", "exited"}
    BY <2>2, <2>5
  <2>6. (HandOut /\ stage' = stage) \/ (object' = object /\ stage' \in {stage, "failed", "exited"})
    BY <2>3 DEF Next, Perform, Fail, Exit, Take, Stop, Halted, HandOut, Become, vars
  <2> QED BY <2>4, <2>5, <2>6
<1>3. BusyInv => (kind = "task" /\ NeverIdle[program] => ResponsesAreActions)
  BY DEF BusyInv, ResponsesAreActions
<1> QED BY <1>1, <1>2, <1>3, NothingGetsLost, PTL DEF Spec
=============================================================================
