------------------------------- MODULE MCFlow -------------------------------
(* Finite instances of Segments for TLC.                                    *)
EXTENDS Segments

Lists(S, n) == UNION { [1..k -> S] : k \in 0..n }
StepsOf(V) == { Step(v) : v \in V }

(* Blocks of at most n statements, and loops of at most two such rounds.    *)
Nesting(S, n) ==
    LET rounds == { Block(b) : b \in Lists(S, n) \ {<< >>} }
    IN { Block(b) : b \in Lists(S, n) } \cup
       { Loop(r, e) : r \in Lists(rounds, 2), e \in {Result, Thrown} }

(* Statements nest twice inside a program of one statement, and once inside *)
(* a longer one that has actions or values to tell apart.                   *)
Twice == Nesting(StepsOf({1}) \cup Nesting(StepsOf({1}), 2), 1)
Once == StepsOf({1, Thrown}) \cup Nesting(StepsOf({1, Thrown}), 1)
SmallPrograms ==
    { Block(b) : b \in Lists(Twice, 1) \cup Lists(Once, 2) }
    \cup { Block(<< Step(1), s, Step(2) >>) : s \in Nesting(StepsOf({1, 2}), 2) }
=============================================================================
