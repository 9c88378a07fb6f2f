--------------------------- MODULE BlockPrograms ---------------------------
(* The shape of a Radian function that is divided into segments: a list of  *)
(* statements, each of which pushes one segment (Scope::PushSegment).  A    *)
(* statement is a plain "sync" or "yield", an if block, or a loop; how the  *)
(* conditions come out is part of the shape, so that a block is the branch  *)
(* that is taken, and a loop the list of its rounds.                        *)
EXTENDS Integers, Sequences

CONSTANTS Values,       \* what a step may hand out: IO actions, or elements
          Depth         \* how deep blocks and loops may nest

Result == 0             \* the tuple of variables a block leaves behind
Thrown == -1            \* an exception

ASSUME ShapeAssumption == Depth \in Nat /\ Values \subseteq Nat \ {Result}

(* A step hands out one value; Thrown stands for an operand that is an      *)
(* exception.  A loop ends because its condition is false, or throws.       *)
Step(v) == [op |-> "step", value |-> v]
Block(b) == [op |-> "block", body |-> b]
Loop(r, e) == [op |-> "loop", rounds |-> r, end |-> e]

(* Blocks and loops of the statements of S.  A loop without a statement has *)
(* no segments, and is not one of ours; a branch without one may be, when   *)
(* the other branch has some.                                               *)
PlainSteps == [op : {"step"}, value : Values \cup {Thrown}]
Blocks(S) == [op : {"block"}, body : Seq(S)]
Rounds(S) == [op : {"block"}, body : Seq(S) \ {<< >>}]
Loops(S) == [op : {"loop"}, rounds : Seq(Rounds(S)), end : {Result, Thrown}]

NestedIn(S) == Blocks(PlainSteps \cup S) \cup Loops(PlainSteps \cup S)
NestedTo[d \in Nat] == NestedIn(IF d = 0 THEN {} ELSE NestedTo[d - 1])
Nested == NestedTo[Depth]

(* A function is a block.                                                   *)
Functions == {s \in Nested : s.op = "block"}

(* The statement that comes first, and what comes after it.                 *)
First(s) == IF s.op = "block" THEN Head(s.body) ELSE Head(s.rounds)
Rest(s) == IF s.op = "block" THEN Block(Tail(s.body)) ELSE Loop(Tail(s.rounds), s.end)
IsEmpty(s) == IF s.op = "block" THEN s.body = << >> ELSE s.rounds = << >>
End(s) == IF s.op = "block" THEN Result ELSE s.end

(* What a block or loop is meant to hand out, in the order of the source    *)
(* text; an exception is the last there is to see of it.                    *)
Meaning[s \in Nested] ==
    IF IsEmpty(s) THEN IF End(s) = Thrown THEN << Thrown >> ELSE << >>
    ELSE LET first == First(s)
         IN (IF first.op = "step" THEN << first.value >> ELSE Meaning[first])
              \o Meaning[Rest(s)]

(* Every block and loop in s has something to hand out.                     *)
NeverIdle[s \in Nested] ==
    \/ IsEmpty(s)
    \/ /\ First(s).op # "step" => Meaning[First(s)] # << >> /\ NeverIdle[First(s)]
       /\ NeverIdle[Rest(s)]

(* got is how far someone has come who has seen nothing but what is meant.  *)
InOrder(got, meant) == Len(got) <= Len(meant) /\ got = SubSeq(meant, 1, Len(got))

ThrowsAfter(got, meant) == Len(got) < Len(meant) /\ meant[Len(got) + 1] = Thrown
=============================================================================
