----------------------------- MODULE PlainList -----------------------------
(* What the collection interface of a list promises, whatever it is made    *)
(* of: a sequence.  Lists are immutable: a program keeps the list that some *)
(* calls return, and only looks at the answers of the others.               *)
EXTENDS Integers, SequencesExt

CONSTANTS Values,   \* what lists hold
          New       \* the value insert and assign put in

VARIABLES content,
          joined    \* what was in the list the last call joined to it

Init == content = << >> /\ joined = << >>

Push(v) == content' = << v >> \o content /\ joined' = << >>
Attach(v) == content' = Append(content, v) /\ joined' = << >>
Pop == content # << >> /\ content' = Tail(content) /\ joined' = << >>
Chop == content # << >> /\ content' = Front(content) /\ joined' = << >>
Turn == content' = Reverse(content) /\ joined' = << >>
Join == joined' # << >> /\ content' = content \o joined'

Next == Turn \/ Pop \/ Chop \/ Join \/ \E v \in Values : Push(v) \/ Attach(v)

Spec == Init /\ [][Next]_<<content, joined>>

-----------------------------------------------------------------------------
(* "before" and "after" are the halves of partition: the indexed element is *)
(* the first of the second half.                                            *)
Whole == {"size", "items"}
Ends == {"head", "tail"}
Elements == {"lookup", "remove", "assign"}
Gaps == {"before", "after", "insert"}
Calls == Whole \cup Ends \cup Elements \cup Gaps

Valid(call, i) == /\ call \in Ends => content # << >>
                  /\ call \in Elements => 0 <= i /\ i < Len(content)
                  /\ call \in Gaps => 0 <= i /\ i <= Len(content)

Thrown == << -1 >>

Answer(call, i) ==
    IF ~ Valid(call, i) THEN Thrown
    ELSE CASE call = "size"   -> << Len(content) >>
           [] call = "items"  -> content
           [] call = "head"   -> << content[1] >>
           [] call = "tail"   -> << Last(content) >>
           [] call = "lookup" -> << content[i + 1] >>
           [] call = "remove" -> RemoveAt(content, i + 1)
           [] call = "assign" -> ReplaceAt(content, i + 1, New)
           [] call = "before" -> SubSeq(content, 1, i)
           [] call = "after"  -> SubSeq(content, i + 1, Len(content))
           [] call = "insert" -> InsertAt(content, i + 1, New)
=============================================================================
