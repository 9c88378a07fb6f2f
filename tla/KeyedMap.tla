------------------------------ MODULE KeyedMap ------------------------------
(* What the collection interface of a map promises, whatever it is made of: *)
(* a function from the keys inserted, and not removed since, to their       *)
(* latest values.  "answer" is what the last call returned to its caller.   *)
EXTENDS Integers, Sequences, FiniteSets, Functions

CONSTANTS Keys,
          ValuesOf(_)   \* the values a key may be given

(* The exception Lookup's caller gets; no value.                            *)
NotFound == -1

VARIABLES content, answer

Init == content = << >> /\ answer = << "none" >>

Insert(k, v) ==
    /\ content' = [key \in DOMAIN content \cup {k} |-> IF key = k THEN v ELSE content[key]]
    /\ answer' = << "none" >>

Remove(k) == content' = Restrict(content, DOMAIN content \ {k}) /\ answer' = << "none" >>

Lookup(k) ==
    /\ answer' = << "lookup", IF k \in DOMAIN content THEN content[k] ELSE NotFound >>
    /\ UNCHANGED content

Contains(k) == answer' = << "contains", k \in DOMAIN content >> /\ UNCHANGED content
Size == answer' = << "size", Cardinality(DOMAIN content) >> /\ UNCHANGED content

(* The pairs come in the order of their keys.                               *)
IsOrdered(pairs) == \A i, j \in DOMAIN pairs : i < j => pairs[i][1] < pairs[j][1]
Iterate ==
    /\ LET pairs == Tail(answer')
       IN /\ answer'[1] = "pairs"
          /\ Len(pairs) = Cardinality(DOMAIN content) /\ IsOrdered(pairs)
          /\ \A i \in DOMAIN pairs :
               pairs[i][1] \in DOMAIN content /\ pairs[i][2] = content[pairs[i][1]]
    /\ UNCHANGED content

Next == \/ \E k \in Keys : \E v \in ValuesOf(k) : Insert(k, v)
        \/ \E k \in Keys : Remove(k) \/ Lookup(k) \/ Contains(k)
        \/ Size \/ Iterate

Spec == Init /\ [][Next]_<<content, answer>>
=============================================================================
