------------------------------ MODULE TreeMap ------------------------------
(* A program and its map, an object of runtime/containers/maps.c.  Each     *)
(* call of a method is one step, as nothing else can see a map before it is *)
(* returned.  Maps are immutable: a program keeps the map that insert and   *)
(* remove return, here, and only looks at the answers of the other calls.   *)
EXTENDS MapTree

CONSTANT Changing   \* the keys that may be given either of two values

ValuesOf(k) == IF k \in Changing THEN {k, k + 100} ELSE {k}

VARIABLES map,      \* the program's map object
          answer    \* what the last call returned, when it is not a map

vars == <<map, answer>>

Init == map = map_blank /\ answer = << "none" >>

Map_Insert(k, v) == map' = InsertInto(map, k, v) /\ answer' = << "none" >>
Map_Remove(k) == map' = RemoveFrom[map][k] /\ answer' = << "none" >>

KeyNotFound == -1   \* the exception Default_Lookup throws
Map_Lookup(k) ==
    LET n == Find(map, k)
    IN /\ answer' = << "lookup", IF n = map_blank THEN KeyNotFound ELSE n.value >>
       /\ UNCHANGED map

Map_Contains(k) == answer' = << "contains", Find(map, k) # map_blank >> /\ UNCHANGED map
Map_Size == answer' = << "size", Get(map).size >> /\ UNCHANGED map
Map_Iterate == answer' = << "pairs" >> \o Walk(map) /\ UNCHANGED map

Next == \/ \E k \in Keys : \E v \in ValuesOf(k) : Map_Insert(k, v)
        \/ \E k \in Keys : Map_Remove(k) \/ Map_Lookup(k) \/ Map_Contains(k)
        \/ Map_Size \/ Map_Iterate

Spec == Init /\ [][Next]_vars

-----------------------------------------------------------------------------
(* The tree keeps the shape of an AA-tree through every history.            *)
Balanced == IsBalanced(map)

(* It answers as a map does.                                                *)
Plain == INSTANCE KeyedMap WITH content <- Contents(map)
ImplementsKeyedMap == Plain!Spec
=============================================================================
