------------------------------ MODULE MapTree ------------------------------
(* The map of the runtime, runtime/containers/maps.c: an immutable AA-tree. *)
(* A node holds a key, its value, a level, two branches and the number of   *)
(* pairs below it.  Inserting and removing make new nodes on the path to    *)
(* the root and rebalance there on the way back.  The keys are numbers      *)
(* here, and compare_to never throws.                                       *)
(*                                                                          *)
(* A definition that stands right before the one it varies, and is used     *)
(* nowhere, is a slip the code could have made; the properties catch it.    *)
EXTENDS Integers, Sequences, FiniteSets

CONSTANT Keys       \* the keys a program uses

ASSUME KeysAssumption == Keys \in SUBSET Int /\ IsFiniteSet(Keys)

(* map_blank has no slots; the get functions answer for it.                 *)
map_blank == << >>
Blank == [key |-> 0, value |-> 0, level |-> 0, left |-> << >>, right |-> << >>, size |-> 0]
Get(node) == IF node = << >> THEN Blank ELSE node

(* Trees of at most d nodes from the root to a leaf.  The keys on such a    *)
(* path all differ.                                                         *)
NodesOn(branches) == [key : Int, value : Int, level : Int,
                      left : branches, right : branches, size : Int]
TreesTo[d \in Nat] == {map_blank} \cup (IF d = 0 THEN {} ELSE NodesOn(TreesTo[d - 1]))
Trees == TreesTo[Cardinality(Keys)]

MakeNode(key, value, level, left, right) ==
    [key |-> key, value |-> value, level |-> level, left |-> left, right |-> right,
     size |-> 1 + Get(left).size + Get(right).size]

SetValue(n, value) == MakeNode(Get(n).key, value, Get(n).level, Get(n).left, Get(n).right)
SetLevel(n, level) == MakeNode(Get(n).key, Get(n).value, level, Get(n).left, Get(n).right)
SetLeft(n, left) == MakeNode(Get(n).key, Get(n).value, Get(n).level, left, Get(n).right)
SetRight(n, right) == MakeNode(Get(n).key, Get(n).value, Get(n).level, Get(n).left, right)

(* A left branch on its node's level is turned to the right.                *)
Skew(n) ==
    IF n # map_blank /\ Get(n).level = Get(Get(n).left).level
      THEN LET left == Get(n).left
           IN SetRight(left, SetLeft(n, Get(left).right))
      ELSE n

(* Two right branches in a row on its level: the middle one goes up.        *)
Split(n) ==
    IF n # map_blank /\ Get(n).level = Get(Get(Get(n).right).right).level
      THEN LET right == Get(n).right
           IN SetLevel(SetLeft(right, SetRight(n, Get(right).left)), Get(n).level + 1)
      ELSE n

InsertInto(tree, key, value) ==
    LET insert[n \in Trees] ==
          IF n = map_blank THEN MakeNode(key, value, 1, map_blank, map_blank)
          ELSE IF key = n.key THEN SetValue(n, value)
          ELSE Split(Skew(IF key < n.key THEN SetLeft(n, insert[n.left])
                                         ELSE SetRight(n, insert[n.right])))
    IN insert[tree]

(* Remove's rebalancing: a branch that is two levels down pulls its node,   *)
(* and the node's right branch if it sticks out, one level down; then up to *)
(* three skews and two splits put the links right.                          *)
LowerNodeOnly(n) == SetLevel(n, Get(n).level - 1)
LowerLevel(n) ==
    LET threshold == Get(n).level - 1
        lower == SetLevel(n, threshold)
    IN IF Get(Get(n).right).level > threshold
         THEN SetRight(lower, SetLevel(Get(n).right, threshold))
         ELSE lower

Rebalance(n) ==
    LET a == Skew(LowerLevel(n))
        right == Skew(Get(a).right)
        b == SetRight(a, SetRight(right, Skew(Get(right).right)))
        c == Split(b)
    IN SetRight(c, Split(Get(c).right))

HasGap(n) == \/ Get(Get(n).left).level < Get(n).level - 1
             \/ Get(Get(n).right).level < Get(n).level - 1
CloseGap(n) == IF HasGap(n) THEN Rebalance(n) ELSE n

(* The nodes from the leftmost one up to the root.                          *)
LeftSpine[n \in Trees] == IF n = map_blank THEN << >> ELSE Append(LeftSpine[n.left], n)
Leftmost(n) == Head(LeftSpine[n])

(* A node with two branches is replaced by its successor.                   *)
RemoveFrom[n \in Trees] == [key \in Int |->
    IF n = map_blank THEN n
    ELSE CloseGap(
           IF key < n.key THEN SetLeft(n, RemoveFrom[n.left][key])
           ELSE IF key > n.key THEN SetRight(n, RemoveFrom[n.right][key])
           ELSE IF n.left = map_blank THEN n.right
           ELSE IF n.right = map_blank THEN n.left
           ELSE LET next == Leftmost(n.right)
                IN MakeNode(next.key, next.value, n.level, n.left,
                            RemoveFrom[n.right][next.key]))]

Find(tree, key) ==
    LET find[n \in Trees] ==
          IF n = map_blank \/ Get(n).key = key THEN n
          ELSE IF key < n.key THEN find[n.left] ELSE find[n.right]
    IN find[tree]

(* An iterator is the node it stands at, followed by the iterator it goes   *)
(* on with when the node's right branch is done.                            *)
MaperatorDone == << >>
Dig(n, parent) == LeftSpine[n] \o parent
NextBelow(iter) == Dig(Head(iter).right, MaperatorDone)
NextOf(iter) == Dig(Head(iter).right, Tail(iter))

(* What a loop over the map sees.                                           *)
Walk(tree) ==
    LET at[i \in Nat] ==
          IF i = 0 THEN Dig(tree, MaperatorDone)
          ELSE LET iter == at[i - 1]
               IN IF iter = MaperatorDone THEN iter ELSE NextOf(iter)
        valid == {i \in 0..Cardinality(Keys) : at[i] # MaperatorDone}
    IN [i \in 1..Cardinality(valid) |->
          << Head(at[i - 1]).key, Head(at[i - 1]).value >>]

-----------------------------------------------------------------------------
Nodes[n \in Trees] == IF n = map_blank THEN {} ELSE {n} \cup Nodes[n.left] \cup Nodes[n.right]

(* The pairs in a tree, read off its nodes without regard to their order.   *)
Contents(tree) ==
    LET nodes == Nodes[tree]
    IN [k \in {n.key : n \in nodes} |-> (CHOOSE n \in nodes : n.key = k).value]

(* The shape an AA-tree has: "the AA-tree's right-leaning invariant"        *)
(* (Skew), no two right branches in a row on one level (Split), and no      *)
(* "level gap" (Remove).  The depth of a tree, and so the time of every     *)
(* call, is logarithmic as long as it holds.                                *)
IsBalanced(tree) ==
    \A n \in Nodes[tree] :
        /\ Get(n.left).level = n.level - 1
        /\ Get(n.right).level \in {n.level - 1, n.level}
        /\ Get(Get(n.right).right).level < n.level
=============================================================================
