----------------------------- MODULE FingerTree -----------------------------
(* The list of the runtime, runtime/containers/list*.c: an immutable deque  *)
(* in the manner of a finger tree.  A list of two or more items has a chunk *)
(* of one to four items at either end and, between them, a "cold storage":  *)
(* a list of chunks.  A chunk's items are leaves (the program's values) in  *)
(* the outermost list and chunks below it.  Lists of no and of one item     *)
(* have forms of their own, and so has a list run backwards.  This module   *)
(* holds the methods; FingerList is a program that calls them.              *)
(*                                                                          *)
(* A definition that stands right before the one it varies, and is used     *)
(* nowhere, is a slip the code could have made; the properties catch it.    *)
EXTENDS Integers, SequencesExt

CONSTANT MaxLength   \* the most leaves in the program's list

ASSUME MaxLengthAssumption == MaxLength \in Nat

-----------------------------------------------------------------------------
(* Whatever the methods may come upon: items that are chunks of chunks, and *)
(* cold storage in cold storage, to a depth that the leaves of no list      *)
(* reach, with the one that insert adds.                                    *)
Depth == MaxLength + 1

ChunksOver(items) == [items : Seq(items), leaves : Int]
ItemsTo[d \in 0..Depth] == [leaf : Int] \cup (IF d = 0 THEN {} ELSE ChunksOver(ItemsTo[d - 1]))
Items == ItemsTo[Depth]

ShortLists == [kind : {"empty"}] \cup [kind : {"single"}, value : Items]
LongLists(colds) == [kind : {"list"}, head : Items, cold : colds, tail : Items, size : Int]
ListsTo[n \in 0..Depth] == ShortLists \cup (IF n = 0 THEN {} ELSE LongLists(ListsTo[n - 1]))
Lists == ListsTo[Depth]

-----------------------------------------------------------------------------
(* Chunks.                                                                  *)
Leaf(v) == [leaf |-> v]
ThrownItem == [thrown |-> TRUE]
IsAChunk(v) == "items" \in DOMAIN v
LeavesInValue(v) == IF IsAChunk(v) THEN v.leaves ELSE 1

SumOfLeaves(items) ==
    LET sum[i \in 0..Len(items)] == IF i = 0 THEN 0 ELSE sum[i - 1] + LeavesInValue(items[i])
    IN sum[Len(items)]

ChunkOfItems(items) == [items |-> items, leaves |-> Len(items)]
ChunkOf(items) == [items |-> items, leaves |-> SumOfLeaves(items)]

chunk_item_count(c) == IF IsAChunk(c) THEN Len(c.items) ELSE 0
chunk_can_grow(c) == chunk_item_count(c) < 4
chunk_can_shrink(c) == chunk_item_count(c) > 1
chunk_head(c) == c.items[1]
chunk_tail(c) == Last(c.items)

(* These throw, an exception where the chunk was to be.  Only joining comes *)
(* to that (Throws).                                                        *)
chunk_push(c, v) == IF chunk_can_grow(c) THEN ChunkOf(<< v >> \o c.items) ELSE ThrownItem
chunk_append(c, v) == IF chunk_can_grow(c) THEN ChunkOf(Append(c.items, v)) ELSE ThrownItem
chunk_pop(c) == IF chunk_can_shrink(c) THEN ChunkOf(Tail(c.items)) ELSE ThrownItem
chunk_chop(c) == IF chunk_can_shrink(c) THEN ChunkOf(Front(c.items)) ELSE ThrownItem

(* The leaves below an item, and below some items, in order.                *)
Leaves[v \in Items] ==
    IF IsAChunk(v) THEN FlattenSeq([i \in DOMAIN v.items |-> Leaves[v.items[i]]])
                   ELSE << v.leaf >>
LeavesOf(items) == FlattenSeq([i \in DOMAIN items |-> Leaves[items[i]]])

(* The item that holds an index is the first one that ends beyond it.       *)
EndOf(items, i) == SumOfLeaves(SubSeq(items, 1, i))

ThrownValue == << -1 >>
chunk_get_leaf[c \in Items] == [index \in Int |->
    IF ~ IsAChunk(c) THEN << c.leaf >>
    ELSE LET beyond == {i \in DOMAIN c.items : index < EndOf(c.items, i)}
             holder == CHOOSE i \in beyond : \A j \in beyond : i <= j
         IN IF beyond = {} THEN ThrownValue
            ELSE chunk_get_leaf[c.items[holder]][index - EndOf(c.items, holder - 1)]]

-----------------------------------------------------------------------------
(* The forms of a list.                                                     *)
list_empty == [kind |-> "empty"]
Single(v) == [kind |-> "single", value |-> v]
StoppedList == [kind |-> "stopped"]   \* an assertion stopped the program

Size(l) == CASE l.kind = "empty"  -> 0
             [] l.kind = "single" -> LeavesInValue(l.value)
             [] l.kind = "list"   -> l.size

alloc_list(head, cold, tail) ==
    [kind |-> "list", head |-> head, cold |-> cold, tail |-> tail,
     size |-> LeavesInValue(head) + Size(cold) + LeavesInValue(tail)]

AllocTwoItemList(head, tail) == alloc_list(ChunkOf(<< head >>), list_empty, ChunkOf(<< tail >>))

HeadOf(l) == IF l.kind = "single" THEN l.value ELSE chunk_head(l.head)
TailOf(l) == IF l.kind = "single" THEN l.value ELSE chunk_tail(l.tail)

(* A full head chunk gives its last three items to cold storage and keeps   *)
(* its first next to the new one.                                           *)
SpillLast(c) == [stored |-> ChunkOf(<< chunk_tail(c) >>), kept |-> chunk_chop(c)]
Spill(c) == [stored |-> chunk_pop(c), kept |-> ChunkOf(<< chunk_head(c) >>)]

Push[l \in Lists] == [v \in Items |->
    CASE l.kind = "empty"  -> Single(v)
      [] l.kind = "single" -> AllocTwoItemList(v, l.value)
      [] OTHER ->
           IF chunk_can_grow(l.head) THEN alloc_list(chunk_push(l.head, v), l.cold, l.tail)
           ELSE LET spilled == Spill(l.head)
                IN alloc_list(chunk_push(spilled.kept, v), Push[l.cold][spilled.stored], l.tail)]

Attach[l \in Lists] == [v \in Items |->
    CASE l.kind = "empty"  -> Single(v)
      [] l.kind = "single" -> AllocTwoItemList(l.value, v)
      [] OTHER ->
           IF chunk_can_grow(l.tail) THEN alloc_list(l.head, l.cold, chunk_append(l.tail, v))
           ELSE alloc_list(l.head, Attach[l.cold][chunk_chop(l.tail)],
                           ChunkOf(<< chunk_tail(l.tail), v >>))]

(* An emptied head chunk is replaced by the first of cold storage, or by an *)
(* item of the tail chunk; with neither, one item is left.  (Nothing pops   *)
(* or chops an empty list.)                                                 *)
Poached(l) == alloc_list(ChunkOf(<< chunk_head(l.tail) >>), l.cold, chunk_pop(l.tail))

Pop[l \in Lists] ==
    CASE l.kind = "list" ->
           IF chunk_can_shrink(l.head) THEN alloc_list(chunk_pop(l.head), l.cold, l.tail)
           ELSE IF l.cold # list_empty THEN alloc_list(HeadOf(l.cold), Pop[l.cold], l.tail)
           ELSE IF chunk_can_shrink(l.tail)
             THEN Poached(l)
           ELSE Single(chunk_head(l.tail))
      [] OTHER -> list_empty

Chop[l \in Lists] ==
    CASE l.kind = "list" ->
           IF chunk_can_shrink(l.tail) THEN alloc_list(l.head, l.cold, chunk_chop(l.tail))
           ELSE IF l.cold # list_empty THEN alloc_list(l.head, Chop[l.cold], TailOf(l.cold))
           ELSE IF chunk_can_shrink(l.head)
             THEN alloc_list(chunk_chop(l.head), l.cold, ChunkOf(<< chunk_tail(l.head) >>))
           ELSE Single(chunk_tail(l.head))
      [] OTHER -> list_empty

Lookup[l \in Lists] == [index \in Int |->
    CASE l.kind = "empty"  -> ThrownValue
      [] l.kind = "single" ->
           IF index \in 0..(Size(l) - 1) THEN chunk_get_leaf[ChunkOf(<< l.value >>)][index]
                                         ELSE ThrownValue
      [] OTHER ->
           LET cold == index - l.head.leaves
               last == cold - Size(l.cold)
           IN IF index < 0 THEN ThrownValue
              ELSE IF cold < 0 THEN chunk_get_leaf[l.head][index]
              ELSE IF last < 0 THEN Lookup[l.cold][cold]
              ELSE chunk_get_leaf[l.tail][last]]

(* A loop is given as what it has come to after so many turns, and a turn   *)
(* after its end changes nothing.                                           *)
AttachAll(l, items) ==
    LET turn[i \in 0..Len(items)] == IF i = 0 THEN l ELSE Attach[turn[i - 1]][items[i]]
    IN turn[Len(items)]

PushAll(l, items) ==
    LET turn[i \in 0..Len(items)] == IF i = 0 THEN l ELSE Push[turn[i - 1]][items[i]]
    IN turn[Len(items)]

(* The items an iterator gives: the head of the list, then of the list      *)
(* popped, until nothing is left.                                           *)
Given(t) == [items |-> Append(t.items, HeadOf(t.rest)), rest |-> Pop[t.rest]]
Iterate(l) ==
    LET turn[i \in 0..Size(l)] ==
          IF i = 0 THEN [items |-> << >>, rest |-> l]
          ELSE LET t == turn[i - 1] IN IF t.rest = list_empty THEN t ELSE Given(t)
    IN turn[Size(l)].items

GivenBack(t) == [items |-> Append(t.items, TailOf(t.rest)), rest |-> Chop[t.rest]]
IterateBack(l) ==
    LET turn[i \in 0..Size(l)] ==
          IF i = 0 THEN [items |-> << >>, rest |-> l]
          ELSE LET t == turn[i - 1] IN IF t.rest = list_empty THEN t ELSE GivenBack(t)
    IN turn[Size(l)].items

-----------------------------------------------------------------------------
(* Joining two lists of two or more items: the first one's tail chunk and   *)
(* the second one's head chunk have to go to cold storage, and a matrix     *)
(* says how.  It is indexed with the sizes of the chunks, which run from    *)
(* one to four; "behind" is what lies in memory behind its last row.        *)
Matrix == << 0, 1, 2, 2,
             0, 4, 4, 2,
             3, 4, 4, 5,
             3, 3, 5, 5 >>
AnyAction == 0..6   \* 6 stands for every number that is no case of the switch
ActionFor(y, x, behind) == IF 4 * y + x < 16 THEN Matrix[4 * y + x + 1] ELSE behind

(* What goes to the first list's cold storage, and what to the second's.    *)
Stowed(ours, others, action) ==
    LET chopped == chunk_chop(ours)
        popped == chunk_pop(others)
        grown == chunk_append(ours, chunk_head(others))
        pushed == chunk_push(others, chunk_tail(ours))
        middle == ChunkOf(<< chunk_tail(ours), chunk_head(others) >>)
    IN CASE action = 0 -> [first |-> << grown >>, second |-> << >>]
         [] action = 1 -> [first |-> << >>, second |-> << pushed >>]
         [] action = 2 -> [first |-> << grown >>, second |-> << popped >>]
         [] action = 3 -> [first |-> << chopped >>, second |-> << pushed >>]
         [] action = 4 -> [first |-> << ours >>, second |-> << others >>]
         [] action = 5 -> [first |-> << chopped, middle >>, second |-> << popped >>]
         [] OTHER      -> [first |-> << >>, second |-> << >>]

Displaced(l, o, behind) ==
    Stowed(l.tail, o.head, ActionFor(chunk_item_count(l.tail), chunk_item_count(o.head), behind))

StoredPushed(l, o, behind) ==
    LET chunks == Displaced(l, o, behind)
    IN [first |-> PushAll(l.cold, chunks.first), second |-> PushAll(o.cold, chunks.second)]
Stored(l, o, behind) ==
    LET chunks == Displaced(l, o, behind)
    IN [first |-> AttachAll(l.cold, chunks.first), second |-> PushAll(o.cold, chunks.second)]

(* Append and push return an exception that they are handed (ARGCHECK_2).   *)
(* So it takes the place of a cold storage, then of the two joined, and     *)
(* alloc_list, which asks that for its size, fails the assertion of         *)
(* IntFromFixint.                                                           *)
Throws(l, o, behind) ==
    LET chunks == Displaced(l, o, behind)
    IN \/ \E i \in DOMAIN chunks.first : chunks.first[i] = ThrownItem
       \/ \E i \in DOMAIN chunks.second : chunks.second[i] = ThrownItem

(* Cold storages are joined in turn, with at least two leaves less; "n" is  *)
(* how often that may still happen.                                         *)
Pair(l, o) == [first |-> l, second |-> o]
Pairs == [first : Lists, second : Lists]
BothLong(p) == p.first.kind = "list" /\ p.second.kind = "list"

JoinedWithin[n \in 0..Depth] == [behind \in AnyAction |-> [p \in Pairs |->
    CASE p.first.kind = "empty"  -> p.second
      [] p.first.kind = "single" -> Push[p.second][p.first.value]
      [] OTHER ->
           IF ~ BothLong(p) THEN AttachAll(p.first, Iterate(p.second))
           ELSE IF Throws(p.first, p.second, behind) THEN StoppedList
           ELSE LET colds == Stored(p.first, p.second, behind)
                    cold == IF n = 0 THEN list_empty ELSE JoinedWithin[n - 1][behind][colds]
                IN IF cold = StoppedList THEN StoppedList
                   ELSE alloc_list(p.first.head, cold, p.second.tail)]]

Joined(l, o, behind) == JoinedWithin[Depth][behind][Pair(l, o)]

(* No chunk of four items meets the matrix, here or in cold storage.        *)
JoinableWithin[n \in 0..Depth] ==
    {p \in Pairs : BothLong(p) =>
        /\ chunk_can_grow(p.first.tail) /\ chunk_can_grow(p.second.head)
        /\ n > 0 /\ Stored(p.first, p.second, 6) \in JoinableWithin[n - 1]}

Joinable(l, o) == Pair(l, o) \in JoinableWithin[Depth]

-----------------------------------------------------------------------------
(* Dividing a list before the leaf at an index.  An assertion stops the     *)
(* program when an exception is taken for the size of a list.               *)
Parts(before, after) == [before |-> before, after |-> after]
Stopped == Parts(StoppedList, StoppedList)

ListifyChunk(c) == AttachAll(list_empty, c.items)

(* In the head chunk: pop items off the list until the index is used up.    *)
(* An item's leaves are taken to be the size after the pop less the size    *)
(* before it.                                                               *)
MovedToHead(t) ==
    LET popped == Pop[t.after]
        leaf_count == Size(popped) - Size(t.after)
        moves == leaf_count <= t.index
    IN [before |-> IF moves THEN Attach[t.before][HeadOf(t.after)] ELSE t.before,
        after |-> IF moves THEN popped ELSE t.after,
        index |-> t.index - leaf_count]
MoveToHead(l, index) ==
    LET turn[i \in 0..Size(l)] ==
          IF i = 0 THEN [before |-> list_empty, after |-> l, index |-> index]
          ELSE LET t == turn[i - 1]
               IN IF t.index <= 0 \/ t.after = list_empty THEN t ELSE MovedToHead(t)
        last == turn[Size(l)]
    IN IF last.index <= 0 THEN Parts(last.before, last.after) ELSE Stopped

(* In the tail chunk: chop items off until the new list holds the index.    *)
MovedToTail(t) == Parts(Chop[t.before], Push[t.after][TailOf(t.before)])
MoveToTail(l, target) ==
    LET turn[i \in 0..Size(l)] ==
          IF i = 0 THEN Parts(l, list_empty)
          ELSE LET t == turn[i - 1]
               IN IF Size(t.after) >= target THEN t ELSE MovedToTail(t)
    IN turn[Size(l)]

(* In cold storage: divide that, make lists of the halves, and move the     *)
(* stragglers, the items before the index in the chunk that holds it.       *)
MoveStragglers(before, after, index) ==
    LET turn[i \in 0..Size(after)] ==
          IF i = 0 THEN Parts(before, after)
          ELSE LET t == turn[i - 1]
                   maybe_head == Attach[t.before][HeadOf(t.after)]
               IN IF Size(maybe_head) > index THEN t ELSE Parts(maybe_head, Pop[t.after])
    IN turn[Size(after)]

(* The part of the list an index falls into.                                *)
InHeadChunk(l, index) == index < l.head.leaves
InTailChunk(l, index) == ~ InHeadChunk(l, index) /\ l.size - index <= l.tail.leaves

Partition[l \in Lists] == [index \in Int |->
    CASE l.kind = "empty"  -> Parts(l, l)
      [] l.kind = "single" -> IF index < Size(l) THEN Parts(list_empty, l)
                                                 ELSE Parts(l, list_empty)
      [] OTHER ->
           IF InHeadChunk(l, index) THEN MoveToHead(l, index)
           ELSE IF InTailChunk(l, index) THEN MoveToTail(l, l.size - index)
           ELSE LET inner == index - l.head.leaves
                    splits == Partition[l.cold][inner]
                    first == IF splits.before = list_empty THEN ListifyChunk(l.head)
                             ELSE alloc_list(l.head, Chop[splits.before], TailOf(splits.before))
                    second == IF splits.after = list_empty THEN ListifyChunk(l.tail)
                              ELSE alloc_list(HeadOf(splits.after), Pop[splits.after], l.tail)
                IN IF splits = Stopped THEN Stopped
                   ELSE MoveStragglers(first, second, inner)]

-----------------------------------------------------------------------------
(* The reversing wrapper.  Lists of one item or none are their own reverse. *)
Reversed(l) ==
    CASE l.kind = "list"     -> [kind |-> "reversed", list |-> l]
      [] l.kind = "reversed" -> l.list
      [] OTHER               -> l

IsReversed(l) == l.kind = "reversed"
Under(l) == IF IsReversed(l) THEN l.list ELSE l
FlipFromSize(l, index) == Size(l) - index
FlipIndex(l, index) == Size(l) - 1 - index

(* The leaves of a list in order, read off its chunks.                      *)
Content[l \in Lists] ==
    CASE l.kind = "empty"  -> << >>
      [] l.kind = "single" -> Leaves[l.value]
      [] OTHER             -> Leaves[l.head] \o Content[l.cold] \o Leaves[l.tail]

InOrder(l) ==
    CASE l.kind = "reversed" -> Reverse(Content[l.list])
      [] l.kind = "stopped"  -> << -2 >>
      [] OTHER               -> Content[l]

ItemsOf(l) == IF IsReversed(l) THEN IterateBack(l.list) ELSE Iterate(l)

JoinedLists(l, o, behind) ==
    IF IsReversed(l)
      THEN IF IsReversed(o) THEN Reversed(Joined(o.list, l.list, behind))
                            ELSE Joined(PushAll(list_empty, Iterate(l.list)), o, behind)
    ELSE IF IsReversed(o)
      THEN CASE l.kind = "empty"  -> o
             [] l.kind = "single" -> Reversed(Attach[o.list][l.value])
             [] OTHER             -> AttachAll(l, ItemsOf(o))
    ELSE Joined(l, o, behind)

JoinableLists(l, o) ==
    CASE IsReversed(l) /\ IsReversed(o)   -> Joinable(o.list, l.list)
      [] IsReversed(l) /\ ~ IsReversed(o) -> Joinable(PushAll(list_empty, Iterate(l.list)), o)
      [] ~ IsReversed(l) /\ IsReversed(o) -> TRUE
      [] OTHER                            -> Joinable(l, o)

-----------------------------------------------------------------------------
(* Items at depth d are chunks of one to three items of the next depth      *)
(* less, and leaves at depth 0; the chunks at the ends of a list have one   *)
(* to four items.                                                           *)
ChunksOf(items, most) ==
    {c \in Items : /\ IsAChunk(c) /\ chunk_item_count(c) \in 1..most
                   /\ c.leaves = Len(Leaves[c])
                   /\ \A i \in DOMAIN c.items : c.items[i] \in items}
ItemsAt[d \in 0..Depth] ==
    IF d = 0 THEN {v \in Items : ~ IsAChunk(v)} ELSE ChunksOf(ItemsAt[d - 1], 3)

(* The depths of items that a list is well shaped for.                      *)
DepthsOf[l \in Lists] ==
    {d \in 0..Depth :
        CASE l.kind = "empty"  -> TRUE
          [] l.kind = "single" -> l.value \in ItemsAt[d]
          [] OTHER -> /\ l.head \in ChunksOf(ItemsAt[d], 4)
                      /\ l.tail \in ChunksOf(ItemsAt[d], 4)
                      /\ d + 1 \in DepthsOf[l.cold]
                      /\ l.size = Len(Content[l])}
=============================================================================
