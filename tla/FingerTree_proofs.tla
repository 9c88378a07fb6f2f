-------------------------- MODULE FingerTree_proofs --------------------------
(* The chunks and cold storages of FingerTree, for every bound on the       *)
(* length of a list: each method keeps their shape, and does to the leaves  *)
(* what it should do to a sequence.                                         *)
EXTENDS FingerTree, Closure_proofs, SequenceTheorems, TLAPS

-----------------------------------------------------------------------------
(* The universe of items and of lists.                                      *)
LEMMA DepthType == Depth \in Nat /\ Depth >= 1
BY MaxLengthAssumption DEF Depth

ItemsOver(items, d) == [leaf : Int] \cup (IF d = 0 THEN {} ELSE ChunksOver(items))
ListsOver(colds, n) == ShortLists \cup (IF n = 0 THEN {} ELSE LongLists(colds))

\* A function like ItemsTo exists, by induction on the levels.
LEMMA ItemsToExists ==
  ASSUME NEW n \in Nat
  PROVE  \E f : f = [i \in 0..n |-> ItemsOver(f[i - 1], i)]
<1> DEFINE Has == {m \in Nat : \E f : f = [i \in 0..m |-> ItemsOver(f[i - 1], i)]}
<1>0. \A a, b : ItemsOver(a, 0) = ItemsOver(b, 0)
  BY DEF ItemsOver
<1>1. 0 \in Has
  <2> DEFINE f == [i \in 0..0 |-> ItemsOver({}, 0)]
  <2>1. f = [i \in 0..0 |-> ItemsOver(f[i - 1], i)]
    BY <1>0
  <2> QED BY <2>1
<1>2. ASSUME NEW m \in Has PROVE m + 1 \in Has
  <2>1. PICK f : f = [i \in 0..m |-> ItemsOver(f[i - 1], i)]
    OBVIOUS
  <2> DEFINE g == [i \in 0..(m + 1) |-> IF i <= m THEN f[i] ELSE ItemsOver(f[m], m + 1)]
  <2>2. m \in Nat
    OBVIOUS
  <2>3. ASSUME NEW i \in 0..(m + 1) PROVE g[i] = ItemsOver(g[i - 1], i)
    <3>1. CASE i = 0
      <4>1. g[i] = f[0] /\ f[0] = ItemsOver(f[0 - 1], 0)
        BY <2>1, <2>2, <3>1
      <4> QED BY <1>0, <3>1, <4>1
    <3>2. CASE i \in 1..m
      <4>1. g[i] = f[i] /\ g[i - 1] = f[i - 1] /\ f[i] = ItemsOver(f[i - 1], i)
        BY <2>1, <2>2, <3>2
      <4> QED BY <4>1
    <3>3. CASE i = m + 1
      <4>1. i - 1 = m /\ g[i - 1] = f[m] /\ g[i] = ItemsOver(f[m], m + 1)
        BY <2>2, <3>3
      <4> QED BY <3>3, <4>1
    <3> QED BY <2>2, <3>1, <3>2, <3>3
  <2>4. g = [i \in 0..(m + 1) |-> ItemsOver(g[i - 1], i)]
    BY <2>3
  <2> HIDE DEF g
  <2>5. m + 1 \in Nat /\ \E h : h = [i \in 0..(m + 1) |-> ItemsOver(h[i - 1], i)]
    BY <2>2, <2>4
  <2> QED BY <2>5
<1> HIDE DEF Has
<1>3. Has = Nat
  BY <1>1, <1>2, Induction DEF Has
<1> QED BY <1>3 DEF Has

\* A function like ListsTo exists, by induction on the levels.
LEMMA ListsToExists ==
  ASSUME NEW n \in Nat
  PROVE  \E f : f = [i \in 0..n |-> ListsOver(f[i - 1], i)]
<1> DEFINE Has == {m \in Nat : \E f : f = [i \in 0..m |-> ListsOver(f[i - 1], i)]}
<1>0. \A a, b : ListsOver(a, 0) = ListsOver(b, 0)
  BY DEF ListsOver
<1>1. 0 \in Has
  <2> DEFINE f == [i \in 0..0 |-> ListsOver({}, 0)]
  <2>1. f = [i \in 0..0 |-> ListsOver(f[i - 1], i)]
    BY <1>0
  <2> QED BY <2>1
<1>2. ASSUME NEW m \in Has PROVE m + 1 \in Has
  <2>1. PICK f : f = [i \in 0..m |-> ListsOver(f[i - 1], i)]
    OBVIOUS
  <2> DEFINE g == [i \in 0..(m + 1) |-> IF i <= m THEN f[i] ELSE ListsOver(f[m], m + 1)]
  <2>2. m \in Nat
    OBVIOUS
  <2>3. ASSUME NEW i \in 0..(m + 1) PROVE g[i] = ListsOver(g[i - 1], i)
    <3>1. CASE i = 0
      <4>1. g[i] = f[0] /\ f[0] = ListsOver(f[0 - 1], 0)
        BY <2>1, <2>2, <3>1
      <4> QED BY <1>0, <3>1, <4>1
    <3>2. CASE i \in 1..m
      <4>1. g[i] = f[i] /\ g[i - 1] = f[i - 1] /\ f[i] = ListsOver(f[i - 1], i)
        BY <2>1, <2>2, <3>2
      <4> QED BY <4>1
    <3>3. CASE i = m + 1
      <4>1. i - 1 = m /\ g[i - 1] = f[m] /\ g[i] = ListsOver(f[m], m + 1)
        BY <2>2, <3>3
      <4> QED BY <3>3, <4>1
    <3> QED BY <2>2, <3>1, <3>2, <3>3
  <2>4. g = [i \in 0..(m + 1) |-> ListsOver(g[i - 1], i)]
    BY <2>3
  <2> HIDE DEF g
  <2>5. m + 1 \in Nat /\ \E h : h = [i \in 0..(m + 1) |-> ListsOver(h[i - 1], i)]
    BY <2>2, <2>4
  <2> QED BY <2>5
<1> HIDE DEF Has
<1>3. Has = Nat
  BY <1>1, <1>2, Induction DEF Has
<1> QED BY <1>3 DEF Has

LEMMA ItemsToIs == \A d \in 0..Depth : ItemsTo[d] = ItemsOver(ItemsTo[d - 1], d)
<1>1. ItemsTo = [d \in 0..Depth |-> ItemsOver(ItemsTo[d - 1], d)]
  BY DepthType, ItemsToExists DEF ItemsTo, ItemsOver
<1> QED BY <1>1

LEMMA ListsToIs == \A n \in 0..Depth : ListsTo[n] = ListsOver(ListsTo[n - 1], n)
<1>1. ListsTo = [n \in 0..Depth |-> ListsOver(ListsTo[n - 1], n)]
  BY DepthType, ListsToExists DEF ListsTo, ListsOver
<1> QED BY <1>1

\* A chunk goes one level deeper than its items.
LEMMA ItemsUnfold ==
  /\ ItemsTo[0] = [leaf : Int]
  /\ \A d \in Nat : d < Depth => ItemsTo[d + 1] = [leaf : Int] \cup ChunksOver(ItemsTo[d])
<1>0. 0 \in 0..Depth
  BY DepthType
<1>1. ItemsTo[0] = [leaf : Int]
  <2>1. ItemsTo[0] = ItemsOver(ItemsTo[0 - 1], 0)
    BY <1>0, ItemsToIs
  <2> QED BY <2>1 DEF ItemsOver
<1>2. ASSUME NEW d \in Nat, d < Depth
      PROVE  ItemsTo[d + 1] = [leaf : Int] \cup ChunksOver(ItemsTo[d])
  <2>1. d + 1 \in 0..Depth /\ (d + 1) - 1 = d /\ d + 1 # 0
    BY <1>2, DepthType
  <2>2. ItemsTo[d + 1] = ItemsOver(ItemsTo[(d + 1) - 1], d + 1)
    BY <2>1, ItemsToIs
  <2> QED BY <2>1, <2>2 DEF ItemsOver
<1> QED BY <1>1, <1>2

\* A list goes one level deeper than its cold storage.
LEMMA ListsUnfold ==
  /\ ListsTo[0] = ShortLists
  /\ \A n \in Nat : n < Depth => ListsTo[n + 1] = ShortLists \cup LongLists(ListsTo[n])
<1>0. 0 \in 0..Depth
  BY DepthType
<1>1. ListsTo[0] = ShortLists
  <2>1. ListsTo[0] = ListsOver(ListsTo[0 - 1], 0)
    BY <1>0, ListsToIs
  <2> QED BY <2>1 DEF ListsOver
<1>2. ASSUME NEW n \in Nat, n < Depth
      PROVE  ListsTo[n + 1] = ShortLists \cup LongLists(ListsTo[n])
  <2>1. n + 1 \in 0..Depth /\ (n + 1) - 1 = n /\ n + 1 # 0
    BY <1>2, DepthType
  <2>2. ListsTo[n + 1] = ListsOver(ListsTo[(n + 1) - 1], n + 1)
    BY <2>1, ListsToIs
  <2> QED BY <2>1, <2>2 DEF ListsOver
<1> QED BY <1>1, <1>2

\* More levels make more items and more lists.
LEMMA ItemsGrow == \A d \in Nat : d < Depth => ItemsTo[d] \subseteq ItemsTo[d + 1]
<1> DEFINE Grows == {d \in Nat : d < Depth => ItemsTo[d] \subseteq ItemsTo[d + 1]}
<1>1. 0 \in Grows
  BY DepthType, ItemsUnfold
<1>2. ASSUME NEW d \in Grows PROVE d + 1 \in Grows
  <2> SUFFICES ASSUME d + 1 < Depth PROVE ItemsTo[d + 1] \subseteq ItemsTo[(d + 1) + 1]
    OBVIOUS
  <2>1. d \in Nat /\ d + 1 \in Nat /\ d < Depth /\ Depth \in Nat
    BY DepthType
  <2>2. ItemsTo[d] \subseteq ItemsTo[d + 1]
    BY <2>1
  <2>3. /\ ItemsTo[d + 1] = [leaf : Int] \cup ChunksOver(ItemsTo[d])
        /\ ItemsTo[(d + 1) + 1] = [leaf : Int] \cup ChunksOver(ItemsTo[d + 1])
    BY <2>1, ItemsUnfold
  <2>4. ChunksOver(ItemsTo[d]) \subseteq ChunksOver(ItemsTo[d + 1])
    BY <2>2, SeqMonotonic DEF ChunksOver
  <2> QED BY <2>3, <2>4
<1> HIDE DEF Grows
<1>3. Grows = Nat
  BY <1>1, <1>2, Induction DEF Grows
<1> QED BY <1>3 DEF Grows

LEMMA ListsGrow == \A n \in Nat : n < Depth => ListsTo[n] \subseteq ListsTo[n + 1]
<1> DEFINE Grows == {n \in Nat : n < Depth => ListsTo[n] \subseteq ListsTo[n + 1]}
<1>1. 0 \in Grows
  BY DepthType, ListsUnfold
<1>2. ASSUME NEW n \in Grows PROVE n + 1 \in Grows
  <2> SUFFICES ASSUME n + 1 < Depth PROVE ListsTo[n + 1] \subseteq ListsTo[(n + 1) + 1]
    OBVIOUS
  <2>1. n \in Nat /\ n + 1 \in Nat /\ n < Depth /\ Depth \in Nat
    BY DepthType
  <2>2. ListsTo[n] \subseteq ListsTo[n + 1]
    BY <2>1
  <2>3. /\ ListsTo[n + 1] = ShortLists \cup LongLists(ListsTo[n])
        /\ ListsTo[(n + 1) + 1] = ShortLists \cup LongLists(ListsTo[n + 1])
    BY <2>1, ListsUnfold
  <2>4. LongLists(ListsTo[n]) \subseteq LongLists(ListsTo[n + 1])
    BY <2>2 DEF LongLists
  <2> QED BY <2>3, <2>4
<1> HIDE DEF Grows
<1>3. Grows = Nat
  BY <1>1, <1>2, Induction DEF Grows
<1> QED BY <1>3 DEF Grows

LEMMA ItemsCumulate == \A d \in 0..Depth : ItemsTo[d] \subseteq Items
<1> DEFINE Within == {k \in Nat : k <= Depth => ItemsTo[Depth - k] \subseteq Items}
<1>1. 0 \in Within
  BY DepthType DEF Items
<1>2. ASSUME NEW k \in Within PROVE k + 1 \in Within
  <2> SUFFICES ASSUME k + 1 <= Depth PROVE ItemsTo[Depth - (k + 1)] \subseteq Items
    OBVIOUS
  <2> DEFINE d == Depth - (k + 1)
  <2>1. k \in Nat /\ d \in Nat /\ d < Depth /\ d + 1 = Depth - k /\ k <= Depth
    BY DepthType
  <2>2. ItemsTo[d + 1] \subseteq Items
    BY <2>1
  <2>3. ItemsTo[d] \subseteq ItemsTo[d + 1]
    BY <2>1, ItemsGrow
  <2> QED BY <2>2, <2>3
<1> HIDE DEF Within
<1>3. Within = Nat
  BY <1>1, <1>2, Induction DEF Within
<1> SUFFICES ASSUME NEW d \in 0..Depth PROVE ItemsTo[d] \subseteq Items
  OBVIOUS
<1>4. Depth - d \in Nat /\ Depth - d <= Depth /\ Depth - (Depth - d) = d
  BY DepthType
<1> QED BY <1>3, <1>4 DEF Within

LEMMA ListsCumulate == \A n \in 0..Depth : ListsTo[n] \subseteq Lists
<1> DEFINE Within == {k \in Nat : k <= Depth => ListsTo[Depth - k] \subseteq Lists}
<1>1. 0 \in Within
  BY DepthType DEF Lists
<1>2. ASSUME NEW k \in Within PROVE k + 1 \in Within
  <2> SUFFICES ASSUME k + 1 <= Depth PROVE ListsTo[Depth - (k + 1)] \subseteq Lists
    OBVIOUS
  <2> DEFINE n == Depth - (k + 1)
  <2>1. k \in Nat /\ n \in Nat /\ n < Depth /\ n + 1 = Depth - k /\ k <= Depth
    BY DepthType
  <2>2. ListsTo[n + 1] \subseteq Lists
    BY <2>1
  <2>3. ListsTo[n] \subseteq ListsTo[n + 1]
    BY <2>1, ListsGrow
  <2> QED BY <2>2, <2>3
<1> HIDE DEF Within
<1>3. Within = Nat
  BY <1>1, <1>2, Induction DEF Within
<1> SUFFICES ASSUME NEW n \in 0..Depth PROVE ListsTo[n] \subseteq Lists
  OBVIOUS
<1>4. Depth - n \in Nat /\ Depth - n <= Depth /\ Depth - (Depth - n) = n
  BY DepthType
<1> QED BY <1>3, <1>4 DEF Within

\* The forms of an item: a leaf, or a chunk with items of its own.
IsLeafItem(v) == ~ IsAChunk(v) /\ v.leaf \in Int /\ v = Leaf(v.leaf)
IsChunkOver(items, v) ==
    /\ IsAChunk(v) /\ v.items \in Seq(items) /\ v.leaves \in Int
    /\ v = [items |-> v.items, leaves |-> v.leaves]

LEMMA LeafForm == \A v : v \in [leaf : Int] <=> IsLeafItem(v)
BY DEF IsLeafItem, IsAChunk, Leaf

LEMMA ChunkForm == \A items, v : v \in ChunksOver(items) <=> IsChunkOver(items, v)
BY DEF IsChunkOver, IsAChunk, ChunksOver

\* To prove something of all items, prove it of a chunk when it is true of
\* the chunk's items.
LEMMA ItemsInduction ==
  ASSUME NEW P \in SUBSET Items,
         \A v \in Items : IsLeafItem(v) => v \in P,
         \A v \in Items : IsChunkOver(P, v) => v \in P
  PROVE  P = Items
<1> DEFINE Within == {d \in Nat : d <= Depth => ItemsTo[d] \subseteq P}
<1>1. 0 \in Within
  <2>1. ItemsTo[0] \subseteq Items
    BY DepthType, ItemsCumulate
  <2> QED BY <2>1, ItemsUnfold, LeafForm
<1>2. ASSUME NEW d \in Within PROVE d + 1 \in Within
  <2> SUFFICES ASSUME d + 1 <= Depth, NEW v \in ItemsTo[d + 1] PROVE v \in P
    OBVIOUS
  <2>1. d \in Nat /\ d < Depth /\ d + 1 \in 0..Depth
    BY DepthType
  <2>2. ItemsTo[d] \subseteq P
    BY <2>1, DepthType
  <2>3. v \in Items
    BY <2>1, ItemsCumulate
  <2>4. v \in [leaf : Int] \/ v \in ChunksOver(ItemsTo[d])
    BY <2>1, ItemsUnfold
  <2>5. CASE v \in ChunksOver(ItemsTo[d])
    <3>1. IsChunkOver(ItemsTo[d], v)
      BY <2>5, ChunkForm
    <3>2. IsChunkOver(P, v)
      BY <2>2, <3>1, SeqMonotonic DEF IsChunkOver
    <3> QED BY <2>3, <3>2
  <2> QED BY <2>3, <2>4, <2>5, LeafForm
<1> HIDE DEF Within
<1>3. Within = Nat
  BY <1>1, <1>2, Induction DEF Within
<1> QED BY <1>3, DepthType DEF Within, Items

\* An item is a leaf or a chunk.
LEMMA ItemForms == \A v \in Items : IsLeafItem(v) \/ IsChunkOver(Items, v)
<1> DEFINE P == {v \in Items : IsLeafItem(v) \/ IsChunkOver(Items, v)}
<1>1. \A v \in Items : IsChunkOver(P, v) => v \in P
  BY SeqMonotonic DEF IsChunkOver
<1> HIDE DEF P
<1>2. P = Items
  BY <1>1, ItemsInduction DEF P
<1> QED BY <1>2 DEF P

\* The forms of a list.
IsLong(colds, l) ==
    /\ l.kind = "list" /\ l.head \in Items /\ l.cold \in colds /\ l.tail \in Items
    /\ l.size \in Int
    /\ l = [kind |-> "list", head |-> l.head, cold |-> l.cold, tail |-> l.tail, size |-> l.size]
IsShort(l) ==
    \/ l = list_empty
    \/ l.kind = "single" /\ l.value \in Items /\ l = Single(l.value)

LEMMA ShortForm == \A l : l \in ShortLists <=> IsShort(l)
BY DEF ShortLists, IsShort, list_empty, Single

LEMMA LongForm == \A colds, l : l \in LongLists(colds) <=> IsLong(colds, l)
BY DEF IsLong, LongLists

\* Induction over lists: from the short ones, and from the cold storage to the list.
LEMMA ListsInduction ==
  ASSUME NEW P \in SUBSET Lists,
         \A l \in Lists : IsShort(l) => l \in P,
         \A l \in Lists : IsLong(P, l) => l \in P
  PROVE  P = Lists
<1> DEFINE Within == {n \in Nat : n <= Depth => ListsTo[n] \subseteq P}
<1>1. 0 \in Within
  <2>1. ListsTo[0] \subseteq Lists
    BY DepthType, ListsCumulate
  <2> QED BY <2>1, ListsUnfold, ShortForm
<1>2. ASSUME NEW n \in Within PROVE n + 1 \in Within
  <2> SUFFICES ASSUME n + 1 <= Depth, NEW l \in ListsTo[n + 1] PROVE l \in P
    OBVIOUS
  <2>1. n \in Nat /\ n < Depth /\ n + 1 \in 0..Depth
    BY DepthType
  <2>2. ListsTo[n] \subseteq P
    BY <2>1, DepthType
  <2>3. l \in Lists
    BY <2>1, ListsCumulate
  <2>4. l \in ShortLists \/ l \in LongLists(ListsTo[n])
    BY <2>1, ListsUnfold
  <2>5. CASE l \in LongLists(ListsTo[n])
    <3>1. IsLong(P, l)
      BY <2>2, <2>5, LongForm DEF IsLong
    <3> QED BY <2>3, <3>1
  <2> QED BY <2>3, <2>4, <2>5, ShortForm
<1> HIDE DEF Within
<1>3. Within = Nat
  BY <1>1, <1>2, Induction DEF Within
<1> QED BY <1>3, DepthType DEF Within, Lists

\* A list is short, or has two chunks and a cold storage.
LEMMA ListForms == \A l \in Lists : IsShort(l) \/ IsLong(Lists, l)
<1> DEFINE P == {l \in Lists : IsShort(l) \/ IsLong(Lists, l)}
<1>1. \A l \in Lists : IsLong(P, l) => l \in P
  BY DEF IsLong
<1> HIDE DEF P
<1>2. P = Lists
  BY <1>1, ListsInduction DEF P
<1> QED BY <1>2 DEF P

\* Short lists and leaves are in the universe, and chunks and lists that do
\* not go too deep.
LEMMA MadeOfParts ==
  /\ \A v : IsLeafItem(v) => v \in ItemsTo[0] /\ v \in Items
  /\ \A d \in Nat : \A v : d < Depth /\ IsChunkOver(ItemsTo[d], v) => v \in ItemsTo[d + 1] /\ v \in Items
  /\ \A l : IsShort(l) => l \in ListsTo[0] /\ l \in Lists
  /\ \A n \in Nat : \A l : n < Depth /\ IsLong(ListsTo[n], l) => l \in ListsTo[n + 1] /\ l \in Lists
<1>1. /\ ItemsTo[0] \subseteq Items /\ ListsTo[0] \subseteq Lists
      /\ \A d \in Nat : d < Depth => ItemsTo[d + 1] \subseteq Items /\ ListsTo[d + 1] \subseteq Lists
  <2>1. 0 \in 0..Depth /\ \A d \in Nat : d < Depth => d + 1 \in 0..Depth
    BY DepthType
  <2> QED BY <2>1, ItemsCumulate, ListsCumulate
<1>2. \A v : IsLeafItem(v) => v \in ItemsTo[0] /\ v \in Items
  BY <1>1, ItemsUnfold, LeafForm
<1>3. \A d \in Nat : \A v : d < Depth /\ IsChunkOver(ItemsTo[d], v) => v \in ItemsTo[d + 1] /\ v \in Items
  BY <1>1, ItemsUnfold, ChunkForm
<1>4. \A l : IsShort(l) => l \in ListsTo[0] /\ l \in Lists
  BY <1>1, ListsUnfold, ShortForm
<1>5. \A n \in Nat : \A l : n < Depth /\ IsLong(ListsTo[n], l) => l \in ListsTo[n + 1] /\ l \in Lists
  BY <1>1, ListsUnfold, LongForm
<1> QED BY <1>2, <1>3, <1>4, <1>5

-----------------------------------------------------------------------------
(* The recursive functions are what their equations say.                    *)
\* What a function on items gives for the items of a chunk.
Below(f, v) == [i \in DOMAIN v.items |-> f[v.items[i]]]

LeavesOver(below, v) == IF IsAChunk(v) THEN FlattenSeq(below) ELSE << v.leaf >>
Holder(c, index) ==
    CHOOSE i \in {k \in DOMAIN c.items : index < EndOf(c.items, k)} :
        \A j \in {k \in DOMAIN c.items : index < EndOf(c.items, k)} : i <= j
LeafOver(below, c) == [index \in Int |->
    IF ~ IsAChunk(c) THEN << c.leaf >>
    ELSE IF {i \in DOMAIN c.items : index < EndOf(c.items, i)} = {} THEN ThrownValue
         ELSE below[Holder(c, index)][index - EndOf(c.items, Holder(c, index) - 1)]]

LEMMA LeavesOfLeaf == \A a, b, v : ~ IsAChunk(v) => LeavesOver(a, v) = LeavesOver(b, v)
BY DEF LeavesOver

LEMMA LeafOfLeaf == \A a, b, v : ~ IsAChunk(v) => LeafOver(a, v) = LeafOver(b, v)
BY DEF LeafOver

LEMMA LeavesExists == \E f : f = [v \in Items |-> LeavesOver(Below(f, v), v)]
<1> DEFINE Fulfils(f, d) == f = [v \in ItemsTo[d] |-> LeavesOver(Below(f, v), v)]
<1> DEFINE Has == {d \in Nat : d <= Depth => \E f : Fulfils(f, d)}
<1>1. 0 \in Has
  <2> DEFINE f == [v \in ItemsTo[0] |-> LeavesOver({}, v)]
  <2>1. ASSUME NEW v \in ItemsTo[0] PROVE f[v] = LeavesOver(Below(f, v), v)
    BY ItemsUnfold, LeafForm, LeavesOfLeaf DEF IsLeafItem
  <2>2. Fulfils(f, 0)
    BY <2>1
  <2> QED BY <2>2
<1>2. ASSUME NEW d \in Has PROVE d + 1 \in Has
  <2> SUFFICES ASSUME d + 1 <= Depth PROVE \E f : Fulfils(f, d + 1)
    OBVIOUS
  <2>1. d \in Nat /\ d < Depth
    BY DepthType
  <2>2. PICK f : Fulfils(f, d)
    BY <2>1, DepthType
  <2> DEFINE g == [v \in ItemsTo[d + 1] |-> LeavesOver(Below(f, v), v)]
  <2>3. ItemsTo[d] \subseteq ItemsTo[d + 1]
    BY <2>1, ItemsGrow
  <2>4. ASSUME NEW v \in ItemsTo[d] PROVE g[v] = f[v]
    BY <2>2, <2>3
  <2> HIDE DEF g
  <2>5. ASSUME NEW v \in ItemsTo[d + 1] PROVE LeavesOver(Below(f, v), v) = LeavesOver(Below(g, v), v)
    <3>1. CASE v \in [leaf : Int]
      BY <3>1, LeafForm, LeavesOfLeaf DEF IsLeafItem
    <3>2. CASE v \in ChunksOver(ItemsTo[d])
      <4>1. v.items \in Seq(ItemsTo[d])
        BY <3>2, ChunkForm DEF IsChunkOver
      <4>2. \A i \in DOMAIN v.items : v.items[i] \in ItemsTo[d]
        BY <4>1, ElementOfSeq, LenProperties
      <4>3. Below(f, v) = Below(g, v)
        BY <2>4, <4>2 DEF Below
      <4> QED BY <4>3
    <3> QED BY <2>1, <3>1, <3>2, ItemsUnfold
  <2>6. g = [v \in ItemsTo[d + 1] |-> LeavesOver(Below(g, v), v)]
    BY <2>5 DEF g
  <2> QED BY <2>6
<1> HIDE DEF Has
<1>3. Has = Nat
  BY <1>1, <1>2, Induction DEF Has
<1>4. \E f : Fulfils(f, Depth)
  BY <1>3, DepthType DEF Has
<1> QED BY <1>4 DEF Items

LEMMA LeafExists == \E f : f = [v \in Items |-> LeafOver(Below(f, v), v)]
<1> DEFINE Fulfils(f, d) == f = [v \in ItemsTo[d] |-> LeafOver(Below(f, v), v)]
<1> DEFINE Has == {d \in Nat : d <= Depth => \E f : Fulfils(f, d)}
<1>1. 0 \in Has
  <2> DEFINE f == [v \in ItemsTo[0] |-> LeafOver({}, v)]
  <2>1. ASSUME NEW v \in ItemsTo[0] PROVE f[v] = LeafOver(Below(f, v), v)
    BY ItemsUnfold, LeafForm, LeafOfLeaf DEF IsLeafItem
  <2>2. Fulfils(f, 0)
    BY <2>1
  <2> QED BY <2>2
<1>2. ASSUME NEW d \in Has PROVE d + 1 \in Has
  <2> SUFFICES ASSUME d + 1 <= Depth PROVE \E f : Fulfils(f, d + 1)
    OBVIOUS
  <2>1. d \in Nat /\ d < Depth
    BY DepthType
  <2>2. PICK f : Fulfils(f, d)
    BY <2>1, DepthType
  <2> DEFINE g == [v \in ItemsTo[d + 1] |-> LeafOver(Below(f, v), v)]
  <2>3. ItemsTo[d] \subseteq ItemsTo[d + 1]
    BY <2>1, ItemsGrow
  <2>4. ASSUME NEW v \in ItemsTo[d] PROVE g[v] = f[v]
    BY <2>2, <2>3
  <2> HIDE DEF g
  <2>5. ASSUME NEW v \in ItemsTo[d + 1] PROVE LeafOver(Below(f, v), v) = LeafOver(Below(g, v), v)
    <3>1. CASE v \in [leaf : Int]
      BY <3>1, LeafForm, LeafOfLeaf DEF IsLeafItem
    <3>2. CASE v \in ChunksOver(ItemsTo[d])
      <4>1. v.items \in Seq(ItemsTo[d])
        BY <3>2, ChunkForm DEF IsChunkOver
      <4>2. \A i \in DOMAIN v.items : v.items[i] \in ItemsTo[d]
        BY <4>1, ElementOfSeq, LenProperties
      <4>3. Below(f, v) = Below(g, v)
        BY <2>4, <4>2 DEF Below
      <4> QED BY <4>3
    <3> QED BY <2>1, <3>1, <3>2, ItemsUnfold
  <2>6. g = [v \in ItemsTo[d + 1] |-> LeafOver(Below(g, v), v)]
    BY <2>5 DEF g
  <2> QED BY <2>6
<1> HIDE DEF Has
<1>3. Has = Nat
  BY <1>1, <1>2, Induction DEF Has
<1>4. \E f : Fulfils(f, Depth)
  BY <1>3, DepthType DEF Has
<1> QED BY <1>4 DEF Items

\* Leaves is what its equation says.
LEMMA LeavesIs == Leaves = [v \in Items |-> LeavesOver(Below(Leaves, v), v)]
BY LeavesExists DEF Leaves, LeavesOver, Below

\* The items that end beyond an index have a first one.
LEMMA HolderIs ==
  ASSUME NEW c \in Items, IsAChunk(c), NEW index \in Int,
         {i \in DOMAIN c.items : index < EndOf(c.items, i)} # {}
  PROVE  /\ Holder(c, index) \in DOMAIN c.items
         /\ index < EndOf(c.items, Holder(c, index))
         /\ \A j \in DOMAIN c.items : index < EndOf(c.items, j) => Holder(c, index) <= j
<1> DEFINE beyond == {i \in DOMAIN c.items : index < EndOf(c.items, i)}
<1>1. c.items \in Seq(Items)
  BY ItemForms DEF IsLeafItem, IsChunkOver
<1>2. DOMAIN c.items \subseteq Nat
  BY <1>1, LenProperties
<1>3. PICK m \in beyond : \A r \in beyond : m <= r
  BY <1>2, LeastElement
<1>4. /\ Holder(c, index) \in beyond
      /\ \A j \in beyond : Holder(c, index) <= j
  BY <1>3 DEF Holder
<1> QED BY <1>4

\* chunk_get_leaf is what its equation says.
LEMMA GetLeafIs == chunk_get_leaf = [c \in Items |-> LeafOver(Below(chunk_get_leaf, c), c)]
<1> DEFINE Eq(f, c) == [index \in Int |->
      IF ~ IsAChunk(c) THEN << c.leaf >>
      ELSE LET beyond == {i \in DOMAIN c.items : index < EndOf(c.items, i)}
               holder == CHOOSE i \in beyond : \A j \in beyond : i <= j
           IN IF beyond = {} THEN ThrownValue
              ELSE f[c.items[holder]][index - EndOf(c.items, holder - 1)]]
<1>1. ASSUME NEW f, NEW c \in Items PROVE Eq(f, c) = LeafOver(Below(f, c), c)
  <2>1. ASSUME NEW index \in Int PROVE Eq(f, c)[index] = LeafOver(Below(f, c), c)[index]
    <3> DEFINE beyond == {i \in DOMAIN c.items : index < EndOf(c.items, i)}
    <3>1. CASE ~ IsAChunk(c)
      BY <3>1 DEF LeafOver
    <3>2. CASE IsAChunk(c) /\ beyond = {}
      BY <3>2 DEF LeafOver
    <3>3. CASE IsAChunk(c) /\ beyond # {}
      <4>1. Holder(c, index) \in DOMAIN c.items
        BY <3>3, HolderIs
      <4>2. Below(f, c)[Holder(c, index)] = f[c.items[Holder(c, index)]]
        BY <4>1 DEF Below
      <4>3. Eq(f, c)[index]
              = f[c.items[Holder(c, index)]][index - EndOf(c.items, Holder(c, index) - 1)]
        BY <3>3 DEF Holder
      <4>4. LeafOver(Below(f, c), c)[index]
              = Below(f, c)[Holder(c, index)][index - EndOf(c.items, Holder(c, index) - 1)]
        BY <3>3 DEF LeafOver
      <4> QED BY <4>2, <4>3, <4>4
    <3> QED BY <3>1, <3>2, <3>3
  <2>2. /\ DOMAIN Eq(f, c) = Int /\ DOMAIN LeafOver(Below(f, c), c) = Int
        /\ Eq(f, c) = [index \in Int |-> Eq(f, c)[index]]
        /\ LeafOver(Below(f, c), c) = [index \in Int |-> LeafOver(Below(f, c), c)[index]]
    BY DEF LeafOver
  <2> HIDE DEF Eq
  <2> QED BY <2>1, <2>2
<1>2. PICK f : f = [c \in Items |-> LeafOver(Below(f, c), c)]
  BY LeafExists
<1>3. f = [c \in Items |-> Eq(f, c)]
  <2> HIDE DEF Eq
  <2> QED BY <1>1, <1>2
<1>4. chunk_get_leaf = [c \in Items |-> Eq(chunk_get_leaf, c)]
  BY <1>3 DEF chunk_get_leaf
<1> HIDE DEF Eq
<1> QED BY <1>1, <1>4

PushOver(pushed, l) == [v \in Items |->
    CASE l.kind = "empty"  -> Single(v)
      [] l.kind = "single" -> AllocTwoItemList(v, l.value)
      [] OTHER ->
           IF chunk_can_grow(l.head) THEN alloc_list(chunk_push(l.head, v), l.cold, l.tail)
           ELSE alloc_list(chunk_push(Spill(l.head).kept, v), pushed[Spill(l.head).stored], l.tail)]

AttachOver(attached, l) == [v \in Items |->
    CASE l.kind = "empty"  -> Single(v)
      [] l.kind = "single" -> AllocTwoItemList(l.value, v)
      [] OTHER ->
           IF chunk_can_grow(l.tail) THEN alloc_list(l.head, l.cold, chunk_append(l.tail, v))
           ELSE alloc_list(l.head, attached[chunk_chop(l.tail)],
                           ChunkOf(<< chunk_tail(l.tail), v >>))]

PopOver(popped, l) ==
    CASE l.kind = "list" ->
           IF chunk_can_shrink(l.head) THEN alloc_list(chunk_pop(l.head), l.cold, l.tail)
           ELSE IF l.cold # list_empty THEN alloc_list(HeadOf(l.cold), popped, l.tail)
           ELSE IF chunk_can_shrink(l.tail) THEN Poached(l)
           ELSE Single(chunk_head(l.tail))
      [] OTHER -> list_empty

ChopOver(chopped, l) ==
    CASE l.kind = "list" ->
           IF chunk_can_shrink(l.tail) THEN alloc_list(l.head, l.cold, chunk_chop(l.tail))
           ELSE IF l.cold # list_empty THEN alloc_list(l.head, chopped, TailOf(l.cold))
           ELSE IF chunk_can_shrink(l.head)
             THEN alloc_list(chunk_chop(l.head), l.cold, ChunkOf(<< chunk_tail(l.head) >>))
           ELSE Single(chunk_tail(l.head))
      [] OTHER -> list_empty

ContentOver(content, l) ==
    CASE l.kind = "empty"  -> << >>
      [] l.kind = "single" -> Leaves[l.value]
      [] OTHER             -> Leaves[l.head] \o content \o Leaves[l.tail]

DepthsOver(depths, l) ==
    {d \in 0..Depth :
        CASE l.kind = "empty"  -> TRUE
          [] l.kind = "single" -> l.value \in ItemsAt[d]
          [] OTHER -> /\ l.head \in ChunksOf(ItemsAt[d], 4)
                      /\ l.tail \in ChunksOf(ItemsAt[d], 4)
                      /\ d + 1 \in depths
                      /\ l.size = Len(Content[l])}

LookupOver(found, l) == [index \in Int |->
    CASE l.kind = "empty"  -> ThrownValue
      [] l.kind = "single" ->
           IF index \in 0..(Size(l) - 1) THEN chunk_get_leaf[ChunkOf(<< l.value >>)][index]
                                         ELSE ThrownValue
      [] OTHER ->
           LET cold == index - l.head.leaves
               last == cold - Size(l.cold)
           IN IF index < 0 THEN ThrownValue
              ELSE IF cold < 0 THEN chunk_get_leaf[l.head][index]
              ELSE IF last < 0 THEN found[cold]
              ELSE chunk_get_leaf[l.tail][last]]

PartitionOver(divided, l) == [index \in Int |->
    CASE l.kind = "empty"  -> Parts(l, l)
      [] l.kind = "single" -> IF index < Size(l) THEN Parts(list_empty, l)
                                                 ELSE Parts(l, list_empty)
      [] OTHER ->
           IF InHeadChunk(l, index) THEN MoveToHead(l, index)
           ELSE IF InTailChunk(l, index) THEN MoveToTail(l, l.size - index)
           ELSE LET inner == index - l.head.leaves
                    splits == divided[inner]
                    first == IF splits.before = list_empty THEN ListifyChunk(l.head)
                             ELSE alloc_list(l.head, Chop[splits.before], TailOf(splits.before))
                    second == IF splits.after = list_empty THEN ListifyChunk(l.tail)
                              ELSE alloc_list(HeadOf(splits.after), Pop[splits.after], l.tail)
                IN IF splits = Stopped THEN Stopped
                   ELSE MoveStragglers(first, second, inner)]

\* All of them at once, given what they come to for the cold storage.
MethodsOver(cold, l) ==
    [push |-> PushOver(cold.push, l), attach |-> AttachOver(cold.attach, l),
     pop |-> PopOver(cold.pop, l), chop |-> ChopOver(cold.chop, l),
     content |-> ContentOver(cold.content, l), depths |-> DepthsOver(cold.depths, l),
     lookup |-> LookupOver(cold.lookup, l), partition |-> PartitionOver(cold.partition, l)]

LEMMA ShortMethods ==
  \A a, b, l : l.kind \in {"empty", "single"} =>
    /\ PushOver(a, l) = PushOver(b, l)
    /\ AttachOver(a, l) = AttachOver(b, l)
    /\ PopOver(a, l) = PopOver(b, l)
    /\ ChopOver(a, l) = ChopOver(b, l)
    /\ ContentOver(a, l) = ContentOver(b, l)
    /\ DepthsOver(a, l) = DepthsOver(b, l)
    /\ LookupOver(a, l) = LookupOver(b, l)
    /\ PartitionOver(a, l) = PartitionOver(b, l)
<1> SUFFICES ASSUME NEW a, NEW b, NEW l, l.kind \in {"empty", "single"}
             PROVE  /\ PushOver(a, l) = PushOver(b, l)
                    /\ AttachOver(a, l) = AttachOver(b, l)
                    /\ PopOver(a, l) = PopOver(b, l)
                    /\ ChopOver(a, l) = ChopOver(b, l)
                    /\ ContentOver(a, l) = ContentOver(b, l)
                    /\ DepthsOver(a, l) = DepthsOver(b, l)
                    /\ LookupOver(a, l) = LookupOver(b, l)
                    /\ PartitionOver(a, l) = PartitionOver(b, l)
  OBVIOUS
<1>0. l.kind # "list"
  OBVIOUS
<1>1. PushOver(a, l) = PushOver(b, l)
  BY <1>0 DEF PushOver
<1>2. AttachOver(a, l) = AttachOver(b, l)
  BY <1>0 DEF AttachOver
<1>3. PopOver(a, l) = PopOver(b, l)
  BY <1>0 DEF PopOver
<1>4. ChopOver(a, l) = ChopOver(b, l)
  BY <1>0 DEF ChopOver
<1>5. ContentOver(a, l) = ContentOver(b, l)
  BY <1>0 DEF ContentOver
<1>6. DepthsOver(a, l) = DepthsOver(b, l)
  BY <1>0 DEF DepthsOver
<1>7. LookupOver(a, l) = LookupOver(b, l)
  BY <1>0 DEF LookupOver
<1>8. PartitionOver(a, l) = PartitionOver(b, l)
  BY <1>0 DEF PartitionOver
<1> QED BY <1>1, <1>2, <1>3, <1>4, <1>5, <1>6, <1>7, <1>8

LEMMA MethodsOfShort ==
  \A a, b, l : l.kind \in {"empty", "single"} => MethodsOver(a, l) = MethodsOver(b, l)
BY ShortMethods DEF MethodsOver

LEMMA ShortKinds == \A l : IsShort(l) => l.kind \in {"empty", "single"}
BY DEF IsShort, list_empty, Single

LEMMA MethodsParts ==
  \A c, l :
    /\ MethodsOver(c, l).push = PushOver(c.push, l)
    /\ MethodsOver(c, l).attach = AttachOver(c.attach, l)
    /\ MethodsOver(c, l).pop = PopOver(c.pop, l)
    /\ MethodsOver(c, l).chop = ChopOver(c.chop, l)
    /\ MethodsOver(c, l).content = ContentOver(c.content, l)
    /\ MethodsOver(c, l).depths = DepthsOver(c.depths, l)
    /\ MethodsOver(c, l).lookup = LookupOver(c.lookup, l)
    /\ MethodsOver(c, l).partition = PartitionOver(c.partition, l)
BY DEF MethodsOver

LEMMA MethodsExist == \E f : f = [l \in Lists |-> MethodsOver(f[l.cold], l)]
<1> DEFINE Fulfils(f, n) == f = [l \in ListsTo[n] |-> MethodsOver(f[l.cold], l)]
<1> DEFINE Has == {n \in Nat : n <= Depth => \E f : Fulfils(f, n)}
<1>1. 0 \in Has
  <2> DEFINE f == [l \in ListsTo[0] |-> MethodsOver({}, l)]
  <2>1. ASSUME NEW l \in ListsTo[0] PROVE f[l] = MethodsOver(f[l.cold], l)
    <3>1. l.kind \in {"empty", "single"}
      BY ListsUnfold, ShortForm, ShortKinds
    <3> QED BY <3>1, MethodsOfShort
  <2>2. Fulfils(f, 0)
    BY <2>1
  <2> QED BY <2>2
<1>2. ASSUME NEW n \in Has PROVE n + 1 \in Has
  <2> SUFFICES ASSUME n + 1 <= Depth PROVE \E f : Fulfils(f, n + 1)
    OBVIOUS
  <2>1. n \in Nat /\ n < Depth
    BY DepthType
  <2>2. PICK f : Fulfils(f, n)
    BY <2>1, DepthType
  <2> DEFINE g == [l \in ListsTo[n + 1] |-> MethodsOver(f[l.cold], l)]
  <2>3. ListsTo[n] \subseteq ListsTo[n + 1]
    BY <2>1, ListsGrow
  <2>4. ASSUME NEW l \in ListsTo[n] PROVE g[l] = f[l]
    BY <2>2, <2>3
  <2> HIDE DEF g
  <2>5. ASSUME NEW l \in ListsTo[n + 1] PROVE MethodsOver(f[l.cold], l) = MethodsOver(g[l.cold], l)
    <3>1. CASE l \in ShortLists
      BY <3>1, ShortForm, ShortKinds, MethodsOfShort
    <3>2. CASE l \in LongLists(ListsTo[n])
      <4>1. l.cold \in ListsTo[n]
        BY <3>2, LongForm DEF IsLong
      <4> QED BY <2>4, <4>1
    <3> QED BY <2>1, <3>1, <3>2, ListsUnfold
  <2>6. g = [l \in ListsTo[n + 1] |-> MethodsOver(g[l.cold], l)]
    BY <2>5 DEF g
  <2> QED BY <2>6
<1> HIDE DEF Has
<1>3. Has = Nat
  BY <1>1, <1>2, Induction DEF Has
<1>4. \E f : Fulfils(f, Depth)
  BY <1>3, DepthType DEF Has
<1> QED BY <1>4 DEF Lists

\* The methods that go to cold storage are what their equations say.
LEMMA MethodsAre ==
  /\ Push = [l \in Lists |-> PushOver(Push[l.cold], l)]
  /\ Attach = [l \in Lists |-> AttachOver(Attach[l.cold], l)]
  /\ Pop = [l \in Lists |-> PopOver(Pop[l.cold], l)]
  /\ Chop = [l \in Lists |-> ChopOver(Chop[l.cold], l)]
  /\ Content = [l \in Lists |-> ContentOver(Content[l.cold], l)]
  /\ DepthsOf = [l \in Lists |-> DepthsOver(DepthsOf[l.cold], l)]
  /\ Lookup = [l \in Lists |-> LookupOver(Lookup[l.cold], l)]
  /\ Partition = [l \in Lists |-> PartitionOver(Partition[l.cold], l)]
<1>1. PICK m : m = [l \in Lists |-> MethodsOver(m[l.cold], l)]
  BY MethodsExist
<1>2. \A l \in Lists : m[l] = MethodsOver(m[l.cold], l)
  BY <1>1
<1>3. \A l \in Lists : l.cold \in Lists \/ l.kind \in {"empty", "single"}
  BY ListForms, ShortKinds DEF IsLong
<1>4. Push = [l \in Lists |-> PushOver(Push[l.cold], l)]
  <2> DEFINE f == [l \in Lists |-> m[l].push]
  <2>1. ASSUME NEW l \in Lists PROVE f[l] = PushOver(f[l.cold], l)
    <3>1. f[l] = PushOver(m[l.cold].push, l)
      <4>1. f[l] = m[l].push
        OBVIOUS
      <4>2. m[l] = MethodsOver(m[l.cold], l)
        BY <1>2
      <4> QED BY <4>1, <4>2, MethodsParts
    <3>2. CASE l.cold \in Lists
      BY <3>1, <3>2
    <3>3. CASE l.kind \in {"empty", "single"}
      BY <3>1, <3>3, ShortMethods
    <3> QED BY <1>3, <3>2, <3>3
  <2>2. f = [l \in Lists |-> PushOver(f[l.cold], l)]
    BY <2>1
  <2> HIDE DEF f
  <2> QED BY <2>2 DEF Push, PushOver
<1>5. Attach = [l \in Lists |-> AttachOver(Attach[l.cold], l)]
  <2> DEFINE f == [l \in Lists |-> m[l].attach]
  <2>1. ASSUME NEW l \in Lists PROVE f[l] = AttachOver(f[l.cold], l)
    <3>1. f[l] = AttachOver(m[l.cold].attach, l)
      <4>1. f[l] = m[l].attach
        OBVIOUS
      <4>2. m[l] = MethodsOver(m[l.cold], l)
        BY <1>2
      <4> QED BY <4>1, <4>2, MethodsParts
    <3>2. CASE l.cold \in Lists
      BY <3>1, <3>2
    <3>3. CASE l.kind \in {"empty", "single"}
      BY <3>1, <3>3, ShortMethods
    <3> QED BY <1>3, <3>2, <3>3
  <2>2. f = [l \in Lists |-> AttachOver(f[l.cold], l)]
    BY <2>1
  <2> HIDE DEF f
  <2> QED BY <2>2 DEF Attach, AttachOver
<1>6. Pop = [l \in Lists |-> PopOver(Pop[l.cold], l)]
  <2> DEFINE f == [l \in Lists |-> m[l].pop]
  <2>1. ASSUME NEW l \in Lists PROVE f[l] = PopOver(f[l.cold], l)
    <3>1. f[l] = PopOver(m[l.cold].pop, l)
      <4>1. f[l] = m[l].pop
        OBVIOUS
      <4>2. m[l] = MethodsOver(m[l.cold], l)
        BY <1>2
      <4> QED BY <4>1, <4>2, MethodsParts
    <3>2. CASE l.cold \in Lists
      BY <3>1, <3>2
    <3>3. CASE l.kind \in {"empty", "single"}
      BY <3>1, <3>3, ShortMethods
    <3> QED BY <1>3, <3>2, <3>3
  <2>2. f = [l \in Lists |-> PopOver(f[l.cold], l)]
    BY <2>1
  <2> HIDE DEF f
  <2> QED BY <2>2 DEF Pop, PopOver
<1>7. Chop = [l \in Lists |-> ChopOver(Chop[l.cold], l)]
  <2> DEFINE f == [l \in Lists |-> m[l].chop]
  <2>1. ASSUME NEW l \in Lists PROVE f[l] = ChopOver(f[l.cold], l)
    <3>1. f[l] = ChopOver(m[l.cold].chop, l)
      <4>1. f[l] = m[l].chop
        OBVIOUS
      <4>2. m[l] = MethodsOver(m[l.cold], l)
        BY <1>2
      <4> QED BY <4>1, <4>2, MethodsParts
    <3>2. CASE l.cold \in Lists
      BY <3>1, <3>2
    <3>3. CASE l.kind \in {"empty", "single"}
      BY <3>1, <3>3, ShortMethods
    <3> QED BY <1>3, <3>2, <3>3
  <2>2. f = [l \in Lists |-> ChopOver(f[l.cold], l)]
    BY <2>1
  <2> HIDE DEF f
  <2> QED BY <2>2 DEF Chop, ChopOver
<1>8. Content = [l \in Lists |-> ContentOver(Content[l.cold], l)]
  <2> DEFINE f == [l \in Lists |-> m[l].content]
  <2>1. ASSUME NEW l \in Lists PROVE f[l] = ContentOver(f[l.cold], l)
    <3>1. f[l] = ContentOver(m[l.cold].content, l)
      <4>1. f[l] = m[l].content
        OBVIOUS
      <4>2. m[l] = MethodsOver(m[l.cold], l)
        BY <1>2
      <4> QED BY <4>1, <4>2, MethodsParts
    <3>2. CASE l.cold \in Lists
      BY <3>1, <3>2
    <3>3. CASE l.kind \in {"empty", "single"}
      BY <3>1, <3>3, ShortMethods
    <3> QED BY <1>3, <3>2, <3>3
  <2>2. f = [l \in Lists |-> ContentOver(f[l.cold], l)]
    BY <2>1
  <2> HIDE DEF f
  <2> QED BY <2>2 DEF Content, ContentOver
<1>9. DepthsOf = [l \in Lists |-> DepthsOver(DepthsOf[l.cold], l)]
  <2> DEFINE f == [l \in Lists |-> m[l].depths]
  <2>1. ASSUME NEW l \in Lists PROVE f[l] = DepthsOver(f[l.cold], l)
    <3>1. f[l] = DepthsOver(m[l.cold].depths, l)
      <4>1. f[l] = m[l].depths
        OBVIOUS
      <4>2. m[l] = MethodsOver(m[l.cold], l)
        BY <1>2
      <4> QED BY <4>1, <4>2, MethodsParts
    <3>2. CASE l.cold \in Lists
      BY <3>1, <3>2
    <3>3. CASE l.kind \in {"empty", "single"}
      BY <3>1, <3>3, ShortMethods
    <3> QED BY <1>3, <3>2, <3>3
  <2>2. f = [l \in Lists |-> DepthsOver(f[l.cold], l)]
    BY <2>1
  <2> HIDE DEF f
  <2> QED BY <2>2 DEF DepthsOf, DepthsOver
<1>10. Lookup = [l \in Lists |-> LookupOver(Lookup[l.cold], l)]
  <2> DEFINE f == [l \in Lists |-> m[l].lookup]
  <2>1. ASSUME NEW l \in Lists PROVE f[l] = LookupOver(f[l.cold], l)
    <3>1. f[l] = LookupOver(m[l.cold].lookup, l)
      <4>1. f[l] = m[l].lookup
        OBVIOUS
      <4>2. m[l] = MethodsOver(m[l.cold], l)
        BY <1>2
      <4> QED BY <4>1, <4>2, MethodsParts
    <3>2. CASE l.cold \in Lists
      BY <3>1, <3>2
    <3>3. CASE l.kind \in {"empty", "single"}
      BY <3>1, <3>3, ShortMethods
    <3> QED BY <1>3, <3>2, <3>3
  <2>2. f = [l \in Lists |-> LookupOver(f[l.cold], l)]
    BY <2>1
  <2> HIDE DEF f
  <2> QED BY <2>2 DEF Lookup, LookupOver
<1>11. Partition = [l \in Lists |-> PartitionOver(Partition[l.cold], l)]
  <2> DEFINE f == [l \in Lists |-> m[l].partition]
  <2>1. ASSUME NEW l \in Lists PROVE f[l] = PartitionOver(f[l.cold], l)
    <3>1. f[l] = PartitionOver(m[l.cold].partition, l)
      <4>1. f[l] = m[l].partition
        OBVIOUS
      <4>2. m[l] = MethodsOver(m[l.cold], l)
        BY <1>2
      <4> QED BY <4>1, <4>2, MethodsParts
    <3>2. CASE l.cold \in Lists
      BY <3>1, <3>2
    <3>3. CASE l.kind \in {"empty", "single"}
      BY <3>1, <3>3, ShortMethods
    <3> QED BY <1>3, <3>2, <3>3
  <2>2. f = [l \in Lists |-> PartitionOver(f[l.cold], l)]
    BY <2>1
  <2> HIDE DEF f
  <2> QED BY <2>2 DEF Partition, PartitionOver
<1> QED BY <1>4, <1>5, <1>6, <1>7, <1>8, <1>9, <1>10, <1>11

-----------------------------------------------------------------------------
(* Sequences of leaves.                                                     *)
\* To prove something of all sequences, prove it of the empty one and of any
\* that is appended to.
LEMMA AppendInduction ==
  ASSUME NEW S, NEW P \in SUBSET Seq(S), << >> \in P,
         \A s \in P, e \in S : Append(s, e) \in P
  PROVE  P = Seq(S)
<1> DEFINE Has == {n \in Nat : \A s \in Seq(S) : Len(s) = n => s \in P}
<1>1. 0 \in Has
  BY EmptySeq
<1>2. ASSUME NEW n \in Has PROVE n + 1 \in Has
  <2> SUFFICES ASSUME NEW s \in Seq(S), Len(s) = n + 1 PROVE s \in P
    OBVIOUS
  <2>1. n \in Nat /\ s # << >>
    BY EmptySeq
  <2>2. PICK r \in Seq(S), e \in S : s = Append(r, e)
    BY <2>1, SequenceEmptyOrAppend
  <2>3. Len(s) = Len(r) + 1 /\ Len(r) \in Nat
    BY <2>2, AppendProperties, LenProperties
  <2>4. Len(r) = n
    BY <2>1, <2>3
  <2> QED BY <2>2, <2>4
<1> HIDE DEF Has
<1>3. Has = Nat
  BY <1>1, <1>2, Induction DEF Has
<1>4. ASSUME NEW s \in Seq(S) PROVE s \in P
  <2>1. Len(s) \in Has
    BY <1>3, LenProperties
  <2> QED BY <2>1 DEF Has
<1> QED BY <1>4

FlatOver(prev, i, seqs) ==
    IF i = 0 THEN << >> ELSE IF i = 1 THEN seqs[i] ELSE prev \o seqs[i]

LEMMA FlatExists ==
  ASSUME NEW seqs, NEW n \in Nat
  PROVE  \E f : f = [i \in 0..n |-> FlatOver(f[i - 1], i, seqs)]
<1> DEFINE Has == {m \in Nat : \E f : f = [i \in 0..m |-> FlatOver(f[i - 1], i, seqs)]}
<1>0. \A a, b : FlatOver(a, 0, seqs) = FlatOver(b, 0, seqs)
  BY DEF FlatOver
<1>1. 0 \in Has
  <2> DEFINE f == [i \in 0..0 |-> FlatOver({}, 0, seqs)]
  <2>1. f = [i \in 0..0 |-> FlatOver(f[i - 1], i, seqs)]
    BY <1>0
  <2> QED BY <2>1
<1>2. ASSUME NEW m \in Has PROVE m + 1 \in Has
  <2>1. PICK f : f = [i \in 0..m |-> FlatOver(f[i - 1], i, seqs)]
    OBVIOUS
  <2> DEFINE g == [i \in 0..(m + 1) |-> IF i <= m THEN f[i] ELSE FlatOver(f[m], m + 1, seqs)]
  <2>2. m \in Nat
    OBVIOUS
  <2>3. ASSUME NEW i \in 0..(m + 1) PROVE g[i] = FlatOver(g[i - 1], i, seqs)
    <3>1. CASE i = 0
      <4>1. g[i] = f[0] /\ f[0] = FlatOver(f[0 - 1], 0, seqs)
        BY <2>1, <2>2, <3>1
      <4> QED BY <1>0, <3>1, <4>1
    <3>2. CASE i \in 1..m
      <4>1. g[i] = f[i] /\ g[i - 1] = f[i - 1] /\ f[i] = FlatOver(f[i - 1], i, seqs)
        BY <2>1, <2>2, <3>2
      <4> QED BY <4>1
    <3>3. CASE i = m + 1
      <4>1. i - 1 = m /\ g[i - 1] = f[m] /\ g[i] = FlatOver(f[m], m + 1, seqs)
        BY <2>2, <3>3
      <4> QED BY <3>3, <4>1
    <3> QED BY <2>2, <3>1, <3>2, <3>3
  <2>4. g = [i \in 0..(m + 1) |-> FlatOver(g[i - 1], i, seqs)]
    BY <2>3
  <2> HIDE DEF g
  <2>5. m + 1 \in Nat /\ \E h : h = [i \in 0..(m + 1) |-> FlatOver(h[i - 1], i, seqs)]
    BY <2>2, <2>4, SMTT(30)
  <2> QED BY <2>5
<1> HIDE DEF Has
<1>3. Has = Nat
  BY <1>1, <1>2, Induction DEF Has
<1> QED BY <1>3 DEF Has

IsFlat(f, seqs) == \A i \in 1..Len(seqs) : f[i] = IF i = 1 THEN seqs[i] ELSE f[i - 1] \o seqs[i]

\* FlattenSeq puts the sequences together one after the other.
LEMMA FlatIs ==
  ASSUME NEW T, NEW seqs \in Seq(T), seqs # << >>
  PROVE  \E f : IsFlat(f, seqs) /\ FlattenSeq(seqs) = f[Len(seqs)]
<1>1. Len(seqs) \in Nat /\ Len(seqs) # 0
  BY EmptySeq
<1>2. PICK h : h = [i \in 0..Len(seqs) |-> FlatOver(h[i - 1], i, seqs)]
  BY <1>1, FlatExists
<1> DEFINE flat == [i \in 1..Len(seqs) |-> h[i]]
<1>3. flat = [i \in 1..Len(seqs) |-> IF i = 1 THEN seqs[i] ELSE flat[i - 1] \o seqs[i]]
  <2>1. ASSUME NEW i \in 1..Len(seqs)
        PROVE  flat[i] = IF i = 1 THEN seqs[i] ELSE flat[i - 1] \o seqs[i]
    <3>1. i \in 0..Len(seqs) /\ i # 0 /\ flat[i] = h[i] /\ (i # 1 => flat[i - 1] = h[i - 1])
      BY <1>1
    <3>2. h[i] = FlatOver(h[i - 1], i, seqs)
      BY <1>2, <3>1
    <3> QED BY <3>1, <3>2 DEF FlatOver
  <2> HIDE DEF flat
  <2>2. flat = [i \in 1..Len(seqs) |-> flat[i]]
    BY DEF flat
  <2> QED BY <2>1, <2>2
<1> HIDE DEF flat
<1> DEFINE g == CHOOSE f : f = [i \in 1..Len(seqs) |-> IF i = 1 THEN seqs[i] ELSE f[i - 1] \o seqs[i]]
<1>4. g = [i \in 1..Len(seqs) |-> IF i = 1 THEN seqs[i] ELSE g[i - 1] \o seqs[i]]
  BY <1>3
<1>5. FlattenSeq(seqs) = g[Len(seqs)]
  BY <1>1 DEF FlattenSeq
<1> HIDE DEF g
<1>6. IsFlat(g, seqs)
  BY <1>4 DEF IsFlat
<1> QED BY <1>5, <1>6

SameUpTo(s, t, n) ==
    Len(s) \in Nat /\ Len(t) \in Nat /\ n <= Len(s) /\ n <= Len(t) /\ \A i \in 1..n : s[i] = t[i]

LEMMA FlatsAgree ==
  ASSUME NEW s, NEW t, NEW f, NEW g, IsFlat(f, s), IsFlat(g, t),
         NEW n \in Nat, n >= 1, SameUpTo(s, t, n)
  PROVE  f[n] = g[n]
<1> USE DEF SameUpTo
<1> DEFINE Same == {k \in Nat : 1 <= k /\ k <= n => f[k] = g[k]}
<1>1. 0 \in Same
  OBVIOUS
<1>2. ASSUME NEW k \in Same PROVE k + 1 \in Same
  <2> SUFFICES ASSUME k + 1 <= n PROVE f[k + 1] = g[k + 1]
    OBVIOUS
  <2>1. k \in Nat /\ k + 1 \in 1..n /\ k + 1 \in 1..Len(s) /\ k + 1 \in 1..Len(t) /\ (k + 1) - 1 = k
    OBVIOUS
  <2>2. /\ f[k + 1] = IF k + 1 = 1 THEN s[k + 1] ELSE f[k] \o s[k + 1]
        /\ g[k + 1] = IF k + 1 = 1 THEN t[k + 1] ELSE g[k] \o t[k + 1]
    BY <2>1 DEF IsFlat
  <2>3. k + 1 # 1 => f[k] = g[k]
    BY <2>1
  <2>4. s[k + 1] = t[k + 1]
    BY <2>1
  <2> QED BY <2>2, <2>3, <2>4
<1> HIDE DEF Same
<1>3. Same = Nat
  BY <1>1, <1>2, Induction DEF Same
<1> QED BY <1>3 DEF Same

LEMMA FlattenEmpty == FlattenSeq(<< >>) = << >>
BY DEF FlattenSeq

LEMMA FlattenAppend ==
  ASSUME NEW S, NEW seqs \in Seq(Seq(S)), NEW s \in Seq(S)
  PROVE  FlattenSeq(Append(seqs, s)) = FlattenSeq(seqs) \o s
<1> DEFINE all == Append(seqs, s)
           n == Len(seqs)
<1>1. all \in Seq(Seq(S)) /\ all # << >> /\ Len(all) = n + 1 /\ n \in Nat
      /\ \A i \in 1..n : all[i] = seqs[i]
  BY AppendProperties, LenProperties
<1>2. all[n + 1] = s
  BY AppendProperties
<1> HIDE DEF all
<1>3. PICK f : IsFlat(f, all) /\ FlattenSeq(all) = f[n + 1]
  BY <1>1, FlatIs
<1>4. f[n + 1] = IF n + 1 = 1 THEN all[n + 1] ELSE f[(n + 1) - 1] \o all[n + 1]
  BY <1>1, <1>3 DEF IsFlat
<1>5. CASE seqs = << >>
  <2>1. n = 0
    BY <1>5, EmptySeq
  <2>2. FlattenSeq(all) = s
    BY <1>2, <1>3, <1>4, <2>1
  <2>3. FlattenSeq(seqs) \o s = s
    BY <1>5, FlattenEmpty, ConcatEmptySeq
  <2> QED BY <2>2, <2>3 DEF all
<1>6. CASE seqs # << >>
  <2>1. n >= 1 /\ n + 1 # 1 /\ (n + 1) - 1 = n
    BY <1>6, <1>1, EmptySeq
  <2>2. PICK g : IsFlat(g, seqs) /\ FlattenSeq(seqs) = g[n]
    BY <1>6, FlatIs
  <2>3. f[n] = g[n]
    <3>1. SameUpTo(all, seqs, n)
      BY <1>1 DEF SameUpTo
    <3>2. n \in Nat /\ n >= 1
      BY <1>1, <2>1
    <3> HIDE DEF n
    <3> QED BY <1>3, <2>2, <3>1, <3>2, FlatsAgree
  <2> QED BY <1>2, <1>3, <1>4, <2>1, <2>2, <2>3 DEF all
<1> QED BY <1>5, <1>6

LEMMA FlattenType == \A S : \A seqs \in Seq(Seq(S)) : FlattenSeq(seqs) \in Seq(S)
<1> SUFFICES ASSUME NEW S PROVE \A seqs \in Seq(Seq(S)) : FlattenSeq(seqs) \in Seq(S)
  OBVIOUS
<1> DEFINE P == {seqs \in Seq(Seq(S)) : FlattenSeq(seqs) \in Seq(S)}
<1>1. << >> \in P
  BY FlattenEmpty, EmptySeq
<1>2. ASSUME NEW seqs \in P, NEW s \in Seq(S) PROVE Append(seqs, s) \in P
  <2>1. seqs \in Seq(Seq(S)) /\ FlattenSeq(seqs) \in Seq(S)
    OBVIOUS
  <2>2. Append(seqs, s) \in Seq(Seq(S))
    BY <2>1, AppendProperties
  <2>3. FlattenSeq(Append(seqs, s)) = FlattenSeq(seqs) \o s
    BY <2>1, FlattenAppend
  <2> QED BY <2>1, <2>2, <2>3, ConcatProperties
<1> HIDE DEF P
<1>3. P = Seq(Seq(S))
  BY <1>1, <1>2, AppendInduction DEF P
<1> QED BY <1>3 DEF P

\* The leaves below an item are ints.
LEMMA LeavesOfForms ==
  /\ \A v \in Items : IsLeafItem(v) => Leaves[v] = << v.leaf >>
  /\ \A v \in Items : IsAChunk(v) => Leaves[v] = LeavesOf(v.items)
<1>1. \A v \in Items : Leaves[v] = LeavesOver(Below(Leaves, v), v)
  BY LeavesIs
<1> QED BY <1>1 DEF LeavesOver, Below, LeavesOf, IsLeafItem

LEMMA LeavesType == \A v \in Items : Leaves[v] \in Seq(Int)
<1> DEFINE P == {v \in Items : Leaves[v] \in Seq(Int)}
<1>1. ASSUME NEW v \in Items, IsLeafItem(v) PROVE v \in P
  <2>1. Leaves[v] = << v.leaf >> /\ v.leaf \in Int
    BY <1>1, LeavesOfForms DEF IsLeafItem
  <2>2. << v.leaf >> \in Seq(Int)
    BY <2>1
  <2> QED BY <2>1, <2>2
<1>2. ASSUME NEW v \in Items, IsChunkOver(P, v) PROVE v \in P
  <2>1. v.items \in Seq(P) /\ IsAChunk(v)
    BY <1>2 DEF IsChunkOver
  <2> DEFINE below == [i \in DOMAIN v.items |-> Leaves[v.items[i]]]
  <2>2. Len(v.items) \in Nat /\ DOMAIN v.items = 1..Len(v.items)
        /\ \A i \in 1..Len(v.items) : v.items[i] \in P
    BY <2>1, LenProperties, ElementOfSeq
  <2>3. below \in [1..Len(v.items) -> Seq(Int)]
    BY <2>2
  <2>4. below \in Seq(Seq(Int))
    BY <2>2, <2>3, SeqDef
  <2>5. Leaves[v] = FlattenSeq(below)
    BY <2>1, LeavesOfForms DEF LeavesOf
  <2> HIDE DEF below
  <2> QED BY <2>4, <2>5, FlattenType
<1> HIDE DEF P
<1>3. P = Items
  BY <1>1, <1>2, ItemsInduction DEF P
<1> QED BY <1>3 DEF P

LEMMA BelowType ==
  ASSUME NEW items \in Seq(Items)
  PROVE  /\ [i \in DOMAIN items |-> Leaves[items[i]]] \in Seq(Seq(Int))
         /\ Len([i \in DOMAIN items |-> Leaves[items[i]]]) = Len(items)
<1> DEFINE below == [i \in DOMAIN items |-> Leaves[items[i]]]
<1>1. Len(items) \in Nat /\ DOMAIN items = 1..Len(items)
      /\ \A i \in 1..Len(items) : items[i] \in Items
  BY LenProperties, ElementOfSeq
<1>2. below \in [1..Len(items) -> Seq(Int)]
  BY <1>1, LeavesType
<1>3. below \in Seq(Seq(Int))
  BY <1>1, <1>2, SeqDef
<1>4. DOMAIN below = 1..Len(items) /\ DOMAIN below = 1..Len(below) /\ Len(below) \in Nat
  BY <1>1, <1>3, LenProperties
<1> HIDE DEF below
<1>5. Len(below) = Len(items)
  BY <1>1, <1>4
<1> QED BY <1>3, <1>5 DEF below

LEMMA LeavesOfType == \A items \in Seq(Items) : LeavesOf(items) \in Seq(Int)
BY BelowType, FlattenType DEF LeavesOf

LEMMA LeavesOfEmpty == LeavesOf(<< >>) = << >>
<1>1. [i \in DOMAIN << >> |-> Leaves[<< >>[i]]] = << >>
  OBVIOUS
<1> QED BY <1>1, FlattenEmpty DEF LeavesOf

LEMMA LeavesOfAppend ==
  ASSUME NEW items \in Seq(Items), NEW v \in Items
  PROVE  LeavesOf(Append(items, v)) = LeavesOf(items) \o Leaves[v]
<1> DEFINE all == Append(items, v)
           n == Len(items)
           below == [i \in DOMAIN items |-> Leaves[items[i]]]
           belowAll == [i \in DOMAIN all |-> Leaves[all[i]]]
<1>1. n \in Nat /\ all \in Seq(Items) /\ Len(all) = n + 1
      /\ (\A i \in 1..n : all[i] = items[i]) /\ all[n + 1] = v
  BY AppendProperties, LenProperties
<1>2. DOMAIN all = 1..(n + 1) /\ DOMAIN items = 1..n
  BY <1>1, LenProperties
<1>3. below \in Seq(Seq(Int)) /\ Len(below) = n /\ Leaves[v] \in Seq(Int)
  BY BelowType, LeavesType
<1>4. belowAll \in Seq(Seq(Int)) /\ Len(belowAll) = n + 1
  BY <1>1, BelowType
<1>5. \A i \in 1..n : below[i] = Leaves[items[i]] /\ belowAll[i] = Leaves[items[i]]
  BY <1>1, <1>2
<1>6. belowAll[n + 1] = Leaves[v]
  BY <1>1, <1>2
<1> HIDE DEF all, below, belowAll
<1>7. belowAll = Append(below, Leaves[v])
  <2>1. /\ Append(below, Leaves[v]) \in Seq(Seq(Int))
        /\ Len(Append(below, Leaves[v])) = n + 1
        /\ \A i \in 1..n : Append(below, Leaves[v])[i] = below[i]
        /\ Append(below, Leaves[v])[n + 1] = Leaves[v]
    BY <1>3, AppendProperties
  <2>2. \A i \in 1..(n + 1) : belowAll[i] = Append(below, Leaves[v])[i]
    BY <1>1, <1>5, <1>6, <2>1
  <2> QED BY <1>4, <2>1, <2>2, SeqEqual
<1>8. FlattenSeq(belowAll) = FlattenSeq(below) \o Leaves[v]
  BY <1>3, <1>7, FlattenAppend
<1> QED BY <1>8 DEF LeavesOf, all, below, belowAll

LEMMA LeavesAssociate ==
  \A r, s, t \in Seq(Int) : (r \o s) \o t = r \o (s \o t)
<1> SUFFICES ASSUME NEW r \in Seq(Int), NEW s \in Seq(Int), NEW t \in Seq(Int)
             PROVE  (r \o s) \o t = r \o (s \o t)
  OBVIOUS
<1> QED BY ConcatAssociative

LEMMA LeavesJoin ==
  \A s, t \in Seq(Int) :
    s \o t \in Seq(Int) /\ Len(s \o t) = Len(s) + Len(t) /\ Len(s) \in Nat /\ Len(t) \in Nat
BY ConcatProperties, LenProperties

\* The leaves of two sequences of items, one after the other.
LEMMA LeavesOfConcat ==
  \A s, t \in Seq(Items) : LeavesOf(s \o t) = LeavesOf(s) \o LeavesOf(t)
<1> SUFFICES ASSUME NEW s \in Seq(Items)
             PROVE  \A t \in Seq(Items) : LeavesOf(s \o t) = LeavesOf(s) \o LeavesOf(t)
  OBVIOUS
<1> DEFINE P == {t \in Seq(Items) : LeavesOf(s \o t) = LeavesOf(s) \o LeavesOf(t)}
<1>0. LeavesOf(s) \in Seq(Int)
  BY LeavesOfType
<1>1. << >> \in P
  BY <1>0, LeavesOfEmpty, ConcatEmptySeq, EmptySeq
<1>2. ASSUME NEW t \in P, NEW v \in Items PROVE Append(t, v) \in P
  <2>1. t \in Seq(Items) /\ LeavesOf(s \o t) = LeavesOf(s) \o LeavesOf(t)
    OBVIOUS
  <2>2. Append(t, v) \in Seq(Items) /\ s \o t \in Seq(Items)
    BY <2>1, AppendProperties, ConcatProperties
  <2>3. s \o Append(t, v) = Append(s \o t, v)
    <3>1. << v >> \in Seq(Items) /\ Append(t, v) = t \o << v >> /\ Append(s \o t, v) = (s \o t) \o << v >>
      BY <2>1, <2>2, AppendIsConcat
    <3> QED BY <2>1, <3>1, ConcatAssociative
  <2>4. LeavesOf(Append(s \o t, v)) = (LeavesOf(s) \o LeavesOf(t)) \o Leaves[v]
    BY <2>1, <2>2, LeavesOfAppend
  <2>5. LeavesOf(Append(t, v)) = LeavesOf(t) \o Leaves[v]
    BY <2>1, LeavesOfAppend
  <2>6. LeavesOf(t) \in Seq(Int) /\ Leaves[v] \in Seq(Int)
    BY <2>1, LeavesOfType, LeavesType
  <2>7. (LeavesOf(s) \o LeavesOf(t)) \o Leaves[v] = LeavesOf(s) \o (LeavesOf(t) \o Leaves[v])
    BY <1>0, <2>6, LeavesAssociate
  <2> QED BY <2>2, <2>3, <2>4, <2>5, <2>7
<1> HIDE DEF P
<1>3. P = Seq(Items)
  BY <1>1, <1>2, AppendInduction DEF P
<1> QED BY <1>3 DEF P

LEMMA LeavesOfOne == \A v \in Items : LeavesOf(<< v >>) = Leaves[v] /\ << v >> \in Seq(Items)
<1> SUFFICES ASSUME NEW v \in Items PROVE LeavesOf(<< v >>) = Leaves[v] /\ << v >> \in Seq(Items)
  OBVIOUS
<1>1. << >> \in Seq(Items) /\ Append(<< >>, v) = << v >> /\ << v >> \in Seq(Items)
  OBVIOUS
<1>2. LeavesOf(Append(<< >>, v)) = LeavesOf(<< >>) \o Leaves[v]
  BY <1>1, LeavesOfAppend
<1> QED BY <1>1, <1>2, LeavesOfEmpty, LeavesType, ConcatEmptySeq

-----------------------------------------------------------------------------
(* Chunks of well-shaped items.                                             *)
LEMMA PrefixGrows ==
  ASSUME NEW S, NEW s \in Seq(S), NEW i \in 1..Len(s)
  PROVE  /\ SubSeq(s, 1, i - 1) \in Seq(S) /\ s[i] \in S
         /\ SubSeq(s, 1, i) = Append(SubSeq(s, 1, i - 1), s[i])
<1>1. Len(s) \in Nat /\ 1 \in 1..Len(s) /\ i \in 1..Len(s) /\ \A k \in 1..Len(s) : s[k] \in S
  BY LenProperties, ElementOfSeq
<1>2. SubSeq(s, 1, i) = SubSeq(s, 1, i - 1) \o << s[i] >>
  BY <1>1, SubSeqRecursiveSecond
<1>3. SubSeq(s, 1, i - 1) \in Seq(S)
  <2>1. i - 1 \in Int /\ \A k \in 1..(i - 1) : s[k] \in S
    BY <1>1
  <2> QED BY <2>1, SubSeqProperties
<1>4. Append(SubSeq(s, 1, i - 1), s[i]) = SubSeq(s, 1, i - 1) \o << s[i] >>
  BY <1>1, <1>3, AppendIsConcat
<1> QED BY <1>1, <1>2, <1>3, <1>4

LEMMA PrefixEnds ==
  ASSUME NEW S, NEW s \in Seq(S)
  PROVE  SubSeq(s, 1, 0) = << >> /\ SubSeq(s, 1, Len(s)) = s
BY SubSeqEmpty, SubSeqFull

\* The leaves below the first items of a sequence.
LEMMA LeavesOfPrefix ==
  ASSUME NEW items \in Seq(Items), NEW i \in 1..Len(items)
  PROVE  LeavesOf(SubSeq(items, 1, i)) = LeavesOf(SubSeq(items, 1, i - 1)) \o Leaves[items[i]]
BY PrefixGrows, LeavesOfAppend

\* Items that know how many leaves they have, and have one at least.
Counted == {v \in Items : LeavesInValue(v) = Len(Leaves[v]) /\ Len(Leaves[v]) >= 1}

SumOver(prev, i, items) == IF i = 0 THEN 0 ELSE prev + LeavesInValue(items[i])

LEMMA SumExists ==
  ASSUME NEW items, NEW n \in Nat
  PROVE  \E f : f = [i \in 0..n |-> SumOver(f[i - 1], i, items)]
<1> DEFINE Has == {m \in Nat : \E f : f = [i \in 0..m |-> SumOver(f[i - 1], i, items)]}
<1>0. \A a, b : SumOver(a, 0, items) = SumOver(b, 0, items)
  BY DEF SumOver
<1>1. 0 \in Has
  <2> DEFINE f == [i \in 0..0 |-> SumOver({}, 0, items)]
  <2>1. f = [i \in 0..0 |-> SumOver(f[i - 1], i, items)]
    BY <1>0
  <2> QED BY <2>1
<1>2. ASSUME NEW m \in Has PROVE m + 1 \in Has
  <2>1. PICK f : f = [i \in 0..m |-> SumOver(f[i - 1], i, items)]
    OBVIOUS
  <2> DEFINE g == [i \in 0..(m + 1) |-> IF i <= m THEN f[i] ELSE SumOver(f[m], m + 1, items)]
  <2>2. m \in Nat
    OBVIOUS
  <2>3. ASSUME NEW i \in 0..(m + 1) PROVE g[i] = SumOver(g[i - 1], i, items)
    <3>1. CASE i = 0
      <4>1. g[i] = f[0] /\ f[0] = SumOver(f[0 - 1], 0, items)
        BY <2>1, <2>2, <3>1
      <4> QED BY <1>0, <3>1, <4>1
    <3>2. CASE i \in 1..m
      <4>1. g[i] = f[i] /\ g[i - 1] = f[i - 1] /\ f[i] = SumOver(f[i - 1], i, items)
        BY <2>1, <2>2, <3>2
      <4> QED BY <4>1
    <3>3. CASE i = m + 1
      <4>1. i - 1 = m /\ g[i - 1] = f[m] /\ g[i] = SumOver(f[m], m + 1, items)
        BY <2>2, <3>3
      <4> QED BY <3>3, <4>1
    <3> QED BY <2>2, <3>1, <3>2, <3>3
  <2>4. g = [i \in 0..(m + 1) |-> SumOver(g[i - 1], i, items)]
    BY <2>3
  <2> HIDE DEF g
  <2>5. m + 1 \in Nat /\ \E h : h = [i \in 0..(m + 1) |-> SumOver(h[i - 1], i, items)]
    BY <2>2, <2>4, SMTT(30)
  <2> QED BY <2>5
<1> HIDE DEF Has
<1>3. Has = Nat
  BY <1>1, <1>2, Induction DEF Has
<1> QED BY <1>3 DEF Has

\* Items that know their leaves add up to what they have, one each at least.
LEMMA SumIs ==
  \A items \in Seq(Counted) : SumOfLeaves(items) = Len(LeavesOf(items)) /\ Len(LeavesOf(items)) >= Len(items)
<1> SUFFICES ASSUME NEW items \in Seq(Counted)
             PROVE  SumOfLeaves(items) = Len(LeavesOf(items)) /\ Len(LeavesOf(items)) >= Len(items)
  OBVIOUS
<1>0. Counted \subseteq Items /\ items \in Seq(Items) /\ Len(items) \in Nat
  BY SeqMonotonic, LenProperties DEF Counted
<1> DEFINE n == Len(items)
           sum == CHOOSE f : f = [i \in 0..n |-> IF i = 0 THEN 0 ELSE f[i - 1] + LeavesInValue(items[i])]
<1>1. sum = [i \in 0..n |-> IF i = 0 THEN 0 ELSE sum[i - 1] + LeavesInValue(items[i])]
  BY <1>0, SumExists DEF SumOver
<1>2. SumOfLeaves(items) = sum[n]
  BY DEF SumOfLeaves
<1> HIDE DEF sum
<1> DEFINE Has == {i \in Nat : i <= n => /\ sum[i] = Len(LeavesOf(SubSeq(items, 1, i)))
                                         /\ Len(LeavesOf(SubSeq(items, 1, i))) >= i}
<1>3. 0 \in Has
  <2>1. LeavesOf(SubSeq(items, 1, 0)) = << >> /\ Len(LeavesOf(SubSeq(items, 1, 0))) = 0
    BY <1>0, PrefixEnds, LeavesOfEmpty, EmptySeq
  <2>2. sum[0] = 0
    BY <1>0, <1>1
  <2> QED BY <2>1, <2>2
<1>4. ASSUME NEW i \in Has PROVE i + 1 \in Has
  <2> SUFFICES ASSUME i + 1 <= n
               PROVE  /\ sum[i + 1] = Len(LeavesOf(SubSeq(items, 1, i + 1)))
                      /\ Len(LeavesOf(SubSeq(items, 1, i + 1))) >= i + 1
    OBVIOUS
  <2> DEFINE prefix == LeavesOf(SubSeq(items, 1, i))
             more == Leaves[items[i + 1]]
  <2>1. i \in Nat /\ i + 1 \in 1..n /\ (i + 1) - 1 = i /\ i <= n
    BY <1>0
  <2>2. sum[i] = Len(prefix) /\ Len(prefix) >= i
    BY <2>1
  <2>3. items[i + 1] \in Counted /\ SubSeq(items, 1, i) \in Seq(Items)
    <3>1. SubSeq(items, 1, (i + 1) - 1) \in Seq(Counted) /\ items[i + 1] \in Counted
      BY <2>1, PrefixGrows
    <3> QED BY <1>0, <2>1, <3>1, SeqMonotonic
  <2>4. LeavesOf(SubSeq(items, 1, i + 1)) = prefix \o more
    <3>1. LeavesOf(SubSeq(items, 1, i + 1)) = LeavesOf(SubSeq(items, 1, (i + 1) - 1)) \o more
      BY <1>0, <2>1, LeavesOfPrefix
    <3> QED BY <2>1, <3>1
  <2>5. LeavesInValue(items[i + 1]) = Len(more) /\ Len(more) >= 1
    BY <2>3 DEF Counted
  <2>6. prefix \in Seq(Int) /\ more \in Seq(Int)
    BY <1>0, <2>3, LeavesOfType, LeavesType
  <2>7. sum[i + 1] = sum[i] + LeavesInValue(items[i + 1])
    <3>1. i + 1 \in 0..n /\ i + 1 # 0
      BY <1>0, <2>1
    <3>2. sum[i + 1] = sum[(i + 1) - 1] + LeavesInValue(items[i + 1])
      BY <1>1, <3>1
    <3> QED BY <2>1, <3>2
  <2>8. Len(prefix \o more) = Len(prefix) + Len(more) /\ Len(prefix) \in Nat /\ Len(more) \in Nat
    BY <2>6, LeavesJoin
  <2> HIDE DEF prefix, more
  <2> QED BY <2>1, <2>2, <2>4, <2>5, <2>7, <2>8
<1> HIDE DEF Has
<1>5. Has = Nat
  BY <1>3, <1>4, Induction DEF Has
<1>6. sum[n] = Len(LeavesOf(SubSeq(items, 1, n))) /\ Len(LeavesOf(SubSeq(items, 1, n))) >= n
  BY <1>0, <1>5 DEF Has
<1> QED BY <1>0, <1>2, <1>6, PrefixEnds

AtOver(prev, d) == IF d = 0 THEN {v \in Items : ~ IsAChunk(v)} ELSE ChunksOf(prev, 3)

LEMMA AtExists ==
  ASSUME NEW n \in Nat
  PROVE  \E f : f = [i \in 0..n |-> AtOver(f[i - 1], i)]
<1> DEFINE Has == {m \in Nat : \E f : f = [i \in 0..m |-> AtOver(f[i - 1], i)]}
<1>0. \A a, b : AtOver(a, 0) = AtOver(b, 0)
  BY DEF AtOver
<1>1. 0 \in Has
  <2> DEFINE f == [i \in 0..0 |-> AtOver({}, 0)]
  <2>1. f = [i \in 0..0 |-> AtOver(f[i - 1], i)]
    BY <1>0
  <2> QED BY <2>1
<1>2. ASSUME NEW m \in Has PROVE m + 1 \in Has
  <2>1. PICK f : f = [i \in 0..m |-> AtOver(f[i - 1], i)]
    OBVIOUS
  <2> DEFINE g == [i \in 0..(m + 1) |-> IF i <= m THEN f[i] ELSE AtOver(f[m], m + 1)]
  <2>2. m \in Nat
    OBVIOUS
  <2>3. ASSUME NEW i \in 0..(m + 1) PROVE g[i] = AtOver(g[i - 1], i)
    <3>1. CASE i = 0
      <4>1. g[i] = f[0] /\ f[0] = AtOver(f[0 - 1], 0)
        BY <2>1, <2>2, <3>1
      <4> QED BY <1>0, <3>1, <4>1
    <3>2. CASE i \in 1..m
      <4>1. g[i] = f[i] /\ g[i - 1] = f[i - 1] /\ f[i] = AtOver(f[i - 1], i)
        BY <2>1, <2>2, <3>2
      <4> QED BY <4>1
    <3>3. CASE i = m + 1
      <4>1. i - 1 = m /\ g[i - 1] = f[m] /\ g[i] = AtOver(f[m], m + 1)
        BY <2>2, <3>3
      <4> QED BY <3>3, <4>1
    <3> QED BY <2>2, <3>1, <3>2, <3>3
  <2>4. g = [i \in 0..(m + 1) |-> AtOver(g[i - 1], i)]
    BY <2>3
  <2> HIDE DEF g
  <2>5. m + 1 \in Nat /\ \E h : h = [i \in 0..(m + 1) |-> AtOver(h[i - 1], i)]
    BY <2>2, <2>4
  <2> QED BY <2>5
<1> HIDE DEF Has
<1>3. Has = Nat
  BY <1>1, <1>2, Induction DEF Has
<1> QED BY <1>3 DEF Has

\* The items at one level are chunks of one to three of the level below.
LEMMA AtUnfold ==
  /\ ItemsAt[0] = {v \in Items : ~ IsAChunk(v)}
  /\ \A d \in Nat : d < Depth => ItemsAt[d + 1] = ChunksOf(ItemsAt[d], 3)
<1>1. ItemsAt = [d \in 0..Depth |-> AtOver(ItemsAt[d - 1], d)]
  BY DepthType, AtExists DEF ItemsAt, AtOver
<1>2. 0 \in 0..Depth /\ \A d \in Nat : d < Depth => d + 1 \in 0..Depth /\ (d + 1) - 1 = d /\ d + 1 # 0
  BY DepthType
<1>3. ItemsAt[0] = AtOver(ItemsAt[0 - 1], 0)
  BY <1>1, <1>2
<1>4. \A d \in Nat : d < Depth => ItemsAt[d + 1] = AtOver(ItemsAt[d], d + 1)
  BY <1>1, <1>2
<1> QED BY <1>2, <1>3, <1>4 DEF AtOver

\* A chunk over some items, when those count their leaves.
LEMMA ChunkCounts ==
  ASSUME NEW S \in SUBSET Counted, NEW most \in Nat, NEW c \in ChunksOf(S, most)
  PROVE  /\ c \in Items /\ IsAChunk(c) /\ c.items \in Seq(S) /\ c \in Counted
         /\ chunk_item_count(c) = Len(c.items) /\ Len(c.items) \in 1..most
         /\ Leaves[c] = LeavesOf(c.items) /\ c.leaves = Len(Leaves[c])
         /\ c = [items |-> c.items, leaves |-> c.leaves]
<1>1. /\ c \in Items /\ IsAChunk(c) /\ chunk_item_count(c) = Len(c.items)
      /\ Len(c.items) \in 1..most /\ c.leaves = Len(Leaves[c])
      /\ \A i \in DOMAIN c.items : c.items[i] \in S
  BY DEF ChunksOf, chunk_item_count
<1>2. c.items \in Seq(Items) /\ c = [items |-> c.items, leaves |-> c.leaves]
  BY <1>1, ItemForms DEF IsLeafItem, IsChunkOver
<1>3. c.items \in Seq(S)
  <2>1. Len(c.items) \in Nat /\ DOMAIN c.items = 1..Len(c.items) /\ c.items \in [1..Len(c.items) -> Items]
    BY <1>2, LenProperties
  <2>2. c.items \in [1..Len(c.items) -> S]
    BY <1>1, <2>1
  <2> QED BY <2>1, <2>2, SeqDef
<1>4. Leaves[c] = LeavesOf(c.items)
  BY <1>1, LeavesOfForms
<1>5. c.items \in Seq(Counted)
  BY <1>3, SeqMonotonic
<1>6. Len(Leaves[c]) >= 1
  <2>1. Len(LeavesOf(c.items)) >= Len(c.items) /\ LeavesOf(c.items) \in Seq(Int)
    BY <1>2, <1>5, SumIs, LeavesOfType
  <2>2. Len(LeavesOf(c.items)) \in Nat
    BY <2>1, LenProperties
  <2> QED BY <1>1, <1>4, <2>1, <2>2
<1>7. c \in Counted
  BY <1>1, <1>6 DEF Counted, LeavesInValue
<1> QED BY <1>1, <1>2, <1>3, <1>4, <1>7

\* Well-shaped items count their leaves and do not go deeper than they say.
LEMMA AtCounted == \A d \in 0..Depth : ItemsAt[d] \subseteq Counted /\ ItemsAt[d] \subseteq ItemsTo[d]
<1> DEFINE Has == {d \in Nat : d <= Depth => ItemsAt[d] \subseteq Counted /\ ItemsAt[d] \subseteq ItemsTo[d]}
<1>1. 0 \in Has
  <2> SUFFICES ASSUME NEW v \in ItemsAt[0] PROVE v \in Counted /\ v \in ItemsTo[0]
    OBVIOUS
  <2>1. v \in Items /\ ~ IsAChunk(v)
    BY AtUnfold
  <2>2. IsLeafItem(v)
    BY <2>1, ItemForms DEF IsChunkOver
  <2>3. Leaves[v] = << v.leaf >> /\ Len(<< v.leaf >>) = 1
    BY <2>1, <2>2, LeavesOfForms
  <2>4. v \in Counted
    <3>1. LeavesInValue(v) = 1
      BY <2>1 DEF LeavesInValue
    <3>2. Len(Leaves[v]) = 1
      BY <2>3
    <3> QED BY <2>1, <3>1, <3>2 DEF Counted
  <2>5. v \in ItemsTo[0]
    BY <2>2, MadeOfParts
  <2> QED BY <2>4, <2>5
<1>2. ASSUME NEW d \in Has PROVE d + 1 \in Has
  <2> SUFFICES ASSUME d + 1 <= Depth, NEW v \in ItemsAt[d + 1]
               PROVE  v \in Counted /\ v \in ItemsTo[d + 1]
    OBVIOUS
  <2>1. d \in Nat /\ d < Depth
    BY DepthType
  <2>2. ItemsAt[d] \subseteq Counted /\ ItemsAt[d] \subseteq ItemsTo[d]
    BY <2>1, DepthType
  <2>3. v \in ChunksOf(ItemsAt[d], 3)
    BY <2>1, AtUnfold
  <2>4. /\ v \in Items /\ IsAChunk(v) /\ v.items \in Seq(ItemsAt[d]) /\ v \in Counted
        /\ v = [items |-> v.items, leaves |-> v.leaves]
    <3>1. ItemsAt[d] \in SUBSET Counted /\ 3 \in Nat
      BY <2>2
    <3> QED BY <2>3, <3>1, ChunkCounts
  <2>5. v.leaves \in Int
    BY <2>4, ItemForms DEF IsLeafItem, IsChunkOver
  <2>6. v.items \in Seq(ItemsTo[d])
    BY <2>2, <2>4, SeqMonotonic
  <2>7. IsChunkOver(ItemsTo[d], v)
    BY <2>4, <2>5, <2>6 DEF IsChunkOver
  <2> QED BY <2>1, <2>4, <2>7, MadeOfParts
<1> HIDE DEF Has
<1>3. Has = Nat
  BY <1>1, <1>2, Induction DEF Has
<1> QED BY <1>3, DepthType DEF Has

LEMMA CountRange ==
  \A n : n \in 1..4 => n \in Nat /\ n # 0 /\ n >= 1 /\ n <= 4 /\ (n <= 3 => n \in 1..3)
OBVIOUS

LEMMA LessOne == \A n : n \in Nat \ {0} => n >= 1 /\ n - 1 = IF 1 <= n - 1 THEN (n - 1) - 1 + 1 ELSE 0
OBVIOUS

\* The first item of a sequence and the rest, and the last and the rest.
LEMMA HeadOff ==
  ASSUME NEW S, NEW s \in Seq(S), s # << >>
  PROVE  /\ s[1] \in S /\ Tail(s) \in Seq(S) /\ Len(Tail(s)) = Len(s) - 1 /\ Len(s) >= 1
         /\ s = << s[1] >> \o Tail(s)
<1>1. Len(s) \in Nat \ {0}
  BY EmptySeq
<1>2. s[1] \in S
  BY <1>1, ElementOfSeq
<1>3. Tail(s) \in Seq(S) /\ Len(Tail(s)) = Len(s) - 1 /\ Tail(s) = SubSeq(s, 2, Len(s))
  BY HeadTailProperties, TailIsSubSeq
<1>4. SubSeq(s, 1, Len(s)) = << s[1] >> \o SubSeq(s, 1 + 1, Len(s)) /\ SubSeq(s, 1, Len(s)) = s
  BY <1>1, SubSeqRecursiveFirst, SubSeqFull
<1> QED BY <1>1, <1>2, <1>3, <1>4

LEMMA TailOff ==
  ASSUME NEW S, NEW s \in Seq(S), s # << >>
  PROVE  /\ Last(s) \in S /\ Front(s) \in Seq(S) /\ Len(Front(s)) = Len(s) - 1 /\ Len(s) >= 1
         /\ s = Append(Front(s), Last(s))
<1>1. Len(s) \in Nat \ {0}
  BY EmptySeq
<1>2. s[Len(s)] \in S /\ Len(s) \in 1..Len(s)
  BY <1>1, ElementOfSeq
<1>3. SubSeq(s, 1, Len(s)) = Append(SubSeq(s, 1, Len(s) - 1), s[Len(s)])
      /\ SubSeq(s, 1, Len(s) - 1) \in Seq(S)
  BY <1>2, PrefixGrows
<1>4. SubSeq(s, 1, Len(s)) = s
  BY SubSeqFull
<1>5. Len(SubSeq(s, 1, Len(s) - 1)) = Len(s) - 1
  <2>1. \A i \in 1..(Len(s) - 1) : s[i] \in S
    BY <1>1, ElementOfSeq
  <2>2. Len(SubSeq(s, 1, Len(s) - 1)) = IF 1 <= Len(s) - 1 THEN (Len(s) - 1) - 1 + 1 ELSE 0
    <3>1. 1 \in Int /\ Len(s) - 1 \in Int
      BY <1>1
    <3> QED BY <2>1, <3>1, SubSeqProperties
  <2> QED BY <1>1, <2>2, LessOne
<1> QED BY <1>1, <1>2, <1>3, <1>4, <1>5 DEF Front, Last

\* One or two items make a sequence.
LEMMA OneAndTwo ==
  ASSUME NEW S, NEW v \in S, NEW w \in S
  PROVE  /\ << v >> \in Seq(S) /\ Len(<< v >>) = 1
         /\ << v, w >> \in Seq(S) /\ Len(<< v, w >>) = 2
         /\ << v, w >> = << v >> \o << w >> /\ << v, w >> = Append(<< v >>, w)
<1>1. << v >> \in Seq(S) /\ Len(<< v >>) = 1 /\ << v, w >> \in Seq(S) /\ Len(<< v, w >>) = 2
  OBVIOUS
<1>2. << v, w >> = Append(<< v >>, w)
  OBVIOUS
<1> QED BY <1>1, <1>2, AppendIsConcat

\* The chunks at the ends of a list of items at a depth.
EndsAt(d) == ChunksOf(ItemsAt[d], 4)

LEMMA AtTypes ==
  \A d \in Nat : d <= Depth =>
    /\ ItemsAt[d] \in SUBSET Counted /\ ItemsAt[d] \subseteq Items /\ ItemsAt[d] \subseteq ItemsTo[d]
    /\ \A s \in Seq(ItemsAt[d]) : s \in Seq(Items) /\ s \in Seq(Counted) /\ s \in Seq(ItemsTo[d])
<1> SUFFICES ASSUME NEW d \in Nat, d <= Depth
             PROVE  /\ ItemsAt[d] \in SUBSET Counted /\ ItemsAt[d] \subseteq Items
                    /\ ItemsAt[d] \subseteq ItemsTo[d]
                    /\ \A s \in Seq(ItemsAt[d]) :
                          s \in Seq(Items) /\ s \in Seq(Counted) /\ s \in Seq(ItemsTo[d])
  OBVIOUS
<1>1. ItemsAt[d] \subseteq Counted /\ ItemsAt[d] \subseteq ItemsTo[d]
  BY AtCounted, DepthType
<1>2. Counted \subseteq Items
  BY DEF Counted
<1>3. ItemsAt[d] \subseteq Items
  BY <1>1, <1>2
<1> QED BY <1>1, <1>3, SeqMonotonic

\* The leaves of well-shaped items, and how many there are.
LEMMA AtLeaves ==
  \A d \in Nat : d <= Depth =>
    \A v \in ItemsAt[d] : /\ Leaves[v] \in Seq(Int) /\ LeavesInValue(v) = Len(Leaves[v])
                          /\ Len(Leaves[v]) \in Nat /\ Len(Leaves[v]) >= 1
<1> SUFFICES ASSUME NEW d \in Nat, d <= Depth, NEW v \in ItemsAt[d]
             PROVE  /\ Leaves[v] \in Seq(Int) /\ LeavesInValue(v) = Len(Leaves[v])
                    /\ Len(Leaves[v]) \in Nat /\ Len(Leaves[v]) >= 1
  OBVIOUS
<1>1. v \in Counted /\ v \in Items
  BY AtTypes
<1>2. Leaves[v] \in Seq(Int)
  BY <1>1, LeavesType
<1> QED BY <1>1, <1>2, LenProperties DEF Counted

LEMMA MakeChunk ==
  ASSUME NEW d \in Nat, d < Depth, NEW items \in Seq(ItemsAt[d]), Len(items) \in 1..4
  PROVE  /\ ChunkOf(items) \in EndsAt(d) /\ ChunkOf(items).items = items
         /\ Leaves[ChunkOf(items)] = LeavesOf(items)
         /\ chunk_item_count(ChunkOf(items)) = Len(items)
         /\ Len(items) <= 3 => ChunkOf(items) \in ItemsAt[d + 1]
<1> DEFINE c == ChunkOf(items)
<1>1. items \in Seq(Items) /\ items \in Seq(Counted) /\ items \in Seq(ItemsTo[d])
  BY AtTypes, DepthType
<1>2. SumOfLeaves(items) = Len(LeavesOf(items)) /\ LeavesOf(items) \in Seq(Int)
  BY <1>1, SumIs, LeavesOfType
<1>3. c = [items |-> items, leaves |-> SumOfLeaves(items)]
  BY DEF ChunkOf
<1>4. c.items = items /\ c.leaves = SumOfLeaves(items) /\ IsAChunk(c)
  BY <1>3 DEF IsAChunk
<1> HIDE DEF c
<1>5. c \in Items
  <2>1. SumOfLeaves(items) \in Int
    BY <1>2, LenProperties
  <2>2. IsChunkOver(ItemsTo[d], c)
    BY <1>1, <1>3, <1>4, <2>1 DEF IsChunkOver
  <2> QED BY <2>2, MadeOfParts
<1>6. Leaves[c] = LeavesOf(items)
  BY <1>4, <1>5, LeavesOfForms
<1>7. chunk_item_count(c) = Len(items)
  BY <1>4 DEF chunk_item_count
<1>8. \A i \in DOMAIN items : items[i] \in ItemsAt[d]
  BY ElementOfSeq, LenProperties
<1>9. \A most \in Nat : Len(items) <= most => c \in ChunksOf(ItemsAt[d], most)
  BY <1>2, <1>4, <1>5, <1>6, <1>7, <1>8 DEF ChunksOf
<1>10. c \in EndsAt(d)
  <2>1. Len(items) <= 4
    BY CountRange
  <2> QED BY <1>9, <2>1 DEF EndsAt
<1>11. Len(items) <= 3 => c \in ItemsAt[d + 1]
  BY <1>9, AtUnfold
<1> QED BY <1>4, <1>6, <1>7, <1>10, <1>11 DEF c

\* What there is to know of a chunk at the end of a list.
LEMMA EndParts ==
  ASSUME NEW d \in Nat, d < Depth, NEW c \in EndsAt(d)
  PROVE  /\ c \in Items /\ IsAChunk(c) /\ c.items \in Seq(ItemsAt[d]) /\ c.items # << >>
         /\ chunk_item_count(c) = Len(c.items) /\ Len(c.items) \in 1..4
         /\ Leaves[c] = LeavesOf(c.items) /\ c.leaves = Len(Leaves[c])
         /\ Leaves[c] \in Seq(Int) /\ Len(Leaves[c]) \in Nat /\ Len(Leaves[c]) >= Len(c.items)
         /\ LeavesInValue(c) = Len(Leaves[c])
         /\ Len(c.items) <= 3 => c \in ItemsAt[d + 1]
         /\ c = ChunkOf(c.items)
<1>1. ItemsAt[d] \in SUBSET Counted /\ c \in ChunksOf(ItemsAt[d], 4) /\ 4 \in Nat
  BY AtTypes, DepthType DEF EndsAt
<1>2. /\ c \in Items /\ IsAChunk(c) /\ c.items \in Seq(ItemsAt[d]) /\ c \in Counted
      /\ chunk_item_count(c) = Len(c.items) /\ Len(c.items) \in 1..4
      /\ Leaves[c] = LeavesOf(c.items) /\ c.leaves = Len(Leaves[c])
      /\ c = [items |-> c.items, leaves |-> c.leaves]
  BY <1>1, ChunkCounts
<1>3. c.items # << >>
  <2>1. Len(c.items) # 0
    BY <1>2, CountRange
  <2> QED BY <2>1, EmptySeq
<1>4. c.items \in Seq(Counted) /\ Leaves[c] \in Seq(Int)
  BY <1>2, AtTypes, LeavesType, DepthType
<1>5. SumOfLeaves(c.items) = Len(Leaves[c]) /\ Len(Leaves[c]) >= Len(c.items)
  BY <1>2, <1>4, SumIs
<1>6. Len(Leaves[c]) \in Nat
  BY <1>4, LenProperties
<1>7. LeavesInValue(c) = Len(Leaves[c])
  BY <1>2 DEF LeavesInValue
<1>8. c = ChunkOf(c.items)
  BY <1>2, <1>5 DEF ChunkOf
<1>9. Len(c.items) <= 3 => c \in ItemsAt[d + 1]
  <2> SUFFICES ASSUME Len(c.items) <= 3 PROVE c \in ChunksOf(ItemsAt[d], 3)
    BY AtUnfold
  <2>1. chunk_item_count(c) \in 1..3
    BY <1>2, CountRange
  <2> QED BY <1>1, <2>1 DEF ChunksOf
<1> QED BY <1>2, <1>3, <1>4, <1>5, <1>6, <1>7, <1>8, <1>9

\* A chunk of the next depth is one at an end, of three items or less.
LEMMA StoredIsEnd ==
  \A d \in Nat : d < Depth => \A c \in ItemsAt[d + 1] : c \in EndsAt(d) /\ chunk_item_count(c) \in 1..3
<1> SUFFICES ASSUME NEW d \in Nat, d < Depth, NEW c \in ItemsAt[d + 1]
             PROVE  c \in EndsAt(d) /\ chunk_item_count(c) \in 1..3
  OBVIOUS
<1>1. c \in ChunksOf(ItemsAt[d], 3)
  BY AtUnfold
<1> QED BY <1>1 DEF ChunksOf, EndsAt

-----------------------------------------------------------------------------
(* Well-shaped lists.                                                       *)
LEMMA Kinds ==
  \A l \in Lists :
    /\ l.kind = "empty" <=> l = list_empty
    /\ l.kind = "single" => l.value \in Items /\ l = Single(l.value)
    /\ l.kind = "list" => IsLong(Lists, l)
    /\ l.kind \in {"empty", "single", "list"}
BY ListForms DEF IsShort, IsLong, list_empty, Single

\* Content and depths, form by form.
LEMMA ContentOfForms ==
  /\ list_empty \in Lists /\ Content[list_empty] = << >>
  /\ \A l \in Lists : l.kind = "single" => Content[l] = Leaves[l.value]
  /\ \A l \in Lists : l.kind = "list" => Content[l] = Leaves[l.head] \o Content[l.cold] \o Leaves[l.tail]
<1>1. \A l \in Lists : Content[l] = ContentOver(Content[l.cold], l)
  BY MethodsAre
<1>2. list_empty \in Lists /\ list_empty.kind = "empty"
  BY MadeOfParts DEF IsShort, list_empty
<1> QED BY <1>1, <1>2 DEF ContentOver

LEMMA DepthsOfForms ==
  /\ DepthsOf[list_empty] = 0..Depth
  /\ \A l \in Lists : l.kind = "single" => DepthsOf[l] = {d \in 0..Depth : l.value \in ItemsAt[d]}
  /\ \A l \in Lists : l.kind = "list" =>
       DepthsOf[l] = {d \in 0..Depth : /\ l.head \in EndsAt(d) /\ l.tail \in EndsAt(d)
                                       /\ d + 1 \in DepthsOf[l.cold]
                                       /\ l.size = Len(Content[l])}
<1>1. \A l \in Lists : DepthsOf[l] = DepthsOver(DepthsOf[l.cold], l)
  BY MethodsAre
<1>2. list_empty \in Lists /\ list_empty.kind = "empty"
  BY MadeOfParts DEF IsShort, list_empty
<1>3. DepthsOf[list_empty] = 0..Depth
  BY <1>1, <1>2 DEF DepthsOver
<1>4. ASSUME NEW l \in Lists, l.kind = "single"
      PROVE  DepthsOf[l] = {d \in 0..Depth : l.value \in ItemsAt[d]}
  BY <1>1, <1>4 DEF DepthsOver
<1>5. ASSUME NEW l \in Lists, l.kind = "list"
      PROVE  DepthsOf[l] = {d \in 0..Depth : /\ l.head \in EndsAt(d) /\ l.tail \in EndsAt(d)
                                             /\ d + 1 \in DepthsOf[l.cold]
                                             /\ l.size = Len(Content[l])}
  BY <1>1, <1>5 DEF DepthsOver, EndsAt
<1> QED BY <1>3, <1>4, <1>5

LEMMA DepthsType == \A l \in Lists : DepthsOf[l] \subseteq 0..Depth
<1>1. \A l \in Lists : DepthsOf[l] = DepthsOver(DepthsOf[l.cold], l)
  BY MethodsAre
<1> QED BY <1>1 DEF DepthsOver

LEMMA ContentType == \A l \in Lists : Content[l] \in Seq(Int)
<1> DEFINE P == {l \in Lists : Content[l] \in Seq(Int)}
<1>1. ASSUME NEW l \in Lists, IsShort(l) PROVE l \in P
  <2>1. << >> \in Seq(Int)
    OBVIOUS
  <2>2. l = list_empty \/ (l.kind = "single" /\ l.value \in Items)
    BY <1>1 DEF IsShort
  <2> QED BY <2>1, <2>2, ContentOfForms, LeavesType
<1>2. ASSUME NEW l \in Lists, IsLong(P, l) PROVE l \in P
  <2>1. l.kind = "list" /\ l.head \in Items /\ l.tail \in Items /\ Content[l.cold] \in Seq(Int)
    BY <1>2 DEF IsLong
  <2>2. Content[l] = Leaves[l.head] \o Content[l.cold] \o Leaves[l.tail]
    BY <2>1, ContentOfForms
  <2>3. Leaves[l.head] \in Seq(Int) /\ Leaves[l.tail] \in Seq(Int)
    BY <2>1, LeavesType
  <2>4. Leaves[l.head] \o Content[l.cold] \in Seq(Int)
    BY <2>1, <2>3, LeavesJoin
  <2> QED BY <2>2, <2>3, <2>4, LeavesJoin
<1> HIDE DEF P
<1>3. P = Lists
  BY <1>1, <1>2, ListsInduction DEF P
<1> QED BY <1>3 DEF P

\* The leaves of a long list are those of its head, cold storage and tail.
LEMMA LengthOfLong ==
  ASSUME NEW l \in Lists, l.kind = "list"
  PROVE  /\ l.cold \in Lists
         /\ Leaves[l.head] \in Seq(Int) /\ Content[l.cold] \in Seq(Int) /\ Leaves[l.tail] \in Seq(Int)
         /\ Content[l] = Leaves[l.head] \o Content[l.cold] \o Leaves[l.tail]
         /\ Len(Content[l]) = Len(Leaves[l.head]) + Len(Content[l.cold]) + Len(Leaves[l.tail])
         /\ Len(Leaves[l.head]) \in Nat /\ Len(Content[l.cold]) \in Nat /\ Len(Leaves[l.tail]) \in Nat
<1>1. l.head \in Items /\ l.tail \in Items /\ l.cold \in Lists
  BY Kinds DEF IsLong
<1>2. Leaves[l.head] \in Seq(Int) /\ Content[l.cold] \in Seq(Int) /\ Leaves[l.tail] \in Seq(Int)
  BY <1>1, LeavesType, ContentType
<1>3. Content[l] = Leaves[l.head] \o Content[l.cold] \o Leaves[l.tail]
  BY ContentOfForms
<1>4. /\ Leaves[l.head] \o Content[l.cold] \in Seq(Int)
      /\ Len(Leaves[l.head] \o Content[l.cold]) = Len(Leaves[l.head]) + Len(Content[l.cold])
  BY <1>2, LeavesJoin
<1>5. Len(Content[l]) = Len(Leaves[l.head]) + Len(Content[l.cold]) + Len(Leaves[l.tail])
  BY <1>2, <1>3, <1>4, LeavesJoin
<1> QED BY <1>1, <1>2, <1>3, <1>5, LeavesJoin

\* The parts of a well-shaped list with a cold storage.
LEMMA DepthsOfLong ==
  ASSUME NEW l \in Lists, l.kind = "list", NEW d \in DepthsOf[l]
  PROVE  /\ d \in Nat /\ d < Depth /\ l.head \in EndsAt(d) /\ l.tail \in EndsAt(d)
         /\ d + 1 \in DepthsOf[l.cold] /\ l.size = Len(Content[l])
<1>1. /\ d \in 0..Depth /\ l.head \in EndsAt(d) /\ l.tail \in EndsAt(d)
      /\ d + 1 \in DepthsOf[l.cold] /\ l.size = Len(Content[l])
  BY DepthsOfForms
<1>2. d + 1 \in 0..Depth
  BY <1>1, DepthsType, LengthOfLong
<1> QED BY <1>1, <1>2, DepthType

\* A chunk at the end of a list has leaves, and knows how many.
LEMMA EndsHaveLeaves ==
  \A d \in Nat : d < Depth => \A c \in EndsAt(d) :
    Len(Leaves[c]) \in Nat /\ Len(Leaves[c]) >= 1 /\ LeavesInValue(c) = Len(Leaves[c])
<1> SUFFICES ASSUME NEW d \in Nat, d < Depth, NEW c \in EndsAt(d)
             PROVE  Len(Leaves[c]) \in Nat /\ Len(Leaves[c]) >= 1 /\ LeavesInValue(c) = Len(Leaves[c])
  OBVIOUS
<1>1. /\ Len(c.items) \in 1..4 /\ Len(Leaves[c]) \in Nat /\ Len(Leaves[c]) >= Len(c.items)
      /\ LeavesInValue(c) = Len(Leaves[c])
  BY EndParts
<1>2. Len(c.items) \in Nat /\ Len(c.items) >= 1
  BY <1>1, CountRange
<1> QED BY <1>1, <1>2

\* Cold storage in cold storage takes two leaves or more each time, so a list
\* does not go deeper than it has leaves.
LEMMA ShortNests ==
  \A l \in Lists : \A d \in DepthsOf[l], k \in Nat :
     Len(Content[l]) <= k /\ k <= Depth => l \in ListsTo[k]
<1> DEFINE P == {l \in Lists : \A d \in DepthsOf[l], k \in Nat :
                    Len(Content[l]) <= k /\ k <= Depth => l \in ListsTo[k]}
<1>1. ASSUME NEW l \in Lists, IsShort(l) PROVE l \in P
  <2> SUFFICES ASSUME NEW k \in Nat, k <= Depth PROVE l \in ListsTo[k]
    OBVIOUS
  <2>1. l \in ShortLists
    BY <1>1, ShortForm
  <2>2. CASE k = 0
    BY <2>1, <2>2, ListsUnfold
  <2>3. CASE k # 0
    <3>1. k - 1 \in Nat /\ k - 1 < Depth /\ (k - 1) + 1 = k
      <4>1. \A m, n : m \in Nat /\ n \in Nat /\ m <= n /\ m # 0 => m - 1 \in Nat /\ m - 1 < n /\ (m - 1) + 1 = m
        OBVIOUS
      <4> QED BY <2>3, <4>1, DepthType
    <3>2. ListsTo[(k - 1) + 1] = ShortLists \cup LongLists(ListsTo[k - 1])
      BY <3>1, ListsUnfold
    <3> QED BY <2>1, <3>1, <3>2
  <2> QED BY <2>2, <2>3
<1>2. ASSUME NEW l \in Lists, IsLong(P, l) PROVE l \in P
  <2> SUFFICES ASSUME NEW d \in DepthsOf[l], NEW k \in Nat, Len(Content[l]) <= k, k <= Depth
               PROVE  l \in ListsTo[k]
    OBVIOUS
  <2>1. l.kind = "list" /\ l.cold \in P
    BY <1>2 DEF IsLong
  <2>2. /\ d \in Nat /\ d < Depth /\ l.head \in EndsAt(d) /\ l.tail \in EndsAt(d)
        /\ d + 1 \in DepthsOf[l.cold]
    BY <2>1, DepthsOfLong
  <2>3. Len(Leaves[l.head]) >= 1 /\ Len(Leaves[l.tail]) >= 1
    BY <2>2, EndsHaveLeaves
  <2>4. /\ Len(Content[l]) = Len(Leaves[l.head]) + Len(Content[l.cold]) + Len(Leaves[l.tail])
        /\ Len(Leaves[l.head]) \in Nat /\ Len(Content[l.cold]) \in Nat /\ Len(Leaves[l.tail]) \in Nat
    BY <2>1, LengthOfLong
  <2>5. k - 1 \in Nat /\ k - 1 < Depth /\ (k - 1) + 1 = k /\ Len(Content[l.cold]) <= k - 1
    <3> DEFINE h == Len(Leaves[l.head])
               m == Len(Content[l.cold])
               t == Len(Leaves[l.tail])
    <3>1. h \in Nat /\ m \in Nat /\ t \in Nat /\ h >= 1 /\ t >= 1 /\ h + m + t <= k
      BY <2>3, <2>4
    <3> HIDE DEF h, m, t
    <3>2. k - 1 \in Nat /\ k - 1 < Depth /\ (k - 1) + 1 = k /\ m <= k - 1
      BY <3>1, DepthType
    <3> QED BY <3>2 DEF m
  <2>6. l.cold \in ListsTo[k - 1]
    <3>1. k - 1 <= Depth
      BY <2>5, DepthType
    <3> QED BY <2>1, <2>2, <2>5, <3>1
  <2>7. IsLong(ListsTo[k - 1], l)
    BY <1>2, <2>6 DEF IsLong
  <2>8. l \in ListsTo[(k - 1) + 1]
    BY <2>5, <2>7, MadeOfParts
  <2> QED BY <2>5, <2>8
<1> HIDE DEF P
<1>3. P = Lists
  BY <1>1, <1>2, ListsInduction DEF P
<1> QED BY <1>3 DEF P

\* A well-shaped list with so few leaves that one more level goes over it.
FitsAt(d) == {l \in Lists : d \in DepthsOf[l] /\ d + Len(Content[l]) <= Depth}

LEMMA FitsEmpty ==
  \A d \in 0..Depth : list_empty \in FitsAt(d) /\ Content[list_empty] = << >> /\ Size(list_empty) = 0
<1>1. /\ list_empty \in Lists /\ Content[list_empty] = << >>
      /\ DepthsOf[list_empty] = 0..Depth /\ Len(<< >>) = 0
  BY ContentOfForms, DepthsOfForms
<1>2. Size(list_empty) = 0
  BY DEF Size, list_empty
<1> QED BY <1>1, <1>2, DepthType DEF FitsAt

LEMMA FitsType ==
  \A d \in Nat : \A l \in FitsAt(d) :
    l \in Lists /\ d <= Depth /\ Content[l] \in Seq(Int) /\ Len(Content[l]) \in Nat
      /\ d + Len(Content[l]) <= Depth
<1> SUFFICES ASSUME NEW d \in Nat, NEW l \in FitsAt(d)
             PROVE  /\ l \in Lists /\ d <= Depth /\ Content[l] \in Seq(Int) /\ Len(Content[l]) \in Nat
                    /\ d + Len(Content[l]) <= Depth
  OBVIOUS
<1>1. l \in Lists /\ d \in DepthsOf[l] /\ d + Len(Content[l]) <= Depth
  BY DEF FitsAt
<1>2. Content[l] \in Seq(Int) /\ d \in 0..Depth
  BY <1>1, ContentType, DepthsType
<1>3. Len(Content[l]) \in Nat
  BY <1>2, LenProperties
<1> QED BY <1>1, <1>2, <1>3, DepthType

LEMMA FitsSingle ==
  ASSUME NEW d \in Nat, d <= Depth, NEW v \in ItemsAt[d], d + Len(Leaves[v]) <= Depth
  PROVE  /\ Single(v) \in FitsAt(d) /\ Content[Single(v)] = Leaves[v]
         /\ Single(v).kind = "single" /\ Single(v).value = v
<1>2. v \in Items
  BY AtTypes
<1>3. Single(v).kind = "single" /\ Single(v).value = v
  BY DEF Single
<1>4. Single(v) \in Lists
  BY <1>2, <1>3, MadeOfParts DEF IsShort
<1>5. Content[Single(v)] = Leaves[v] /\ DepthsOf[Single(v)] = {e \in 0..Depth : v \in ItemsAt[e]}
  BY <1>3, <1>4, ContentOfForms, DepthsOfForms
<1>6. d \in DepthsOf[Single(v)]
  BY <1>5, DepthType
<1> QED BY <1>3, <1>4, <1>5, <1>6 DEF FitsAt

-----------------------------------------------------------------------------
(* Regrouping the leaves of the parts of a list.                            *)
AreLeaves(a, b, c, e, f) ==
    a \in Seq(Int) /\ b \in Seq(Int) /\ c \in Seq(Int) /\ e \in Seq(Int) /\ f \in Seq(Int)

LEMMA Regroup3 ==
  ASSUME NEW a, NEW b, NEW c, NEW e, AreLeaves(a, b, c, e, e)
  PROVE  /\ a \o ((b \o c) \o e) = ((a \o b) \o c) \o e
         /\ ((a \o b) \o c) \o e = (a \o b) \o (c \o e)
         /\ (a \o (b \o c)) \o e = ((a \o b) \o c) \o e
<1>1. a \o ((b \o c) \o e) = (a \o (b \o c)) \o e
  <2> DEFINE m == b \o c
  <2>1. a \in Seq(Int) /\ m \in Seq(Int) /\ e \in Seq(Int)
    BY LeavesJoin DEF AreLeaves
  <2> HIDE DEF m
  <2>2. a \o (m \o e) = (a \o m) \o e
    BY <2>1, LeavesAssociate, Zenon
  <2> QED BY <2>2 DEF m
<1>2. a \o (b \o c) = (a \o b) \o c
  <2>1. a \in Seq(Int) /\ b \in Seq(Int) /\ c \in Seq(Int)
    BY DEF AreLeaves
  <2> QED BY <2>1, LeavesAssociate, Zenon
<1>3. ((a \o b) \o c) \o e = (a \o b) \o (c \o e)
  <2> DEFINE m == a \o b
  <2>1. m \in Seq(Int) /\ c \in Seq(Int) /\ e \in Seq(Int)
    BY LeavesJoin DEF AreLeaves
  <2> HIDE DEF m
  <2>2. (m \o c) \o e = m \o (c \o e)
    BY <2>1, LeavesAssociate, Zenon
  <2> QED BY <2>2 DEF m
<1> QED BY <1>1, <1>2, <1>3, Zenon

LEMMA Regroup4 ==
  ASSUME NEW a, NEW b, NEW c, NEW e, NEW f, AreLeaves(a, b, c, e, f)
  PROVE  /\ a \o (((b \o c) \o e) \o f) = ((a \o b) \o (c \o e)) \o f
         /\ ((a \o b) \o (c \o e)) \o f = (a \o b) \o ((c \o e) \o f)
         /\ ((a \o b) \o (c \o e)) \o f = ((a \o (b \o c)) \o e) \o f
         /\ ((a \o b) \o (c \o e)) \o f = ((a \o b) \o c) \o (e \o f)
<1>1. a \o (((b \o c) \o e) \o f) = (a \o ((b \o c) \o e)) \o f
  <2> DEFINE m == (b \o c) \o e
  <2>1. a \in Seq(Int) /\ m \in Seq(Int) /\ f \in Seq(Int)
    <3>1. b \o c \in Seq(Int)
      BY LeavesJoin DEF AreLeaves
    <3> QED BY <3>1, LeavesJoin DEF AreLeaves
  <2> HIDE DEF m
  <2>2. a \o (m \o f) = (a \o m) \o f
    BY <2>1, LeavesAssociate, Zenon
  <2> QED BY <2>2 DEF m
<1>2. /\ a \o ((b \o c) \o e) = ((a \o b) \o c) \o e
      /\ ((a \o b) \o c) \o e = (a \o b) \o (c \o e)
  <2>1. AreLeaves(a, b, c, e, e)
    BY DEF AreLeaves
  <2>2. a \o ((b \o c) \o e) = ((a \o b) \o c) \o e
    BY <2>1, Regroup3
  <2>3. ((a \o b) \o c) \o e = (a \o b) \o (c \o e)
    BY <2>1, Regroup3
  <2> QED BY <2>2, <2>3
<1>3. ((a \o b) \o (c \o e)) \o f = (a \o b) \o ((c \o e) \o f)
  <2> DEFINE m == a \o b
             n == c \o e
  <2>1. m \in Seq(Int) /\ n \in Seq(Int) /\ f \in Seq(Int)
    BY LeavesJoin DEF AreLeaves
  <2> HIDE DEF m, n
  <2>2. (m \o n) \o f = m \o (n \o f)
    BY <2>1, LeavesAssociate, Zenon
  <2> QED BY <2>2 DEF m, n
<1>4. a \o (b \o c) = (a \o b) \o c
  <2>1. a \in Seq(Int) /\ b \in Seq(Int) /\ c \in Seq(Int)
    BY DEF AreLeaves
  <2> QED BY <2>1, LeavesAssociate, Zenon
<1>5. (((a \o b) \o c) \o e) \o f = ((a \o b) \o c) \o (e \o f)
  <2> DEFINE m == (a \o b) \o c
  <2>1. m \in Seq(Int) /\ e \in Seq(Int) /\ f \in Seq(Int)
    <3>1. a \o b \in Seq(Int)
      BY LeavesJoin DEF AreLeaves
    <3> QED BY <3>1, LeavesJoin DEF AreLeaves
  <2> HIDE DEF m
  <2>2. (m \o e) \o f = m \o (e \o f)
    BY <2>1, LeavesAssociate, Zenon
  <2> QED BY <2>2 DEF m
<1> QED BY <1>1, <1>2, <1>3, <1>4, <1>5, Zenon

LEMMA Regroup3a ==
  ASSUME NEW a, NEW b, NEW c, NEW e, AreLeaves(a, b, c, e, e)
  PROVE  a \o ((b \o c) \o e) = ((a \o b) \o c) \o e
BY Regroup3

LEMMA Regroup3b ==
  ASSUME NEW a, NEW b, NEW c, NEW e, AreLeaves(a, b, c, e, e)
  PROVE  ((a \o b) \o c) \o e = (a \o b) \o (c \o e)
BY Regroup3, SMTT(30)

LEMMA Regroup3c ==
  ASSUME NEW a, NEW b, NEW c, NEW e, AreLeaves(a, b, c, e, e)
  PROVE  (a \o (b \o c)) \o e = ((a \o b) \o c) \o e
BY Regroup3

LEMMA Regroup4a ==
  ASSUME NEW a, NEW b, NEW c, NEW e, NEW f, AreLeaves(a, b, c, e, f)
  PROVE  a \o (((b \o c) \o e) \o f) = ((a \o b) \o (c \o e)) \o f
BY Regroup4

LEMMA Regroup4b ==
  ASSUME NEW a, NEW b, NEW c, NEW e, NEW f, AreLeaves(a, b, c, e, f)
  PROVE  ((a \o b) \o (c \o e)) \o f = (a \o b) \o ((c \o e) \o f)
BY Regroup4

LEMMA Regroup4c ==
  ASSUME NEW a, NEW b, NEW c, NEW e, NEW f, AreLeaves(a, b, c, e, f)
  PROVE  ((a \o b) \o (c \o e)) \o f = ((a \o (b \o c)) \o e) \o f
BY Regroup4

LEMMA Regroup4d ==
  ASSUME NEW a, NEW b, NEW c, NEW e, NEW f, AreLeaves(a, b, c, e, f)
  PROVE  ((a \o b) \o (c \o e)) \o f = ((a \o b) \o c) \o (e \o f)
BY Regroup4, SMTT(30)

\* Leaves that leave room for the levels of the universe that remain.
Room(d, s) == s \in Seq(Int) /\ d + Len(s) <= Depth

\* Where leaves have room, part of them has, one level up if others are left.
LEMMA RoomParts ==
  ASSUME NEW d \in Nat, NEW s \in Seq(Int), NEW t \in Seq(Int), Room(d, s \o t)
  PROVE  /\ Room(d, s) /\ Room(d, t)
         /\ Len(s) >= 1 => Room(d + 1, t)
         /\ Len(t) >= 1 => Room(d + 1, s)
<1> DEFINE m == Len(s)
           n == Len(t)
<1>1. m \in Nat /\ n \in Nat /\ d + (m + n) <= Depth
  BY LeavesJoin DEF Room
<1> HIDE DEF m, n
<1>2. d + m <= Depth /\ d + n <= Depth /\ (m >= 1 => (d + 1) + n <= Depth) /\ (n >= 1 => (d + 1) + m <= Depth)
  BY <1>1, DepthType
<1> QED BY <1>2 DEF Room, m, n

LEMMA RoomNonempty ==
  ASSUME NEW d \in Nat, NEW s, Room(d, s)
  PROVE  d <= Depth /\ (Len(s) >= 1 => d < Depth) /\ (Len(s) >= 2 => d + 1 < Depth)
<1> DEFINE n == Len(s)
<1>1. n \in Nat /\ d + n <= Depth
  BY LenProperties DEF Room
<1> HIDE DEF n
<1>2. d <= Depth /\ (n >= 1 => d < Depth) /\ (n >= 2 => d + 1 < Depth)
  BY <1>1, DepthType
<1> QED BY <1>2 DEF n

\* A well-shaped list with room above it, in other words.
LEMMA FitsIs == \A d, l : l \in FitsAt(d) <=> l \in Lists /\ d \in DepthsOf[l] /\ Room(d, Content[l])
BY ContentType DEF FitsAt, Room

LEMMA SizeIs ==
  \A d \in Nat : \A l \in FitsAt(d) : Size(l) = Len(Content[l]) /\ Size(l) \in Nat
<1> SUFFICES ASSUME NEW d \in Nat, NEW l \in FitsAt(d)
             PROVE  Size(l) = Len(Content[l]) /\ Size(l) \in Nat
  OBVIOUS
<1>0. l \in Lists /\ d \in DepthsOf[l] /\ d <= Depth /\ Len(Content[l]) \in Nat
  BY FitsType, FitsIs
<1>1. CASE l = list_empty
  BY <1>1, FitsEmpty, DepthType, <1>0
<1>2. CASE l.kind = "single"
  <2>1. Content[l] = Leaves[l.value] /\ l.value \in ItemsAt[d]
    BY <1>0, <1>2, ContentOfForms, DepthsOfForms
  <2>2. LeavesInValue(l.value) = Len(Leaves[l.value])
    BY <1>0, <2>1, AtLeaves
  <2>3. Size(l) = LeavesInValue(l.value)
    BY <1>2 DEF Size
  <2> QED BY <1>0, <2>1, <2>2, <2>3
<1>3. CASE l.kind = "list"
  <2>1. l.size = Len(Content[l])
    BY <1>0, <1>3, DepthsOfLong
  <2>2. Size(l) = l.size
    BY <1>3 DEF Size
  <2> QED BY <1>0, <2>1, <2>2
<1> QED BY <1>0, <1>1, <1>2, <1>3, Kinds

HasParts(h, c, t, s, d) ==
    /\ h \in EndsAt(d) /\ c \in FitsAt(d + 1) /\ t \in EndsAt(d) /\ d < Depth
    /\ s = Leaves[h] \o Content[c] \o Leaves[t] /\ Room(d, s)

LEMMA MakeList ==
  ASSUME NEW d \in Nat, NEW h, NEW c, NEW t, NEW s, HasParts(h, c, t, s, d),
         NEW l, l = alloc_list(h, c, t)
  PROVE  /\ l \in FitsAt(d) /\ l.kind = "list" /\ l.head = h /\ l.cold = c /\ l.tail = t
         /\ Content[l] = s /\ l.size = Len(Content[l])
<1>0. /\ h \in EndsAt(d) /\ c \in FitsAt(d + 1) /\ t \in EndsAt(d) /\ d < Depth /\ d + 1 \in Nat
      /\ s = Leaves[h] \o Content[c] \o Leaves[t] /\ Room(d, Leaves[h] \o Content[c] \o Leaves[t])
  BY DEF HasParts
<1>1. /\ h \in Items /\ t \in Items
      /\ Leaves[h] \in Seq(Int) /\ Leaves[t] \in Seq(Int)
      /\ LeavesInValue(h) = Len(Leaves[h]) /\ LeavesInValue(t) = Len(Leaves[t])
      /\ Len(Leaves[h]) \in Nat /\ Len(Leaves[t]) \in Nat
      /\ Len(Leaves[h]) >= 1 /\ Len(Leaves[t]) >= 1
  <2>1. ASSUME NEW e \in EndsAt(d)
        PROVE  /\ e \in Items /\ Leaves[e] \in Seq(Int) /\ LeavesInValue(e) = Len(Leaves[e])
               /\ Len(Leaves[e]) \in Nat /\ Len(Leaves[e]) >= 1
    BY <1>0, EndParts, EndsHaveLeaves
  <2> QED BY <1>0, <2>1
<1>2. /\ c \in Lists /\ d + 1 \in DepthsOf[c] /\ Content[c] \in Seq(Int) /\ Len(Content[c]) \in Nat
      /\ Size(c) = Len(Content[c])
  BY <1>0, FitsIs, FitsType, SizeIs
<1>3. Len(Leaves[h] \o Content[c] \o Leaves[t]) = Len(Leaves[h]) + Len(Content[c]) + Len(Leaves[t])
  <2>1. Leaves[h] \o Content[c] \in Seq(Int) /\ Len(Leaves[h] \o Content[c]) = Len(Leaves[h]) + Len(Content[c])
    BY <1>1, <1>2, LeavesJoin
  <2> QED BY <1>1, <2>1, LeavesJoin
<1>4. /\ l.kind = "list" /\ l.head = h /\ l.cold = c /\ l.tail = t
      /\ l.size = LeavesInValue(h) + Size(c) + LeavesInValue(t)
      /\ l = [kind |-> "list", head |-> l.head, cold |-> l.cold, tail |-> l.tail, size |-> l.size]
  BY DEF alloc_list
<1>5. l.size = Len(Leaves[h] \o Content[c] \o Leaves[t]) /\ l.size \in Int
  BY <1>1, <1>2, <1>3, <1>4
<1>6. l \in Lists
  <2>1. PICK k \in Nat : k = Len(Content[c])
    BY <1>2
  <2>2. k < Depth
    <3> DEFINE a == Len(Leaves[h])
               b == Len(Leaves[t])
               n == Len(Leaves[h] \o Content[c] \o Leaves[t])
    <3>1. a \in Nat /\ b \in Nat /\ n = a + k + b /\ a >= 1 /\ b >= 1 /\ d + n <= Depth
      BY <1>0, <1>1, <1>3, <2>1 DEF Room
    <3> HIDE DEF a, b, n
    <3> QED BY <3>1, DepthType
  <2>3. Len(Content[c]) <= k /\ k <= Depth
    BY <2>1, <2>2, DepthType
  <2>4. c \in ListsTo[k]
    BY <1>2, <2>3, ShortNests
  <2>5. IsLong(ListsTo[k], l)
    BY <1>1, <1>4, <1>5, <2>4 DEF IsLong
  <2> QED BY <2>2, <2>5, MadeOfParts
<1>7. Content[l] = Leaves[h] \o Content[c] \o Leaves[t]
  BY <1>4, <1>6, ContentOfForms
<1>8. d \in DepthsOf[l]
  <2>1. d \in 0..Depth
    BY <1>0, DepthType
  <2>2. DepthsOf[l] = {e \in 0..Depth : /\ l.head \in EndsAt(e) /\ l.tail \in EndsAt(e)
                                        /\ e + 1 \in DepthsOf[l.cold]
                                        /\ l.size = Len(Content[l])}
    BY <1>4, <1>6, DepthsOfForms
  <2>3. l.size = Len(Content[l])
    BY <1>5, <1>7
  <2> QED BY <1>0, <1>2, <1>4, <2>1, <2>2, <2>3
<1>9. l \in FitsAt(d)
  BY <1>0, <1>6, <1>7, <1>8, FitsIs
<1> QED BY <1>0, <1>4, <1>5, <1>7, <1>9

\* What is asked of a method that makes a list: the leaves are these, and the
\* list is well shaped.
Put(l, leaves, d) == l \in FitsAt(d) /\ Content[l] = leaves /\ l # list_empty

LEMMA PutNonempty ==
  \A d, s, l : l \in FitsAt(d) /\ Content[l] = s /\ l.kind \in {"single", "list"} => Put(l, s, d)
BY DEF Put, list_empty

\* Two chunks around a cold storage are a list of their leaves.
LEMMA Assembled ==
  \A d \in Nat : \A h, c, t, s :
    HasParts(h, c, t, s, d) => Put(alloc_list(h, c, t), s, d) /\ alloc_list(h, c, t).kind = "list"
<1> SUFFICES ASSUME NEW d \in Nat, NEW h, NEW c, NEW t, NEW s, HasParts(h, c, t, s, d)
             PROVE  Put(alloc_list(h, c, t), s, d) /\ alloc_list(h, c, t).kind = "list"
  OBVIOUS
<1> DEFINE l == alloc_list(h, c, t)
<1>2. l \in FitsAt(d) /\ l.kind = "list" /\ Content[l] = s
  BY MakeList
<1> HIDE DEF l
<1>3. Put(l, s, d)
  BY <1>2, PutNonempty
<1> QED BY <1>2, <1>3 DEF l

LEMMA ListParts ==
  ASSUME NEW d \in Nat, NEW l \in FitsAt(d), l.kind = "list"
  PROVE  /\ l.head \in EndsAt(d) /\ l.cold \in FitsAt(d + 1) /\ l.tail \in EndsAt(d)
         /\ d < Depth /\ d + 1 < Depth
         /\ Content[l] = Leaves[l.head] \o Content[l.cold] \o Leaves[l.tail]
         /\ Leaves[l.head] \in Seq(Int) /\ Content[l.cold] \in Seq(Int) /\ Leaves[l.tail] \in Seq(Int)
         /\ Len(Leaves[l.head]) >= 1 /\ Len(Leaves[l.tail]) >= 1
         /\ Len(Content[l]) = Len(Leaves[l.head]) + Len(Content[l.cold]) + Len(Leaves[l.tail])
         /\ Len(Content[l]) >= 2
         /\ Len(Leaves[l.head]) \in Nat /\ Len(Content[l.cold]) \in Nat /\ Len(Leaves[l.tail]) \in Nat
         /\ l.head.leaves = Len(Leaves[l.head]) /\ l.tail.leaves = Len(Leaves[l.tail])
         /\ l.size = Len(Content[l])
<1>1. l \in Lists /\ d \in DepthsOf[l] /\ Room(d, Content[l])
  BY FitsIs
<1>2. /\ d < Depth /\ l.head \in EndsAt(d) /\ l.tail \in EndsAt(d) /\ d + 1 \in DepthsOf[l.cold]
      /\ l.size = Len(Content[l])
  BY <1>1, DepthsOfLong
<1>3. /\ Len(Leaves[l.head]) >= 1 /\ Len(Leaves[l.tail]) >= 1
      /\ l.head.leaves = Len(Leaves[l.head]) /\ l.tail.leaves = Len(Leaves[l.tail])
  BY <1>2, EndsHaveLeaves, EndParts
<1>4. /\ l.cold \in Lists
      /\ Leaves[l.head] \in Seq(Int) /\ Content[l.cold] \in Seq(Int) /\ Leaves[l.tail] \in Seq(Int)
      /\ Content[l] = Leaves[l.head] \o Content[l.cold] \o Leaves[l.tail]
      /\ Len(Content[l]) = Len(Leaves[l.head]) + Len(Content[l.cold]) + Len(Leaves[l.tail])
      /\ Len(Leaves[l.head]) \in Nat /\ Len(Content[l.cold]) \in Nat /\ Len(Leaves[l.tail]) \in Nat
  BY <1>1, LengthOfLong
<1>5. Len(Content[l]) >= 2
  <2> DEFINE a == Len(Leaves[l.head])
             b == Len(Content[l.cold])
             c == Len(Leaves[l.tail])
  <2>1. a \in Nat /\ b \in Nat /\ c \in Nat /\ a >= 1 /\ c >= 1 /\ Len(Content[l]) = a + b + c
    BY <1>3, <1>4
  <2> HIDE DEF a, b, c
  <2> QED BY <2>1
<1>6. d + 1 < Depth
  BY <1>1, <1>5, RoomNonempty
<1>7. l.cold \in FitsAt(d + 1)
  <2>1. Leaves[l.head] \o Content[l.cold] \in Seq(Int)
    BY <1>4, LeavesJoin
  <2>2. Room(d, Leaves[l.head] \o Content[l.cold])
    BY <1>1, <1>4, <2>1, RoomParts
  <2>3. Room(d + 1, Content[l.cold])
    BY <1>3, <1>4, <2>2, RoomParts
  <2> QED BY <1>2, <1>4, <2>3, FitsIs
<1> QED BY <1>2, <1>3, <1>4, <1>5, <1>6, <1>7

\* What there is to know of a list of a single item.
LEMMA SingleParts ==
  ASSUME NEW d \in Nat, NEW l \in FitsAt(d), l.kind = "single"
  PROVE  /\ l.value \in ItemsAt[d] /\ Content[l] = Leaves[l.value] /\ l = Single(l.value)
         /\ d < Depth
<1>1. l \in Lists /\ d \in DepthsOf[l] /\ Room(d, Content[l]) /\ d <= Depth
  BY FitsIs, FitsType
<1>2. l.value \in ItemsAt[d] /\ Content[l] = Leaves[l.value] /\ l = Single(l.value)
  BY <1>1, DepthsOfForms, ContentOfForms, Kinds
<1>3. Len(Content[l]) >= 1
  BY <1>1, <1>2, AtLeaves
<1> QED BY <1>1, <1>2, <1>3, RoomNonempty

-----------------------------------------------------------------------------
(* What the methods of chunks do with the leaves.                           *)
LEMMA LeavesOfFirst ==
  ASSUME NEW v \in Items, NEW s \in Seq(Items)
  PROVE  LeavesOf(<< v >> \o s) = Leaves[v] \o LeavesOf(s)
<1>1. << v >> \in Seq(Items) /\ LeavesOf(<< v >>) = Leaves[v]
  BY LeavesOfOne
<1>2. LeavesOf(<< v >> \o s) = LeavesOf(<< v >>) \o LeavesOf(s)
  BY <1>1, LeavesOfConcat
<1> QED BY <1>1, <1>2

LEMMA OneItemChunk ==
  ASSUME NEW d \in Nat, d < Depth, NEW v \in ItemsAt[d]
  PROVE  /\ ChunkOf(<< v >>) \in EndsAt(d) /\ ChunkOf(<< v >>) \in ItemsAt[d + 1]
         /\ ChunkOf(<< v >>).items = << v >> /\ chunk_item_count(ChunkOf(<< v >>)) = 1
         /\ Leaves[ChunkOf(<< v >>)] = Leaves[v]
<1>1. << v >> \in Seq(ItemsAt[d]) /\ Len(<< v >>) = 1
  BY OneAndTwo
<1>2. v \in Items
  BY AtTypes, DepthType
<1>3. Len(<< v >>) \in 1..4 /\ Len(<< v >>) <= 3
  BY <1>1
<1>4. LeavesOf(<< v >>) = Leaves[v]
  BY <1>2, LeavesOfOne
<1> QED BY <1>1, <1>3, <1>4, MakeChunk

LEMMA TwoItemChunk ==
  ASSUME NEW d \in Nat, d < Depth, NEW v \in ItemsAt[d], NEW w \in ItemsAt[d]
  PROVE  /\ ChunkOf(<< v, w >>) \in EndsAt(d) /\ ChunkOf(<< v, w >>) \in ItemsAt[d + 1]
         /\ ChunkOf(<< v, w >>).items = << v, w >> /\ chunk_item_count(ChunkOf(<< v, w >>)) = 2
         /\ Leaves[ChunkOf(<< v, w >>)] = Leaves[v] \o Leaves[w]
<1>1. /\ << v, w >> \in Seq(ItemsAt[d]) /\ Len(<< v, w >>) = 2
      /\ << v, w >> = << v >> \o << w >>
  BY OneAndTwo
<1>2. v \in Items /\ w \in Items
  BY AtTypes, DepthType
<1>3. Len(<< v, w >>) \in 1..4 /\ Len(<< v, w >>) <= 3
  BY <1>1
<1>4. LeavesOf(<< v, w >>) = Leaves[v] \o Leaves[w]
  <2>1. << w >> \in Seq(Items) /\ LeavesOf(<< w >>) = Leaves[w]
    BY <1>2, LeavesOfOne
  <2>2. LeavesOf(<< v >> \o << w >>) = Leaves[v] \o LeavesOf(<< w >>)
    BY <1>2, <2>1, LeavesOfFirst
  <2> QED BY <1>1, <2>1, <2>2
<1> QED BY <1>1, <1>3, <1>4, MakeChunk

LEMMA GrowCounts ==
  \A n : n \in 1..4 /\ n < 4 => n + 1 \in 1..4 /\ 1 + n = n + 1 /\ n + 1 > 1
OBVIOUS

LEMMA ShrinkCounts ==
  \A n : n \in 1..4 /\ n > 1 => n - 1 \in 1..4 /\ n - 1 <= 3 /\ n - 1 < 4
OBVIOUS

LEMMA ChunkGrows ==
  ASSUME NEW d \in Nat, d < Depth, NEW c \in EndsAt(d), chunk_can_grow(c), NEW v \in ItemsAt[d]
  PROVE  /\ chunk_push(c, v) \in EndsAt(d) /\ Leaves[chunk_push(c, v)] = Leaves[v] \o Leaves[c]
         /\ chunk_append(c, v) \in EndsAt(d) /\ Leaves[chunk_append(c, v)] = Leaves[c] \o Leaves[v]
         /\ chunk_item_count(chunk_push(c, v)) = chunk_item_count(c) + 1
         /\ chunk_item_count(chunk_append(c, v)) = chunk_item_count(c) + 1
<1>1. /\ c.items \in Seq(ItemsAt[d]) /\ chunk_item_count(c) = Len(c.items)
      /\ Len(c.items) \in 1..4 /\ Leaves[c] = LeavesOf(c.items) /\ Len(c.items) < 4
  BY EndParts DEF chunk_can_grow
<1>2. v \in Items /\ c.items \in Seq(Items)
  BY <1>1, AtTypes, DepthType
<1>3. Len(c.items) + 1 \in 1..4 /\ 1 + Len(c.items) = Len(c.items) + 1
  BY <1>1, GrowCounts
<1>4. << v >> \in Seq(ItemsAt[d]) /\ Len(<< v >>) = 1
  BY OneAndTwo
<1>5. /\ << v >> \o c.items \in Seq(ItemsAt[d]) /\ Len(<< v >> \o c.items) = Len(c.items) + 1
      /\ Append(c.items, v) \in Seq(ItemsAt[d]) /\ Len(Append(c.items, v)) = Len(c.items) + 1
  <2>1. << v >> \o c.items \in Seq(ItemsAt[d]) /\ Len(<< v >> \o c.items) = Len(<< v >>) + Len(c.items)
    BY <1>1, <1>4, ConcatProperties
  <2>2. Append(c.items, v) \in Seq(ItemsAt[d]) /\ Len(Append(c.items, v)) = Len(c.items) + 1
    <3> DEFINE s == c.items
    <3>1. s \in Seq(ItemsAt[d]) /\ v \in ItemsAt[d]
      BY <1>1
    <3> HIDE DEF s
    <3>2. Append(s, v) \in Seq(ItemsAt[d]) /\ Len(Append(s, v)) = Len(s) + 1
      BY <3>1, AppendProperties
    <3> QED BY <3>2 DEF s
  <2> QED BY <1>3, <1>4, <2>1, <2>2
<1>6. chunk_push(c, v) = ChunkOf(<< v >> \o c.items) /\ chunk_append(c, v) = ChunkOf(Append(c.items, v))
  BY DEF chunk_push, chunk_append
<1>7. /\ chunk_push(c, v) \in EndsAt(d) /\ Leaves[chunk_push(c, v)] = LeavesOf(<< v >> \o c.items)
      /\ chunk_item_count(chunk_push(c, v)) = Len(c.items) + 1
  BY <1>3, <1>5, <1>6, MakeChunk
<1>8. /\ chunk_append(c, v) \in EndsAt(d) /\ Leaves[chunk_append(c, v)] = LeavesOf(Append(c.items, v))
      /\ chunk_item_count(chunk_append(c, v)) = Len(c.items) + 1
  BY <1>3, <1>5, <1>6, MakeChunk
<1>9. LeavesOf(<< v >> \o c.items) = Leaves[v] \o LeavesOf(c.items)
  BY <1>2, LeavesOfFirst
<1>10. LeavesOf(Append(c.items, v)) = LeavesOf(c.items) \o Leaves[v]
  BY <1>2, LeavesOfAppend
<1> QED BY <1>1, <1>7, <1>8, <1>9, <1>10

LEMMA ChunkEnds ==
  ASSUME NEW d \in Nat, d < Depth, NEW c \in EndsAt(d)
  PROVE  /\ chunk_head(c) \in ItemsAt[d] /\ chunk_tail(c) \in ItemsAt[d]
         /\ ~ chunk_can_shrink(c) =>
              /\ c.items = << chunk_head(c) >> /\ Leaves[c] = Leaves[chunk_head(c)]
              /\ chunk_tail(c) = chunk_head(c)
<1>1. /\ c.items \in Seq(ItemsAt[d]) /\ c.items # << >> /\ chunk_item_count(c) = Len(c.items)
      /\ Len(c.items) \in 1..4 /\ Leaves[c] = LeavesOf(c.items)
  BY EndParts
<1>2. /\ c.items[1] \in ItemsAt[d] /\ Tail(c.items) \in Seq(ItemsAt[d])
      /\ Len(Tail(c.items)) = Len(c.items) - 1 /\ c.items = << c.items[1] >> \o Tail(c.items)
  BY <1>1, HeadOff
<1>3. Last(c.items) \in ItemsAt[d]
  BY <1>1, TailOff
<1>4. ASSUME ~ chunk_can_shrink(c)
      PROVE  c.items = << c.items[1] >> /\ Leaves[c] = Leaves[c.items[1]] /\ Last(c.items) = c.items[1]
  <2>1. Len(c.items) = 1 /\ Len(Tail(c.items)) = 0
    <3>1. ~ (Len(c.items) > 1)
      BY <1>1, <1>4 DEF chunk_can_shrink
    <3>2. \A n : n \in 1..4 /\ ~ (n > 1) => n = 1 /\ n - 1 = 0
      OBVIOUS
    <3> QED BY <1>1, <1>2, <3>1, <3>2
  <2>2. Tail(c.items) = << >>
    <3>1. Len(Tail(c.items)) \notin Nat \ {0}
      BY <2>1
    <3> QED BY <1>2, <3>1, EmptySeq
  <2>3. << c.items[1] >> \in Seq(ItemsAt[d])
    BY <1>2, OneAndTwo
  <2>4. c.items = << c.items[1] >>
    BY <1>2, <2>2, <2>3, ConcatEmptySeq
  <2>5. c.items[1] \in Items
    BY <1>2, AtTypes, DepthType
  <2>6. LeavesOf(<< c.items[1] >>) = Leaves[c.items[1]]
    BY <2>5, LeavesOfOne
  <2> QED BY <1>1, <2>1, <2>4, <2>6 DEF Last
<1> QED BY <1>2, <1>3, <1>4 DEF chunk_head, chunk_tail

LEMMA ChunkShrinks ==
  ASSUME NEW d \in Nat, d < Depth, NEW c \in EndsAt(d), chunk_can_shrink(c)
  PROVE  /\ chunk_pop(c) \in EndsAt(d) /\ chunk_pop(c) \in ItemsAt[d + 1]
         /\ Leaves[c] = Leaves[chunk_head(c)] \o Leaves[chunk_pop(c)]
         /\ chunk_chop(c) \in EndsAt(d) /\ chunk_chop(c) \in ItemsAt[d + 1]
         /\ Leaves[c] = Leaves[chunk_chop(c)] \o Leaves[chunk_tail(c)]
         /\ chunk_can_grow(chunk_pop(c)) /\ chunk_can_grow(chunk_chop(c))
         /\ chunk_item_count(chunk_pop(c)) = chunk_item_count(c) - 1
         /\ chunk_item_count(chunk_chop(c)) = chunk_item_count(c) - 1
<1>1. /\ c.items \in Seq(ItemsAt[d]) /\ c.items # << >> /\ chunk_item_count(c) = Len(c.items)
      /\ Len(c.items) \in 1..4 /\ Leaves[c] = LeavesOf(c.items) /\ Len(c.items) > 1
  BY EndParts DEF chunk_can_shrink
<1>2. /\ c.items[1] \in ItemsAt[d] /\ Tail(c.items) \in Seq(ItemsAt[d])
      /\ Len(Tail(c.items)) = Len(c.items) - 1 /\ c.items = << c.items[1] >> \o Tail(c.items)
  BY <1>1, HeadOff
<1>3. /\ Last(c.items) \in ItemsAt[d] /\ Front(c.items) \in Seq(ItemsAt[d])
      /\ Len(Front(c.items)) = Len(c.items) - 1 /\ c.items = Append(Front(c.items), Last(c.items))
  BY <1>1, TailOff
<1>4. Len(c.items) - 1 \in 1..4 /\ Len(c.items) - 1 <= 3 /\ Len(c.items) - 1 < 4
  BY <1>1, ShrinkCounts
<1>5. chunk_pop(c) = ChunkOf(Tail(c.items)) /\ chunk_chop(c) = ChunkOf(Front(c.items))
  BY DEF chunk_pop, chunk_chop
<1>6. /\ chunk_pop(c) \in EndsAt(d) /\ chunk_pop(c) \in ItemsAt[d + 1]
      /\ Leaves[chunk_pop(c)] = LeavesOf(Tail(c.items))
      /\ chunk_item_count(chunk_pop(c)) = Len(c.items) - 1
  <2>1. Len(Tail(c.items)) \in 1..4 /\ Len(Tail(c.items)) <= 3
    BY <1>2, <1>4
  <2> QED BY <1>2, <1>5, <2>1, MakeChunk
<1>7. /\ chunk_chop(c) \in EndsAt(d) /\ chunk_chop(c) \in ItemsAt[d + 1]
      /\ Leaves[chunk_chop(c)] = LeavesOf(Front(c.items))
      /\ chunk_item_count(chunk_chop(c)) = Len(c.items) - 1
  <2>1. Len(Front(c.items)) \in 1..4 /\ Len(Front(c.items)) <= 3
    BY <1>3, <1>4
  <2> QED BY <1>3, <1>5, <2>1, MakeChunk
<1>8. Leaves[c] = Leaves[c.items[1]] \o LeavesOf(Tail(c.items))
  <2>0. d <= Depth
    BY DepthType
  <2>1. c.items[1] \in Items /\ Tail(c.items) \in Seq(Items)
    BY <1>2, <2>0, AtTypes
  <2>2. LeavesOf(<< c.items[1] >> \o Tail(c.items)) = Leaves[c.items[1]] \o LeavesOf(Tail(c.items))
    BY <2>1, LeavesOfFirst
  <2> QED BY <1>1, <1>2, <2>2
<1>9. Leaves[c] = LeavesOf(Front(c.items)) \o Leaves[Last(c.items)]
  <2>1. Last(c.items) \in Items /\ Front(c.items) \in Seq(Items)
    BY <1>3, AtTypes, DepthType
  <2>2. LeavesOf(Append(Front(c.items), Last(c.items))) = LeavesOf(Front(c.items)) \o Leaves[Last(c.items)]
    BY <2>1, LeavesOfAppend
  <2> QED BY <1>1, <1>3, <2>2
<1>10. chunk_can_grow(chunk_pop(c)) /\ chunk_can_grow(chunk_chop(c))
  BY <1>4, <1>6, <1>7 DEF chunk_can_grow
<1> QED BY <1>1, <1>6, <1>7, <1>8, <1>9, <1>10 DEF chunk_head, chunk_tail

\* A chunk at an end has room or is one that can give some of its items away.
LEMMA GrowOrShrink ==
  ASSUME NEW d \in Nat, d < Depth, NEW c \in EndsAt(d)
  PROVE  chunk_can_grow(c) \/ chunk_can_shrink(c)
<1>1. chunk_item_count(c) \in 1..4
  BY EndParts
<1>2. \A n : n \in 1..4 => n < 4 \/ n > 1
  OBVIOUS
<1> QED BY <1>1, <1>2 DEF chunk_can_grow, chunk_can_shrink

LEMMA EndType ==
  \A d \in Nat : d < Depth => \A c \in EndsAt(d) : Leaves[c] \in Seq(Int) /\ Len(Leaves[c]) >= 1
BY EndParts, EndsHaveLeaves

-----------------------------------------------------------------------------
(* Pushing and appending an item.                                           *)
LEMMA TwoItems ==
  ASSUME NEW d \in Nat, NEW v \in ItemsAt[d], NEW w \in ItemsAt[d],
         d <= Depth, Room(d, Leaves[v] \o Leaves[w])
  PROVE  /\ Put(AllocTwoItemList(v, w), Leaves[v] \o Leaves[w], d)
         /\ AllocTwoItemList(v, w).kind = "list"
<1>1. Leaves[v] \in Seq(Int) /\ Leaves[w] \in Seq(Int) /\ Len(Leaves[v]) >= 1 /\ Len(Leaves[w]) >= 1
  BY AtLeaves
<1>2. d < Depth
  BY <1>1, RoomParts, RoomNonempty
<1>3. /\ ChunkOf(<< v >>) \in EndsAt(d) /\ Leaves[ChunkOf(<< v >>)] = Leaves[v]
      /\ ChunkOf(<< w >>) \in EndsAt(d) /\ Leaves[ChunkOf(<< w >>)] = Leaves[w]
  BY <1>2, OneItemChunk
<1>4. list_empty \in FitsAt(d + 1) /\ Content[list_empty] = << >>
  <2>1. d + 1 \in 0..Depth
    BY <1>2, DepthType
  <2> QED BY <2>1, FitsEmpty
<1>5. Leaves[v] \o << >> \o Leaves[w] = Leaves[v] \o Leaves[w]
  BY <1>1, ConcatEmptySeq
<1>6. HasParts(ChunkOf(<< v >>), list_empty, ChunkOf(<< w >>), Leaves[v] \o Leaves[w], d)
  BY <1>2, <1>3, <1>4, <1>5 DEF HasParts
<1> QED BY <1>6, Assembled DEF AllocTwoItemList

LEMMA PushForms ==
  \A l \in Lists, v \in Items :
    /\ l = list_empty => Push[l][v] = Single(v)
    /\ l.kind = "single" => Push[l][v] = AllocTwoItemList(v, l.value)
    /\ l.kind = "list" /\ chunk_can_grow(l.head) =>
         Push[l][v] = alloc_list(chunk_push(l.head, v), l.cold, l.tail)
    /\ l.kind = "list" /\ ~ chunk_can_grow(l.head) =>
         Push[l][v] = alloc_list(chunk_push(ChunkOf(<< chunk_head(l.head) >>), v),
                                 Push[l.cold][chunk_pop(l.head)], l.tail)
<1> SUFFICES ASSUME NEW l \in Lists, NEW v \in Items
             PROVE  /\ l = list_empty => Push[l][v] = Single(v)
                    /\ l.kind = "single" => Push[l][v] = AllocTwoItemList(v, l.value)
                    /\ l.kind = "list" /\ chunk_can_grow(l.head) =>
                         Push[l][v] = alloc_list(chunk_push(l.head, v), l.cold, l.tail)
                    /\ l.kind = "list" /\ ~ chunk_can_grow(l.head) =>
                         Push[l][v] = alloc_list(chunk_push(ChunkOf(<< chunk_head(l.head) >>), v),
                                                 Push[l.cold][chunk_pop(l.head)], l.tail)
  OBVIOUS
<1>1. Push[l][v] = PushOver(Push[l.cold], l)[v]
  BY MethodsAre
<1>2. l = list_empty => l.kind = "empty"
  BY DEF list_empty
<1>3. Spill(l.head).stored = chunk_pop(l.head) /\ Spill(l.head).kept = ChunkOf(<< chunk_head(l.head) >>)
  BY DEF Spill
<1> QED BY <1>1, <1>2, <1>3 DEF PushOver

LEMMA AttachForms ==
  \A l \in Lists, v \in Items :
    /\ l = list_empty => Attach[l][v] = Single(v)
    /\ l.kind = "single" => Attach[l][v] = AllocTwoItemList(l.value, v)
    /\ l.kind = "list" /\ chunk_can_grow(l.tail) =>
         Attach[l][v] = alloc_list(l.head, l.cold, chunk_append(l.tail, v))
    /\ l.kind = "list" /\ ~ chunk_can_grow(l.tail) =>
         Attach[l][v] = alloc_list(l.head, Attach[l.cold][chunk_chop(l.tail)],
                                   ChunkOf(<< chunk_tail(l.tail), v >>))
<1> SUFFICES ASSUME NEW l \in Lists, NEW v \in Items
             PROVE  /\ l = list_empty => Attach[l][v] = Single(v)
                    /\ l.kind = "single" => Attach[l][v] = AllocTwoItemList(l.value, v)
                    /\ l.kind = "list" /\ chunk_can_grow(l.tail) =>
                         Attach[l][v] = alloc_list(l.head, l.cold, chunk_append(l.tail, v))
                    /\ l.kind = "list" /\ ~ chunk_can_grow(l.tail) =>
                         Attach[l][v] = alloc_list(l.head, Attach[l.cold][chunk_chop(l.tail)],
                                                   ChunkOf(<< chunk_tail(l.tail), v >>))
  OBVIOUS
<1>1. Attach[l][v] = AttachOver(Attach[l.cold], l)[v]
  BY MethodsAre
<1>2. l = list_empty => l.kind = "empty"
  BY DEF list_empty
<1> QED BY <1>1, <1>2 DEF AttachOver

PushesAt(l, d) ==
    \A v \in ItemsAt[d] :
       l \in FitsAt(d) /\ Room(d, Leaves[v] \o Content[l]) => Put(Push[l][v], Leaves[v] \o Content[l], d)
AttachesAt(l, d) ==
    \A v \in ItemsAt[d] :
       l \in FitsAt(d) /\ Room(d, Content[l] \o Leaves[v]) => Put(Attach[l][v], Content[l] \o Leaves[v], d)

LEMMA PushShort ==
  ASSUME NEW d \in Nat, NEW l \in FitsAt(d), l.kind # "list", NEW v \in ItemsAt[d],
         Room(d, Leaves[v] \o Content[l])
  PROVE  Put(Push[l][v], Leaves[v] \o Content[l], d)
<1>1. l \in Lists /\ d <= Depth
  BY FitsType
<1>2. v \in Items /\ Leaves[v] \in Seq(Int)
  BY <1>1, AtTypes, AtLeaves
<1>3. CASE l = list_empty
  <2>1. Push[l][v] = Single(v)
    BY <1>1, <1>2, <1>3, PushForms
  <2>2. Content[l] = << >> /\ Leaves[v] \o << >> = Leaves[v]
    BY <1>2, <1>3, ContentOfForms, ConcatEmptySeq
  <2>3. d + Len(Leaves[v]) <= Depth
    BY <2>2 DEF Room
  <2>4. Single(v) \in FitsAt(d) /\ Content[Single(v)] = Leaves[v] /\ Single(v).kind = "single"
    BY <1>1, <2>3, FitsSingle
  <2> QED BY <2>1, <2>2, <2>4, PutNonempty
<1>4. CASE l.kind = "single"
  <2>1. l.value \in ItemsAt[d] /\ Content[l] = Leaves[l.value]
    BY <1>4, SingleParts
  <2>2. Push[l][v] = AllocTwoItemList(v, l.value)
    BY <1>1, <1>2, <1>4, PushForms
  <2>3. Room(d, Leaves[v] \o Leaves[l.value])
    BY <2>1
  <2>4. Put(AllocTwoItemList(v, l.value), Leaves[v] \o Leaves[l.value], d)
    BY <1>1, <2>1, <2>3, TwoItems
  <2> QED BY <2>1, <2>2, <2>4
<1> QED BY <1>1, <1>3, <1>4, Kinds

LEMMA AttachShort ==
  ASSUME NEW d \in Nat, NEW l \in FitsAt(d), l.kind # "list", NEW v \in ItemsAt[d],
         Room(d, Content[l] \o Leaves[v])
  PROVE  Put(Attach[l][v], Content[l] \o Leaves[v], d)
<1>1. l \in Lists /\ d <= Depth
  BY FitsType
<1>2. v \in Items /\ Leaves[v] \in Seq(Int)
  BY <1>1, AtTypes, AtLeaves
<1>3. CASE l = list_empty
  <2>1. Attach[l][v] = Single(v)
    BY <1>1, <1>2, <1>3, AttachForms
  <2>2. Content[l] = << >> /\ << >> \o Leaves[v] = Leaves[v]
    BY <1>2, <1>3, ContentOfForms, ConcatEmptySeq
  <2>3. d + Len(Leaves[v]) <= Depth
    BY <2>2 DEF Room
  <2>4. Single(v) \in FitsAt(d) /\ Content[Single(v)] = Leaves[v] /\ Single(v).kind = "single"
    BY <1>1, <2>3, FitsSingle
  <2> QED BY <2>1, <2>2, <2>4, PutNonempty
<1>4. CASE l.kind = "single"
  <2>1. l.value \in ItemsAt[d] /\ Content[l] = Leaves[l.value]
    BY <1>4, SingleParts
  <2>2. Attach[l][v] = AllocTwoItemList(l.value, v)
    BY <1>1, <1>2, <1>4, AttachForms
  <2>3. Room(d, Leaves[l.value] \o Leaves[v])
    BY <2>1
  <2>4. Put(AllocTwoItemList(l.value, v), Leaves[l.value] \o Leaves[v], d)
    BY <1>1, <2>1, <2>3, TwoItems
  <2> QED BY <2>1, <2>2, <2>4
<1> QED BY <1>1, <1>3, <1>4, Kinds

LEMMA PushLong ==
  ASSUME NEW d \in Nat, NEW l \in FitsAt(d), l.kind = "list", NEW v \in ItemsAt[d],
         Room(d, Leaves[v] \o Content[l]), PushesAt(l.cold, d + 1)
  PROVE  Put(Push[l][v], Leaves[v] \o Content[l], d)
<1> DEFINE h == Leaves[l.head]
           m == Content[l.cold]
           t == Leaves[l.tail]
           w == Leaves[v]
<1>1. /\ l.head \in EndsAt(d) /\ l.cold \in FitsAt(d + 1) /\ l.tail \in EndsAt(d) /\ d < Depth
      /\ d + 1 < Depth /\ Content[l] = h \o m \o t
      /\ h \in Seq(Int) /\ m \in Seq(Int) /\ t \in Seq(Int) /\ Len(t) >= 1
  BY ListParts
<1>2. l \in Lists /\ d <= Depth /\ d + 1 \in Nat
  BY FitsType
<1>3. v \in Items /\ w \in Seq(Int) /\ Len(w) >= 1
  BY <1>2, AtTypes, AtLeaves
<1> HIDE DEF h, m, t, w
<1>4. CASE chunk_can_grow(l.head)
  <2> DEFINE new == chunk_push(l.head, v)
  <2>1. new \in EndsAt(d) /\ Leaves[new] = w \o h
    BY <1>1, <1>4, ChunkGrows DEF h, w
  <2>2. AreLeaves(w, h, m, t, t)
    BY <1>1, <1>3 DEF AreLeaves
  <2>3. w \o ((h \o m) \o t) = ((w \o h) \o m) \o t
    BY <2>2, Regroup3a, SMTT(30)
  <2>4. Push[l][v] = alloc_list(new, l.cold, l.tail)
    BY <1>2, <1>3, <1>4, PushForms
  <2> HIDE DEF new
  <2>5. w \o Content[l] = Leaves[new] \o Content[l.cold] \o Leaves[l.tail]
    BY <1>1, <2>1, <2>3 DEF m, t
  <2>6. HasParts(new, l.cold, l.tail, w \o Content[l], d)
    BY <1>1, <2>1, <2>5 DEF HasParts, w
  <2> QED BY <2>4, <2>6, Assembled DEF w
<1>5. CASE ~ chunk_can_grow(l.head)
  <2> DEFINE first == chunk_head(l.head)
             stored == chunk_pop(l.head)
             kept == ChunkOf(<< first >>)
             new == chunk_push(kept, v)
             f == Leaves[first]
             s == Leaves[stored]
             cold == Push[l.cold][stored]
  <2>1. /\ first \in ItemsAt[d] /\ stored \in ItemsAt[d + 1] /\ h = f \o s
    BY <1>1, <1>5, GrowOrShrink, ChunkShrinks, ChunkEnds DEF h
  <2>2. kept \in EndsAt(d) /\ chunk_item_count(kept) = 1 /\ Leaves[kept] = f
    BY <1>1, <2>1, OneItemChunk
  <2>3. new \in EndsAt(d) /\ Leaves[new] = w \o f
    <3> HIDE DEF kept
    <3>1. chunk_can_grow(kept)
      BY <2>2 DEF chunk_can_grow
    <3>2. chunk_push(kept, v) \in EndsAt(d) /\ Leaves[chunk_push(kept, v)] = Leaves[v] \o Leaves[kept]
      BY <1>1, <2>2, <3>1, ChunkGrows
    <3> QED BY <2>2, <3>2 DEF w
  <2>4. f \in Seq(Int) /\ s \in Seq(Int) /\ Len(f) >= 1
    BY <1>1, <1>2, <2>1, AtLeaves, DepthType
  <2>5. Push[l][v] = alloc_list(new, cold, l.tail)
    BY <1>2, <1>3, <1>5, PushForms
  <2> HIDE DEF first, stored, kept, new, f, s, cold
  <2>6. AreLeaves(w, f, s, m, t)
    BY <1>1, <1>3, <2>4 DEF AreLeaves
  <2>7. w \o (((f \o s) \o m) \o t) = ((w \o f) \o (s \o m)) \o t
    BY <2>6, Regroup4a, SMTT(30)
  <2>8. Room(d, ((w \o f) \o (s \o m)) \o t)
    BY <1>1, <2>1, <2>7 DEF w
  <2>9. Room(d + 1, s \o m)
    <3>1. w \o f \in Seq(Int) /\ s \o m \in Seq(Int) /\ (w \o f) \o (s \o m) \in Seq(Int)
      BY <1>1, <1>3, <2>4, LeavesJoin
    <3>2. Room(d + 1, (w \o f) \o (s \o m))
      BY <1>1, <2>8, <3>1, RoomParts
    <3> QED BY <1>2, <3>1, <3>2, RoomParts
  <2>10. Put(cold, s \o m, d + 1)
    BY <1>1, <2>1, <2>9 DEF PushesAt, cold, s, m
  <2>11. w \o Content[l] = Leaves[new] \o Content[cold] \o Leaves[l.tail]
    BY <1>1, <2>1, <2>3, <2>7, <2>10 DEF Put, t
  <2>12. HasParts(new, cold, l.tail, w \o Content[l], d)
    BY <1>1, <2>3, <2>10, <2>11 DEF HasParts, Put, w
  <2> QED BY <2>5, <2>12, Assembled DEF w
<1> QED BY <1>4, <1>5

LEMMA AttachLong ==
  ASSUME NEW d \in Nat, NEW l \in FitsAt(d), l.kind = "list", NEW v \in ItemsAt[d],
         Room(d, Content[l] \o Leaves[v]), AttachesAt(l.cold, d + 1)
  PROVE  Put(Attach[l][v], Content[l] \o Leaves[v], d)
<1> DEFINE h == Leaves[l.head]
           m == Content[l.cold]
           t == Leaves[l.tail]
           w == Leaves[v]
<1>1. /\ l.head \in EndsAt(d) /\ l.cold \in FitsAt(d + 1) /\ l.tail \in EndsAt(d) /\ d < Depth
      /\ d + 1 < Depth /\ Content[l] = h \o m \o t
      /\ h \in Seq(Int) /\ m \in Seq(Int) /\ t \in Seq(Int) /\ Len(h) >= 1
  BY ListParts
<1>2. l \in Lists /\ d <= Depth /\ d + 1 \in Nat
  BY FitsType
<1>3. v \in Items /\ w \in Seq(Int) /\ Len(w) >= 1
  BY <1>2, AtTypes, AtLeaves
<1> HIDE DEF h, m, t, w
<1>4. CASE chunk_can_grow(l.tail)
  <2> DEFINE new == chunk_append(l.tail, v)
  <2>1. new \in EndsAt(d) /\ Leaves[new] = t \o w
    BY <1>1, <1>4, ChunkGrows DEF t, w
  <2>2. AreLeaves(h, m, t, w, w)
    BY <1>1, <1>3 DEF AreLeaves
  <2>3. ((h \o m) \o t) \o w = (h \o m) \o (t \o w)
    BY <2>2, Regroup3b, SMTT(30)
  <2>4. Attach[l][v] = alloc_list(l.head, l.cold, new)
    BY <1>2, <1>3, <1>4, AttachForms
  <2> HIDE DEF new
  <2>5. Content[l] \o w = Leaves[l.head] \o Content[l.cold] \o Leaves[new]
    BY <1>1, <2>1, <2>3 DEF m, h
  <2>6. HasParts(l.head, l.cold, new, Content[l] \o w, d)
    BY <1>1, <2>1, <2>5 DEF HasParts, w
  <2> QED BY <2>4, <2>6, Assembled DEF w
<1>5. CASE ~ chunk_can_grow(l.tail)
  <2> DEFINE last == chunk_tail(l.tail)
             stored == chunk_chop(l.tail)
             new == ChunkOf(<< last, v >>)
             f == Leaves[last]
             s == Leaves[stored]
             cold == Attach[l.cold][stored]
  <2>1. /\ last \in ItemsAt[d] /\ stored \in ItemsAt[d + 1] /\ t = s \o f
    BY <1>1, <1>5, GrowOrShrink, ChunkShrinks, ChunkEnds DEF t
  <2>3. new \in EndsAt(d) /\ Leaves[new] = f \o w
    BY <1>1, <2>1, TwoItemChunk DEF w
  <2>4. f \in Seq(Int) /\ s \in Seq(Int) /\ Len(f) >= 1
    BY <1>1, <1>2, <2>1, AtLeaves, DepthType
  <2>5. Attach[l][v] = alloc_list(l.head, cold, new)
    BY <1>2, <1>3, <1>5, AttachForms
  <2> HIDE DEF last, stored, new, f, s, cold
  <2>6. AreLeaves(h, m, s, f, w)
    BY <1>1, <1>3, <2>4 DEF AreLeaves
  <2>7. ((h \o m) \o (s \o f)) \o w = (h \o (m \o s)) \o (f \o w)
    <3>2. ((h \o m) \o (s \o f)) \o w = ((h \o m) \o s) \o (f \o w)
      BY ONLY <2>6, Regroup4d, SMTT(30)
    <3>3. (h \o m) \o s = h \o (m \o s)
      BY <1>1, <2>4, LeavesAssociate
    <3> QED BY <3>2, <3>3
  <2>8. Room(d, (h \o (m \o s)) \o (f \o w))
    BY <1>1, <2>1, <2>7 DEF w
  <2>9. Room(d + 1, m \o s)
    <3>1. f \o w \in Seq(Int) /\ m \o s \in Seq(Int) /\ h \o (m \o s) \in Seq(Int)
      BY <1>1, <1>3, <2>4, LeavesJoin
    <3>2. Room(d, h \o (m \o s))
      BY <2>8, <3>1, RoomParts
    <3> QED BY <1>1, <3>1, <3>2, RoomParts
  <2>10. Put(cold, m \o s, d + 1)
    BY <1>1, <2>1, <2>9 DEF AttachesAt, cold, s, m
  <2>11. Content[l] \o w = Leaves[l.head] \o Content[cold] \o Leaves[new]
    BY <1>1, <2>1, <2>3, <2>7, <2>10 DEF Put, h
  <2>12. HasParts(l.head, cold, new, Content[l] \o w, d)
    BY <1>1, <2>3, <2>10, <2>11 DEF HasParts, Put, w
  <2> QED BY <2>5, <2>12, Assembled DEF w
<1> QED BY <1>4, <1>5

\* List_push puts the leaves of the item in front, and keeps the shape, at every level.
LEMMA PushRight == \A l \in Lists : \A d \in Nat : PushesAt(l, d)
<1> DEFINE P == {l \in Lists : \A d \in Nat : PushesAt(l, d)}
<1>1. ASSUME NEW l \in Lists, IsShort(l) PROVE l \in P
  <2>1. l.kind # "list"
    BY <1>1, ShortKinds
  <2>2. \A d \in Nat : PushesAt(l, d)
    BY <2>1, PushShort DEF PushesAt
  <2> QED BY <2>2
<1>2. ASSUME NEW l \in Lists, IsLong(P, l) PROVE l \in P
  <2>1. l.kind = "list" /\ l.cold \in P
    BY <1>2 DEF IsLong
  <2>2. ASSUME NEW d \in Nat PROVE PushesAt(l, d)
    <3>1. PushesAt(l.cold, d + 1)
      BY <2>1
    <3> QED BY <2>1, <3>1, PushLong DEF PushesAt
  <2> QED BY <2>2
<1> HIDE DEF P
<1>3. P = Lists
  BY <1>1, <1>2, ListsInduction DEF P
<1> QED BY <1>3 DEF P

\* List_append puts the leaves of the item at the end, and keeps the shape.
LEMMA AttachRight == \A l \in Lists : \A d \in Nat : AttachesAt(l, d)
<1> DEFINE P == {l \in Lists : \A d \in Nat : AttachesAt(l, d)}
<1>1. ASSUME NEW l \in Lists, IsShort(l) PROVE l \in P
  <2>1. l.kind # "list"
    BY <1>1, ShortKinds
  <2>2. \A d \in Nat : AttachesAt(l, d)
    BY <2>1, AttachShort DEF AttachesAt
  <2> QED BY <2>2
<1>2. ASSUME NEW l \in Lists, IsLong(P, l) PROVE l \in P
  <2>1. l.kind = "list" /\ l.cold \in P
    BY <1>2 DEF IsLong
  <2>2. ASSUME NEW d \in Nat PROVE AttachesAt(l, d)
    <3>1. AttachesAt(l.cold, d + 1)
      BY <2>1
    <3> QED BY <2>1, <3>1, AttachLong DEF AttachesAt
  <2> QED BY <2>2
<1> HIDE DEF P
<1>3. P = Lists
  BY <1>1, <1>2, ListsInduction DEF P
<1> QED BY <1>3 DEF P

-----------------------------------------------------------------------------
(* Popping and chopping.                                                    *)
LEMMA PopForms ==
  \A l \in Lists :
    /\ l.kind = "single" => Pop[l] = list_empty /\ Chop[l] = list_empty
    /\ l.kind = "list" /\ chunk_can_shrink(l.head) =>
         Pop[l] = alloc_list(chunk_pop(l.head), l.cold, l.tail)
    /\ l.kind = "list" /\ ~ chunk_can_shrink(l.head) /\ l.cold # list_empty =>
         Pop[l] = alloc_list(HeadOf(l.cold), Pop[l.cold], l.tail)
    /\ l.kind = "list" /\ ~ chunk_can_shrink(l.head) /\ l.cold = list_empty /\ chunk_can_shrink(l.tail) =>
         Pop[l] = alloc_list(ChunkOf(<< chunk_head(l.tail) >>), l.cold, chunk_pop(l.tail))
    /\ l.kind = "list" /\ ~ chunk_can_shrink(l.head) /\ l.cold = list_empty /\ ~ chunk_can_shrink(l.tail) =>
         Pop[l] = Single(chunk_head(l.tail))
<1>1. \A l \in Lists : Pop[l] = PopOver(Pop[l.cold], l) /\ Chop[l] = ChopOver(Chop[l.cold], l)
  BY MethodsAre
<1> QED BY <1>1 DEF PopOver, ChopOver, Poached

LEMMA ChopForms ==
  \A l \in Lists :
    /\ l.kind = "list" /\ chunk_can_shrink(l.tail) =>
         Chop[l] = alloc_list(l.head, l.cold, chunk_chop(l.tail))
    /\ l.kind = "list" /\ ~ chunk_can_shrink(l.tail) /\ l.cold # list_empty =>
         Chop[l] = alloc_list(l.head, Chop[l.cold], TailOf(l.cold))
    /\ l.kind = "list" /\ ~ chunk_can_shrink(l.tail) /\ l.cold = list_empty /\ chunk_can_shrink(l.head) =>
         Chop[l] = alloc_list(chunk_chop(l.head), l.cold, ChunkOf(<< chunk_tail(l.head) >>))
    /\ l.kind = "list" /\ ~ chunk_can_shrink(l.tail) /\ l.cold = list_empty /\ ~ chunk_can_shrink(l.head) =>
         Chop[l] = Single(chunk_tail(l.head))
<1>1. \A l \in Lists : Chop[l] = ChopOver(Chop[l.cold], l)
  BY MethodsAre
<1> QED BY <1>1 DEF ChopOver

\* What is asked of a method that takes the item at an end out.
Took(item, l, leaves, d) ==
    item \in ItemsAt[d] /\ l \in FitsAt(d) /\ leaves = Leaves[item] \o Content[l]
TookLast(item, l, leaves, d) ==
    item \in ItemsAt[d] /\ l \in FitsAt(d) /\ leaves = Content[l] \o Leaves[item]

PopsAt(l, d) == l \in FitsAt(d) /\ l # list_empty => Took(HeadOf(l), Pop[l], Content[l], d)
ChopsAt(l, d) == l \in FitsAt(d) /\ l # list_empty => TookLast(TailOf(l), Chop[l], Content[l], d)

LEMMA PopSingle ==
  ASSUME NEW d \in Nat, NEW l \in FitsAt(d), l.kind = "single"
  PROVE  Took(HeadOf(l), Pop[l], Content[l], d) /\ TookLast(TailOf(l), Chop[l], Content[l], d)
<1>1. l \in Lists /\ d <= Depth
  BY FitsType
<1>2. l.value \in ItemsAt[d] /\ Content[l] = Leaves[l.value]
  BY SingleParts
<1>3. Leaves[l.value] \in Seq(Int)
  BY <1>1, <1>2, AtLeaves
<1>4. list_empty \in FitsAt(d) /\ Content[list_empty] = << >>
  BY <1>1, FitsEmpty, DepthType
<1>5. Pop[l] = list_empty /\ Chop[l] = list_empty
  BY <1>1, PopForms
<1>6. HeadOf(l) = l.value /\ TailOf(l) = l.value
  BY DEF HeadOf, TailOf
<1>7. Leaves[l.value] \o << >> = Leaves[l.value] /\ << >> \o Leaves[l.value] = Leaves[l.value]
  BY <1>3, ConcatEmptySeq
<1> QED BY <1>2, <1>4, <1>5, <1>6, <1>7 DEF Took, TookLast

LEMMA PopLong ==
  ASSUME NEW d \in Nat, NEW l \in FitsAt(d), l.kind = "list", PopsAt(l.cold, d + 1)
  PROVE  Took(HeadOf(l), Pop[l], Content[l], d)
<1> DEFINE h == Leaves[l.head]
           m == Content[l.cold]
           t == Leaves[l.tail]
           first == chunk_head(l.head)
           f == Leaves[first]
<1>1. /\ l.head \in EndsAt(d) /\ l.cold \in FitsAt(d + 1) /\ l.tail \in EndsAt(d) /\ d < Depth
      /\ d + 1 < Depth /\ Content[l] = h \o m \o t
      /\ h \in Seq(Int) /\ m \in Seq(Int) /\ t \in Seq(Int)
  BY ListParts
<1>2. l \in Lists /\ d <= Depth /\ d + 1 \in Nat /\ Room(d, Content[l])
  BY FitsType, FitsIs
<1>3. first \in ItemsAt[d] /\ HeadOf(l) = first
  BY <1>1, ChunkEnds DEF HeadOf
<1>4. f \in Seq(Int)
  BY <1>2, <1>3, AtLeaves
<1> HIDE DEF h, m, t, first, f
<1>5. ASSUME NEW s \in Seq(Int), Content[l] = f \o s, NEW p, Put(p, s, d), Pop[l] = p
      PROVE  Took(HeadOf(l), Pop[l], Content[l], d)
  BY <1>3, <1>5 DEF Took, Put, f
<1>6. CASE chunk_can_shrink(l.head)
  <2> DEFINE rest == chunk_pop(l.head)
             p == Leaves[rest]
  <2>1. rest \in EndsAt(d) /\ h = f \o p
    BY <1>1, <1>6, ChunkShrinks DEF h, f, first
  <2>2. p \in Seq(Int)
    BY <1>1, <2>1, EndType
  <2>3. Pop[l] = alloc_list(rest, l.cold, l.tail)
    BY <1>2, <1>6, PopForms
  <2> HIDE DEF rest, p
  <2>4. AreLeaves(f, p, m, t, t)
    BY <1>1, <1>4, <2>2 DEF AreLeaves
  <2>5. f \o ((p \o m) \o t) = ((f \o p) \o m) \o t
    BY ONLY <2>4, Regroup3a
  <2>6. (p \o m) \o t \in Seq(Int)
    BY <1>1, <2>2, LeavesJoin
  <2>7. Room(d, (p \o m) \o t)
    BY <1>1, <1>2, <1>4, <2>1, <2>5, <2>6, RoomParts
  <2>8. HasParts(rest, l.cold, l.tail, (p \o m) \o t, d)
    BY <1>1, <2>1, <2>7 DEF HasParts, p, m, t
  <2>9. Put(alloc_list(rest, l.cold, l.tail), (p \o m) \o t, d)
    BY <2>8, Assembled
  <2> QED BY <1>1, <1>5, <2>1, <2>3, <2>5, <2>6, <2>9
<1>7. CASE ~ chunk_can_shrink(l.head) /\ l.cold # list_empty
  <2> DEFINE new == HeadOf(l.cold)
             cold == Pop[l.cold]
             x == Leaves[new]
             y == Content[cold]
  <2>1. new \in ItemsAt[d + 1] /\ cold \in FitsAt(d + 1) /\ m = x \o y
    BY <1>1, <1>7 DEF PopsAt, Took, m
  <2>2. new \in EndsAt(d)
    BY <1>1, <2>1, StoredIsEnd
  <2>3. h = f
    BY <1>1, <1>7, ChunkEnds DEF h, f, first
  <2>4. Pop[l] = alloc_list(new, cold, l.tail)
    BY <1>2, <1>7, PopForms
  <2> HIDE DEF new, cold
  <2>5. (f \o m) \o t = f \o (m \o t)
    BY <1>1, <1>4, LeavesAssociate
  <2>6. m \o t \in Seq(Int)
    BY <1>1, LeavesJoin
  <2>7. Room(d, m \o t)
    BY <1>1, <1>2, <1>4, <2>3, <2>5, <2>6, RoomParts
  <2>8. HasParts(new, cold, l.tail, m \o t, d)
    BY <1>1, <2>1, <2>2, <2>7 DEF HasParts, t
  <2>9. Put(alloc_list(new, cold, l.tail), m \o t, d)
    BY <2>8, Assembled
  <2> QED BY <1>1, <1>5, <2>3, <2>4, <2>5, <2>6, <2>9
<1>8. ASSUME ~ chunk_can_shrink(l.head), l.cold = list_empty
      PROVE  Content[l] = f \o t /\ Room(d, t) /\ m = << >>
  <2>1. h = f
    BY <1>1, <1>8, ChunkEnds DEF h, f, first
  <2>2. m = << >> /\ f \o << >> = f
    BY <1>4, <1>8, ContentOfForms, ConcatEmptySeq DEF m
  <2>3. Content[l] = f \o t
    BY <1>1, <2>1, <2>2
  <2> QED BY <1>1, <1>2, <1>4, <2>2, <2>3, RoomParts
<1>9. CASE ~ chunk_can_shrink(l.head) /\ l.cold = list_empty /\ chunk_can_shrink(l.tail)
  <2> DEFINE item == chunk_head(l.tail)
             new == ChunkOf(<< item >>)
             rest == chunk_pop(l.tail)
             a == Leaves[item]
             b == Leaves[rest]
  <2>1. item \in ItemsAt[d] /\ rest \in EndsAt(d) /\ t = a \o b
    BY <1>1, <1>9, ChunkShrinks, ChunkEnds DEF t
  <2>2. new \in EndsAt(d) /\ Leaves[new] = a
    BY <1>1, <2>1, OneItemChunk
  <2>3. Pop[l] = alloc_list(new, l.cold, rest)
    BY <1>2, <1>9, PopForms
  <2>4. a \in Seq(Int)
    BY <1>2, <2>1, AtLeaves
  <2> HIDE DEF item, new, rest, a, b
  <2>5. a \o << >> = a
    BY <2>4, ConcatEmptySeq
  <2>6. t = Leaves[new] \o Content[l.cold] \o Leaves[rest]
    BY <1>8, <1>9, <2>1, <2>2, <2>5 DEF m, b
  <2>7. HasParts(new, l.cold, rest, t, d)
    BY <1>1, <1>8, <1>9, <2>1, <2>2, <2>6 DEF HasParts
  <2>8. Put(alloc_list(new, l.cold, rest), t, d)
    BY <2>7, Assembled
  <2> QED BY <1>1, <1>5, <1>8, <1>9, <2>3, <2>8
<1>10. CASE ~ chunk_can_shrink(l.head) /\ l.cold = list_empty /\ ~ chunk_can_shrink(l.tail)
  <2> DEFINE item == chunk_head(l.tail)
  <2>1. item \in ItemsAt[d] /\ t = Leaves[item]
    BY <1>1, <1>10, ChunkEnds DEF t
  <2>2. Pop[l] = Single(item)
    BY <1>2, <1>10, PopForms
  <2> HIDE DEF item
  <2>3. d + Len(Leaves[item]) <= Depth
    BY <1>8, <1>10, <2>1 DEF Room
  <2>4. Single(item) \in FitsAt(d) /\ Content[Single(item)] = t /\ Single(item).kind = "single"
    BY <1>2, <2>1, <2>3, FitsSingle
  <2>5. Put(Single(item), t, d)
    BY <2>4, PutNonempty
  <2> QED BY <1>1, <1>5, <1>8, <1>10, <2>2, <2>5
<1> QED BY <1>6, <1>7, <1>9, <1>10

LEMMA ChopLong ==
  ASSUME NEW d \in Nat, NEW l \in FitsAt(d), l.kind = "list", ChopsAt(l.cold, d + 1)
  PROVE  TookLast(TailOf(l), Chop[l], Content[l], d)
<1> DEFINE h == Leaves[l.head]
           m == Content[l.cold]
           t == Leaves[l.tail]
           last == chunk_tail(l.tail)
           f == Leaves[last]
<1>1. /\ l.head \in EndsAt(d) /\ l.cold \in FitsAt(d + 1) /\ l.tail \in EndsAt(d) /\ d < Depth
      /\ d + 1 < Depth /\ Content[l] = h \o m \o t
      /\ h \in Seq(Int) /\ m \in Seq(Int) /\ t \in Seq(Int)
  BY ListParts
<1>2. l \in Lists /\ d <= Depth /\ d + 1 \in Nat /\ Room(d, Content[l])
  BY FitsType, FitsIs
<1>3. last \in ItemsAt[d] /\ TailOf(l) = last
  BY <1>1, ChunkEnds DEF TailOf
<1>4. f \in Seq(Int)
  BY <1>2, <1>3, AtLeaves
<1> HIDE DEF h, m, t, last, f
<1>5. ASSUME NEW s \in Seq(Int), Content[l] = s \o f, NEW p, Put(p, s, d), Chop[l] = p
      PROVE  TookLast(TailOf(l), Chop[l], Content[l], d)
  BY <1>3, <1>5 DEF TookLast, Put, f
<1>6. CASE chunk_can_shrink(l.tail)
  <2> DEFINE rest == chunk_chop(l.tail)
             p == Leaves[rest]
             q == h \o m
  <2>1. rest \in EndsAt(d) /\ t = p \o f
    BY <1>1, <1>6, ChunkShrinks DEF t, f, last
  <2>2. p \in Seq(Int) /\ q \in Seq(Int)
    BY <1>1, <2>1, EndType, LeavesJoin
  <2>3. Chop[l] = alloc_list(l.head, l.cold, rest)
    BY <1>2, <1>6, ChopForms
  <2>4. Content[l] = q \o t
    BY <1>1
  <2> HIDE DEF rest, p, q
  <2>5. q \o (p \o f) = (q \o p) \o f
    BY <1>4, <2>2, LeavesAssociate
  <2>6. q \o p \in Seq(Int)
    BY <2>2, LeavesJoin
  <2>7. Room(d, q \o p)
    BY <1>2, <1>4, <2>1, <2>4, <2>5, <2>6, RoomParts
  <2>8. HasParts(l.head, l.cold, rest, q \o p, d)
    BY <1>1, <2>1, <2>7 DEF HasParts, p, q, h, m
  <2>9. Put(alloc_list(l.head, l.cold, rest), q \o p, d)
    BY <2>8, Assembled
  <2> QED BY <1>5, <2>1, <2>3, <2>4, <2>5, <2>6, <2>9
<1>7. CASE ~ chunk_can_shrink(l.tail) /\ l.cold # list_empty
  <2> DEFINE new == TailOf(l.cold)
             cold == Chop[l.cold]
             x == Leaves[new]
             y == Content[cold]
             s == (h \o y) \o x
  <2>1. new \in ItemsAt[d + 1] /\ cold \in FitsAt(d + 1) /\ m = y \o x
    BY <1>1, <1>7 DEF ChopsAt, TookLast, m
  <2>2. new \in EndsAt(d)
    BY <1>1, <2>1, StoredIsEnd
  <2>3. t = f
    BY <1>1, <1>7, ChunkEnds DEF t, f, last
  <2>4. Chop[l] = alloc_list(l.head, cold, new)
    BY <1>2, <1>7, ChopForms
  <2>5. x \in Seq(Int) /\ y \in Seq(Int)
    BY <1>1, <1>2, <2>1, <2>2, EndType, FitsType
  <2> HIDE DEF new, cold, x, y
  <2>6. AreLeaves(h, y, x, f, f)
    BY <1>1, <1>4, <2>5 DEF AreLeaves
  <2>7. (h \o (y \o x)) \o f = ((h \o y) \o x) \o f
    BY ONLY <2>6, Regroup3c
  <2>8. s \in Seq(Int)
    BY <1>1, <2>5, LeavesJoin
  <2>9. Content[l] = s \o f
    BY <1>1, <2>1, <2>3, <2>7
  <2>10. HasParts(l.head, cold, new, s, d)
    <3>1. s = Leaves[l.head] \o Content[cold] \o Leaves[new]
      BY DEF h, x, y
    <3> HIDE DEF s
    <3>2. Room(d, s)
      BY <1>2, <1>4, <2>8, <2>9, RoomParts
    <3> QED BY <1>1, <2>1, <2>2, <3>1, <3>2 DEF HasParts
  <2> HIDE DEF s
  <2>11. Put(alloc_list(l.head, cold, new), s, d)
    BY <2>10, Assembled
  <2> QED BY <1>5, <2>4, <2>8, <2>9, <2>11
<1>8. ASSUME ~ chunk_can_shrink(l.tail), l.cold = list_empty
      PROVE  Content[l] = h \o f /\ Room(d, h) /\ m = << >>
  <2>1. t = f
    BY <1>1, <1>8, ChunkEnds DEF t, f, last
  <2>2. m = << >> /\ h \o << >> = h
    BY <1>1, <1>8, ContentOfForms, ConcatEmptySeq DEF m
  <2>3. Content[l] = h \o f
    BY <1>1, <2>1, <2>2
  <2> QED BY <1>1, <1>2, <1>4, <2>2, <2>3, RoomParts
<1>9. CASE ~ chunk_can_shrink(l.tail) /\ l.cold = list_empty /\ chunk_can_shrink(l.head)
  <2> DEFINE item == chunk_tail(l.head)
             new == ChunkOf(<< item >>)
             rest == chunk_chop(l.head)
             a == Leaves[item]
             b == Leaves[rest]
  <2>1. item \in ItemsAt[d] /\ rest \in EndsAt(d) /\ h = b \o a
    BY <1>1, <1>9, ChunkShrinks, ChunkEnds DEF h
  <2>2. new \in EndsAt(d) /\ Leaves[new] = a
    BY <1>1, <2>1, OneItemChunk
  <2>3. Chop[l] = alloc_list(rest, l.cold, new)
    BY <1>2, <1>9, ChopForms
  <2>4. b \in Seq(Int)
    BY <1>1, <2>1, EndType
  <2> HIDE DEF item, new, rest, a, b
  <2>5. b \o << >> = b
    BY <2>4, ConcatEmptySeq
  <2>6. h = Leaves[rest] \o Content[l.cold] \o Leaves[new]
    BY <1>8, <1>9, <2>1, <2>2, <2>5 DEF m, b
  <2>7. HasParts(rest, l.cold, new, h, d)
    BY <1>1, <1>8, <1>9, <2>1, <2>2, <2>6 DEF HasParts
  <2>8. Put(alloc_list(rest, l.cold, new), h, d)
    BY <2>7, Assembled
  <2> QED BY <1>1, <1>5, <1>8, <1>9, <2>3, <2>8
<1>10. CASE ~ chunk_can_shrink(l.tail) /\ l.cold = list_empty /\ ~ chunk_can_shrink(l.head)
  <2> DEFINE item == chunk_tail(l.head)
  <2>1. item \in ItemsAt[d] /\ h = Leaves[item]
    BY <1>1, <1>10, ChunkEnds DEF h
  <2>2. Chop[l] = Single(item)
    BY <1>2, <1>10, ChopForms
  <2> HIDE DEF item
  <2>3. d + Len(Leaves[item]) <= Depth
    BY <1>8, <1>10, <2>1 DEF Room
  <2>4. Single(item) \in FitsAt(d) /\ Content[Single(item)] = h /\ Single(item).kind = "single"
    BY <1>2, <2>1, <2>3, FitsSingle
  <2>5. Put(Single(item), h, d)
    BY <2>4, PutNonempty
  <2> QED BY <1>1, <1>5, <1>8, <1>10, <2>2, <2>5
<1> QED BY <1>6, <1>7, <1>9, <1>10

\* List_pop takes the first item away, and keeps the shape.
LEMMA PopRight == \A l \in Lists : \A d \in Nat : PopsAt(l, d)
<1> DEFINE P == {l \in Lists : \A d \in Nat : PopsAt(l, d)}
<1>1. ASSUME NEW l \in Lists, IsShort(l) PROVE l \in P
  <2>1. l = list_empty \/ l.kind = "single"
    BY <1>1 DEF IsShort
  <2>2. \A d \in Nat : PopsAt(l, d)
    BY <2>1, PopSingle DEF PopsAt
  <2> QED BY <2>2
<1>2. ASSUME NEW l \in Lists, IsLong(P, l) PROVE l \in P
  <2>1. l.kind = "list" /\ l.cold \in P
    BY <1>2 DEF IsLong
  <2>2. ASSUME NEW d \in Nat PROVE PopsAt(l, d)
    <3>1. PopsAt(l.cold, d + 1)
      BY <2>1
    <3> QED BY <2>1, <3>1, PopLong DEF PopsAt
  <2> QED BY <2>2
<1> HIDE DEF P
<1>3. P = Lists
  BY <1>1, <1>2, ListsInduction DEF P
<1> QED BY <1>3 DEF P

\* List_chop takes the last item away, and keeps the shape.
LEMMA ChopRight == \A l \in Lists : \A d \in Nat : ChopsAt(l, d)
<1> DEFINE P == {l \in Lists : \A d \in Nat : ChopsAt(l, d)}
<1>1. ASSUME NEW l \in Lists, IsShort(l) PROVE l \in P
  <2>1. l = list_empty \/ l.kind = "single"
    BY <1>1 DEF IsShort
  <2>2. \A d \in Nat : ChopsAt(l, d)
    BY <2>1, PopSingle DEF ChopsAt
  <2> QED BY <2>2
<1>2. ASSUME NEW l \in Lists, IsLong(P, l) PROVE l \in P
  <2>1. l.kind = "list" /\ l.cold \in P
    BY <1>2 DEF IsLong
  <2>2. ASSUME NEW d \in Nat PROVE ChopsAt(l, d)
    <3>1. ChopsAt(l.cold, d + 1)
      BY <2>1
    <3> QED BY <2>1, <3>1, ChopLong DEF ChopsAt
  <2> QED BY <2>2
<1> HIDE DEF P
<1>3. P = Lists
  BY <1>1, <1>2, ListsInduction DEF P
<1> QED BY <1>3 DEF P

-----------------------------------------------------------------------------
(* Sequences run backwards.                                                 *)
LEMMA ReverseType ==
  ASSUME NEW S, NEW s \in Seq(S)
  PROVE  /\ Reverse(s) \in Seq(S) /\ Len(Reverse(s)) = Len(s)
         /\ \A i \in 1..Len(s) : Reverse(s)[i] = s[(Len(s) - i) + 1]
<1>1. Len(s) \in Nat /\ \A k \in 1..Len(s) : s[k] \in S
  BY LenProperties, ElementOfSeq
<1>2. \A i \in 1..Len(s) : (Len(s) - i) + 1 \in 1..Len(s)
  BY <1>1
<1>3. Reverse(s) \in [1..Len(s) -> S]
  BY <1>1, <1>2 DEF Reverse
<1>4. Reverse(s) \in Seq(S) /\ Len(Reverse(s)) = Len(s)
  BY <1>1, <1>3, SeqDef, LenProperties
<1> QED BY <1>4 DEF Reverse

LEMMA ReverseEmpty == Reverse(<< >>) = << >>
<1>1. << >> \in Seq({}) /\ Len(<< >>) = 0
  BY EmptySeq
<1>2. Reverse(<< >>) \in Seq({}) /\ Len(Reverse(<< >>)) = 0
  BY <1>1, ReverseType
<1> QED BY <1>2, EmptySeq

LEMMA ReverseAppend ==
  ASSUME NEW S, NEW s \in Seq(S), NEW e \in S
  PROVE  Reverse(Append(s, e)) = << e >> \o Reverse(s)
<1> DEFINE n == Len(s)
<1>1. n \in Nat /\ Append(s, e) \in Seq(S) /\ Len(Append(s, e)) = n + 1
  BY LenProperties, AppendProperties
<1>2. \A i \in 1..n : Append(s, e)[i] = s[i]
  BY AppendProperties
<1>3. Append(s, e)[n + 1] = e
  BY AppendProperties
<1>4. /\ Reverse(Append(s, e)) \in Seq(S) /\ Len(Reverse(Append(s, e))) = n + 1
      /\ \A i \in 1..(n + 1) : Reverse(Append(s, e))[i] = Append(s, e)[((n + 1) - i) + 1]
  <2> DEFINE t == Append(s, e)
  <2>1. /\ Reverse(t) \in Seq(S) /\ Len(Reverse(t)) = Len(t)
        /\ \A i \in 1..Len(t) : Reverse(t)[i] = t[(Len(t) - i) + 1]
    BY <1>1, ReverseType
  <2> HIDE DEF t
  <2> QED BY <1>1, <2>1 DEF t
<1>5. /\ Reverse(s) \in Seq(S) /\ Len(Reverse(s)) = n
      /\ \A i \in 1..n : Reverse(s)[i] = s[(n - i) + 1]
  BY ReverseType
<1>6. << e >> \in Seq(S) /\ Len(<< e >>) = 1 /\ << e >>[1] = e
  BY OneAndTwo
<1>7. << e >> \o Reverse(s) \in Seq(S) /\ Len(<< e >> \o Reverse(s)) = 1 + n
  BY <1>5, <1>6, ConcatProperties
<1>8. ASSUME NEW i \in 1..(n + 1) PROVE Reverse(Append(s, e))[i] = (<< e >> \o Reverse(s))[i]
  <2> HIDE DEF n
  <2>1. CASE i = 1
    <3>1. Reverse(Append(s, e))[i] = Append(s, e)[n + 1]
      <4>1. ((n + 1) - i) + 1 = n + 1
        BY <1>1, <2>1
      <4> QED BY <1>4, <4>1
    <3>2. (<< e >> \o Reverse(s))[i] = e
      BY <1>5, <1>6, <2>1, ConcatProperties
    <3> QED BY <1>3, <3>1, <3>2
  <2>2. CASE i # 1
    <3>1. i - 1 \in 1..n /\ (n - (i - 1)) + 1 = ((n + 1) - i) + 1 /\ ((n + 1) - i) + 1 \in 1..n
      BY <1>1, <2>2
    <3>2. Reverse(Append(s, e))[i] = s[((n + 1) - i) + 1]
      BY <1>2, <1>4, <3>1
    <3>3. Reverse(s)[i - 1] = s[((n + 1) - i) + 1]
      BY <1>5, <3>1
    <3>4. (<< e >> \o Reverse(s))[i] = Reverse(s)[i - 1]
      <4>1. i \in 1..(Len(<< e >>) + Len(Reverse(s))) /\ ~ (i <= Len(<< e >>)) /\ i - Len(<< e >>) = i - 1
        BY <1>1, <1>5, <1>6, <2>2
      <4> QED BY <1>5, <1>6, <4>1, ConcatProperties
    <3> QED BY <3>2, <3>3, <3>4
  <2> QED BY <2>1, <2>2
<1>9. Len(Reverse(Append(s, e))) = Len(<< e >> \o Reverse(s))
  BY <1>1, <1>4, <1>7
<1> QED BY <1>1, <1>4, <1>7, <1>8, <1>9, SeqEqual

LEMMA ReverseTwice ==
  ASSUME NEW S, NEW s \in Seq(S)
  PROVE  Reverse(Reverse(s)) = s
<1> DEFINE n == Len(s)
           r == Reverse(s)
<1>1. n \in Nat /\ r \in Seq(S) /\ Len(r) = n /\ \A i \in 1..n : r[i] = s[(n - i) + 1]
  BY LenProperties, ReverseType
<1>2. Reverse(r) \in Seq(S) /\ Len(Reverse(r)) = n /\ \A i \in 1..n : Reverse(r)[i] = r[(n - i) + 1]
  BY <1>1, ReverseType
<1>3. ASSUME NEW i \in 1..n PROVE Reverse(r)[i] = s[i]
  <2> HIDE DEF n, r
  <2>1. (n - i) + 1 \in 1..n /\ (n - ((n - i) + 1)) + 1 = i
    BY <1>1
  <2> QED BY <1>1, <1>2, <2>1
<1> QED BY <1>1, <1>2, <1>3, SeqEqual

-----------------------------------------------------------------------------
(* Pushing and appending one item after the other.                          *)
LEMMA PrefixSplits ==
  ASSUME NEW S, NEW s \in Seq(S), NEW i \in 0..Len(s)
  PROVE  \E t \in Seq(S) : s = SubSeq(s, 1, i) \o t /\ SubSeq(s, 1, i) \in Seq(S)
<1>1. Len(s) \in Nat /\ \A k \in 1..Len(s) : s[k] \in S
  BY LenProperties, ElementOfSeq
<1> DEFINE a == SubSeq(s, 1, i)
           b == SubSeq(s, i + 1, Len(s))
<1>2. a \in Seq(S) /\ Len(a) = i /\ \A k \in 1..i : a[k] = s[k]
  <2>1. i \in Nat /\ \A k \in 1..i : s[k] \in S
    BY <1>1
  <2>2. a \in Seq(S) /\ Len(a) = (IF 1 <= i THEN i - 1 + 1 ELSE 0) /\ \A k \in 1..(i - 1 + 1) : a[k] = s[1 + k - 1]
    BY <2>1, SubSeqProperties
  <2>3. (IF 1 <= i THEN i - 1 + 1 ELSE 0) = i /\ i - 1 + 1 = i /\ \A k \in 1..i : 1 + k - 1 = k
    BY <2>1
  <2> QED BY <2>2, <2>3
<1>3. b \in Seq(S) /\ Len(b) = Len(s) - i /\ \A k \in 1..(Len(s) - i) : b[k] = s[i + k]
  <2>1. i \in Nat /\ i <= Len(s) /\ \A k \in (i + 1)..Len(s) : s[k] \in S
    BY <1>1
  <2>2. /\ b \in Seq(S) /\ Len(b) = (IF i + 1 <= Len(s) THEN Len(s) - (i + 1) + 1 ELSE 0)
        /\ \A k \in 1..(Len(s) - (i + 1) + 1) : b[k] = s[(i + 1) + k - 1]
    BY <1>1, <2>1, SubSeqProperties
  <2>3. ASSUME NEW n \in Nat, i <= n
        PROVE  /\ (IF i + 1 <= n THEN n - (i + 1) + 1 ELSE 0) = n - i
               /\ n - (i + 1) + 1 = n - i /\ \A k \in 1..(n - i) : (i + 1) + k - 1 = i + k
    BY <2>1, <2>3
  <2>4. /\ (IF i + 1 <= Len(s) THEN Len(s) - (i + 1) + 1 ELSE 0) = Len(s) - i
        /\ Len(s) - (i + 1) + 1 = Len(s) - i /\ \A k \in 1..(Len(s) - i) : (i + 1) + k - 1 = i + k
    BY <1>1, <2>1, <2>3
  <2> QED BY <2>2, <2>4
<1> DEFINE n == Len(s)
<1>4. n \in Nat /\ i \in Nat /\ i <= n
  BY <1>1
<1> HIDE DEF a, b
<1>5. a \o b \in Seq(S) /\ Len(a \o b) = n
  <2>1. Len(a \o b) = Len(a) + Len(b) /\ a \o b \in Seq(S)
    BY <1>2, <1>3, ConcatProperties
  <2>2. Len(a) + Len(b) = i + (n - i)
    BY <1>2, <1>3
  <2> HIDE DEF n
  <2>3. i + (n - i) = n
    BY <1>4
  <2> QED BY <2>1, <2>2, <2>3
<1>6. ASSUME NEW k \in 1..n PROVE s[k] = (a \o b)[k]
  <2> DEFINE p == Len(a)
             q == Len(b)
  <2>0. p = i /\ q = n - i
    BY <1>2, <1>3
  <2>a. \A j \in 1..(p + q) : (a \o b)[j] = IF j <= p THEN a[j] ELSE b[j - p]
    BY <1>2, <1>3, ConcatProperties
  <2> HIDE DEF p, q, n
  <2>1. CASE k <= i
    <3>1. k \in 1..i /\ k \in 1..(p + q) /\ k <= p
      BY <1>4, <2>0, <2>1
    <3>2. (a \o b)[k] = a[k] /\ a[k] = s[k]
      BY <1>2, <2>a, <3>1
    <3> QED BY <3>2
  <2>2. CASE ~ (k <= i)
    <3>1. k - i \in 1..(n - i) /\ i + (k - i) = k /\ k \in 1..(p + q) /\ ~ (k <= p) /\ k - p = k - i
      BY <1>4, <2>0, <2>2
    <3>2. (a \o b)[k] = b[k - i]
      BY <2>a, <3>1
    <3>3. b[k - i] = s[i + (k - i)]
      BY <1>3, <3>1 DEF n
    <3> QED BY <3>1, <3>2, <3>3
  <2> QED BY <2>1, <2>2
<1>7. s = a \o b
  BY <1>5, <1>6, SeqEqual
<1> QED BY <1>2, <1>3, <1>7 DEF a

AttachOn(prev, i, l, items) == IF i = 0 THEN l ELSE Attach[prev][items[i]]

LEMMA AttachAllTurns ==
  ASSUME NEW l, NEW items, Len(items) \in Nat
  PROVE  \E f : /\ f[0] = AttachOn(f[0], 0, l, items)
                /\ \A i \in 1..Len(items) : f[i] = AttachOn(f[i - 1], i, l, items)
                /\ AttachAll(l, items) = f[Len(items)]
<1> DEFINE Has == {m \in Nat : \E f : f = [i \in 0..m |-> AttachOn(f[i - 1], i, l, items)]}
<1>0. \A a, b : AttachOn(a, 0, l, items) = AttachOn(b, 0, l, items)
  BY DEF AttachOn
<1>1. 0 \in Has
  <2> DEFINE f == [i \in 0..0 |-> AttachOn({}, 0, l, items)]
  <2>1. f = [i \in 0..0 |-> AttachOn(f[i - 1], i, l, items)]
    BY <1>0
  <2> QED BY <2>1
<1>2. ASSUME NEW m \in Has PROVE m + 1 \in Has
  <2>1. PICK f : f = [i \in 0..m |-> AttachOn(f[i - 1], i, l, items)]
    OBVIOUS
  <2> DEFINE g == [i \in 0..(m + 1) |-> IF i <= m THEN f[i] ELSE AttachOn(f[m], m + 1, l, items)]
  <2>2. m \in Nat
    OBVIOUS
  <2>3. ASSUME NEW i \in 0..(m + 1) PROVE g[i] = AttachOn(g[i - 1], i, l, items)
    <3>1. CASE i = 0
      <4>1. g[i] = f[0] /\ f[0] = AttachOn(f[0 - 1], 0, l, items)
        BY <2>1, <2>2, <3>1
      <4> QED BY <1>0, <3>1, <4>1
    <3>2. CASE i \in 1..m
      <4>1. g[i] = f[i] /\ g[i - 1] = f[i - 1] /\ f[i] = AttachOn(f[i - 1], i, l, items)
        BY <2>1, <2>2, <3>2
      <4> QED BY <4>1
    <3>3. CASE i = m + 1
      <4>1. i - 1 = m /\ g[i - 1] = f[m] /\ g[i] = AttachOn(f[m], m + 1, l, items)
        BY <2>2, <3>3
      <4> QED BY <3>3, <4>1
    <3> QED BY <2>2, <3>1, <3>2, <3>3
  <2>4. g = [i \in 0..(m + 1) |-> AttachOn(g[i - 1], i, l, items)]
    BY <2>3
  <2> HIDE DEF g
  <2>5. m + 1 \in Nat /\ \E h : h = [i \in 0..(m + 1) |-> AttachOn(h[i - 1], i, l, items)]
    BY <2>2, <2>4, SMTT(30)
  <2> QED BY <2>5
<1> HIDE DEF Has
<1>3. Has = Nat
  BY <1>1, <1>2, Induction DEF Has
<1>4. \E f : f = [i \in 0..Len(items) |-> AttachOn(f[i - 1], i, l, items)]
  BY <1>3 DEF Has
<1>5. \E f : f = [i \in 0..Len(items) |-> IF i = 0 THEN l ELSE Attach[f[i - 1]][items[i]]]
  BY <1>4 DEF AttachOn
<1> DEFINE turn == CHOOSE f : f = [i \in 0..Len(items) |-> IF i = 0 THEN l ELSE Attach[f[i - 1]][items[i]]]
<1>6. turn = [i \in 0..Len(items) |-> IF i = 0 THEN l ELSE Attach[turn[i - 1]][items[i]]]
  BY <1>5
<1>7. AttachAll(l, items) = turn[Len(items)]
  BY DEF AttachAll
<1> HIDE DEF turn
<1>8. turn = [i \in 0..Len(items) |-> AttachOn(turn[i - 1], i, l, items)]
  BY <1>6 DEF AttachOn
<1>9. turn[0] = AttachOn(turn[0], 0, l, items)
  <2>1. 0 \in 0..Len(items)
    OBVIOUS
  <2>2. turn[0] = AttachOn(turn[0 - 1], 0, l, items)
    BY <1>8, <2>1
  <2> QED BY <1>0, <2>2
<1>10. \A i \in 1..Len(items) : turn[i] = AttachOn(turn[i - 1], i, l, items)
  BY <1>8
<1> QED BY <1>7, <1>9, <1>10

PushOn(prev, i, l, items) == IF i = 0 THEN l ELSE Push[prev][items[i]]

LEMMA PushAllTurns ==
  ASSUME NEW l, NEW items, Len(items) \in Nat
  PROVE  \E f : /\ f[0] = PushOn(f[0], 0, l, items)
                /\ \A i \in 1..Len(items) : f[i] = PushOn(f[i - 1], i, l, items)
                /\ PushAll(l, items) = f[Len(items)]
<1> DEFINE Has == {m \in Nat : \E f : f = [i \in 0..m |-> PushOn(f[i - 1], i, l, items)]}
<1>0. \A a, b : PushOn(a, 0, l, items) = PushOn(b, 0, l, items)
  BY DEF PushOn
<1>1. 0 \in Has
  <2> DEFINE f == [i \in 0..0 |-> PushOn({}, 0, l, items)]
  <2>1. f = [i \in 0..0 |-> PushOn(f[i - 1], i, l, items)]
    BY <1>0
  <2> QED BY <2>1
<1>2. ASSUME NEW m \in Has PROVE m + 1 \in Has
  <2>1. PICK f : f = [i \in 0..m |-> PushOn(f[i - 1], i, l, items)]
    OBVIOUS
  <2> DEFINE g == [i \in 0..(m + 1) |-> IF i <= m THEN f[i] ELSE PushOn(f[m], m + 1, l, items)]
  <2>2. m \in Nat
    OBVIOUS
  <2>3. ASSUME NEW i \in 0..(m + 1) PROVE g[i] = PushOn(g[i - 1], i, l, items)
    <3>1. CASE i = 0
      <4>1. g[i] = f[0] /\ f[0] = PushOn(f[0 - 1], 0, l, items)
        BY <2>1, <2>2, <3>1
      <4> QED BY <1>0, <3>1, <4>1
    <3>2. CASE i \in 1..m
      <4>1. g[i] = f[i] /\ g[i - 1] = f[i - 1] /\ f[i] = PushOn(f[i - 1], i, l, items)
        BY <2>1, <2>2, <3>2
      <4> QED BY <4>1
    <3>3. CASE i = m + 1
      <4>1. i - 1 = m /\ g[i - 1] = f[m] /\ g[i] = PushOn(f[m], m + 1, l, items)
        BY <2>2, <3>3
      <4> QED BY <3>3, <4>1
    <3> QED BY <2>2, <3>1, <3>2, <3>3
  <2>4. g = [i \in 0..(m + 1) |-> PushOn(g[i - 1], i, l, items)]
    BY <2>3
  <2> HIDE DEF g
  <2>5. m + 1 \in Nat /\ \E h : h = [i \in 0..(m + 1) |-> PushOn(h[i - 1], i, l, items)]
    BY <2>2, <2>4, SMTT(30)
  <2> QED BY <2>5
<1> HIDE DEF Has
<1>3. Has = Nat
  BY <1>1, <1>2, Induction DEF Has
<1>4. \E f : f = [i \in 0..Len(items) |-> PushOn(f[i - 1], i, l, items)]
  BY <1>3 DEF Has
<1>5. \E f : f = [i \in 0..Len(items) |-> IF i = 0 THEN l ELSE Push[f[i - 1]][items[i]]]
  BY <1>4 DEF PushOn
<1> DEFINE turn == CHOOSE f : f = [i \in 0..Len(items) |-> IF i = 0 THEN l ELSE Push[f[i - 1]][items[i]]]
<1>6. turn = [i \in 0..Len(items) |-> IF i = 0 THEN l ELSE Push[turn[i - 1]][items[i]]]
  BY <1>5
<1>7. PushAll(l, items) = turn[Len(items)]
  BY DEF PushAll
<1> HIDE DEF turn
<1>8. turn = [i \in 0..Len(items) |-> PushOn(turn[i - 1], i, l, items)]
  BY <1>6 DEF PushOn
<1>9. turn[0] = PushOn(turn[0], 0, l, items)
  <2>1. 0 \in 0..Len(items)
    OBVIOUS
  <2>2. turn[0] = PushOn(turn[0 - 1], 0, l, items)
    BY <1>8, <2>1
  <2> QED BY <1>0, <2>2
<1>10. \A i \in 1..Len(items) : turn[i] = PushOn(turn[i - 1], i, l, items)
  BY <1>8
<1> QED BY <1>7, <1>9, <1>10

\* The list is well shaped at a depth, with these leaves.
Holds(l, leaves, d) == l \in FitsAt(d) /\ Content[l] = leaves

LEMMA RoomPrefix ==
  ASSUME NEW d \in Nat, d <= Depth, NEW items, items \in Seq(ItemsAt[d]), NEW i \in 0..Len(items)
  PROVE  \E t \in Seq(Int) : /\ LeavesOf(SubSeq(items, 1, i)) \in Seq(Int)
                             /\ LeavesOf(items) = LeavesOf(SubSeq(items, 1, i)) \o t
<1>1. PICK t \in Seq(ItemsAt[d]) : items = SubSeq(items, 1, i) \o t /\ SubSeq(items, 1, i) \in Seq(ItemsAt[d])
  BY PrefixSplits
<1>2. items \in Seq(Items) /\ t \in Seq(Items) /\ SubSeq(items, 1, i) \in Seq(Items)
  BY <1>1, AtTypes
<1>3. LeavesOf(items) = LeavesOf(SubSeq(items, 1, i)) \o LeavesOf(t)
  BY <1>1, <1>2, LeavesOfConcat
<1>4. LeavesOf(t) \in Seq(Int) /\ LeavesOf(SubSeq(items, 1, i)) \in Seq(Int)
  BY <1>2, LeavesOfType
<1> QED BY <1>3, <1>4

LEMMA AttachAllTurn ==
  ASSUME NEW d \in Nat, NEW l, NEW m, NEW held, held \in Seq(Int), Holds(l, held, d),
         NEW items, items \in Seq(ItemsAt[d]), NEW i \in 1..Len(items),
         Room(d, held \o LeavesOf(items)),
         Holds(m, held \o LeavesOf(SubSeq(items, 1, i - 1)), d)
  PROVE  Put(Attach[m][items[i]], held \o LeavesOf(SubSeq(items, 1, i)), d)
<1>1. d <= Depth /\ m \in Lists /\ m \in FitsAt(d)
  BY FitsType DEF Holds
<1>2. items \in Seq(Items) /\ items[i] \in ItemsAt[d] /\ SubSeq(items, 1, i - 1) \in Seq(Items)
  <2>1. items[i] \in ItemsAt[d] /\ SubSeq(items, 1, i - 1) \in Seq(ItemsAt[d])
    BY PrefixGrows
  <2> QED BY <1>1, <2>1, AtTypes
<1> DEFINE p == LeavesOf(SubSeq(items, 1, i - 1))
           q == Leaves[items[i]]
           all == LeavesOf(items)
<1>3. p \in Seq(Int) /\ q \in Seq(Int)
  BY <1>1, <1>2, LeavesOfType, AtLeaves
<1>4. LeavesOf(SubSeq(items, 1, i)) = p \o q
  BY <1>2, LeavesOfPrefix
<1>5. PICK t \in Seq(Int) : all = LeavesOf(SubSeq(items, 1, i)) \o t
  <2>1. i \in 0..Len(items)
    BY LenProperties
  <2> QED BY <1>1, <2>1, RoomPrefix
<1>6. Content[m] = held \o p
  BY DEF Holds
<1> HIDE DEF p, all
<1>7. Room(d, held \o ((p \o q) \o t))
  BY <1>4, <1>5 DEF all
<1>7q. q \in Seq(Int)
  BY <1>3
<1> HIDE DEF q
<1>8. held \o ((p \o q) \o t) = ((held \o p) \o q) \o t
  <2>1. AreLeaves(held, p, q, t, t)
    BY <1>3, <1>5 DEF AreLeaves
  <2> QED BY ONLY <2>1, Regroup3a, SMTT(30)
<1>9. held \o p \in Seq(Int) /\ (held \o p) \o q \in Seq(Int) /\ (held \o p) \o q = held \o (p \o q)
  <2>1. held \in Seq(Int) /\ p \in Seq(Int) /\ q \in Seq(Int)
    BY <1>3, <1>7q
  <2>2. held \o p \in Seq(Int)
    BY <2>1, LeavesJoin, Zenon
  <2>3. (held \o p) \o q \in Seq(Int)
    BY <2>1, <2>2, LeavesJoin, Zenon
  <2>4. (held \o p) \o q = held \o (p \o q)
    BY <2>1, LeavesAssociate, Zenon
  <2> QED BY <2>2, <2>3, <2>4
<1>10. Room(d, ((held \o p) \o q) \o t)
  BY <1>7, <1>8
<1>11. Room(d, (held \o p) \o q)
  BY <1>9, <1>10, <1>5, RoomParts
<1>12. Put(Attach[m][items[i]], (held \o p) \o q, d)
  <2>1. AttachesAt(m, d)
    BY <1>1, AttachRight
  <2>2. Room(d, Content[m] \o Leaves[items[i]])
    BY <1>6, <1>11 DEF q
  <2>3. Put(Attach[m][items[i]], Content[m] \o Leaves[items[i]], d)
    BY <1>1, <1>2, <2>1, <2>2 DEF AttachesAt
  <2> QED BY <1>6, <2>3 DEF q
<1> QED BY <1>4, <1>9, <1>12

\* Appending items one after the other.
LEMMA AttachAllRight ==
  ASSUME NEW d \in Nat, NEW l, NEW held, held \in Seq(Int), Holds(l, held, d),
         NEW items, items \in Seq(ItemsAt[d]), Room(d, held \o LeavesOf(items))
  PROVE  /\ Holds(AttachAll(l, items), held \o LeavesOf(items), d)
         /\ items # << >> => AttachAll(l, items) # list_empty
<1> DEFINE n == Len(items)
<1>0. n \in Nat
  BY LenProperties
<1>1. PICK turn : /\ turn[0] = AttachOn(turn[0], 0, l, items)
                  /\ \A i \in 1..n : turn[i] = AttachOn(turn[i - 1], i, l, items)
                  /\ AttachAll(l, items) = turn[n]
  <2>1. Len(items) \in Nat
    BY <1>0
  <2>2. \E f : /\ f[0] = AttachOn(f[0], 0, l, items)
               /\ \A i \in 1..Len(items) : f[i] = AttachOn(f[i - 1], i, l, items)
               /\ AttachAll(l, items) = f[Len(items)]
    BY ONLY <2>1, AttachAllTurns
  <2> QED BY ONLY <2>2 DEF n
<1>2. /\ turn[0] = l
      /\ \A i \in 1..n : turn[i] = Attach[turn[i - 1]][items[i]]
      /\ AttachAll(l, items) = turn[n]
  <2>1. \A i \in 1..n : i # 0
    BY <1>0
  <2> QED BY <1>1, <2>1 DEF AttachOn
<1> DEFINE Fine == {i \in Nat : i <= n => /\ Holds(turn[i], held \o LeavesOf(SubSeq(items, 1, i)), d)
                                          /\ i # 0 => turn[i] # list_empty}
<1>3. 0 \in Fine
  <2>1. turn[0] = l
    BY <1>2
  <2>2. held \o LeavesOf(SubSeq(items, 1, 0)) = held
    BY PrefixEnds, LeavesOfEmpty, ConcatEmptySeq
  <2> QED BY <2>1, <2>2
<1>4. ASSUME NEW i \in Fine PROVE i + 1 \in Fine
  <2> SUFFICES ASSUME i + 1 <= n
               PROVE  /\ Holds(turn[i + 1], held \o LeavesOf(SubSeq(items, 1, i + 1)), d)
                      /\ i + 1 # 0 => turn[i + 1] # list_empty
    OBVIOUS
  <2>1. i \in Nat /\ i + 1 \in 1..n /\ (i + 1) - 1 = i /\ i <= n /\ i + 1 \in 0..n /\ i + 1 # 0
    BY <1>0
  <2>2. turn[i + 1] = Attach[turn[i]][items[i + 1]]
    <3>1. turn[i + 1] = Attach[turn[(i + 1) - 1]][items[i + 1]]
      BY <1>2, <2>1
    <3> QED BY <2>1, <3>1
  <2>3. Holds(turn[i], held \o LeavesOf(SubSeq(items, 1, (i + 1) - 1)), d)
    BY <2>1
  <2>4. Put(Attach[turn[i]][items[i + 1]], held \o LeavesOf(SubSeq(items, 1, i + 1)), d)
    BY <2>1, <2>3, AttachAllTurn
  <2> QED BY <2>2, <2>4 DEF Put, Holds
<1> HIDE DEF Fine
<1>5. Fine = Nat
  BY <1>3, <1>4, Induction DEF Fine
<1>6. Holds(turn[n], held \o LeavesOf(SubSeq(items, 1, n)), d) /\ (n # 0 => turn[n] # list_empty)
  BY <1>0, <1>5 DEF Fine
<1>7. items # << >> => n # 0
  BY EmptySeq
<1> QED BY <1>2, <1>6, <1>7, PrefixEnds

\* The leaves of items pushed in turn end up the other way round.
LEMMA LeavesOfReverse ==
  ASSUME NEW items \in Seq(Items), NEW i \in 1..Len(items)
  PROVE  /\ LeavesOf(Reverse(SubSeq(items, 1, i)))
              = Leaves[items[i]] \o LeavesOf(Reverse(SubSeq(items, 1, i - 1)))
         /\ LeavesOf(Reverse(SubSeq(items, 1, i - 1))) \in Seq(Int)
<1>1. /\ SubSeq(items, 1, i - 1) \in Seq(Items) /\ items[i] \in Items
      /\ SubSeq(items, 1, i) = Append(SubSeq(items, 1, i - 1), items[i])
  BY PrefixGrows
<1>2. Reverse(SubSeq(items, 1, i)) = << items[i] >> \o Reverse(SubSeq(items, 1, i - 1))
  BY <1>1, ReverseAppend
<1>3. Reverse(SubSeq(items, 1, i - 1)) \in Seq(Items)
  BY <1>1, ReverseType
<1> QED BY <1>1, <1>2, <1>3, LeavesOfFirst, LeavesOfType

LEMMA RoomSuffix ==
  ASSUME NEW d \in Nat, d <= Depth, NEW items, items \in Seq(ItemsAt[d]), NEW i \in 0..Len(items)
  PROVE  \E t \in Seq(Int) : /\ LeavesOf(Reverse(SubSeq(items, 1, i))) \in Seq(Int)
                             /\ LeavesOf(Reverse(items)) = t \o LeavesOf(Reverse(SubSeq(items, 1, i)))
<1> DEFINE More(k) == \E t \in Seq(Int) : LeavesOf(Reverse(SubSeq(items, 1, i + k)))
                                           = t \o LeavesOf(Reverse(SubSeq(items, 1, i)))
           Good == {k \in Nat : i + k <= Len(items) => More(k)}
<1>0. Len(items) \in Nat /\ items \in Seq(Items) /\ i \in Nat
  BY LenProperties, AtTypes
<1>1. LeavesOf(Reverse(SubSeq(items, 1, i))) \in Seq(Int)
  <2>1. PICK u \in Seq(Items) : SubSeq(items, 1, i) \in Seq(Items)
    BY <1>0, PrefixSplits
  <2> QED BY <2>1, ReverseType, LeavesOfType
<1>2. More(0)
  <2>1. i + 0 = i
    BY <1>0
  <2>2. << >> \in Seq(Int) /\ << >> \o LeavesOf(Reverse(SubSeq(items, 1, i))) = LeavesOf(Reverse(SubSeq(items, 1, i)))
    BY <1>1, ConcatEmptySeq, EmptySeq
  <2> QED BY <2>1, <2>2
<1>3. ASSUME NEW k \in Nat, i + (k + 1) <= Len(items), More(k) PROVE More(k + 1)
  <2>1. i + k <= Len(items) /\ i + (k + 1) \in 1..Len(items) /\ (i + (k + 1)) - 1 = i + k
    BY <1>0, <1>3
  <2>2. PICK t \in Seq(Int) : LeavesOf(Reverse(SubSeq(items, 1, i + k)))
                               = t \o LeavesOf(Reverse(SubSeq(items, 1, i)))
    BY <1>3
  <2> DEFINE q == Leaves[items[i + (k + 1)]]
             r == LeavesOf(Reverse(SubSeq(items, 1, i)))
  <2>3. LeavesOf(Reverse(SubSeq(items, 1, i + (k + 1)))) = q \o (t \o r)
    <3>1. LeavesOf(Reverse(SubSeq(items, 1, i + (k + 1))))
            = q \o LeavesOf(Reverse(SubSeq(items, 1, (i + (k + 1)) - 1)))
      BY <1>0, <2>1, LeavesOfReverse
    <3> QED BY <2>1, <2>2, <3>1
  <2>4. q \in Seq(Int)
    <3>1. items[i + (k + 1)] \in Items
      BY <1>0, <2>1, ElementOfSeq
    <3> QED BY <3>1, LeavesType
  <2>r. r \in Seq(Int)
    BY <1>1
  <2> HIDE DEF q, r
  <2>5. q \o (t \o r) = (q \o t) \o r /\ q \o t \in Seq(Int)
    BY <2>r, <2>4, LeavesAssociate, LeavesJoin
  <2> QED BY <2>3, <2>5 DEF r
<1> HIDE DEF More
<1>4. Good = Nat
  <2>1. 0 \in Good
    BY <1>2
  <2>2. ASSUME NEW k \in Good PROVE k + 1 \in Good
    <3>1. k \in Nat /\ (i + (k + 1) <= Len(items) => i + k <= Len(items))
      BY <1>0
    <3>2. i + (k + 1) <= Len(items) => More(k + 1)
      BY <1>3, <3>1
    <3> QED BY <3>1, <3>2
  <2> HIDE DEF Good
  <2> QED BY <2>1, <2>2, Induction DEF Good
<1>5. Len(items) - i \in Nat /\ i + (Len(items) - i) = Len(items)
  <2> DEFINE n == Len(items)
  <2>1. n \in Nat /\ i \in 0..n
    BY <1>0
  <2> HIDE DEF n
  <2>2. n - i \in Nat /\ i + (n - i) = n
    BY <2>1
  <2> QED BY <2>2 DEF n
<1>6. \E t \in Seq(Int) : LeavesOf(Reverse(SubSeq(items, 1, Len(items))))
                             = t \o LeavesOf(Reverse(SubSeq(items, 1, i)))
  <2>1. More(Len(items) - i)
    BY <1>0, <1>4, <1>5
  <2> QED BY <1>5, <2>1 DEF More
<1> QED BY <1>0, <1>1, <1>6, PrefixEnds

LEMMA PushAllTurn ==
  ASSUME NEW d \in Nat, NEW l, NEW m, NEW held, held \in Seq(Int), Holds(l, held, d),
         NEW items, items \in Seq(ItemsAt[d]), NEW i \in 1..Len(items),
         Room(d, LeavesOf(Reverse(items)) \o held),
         Holds(m, LeavesOf(Reverse(SubSeq(items, 1, i - 1))) \o held, d)
  PROVE  Put(Push[m][items[i]], LeavesOf(Reverse(SubSeq(items, 1, i))) \o held, d)
<1>1. d <= Depth /\ m \in Lists /\ m \in FitsAt(d)
  BY FitsType DEF Holds
<1>2. items \in Seq(Items) /\ items[i] \in ItemsAt[d]
  <2>1. items[i] \in ItemsAt[d]
    BY PrefixGrows
  <2> QED BY <1>1, <2>1, AtTypes
<1> DEFINE p == LeavesOf(Reverse(SubSeq(items, 1, i - 1)))
           q == Leaves[items[i]]
           all == LeavesOf(Reverse(items))
<1>3. p \in Seq(Int) /\ q \in Seq(Int)
  BY <1>1, <1>2, LeavesOfReverse, AtLeaves
<1>4. LeavesOf(Reverse(SubSeq(items, 1, i))) = q \o p
  BY <1>2, LeavesOfReverse
<1>5. PICK t \in Seq(Int) : all = t \o LeavesOf(Reverse(SubSeq(items, 1, i)))
  <2>1. i \in 0..Len(items)
    BY LenProperties
  <2> QED BY <1>1, <2>1, RoomSuffix
<1>6. Content[m] = p \o held
  BY DEF Holds
<1> HIDE DEF p, all
<1>7. Room(d, (t \o (q \o p)) \o held)
  BY <1>4, <1>5 DEF all
<1>7q. q \in Seq(Int)
  BY <1>3
<1> HIDE DEF q
<1>8. (t \o (q \o p)) \o held = t \o ((q \o p) \o held)
  <2>1. q \o p \in Seq(Int)
    BY <1>3, LeavesJoin
  <2> QED BY <1>5, <2>1, LeavesAssociate
<1>9. q \o p \in Seq(Int) /\ (q \o p) \o held \in Seq(Int) /\ (q \o p) \o held = q \o (p \o held)
  <2>1. q \o p \in Seq(Int)
    BY <1>3, <1>7q, LeavesJoin
  <2>2. (q \o p) \o held \in Seq(Int)
    BY <2>1, LeavesJoin
  <2>3. (q \o p) \o held = q \o (p \o held)
    BY <1>3, <1>7q, LeavesAssociate
  <2> QED BY <2>1, <2>2, <2>3
<1>11. Room(d, q \o (p \o held))
  <2>1. Room(d, (q \o p) \o held)
    BY <1>5, <1>7, <1>8, <1>9, RoomParts
  <2> QED BY <1>9, <2>1
<1>12. Put(Push[m][items[i]], q \o (p \o held), d)
  <2>1. PushesAt(m, d)
    BY <1>1, PushRight
  <2>2. Room(d, Leaves[items[i]] \o Content[m])
    BY <1>6, <1>11 DEF q
  <2>3. Put(Push[m][items[i]], Leaves[items[i]] \o Content[m], d)
    BY <1>1, <1>2, <2>1, <2>2 DEF PushesAt
  <2> QED BY <1>6, <2>3 DEF q
<1> QED BY <1>4, <1>9, <1>12

\* Pushing items one after the other.
LEMMA PushAllRight ==
  ASSUME NEW d \in Nat, NEW l, NEW held, held \in Seq(Int), Holds(l, held, d),
         NEW items, items \in Seq(ItemsAt[d]), Room(d, LeavesOf(Reverse(items)) \o held)
  PROVE  /\ Holds(PushAll(l, items), LeavesOf(Reverse(items)) \o held, d)
         /\ items # << >> => PushAll(l, items) # list_empty
<1> DEFINE n == Len(items)
<1>0. n \in Nat
  BY LenProperties
<1>1. PICK turn : /\ turn[0] = PushOn(turn[0], 0, l, items)
                  /\ \A i \in 1..n : turn[i] = PushOn(turn[i - 1], i, l, items)
                  /\ PushAll(l, items) = turn[n]
  <2>1. Len(items) \in Nat
    BY <1>0
  <2>2. \E f : /\ f[0] = PushOn(f[0], 0, l, items)
               /\ \A i \in 1..Len(items) : f[i] = PushOn(f[i - 1], i, l, items)
               /\ PushAll(l, items) = f[Len(items)]
    BY ONLY <2>1, PushAllTurns
  <2> QED BY ONLY <2>2 DEF n
<1>2. /\ turn[0] = l
      /\ \A i \in 1..n : turn[i] = Push[turn[i - 1]][items[i]]
      /\ PushAll(l, items) = turn[n]
  <2>1. \A i \in 1..n : i # 0
    BY <1>0
  <2> QED BY <1>1, <2>1 DEF PushOn
<1> DEFINE Fine == {i \in Nat : i <= n => /\ Holds(turn[i], LeavesOf(Reverse(SubSeq(items, 1, i))) \o held, d)
                                          /\ i # 0 => turn[i] # list_empty}
<1>3. 0 \in Fine
  <2>1. turn[0] = l
    BY <1>2
  <2>2. LeavesOf(Reverse(SubSeq(items, 1, 0))) \o held = held
    BY PrefixEnds, LeavesOfEmpty, ReverseEmpty, ConcatEmptySeq
  <2> QED BY <2>1, <2>2
<1>4. ASSUME NEW i \in Fine PROVE i + 1 \in Fine
  <2> SUFFICES ASSUME i + 1 <= n
               PROVE  /\ Holds(turn[i + 1], LeavesOf(Reverse(SubSeq(items, 1, i + 1))) \o held, d)
                      /\ i + 1 # 0 => turn[i + 1] # list_empty
    OBVIOUS
  <2>1. i \in Nat /\ i + 1 \in 1..n /\ (i + 1) - 1 = i /\ i <= n /\ i + 1 \in 0..n /\ i + 1 # 0
    BY <1>0
  <2>2. turn[i + 1] = Push[turn[i]][items[i + 1]]
    <3>1. turn[i + 1] = Push[turn[(i + 1) - 1]][items[i + 1]]
      BY <1>2, <2>1
    <3> QED BY <2>1, <3>1
  <2>3. Holds(turn[i], LeavesOf(Reverse(SubSeq(items, 1, (i + 1) - 1))) \o held, d)
    BY <2>1
  <2>4. Put(Push[turn[i]][items[i + 1]], LeavesOf(Reverse(SubSeq(items, 1, i + 1))) \o held, d)
    BY <2>1, <2>3, PushAllTurn
  <2> QED BY <2>2, <2>4 DEF Put, Holds
<1> HIDE DEF Fine
<1>5. Fine = Nat
  BY <1>3, <1>4, Induction DEF Fine
<1>6. Holds(turn[n], LeavesOf(Reverse(SubSeq(items, 1, n))) \o held, d) /\ (n # 0 => turn[n] # list_empty)
  BY <1>0, <1>5 DEF Fine
<1>7. items # << >> => n # 0
  BY EmptySeq
<1> QED BY <1>2, <1>6, <1>7, PrefixEnds

-----------------------------------------------------------------------------
(* Iterators.                                                               *)
LEMMA NonemptyHasLeaves ==
  ASSUME NEW d \in Nat, NEW l \in FitsAt(d), l # list_empty
  PROVE  Len(Content[l]) >= 1 /\ Len(Content[l]) \in Nat /\ d < Depth
<1>1. l \in Lists /\ d <= Depth /\ Content[l] \in Seq(Int) /\ Len(Content[l]) \in Nat
  BY FitsType
<1>2. CASE l.kind = "list"
  <2>1. Len(Content[l]) >= 2 /\ d < Depth
    BY <1>2, ListParts
  <2> QED BY <1>1, <2>1
<1>3. CASE l.kind = "single"
  <2>1. l.value \in ItemsAt[d] /\ Content[l] = Leaves[l.value] /\ d < Depth
    BY <1>3, SingleParts
  <2>2. Len(Content[l]) >= 1
    BY <1>1, <2>1, AtLeaves
  <2> QED BY <1>1, <2>1, <2>2
<1> QED BY <1>1, <1>2, <1>3, Kinds

IterateOn(prev, i, l) == 
    IF i = 0 THEN [items |-> << >>, rest |-> l]
    ELSE IF prev.rest = list_empty THEN prev ELSE Given(prev)

LEMMA IterateTurns ==
  ASSUME NEW l, Size(l) \in Nat
  PROVE  \E f : /\ f[0] = IterateOn(f[0], 0, l)
                /\ \A i \in 1..Size(l) : f[i] = IterateOn(f[i - 1], i, l)
                /\ Iterate(l) = f[Size(l)].items
<1> DEFINE Has == {m \in Nat : \E f : f = [i \in 0..m |-> IterateOn(f[i - 1], i, l)]}
<1>0. \A a, b : IterateOn(a, 0, l) = IterateOn(b, 0, l)
  BY DEF IterateOn
<1>1. 0 \in Has
  <2> DEFINE f == [i \in 0..0 |-> IterateOn({}, 0, l)]
  <2>1. f = [i \in 0..0 |-> IterateOn(f[i - 1], i, l)]
    BY <1>0
  <2> QED BY <2>1
<1>2. ASSUME NEW m \in Has PROVE m + 1 \in Has
  <2>1. PICK f : f = [i \in 0..m |-> IterateOn(f[i - 1], i, l)]
    OBVIOUS
  <2> DEFINE g == [i \in 0..(m + 1) |-> IF i <= m THEN f[i] ELSE IterateOn(f[m], m + 1, l)]
  <2>2. m \in Nat
    OBVIOUS
  <2>3. ASSUME NEW i \in 0..(m + 1) PROVE g[i] = IterateOn(g[i - 1], i, l)
    <3>1. CASE i = 0
      <4>1. g[i] = f[0] /\ f[0] = IterateOn(f[0 - 1], 0, l)
        BY <2>1, <2>2, <3>1
      <4> QED BY <1>0, <3>1, <4>1
    <3>2. CASE i \in 1..m
      <4>1. g[i] = f[i] /\ g[i - 1] = f[i - 1] /\ f[i] = IterateOn(f[i - 1], i, l)
        BY <2>1, <2>2, <3>2
      <4> QED BY <4>1
    <3>3. CASE i = m + 1
      <4>1. i - 1 = m /\ g[i - 1] = f[m] /\ g[i] = IterateOn(f[m], m + 1, l)
        BY <2>2, <3>3
      <4> QED BY <3>3, <4>1
    <3> QED BY <2>2, <3>1, <3>2, <3>3
  <2>4. g = [i \in 0..(m + 1) |-> IterateOn(g[i - 1], i, l)]
    BY <2>3
  <2> HIDE DEF g
  <2>5. m + 1 \in Nat /\ \E h : h = [i \in 0..(m + 1) |-> IterateOn(h[i - 1], i, l)]
    BY <2>2, <2>4
  <2> QED BY <2>5
<1> HIDE DEF Has
<1>3. Has = Nat
  BY <1>1, <1>2, Induction DEF Has
<1>4. \E f : f = [i \in 0..Size(l) |-> IterateOn(f[i - 1], i, l)]
  BY <1>3 DEF Has
<1>5. \E f : f = [i \in 0..Size(l) |-> 
    IF i = 0 THEN [items |-> << >>, rest |-> l]
    ELSE IF f[i - 1].rest = list_empty THEN f[i - 1] ELSE Given(f[i - 1])]
  BY <1>4 DEF IterateOn
<1> DEFINE turn == CHOOSE f : f = [i \in 0..Size(l) |-> 
    IF i = 0 THEN [items |-> << >>, rest |-> l]
    ELSE IF f[i - 1].rest = list_empty THEN f[i - 1] ELSE Given(f[i - 1])]
<1>6. turn = [i \in 0..Size(l) |-> 
    IF i = 0 THEN [items |-> << >>, rest |-> l]
    ELSE IF turn[i - 1].rest = list_empty THEN turn[i - 1] ELSE Given(turn[i - 1])]
  BY <1>5
<1>7. Iterate(l) = turn[Size(l)].items
  BY DEF Iterate
<1> HIDE DEF turn
<1>8. turn = [i \in 0..Size(l) |-> IterateOn(turn[i - 1], i, l)]
  BY <1>6 DEF IterateOn
<1>9. turn[0] = IterateOn(turn[0], 0, l)
  <2>1. 0 \in 0..Size(l)
    OBVIOUS
  <2>2. turn[0] = IterateOn(turn[0 - 1], 0, l)
    BY <1>8, <2>1
  <2> QED BY <1>0, <2>2
<1>10. \A i \in 1..Size(l) : turn[i] = IterateOn(turn[i - 1], i, l)
  BY <1>8
<1> QED BY <1>7, <1>9, <1>10

IterateBackOn(prev, i, l) == 
    IF i = 0 THEN [items |-> << >>, rest |-> l]
    ELSE IF prev.rest = list_empty THEN prev ELSE GivenBack(prev)

LEMMA IterateBackTurns ==
  ASSUME NEW l, Size(l) \in Nat
  PROVE  \E f : /\ f[0] = IterateBackOn(f[0], 0, l)
                /\ \A i \in 1..Size(l) : f[i] = IterateBackOn(f[i - 1], i, l)
                /\ IterateBack(l) = f[Size(l)].items
<1> DEFINE Has == {m \in Nat : \E f : f = [i \in 0..m |-> IterateBackOn(f[i - 1], i, l)]}
<1>0. \A a, b : IterateBackOn(a, 0, l) = IterateBackOn(b, 0, l)
  BY DEF IterateBackOn
<1>1. 0 \in Has
  <2> DEFINE f == [i \in 0..0 |-> IterateBackOn({}, 0, l)]
  <2>1. f = [i \in 0..0 |-> IterateBackOn(f[i - 1], i, l)]
    BY <1>0
  <2> QED BY <2>1
<1>2. ASSUME NEW m \in Has PROVE m + 1 \in Has
  <2>1. PICK f : f = [i \in 0..m |-> IterateBackOn(f[i - 1], i, l)]
    OBVIOUS
  <2> DEFINE g == [i \in 0..(m + 1) |-> IF i <= m THEN f[i] ELSE IterateBackOn(f[m], m + 1, l)]
  <2>2. m \in Nat
    OBVIOUS
  <2>3. ASSUME NEW i \in 0..(m + 1) PROVE g[i] = IterateBackOn(g[i - 1], i, l)
    <3>1. CASE i = 0
      <4>1. g[i] = f[0] /\ f[0] = IterateBackOn(f[0 - 1], 0, l)
        BY <2>1, <2>2, <3>1
      <4> QED BY <1>0, <3>1, <4>1
    <3>2. CASE i \in 1..m
      <4>1. g[i] = f[i] /\ g[i - 1] = f[i - 1] /\ f[i] = IterateBackOn(f[i - 1], i, l)
        BY <2>1, <2>2, <3>2
      <4> QED BY <4>1
    <3>3. CASE i = m + 1
      <4>1. i - 1 = m /\ g[i - 1] = f[m] /\ g[i] = IterateBackOn(f[m], m + 1, l)
        BY <2>2, <3>3
      <4> QED BY <3>3, <4>1
    <3> QED BY <2>2, <3>1, <3>2, <3>3
  <2>4. g = [i \in 0..(m + 1) |-> IterateBackOn(g[i - 1], i, l)]
    BY <2>3
  <2> HIDE DEF g
  <2>5. m + 1 \in Nat /\ \E h : h = [i \in 0..(m + 1) |-> IterateBackOn(h[i - 1], i, l)]
    BY <2>2, <2>4
  <2> QED BY <2>5
<1> HIDE DEF Has
<1>3. Has = Nat
  BY <1>1, <1>2, Induction DEF Has
<1>4. \E f : f = [i \in 0..Size(l) |-> IterateBackOn(f[i - 1], i, l)]
  BY <1>3 DEF Has
<1>5. \E f : f = [i \in 0..Size(l) |-> 
    IF i = 0 THEN [items |-> << >>, rest |-> l]
    ELSE IF f[i - 1].rest = list_empty THEN f[i - 1] ELSE GivenBack(f[i - 1])]
  BY <1>4 DEF IterateBackOn
<1> DEFINE turn == CHOOSE f : f = [i \in 0..Size(l) |-> 
    IF i = 0 THEN [items |-> << >>, rest |-> l]
    ELSE IF f[i - 1].rest = list_empty THEN f[i - 1] ELSE GivenBack(f[i - 1])]
<1>6. turn = [i \in 0..Size(l) |-> 
    IF i = 0 THEN [items |-> << >>, rest |-> l]
    ELSE IF turn[i - 1].rest = list_empty THEN turn[i - 1] ELSE GivenBack(turn[i - 1])]
  BY <1>5
<1>7. IterateBack(l) = turn[Size(l)].items
  BY DEF IterateBack
<1> HIDE DEF turn
<1>8. turn = [i \in 0..Size(l) |-> IterateBackOn(turn[i - 1], i, l)]
  BY <1>6 DEF IterateBackOn
<1>9. turn[0] = IterateBackOn(turn[0], 0, l)
  <2>1. 0 \in 0..Size(l)
    OBVIOUS
  <2>2. turn[0] = IterateBackOn(turn[0 - 1], 0, l)
    BY <1>8, <2>1
  <2> QED BY <1>0, <2>2
<1>10. \A i \in 1..Size(l) : turn[i] = IterateBackOn(turn[i - 1], i, l)
  BY <1>8
<1> QED BY <1>7, <1>9, <1>10

\* What an iterator has given and what it has left.
IterateHolds(t, held, d) ==
    /\ t.items \in Seq(ItemsAt[d]) /\ t.rest \in FitsAt(d)
    /\ held = LeavesOf(t.items) \o Content[t.rest]

LEMMA IterateTurn ==
  ASSUME NEW d \in Nat, NEW t, NEW held, IterateHolds(t, held, d), t.rest # list_empty
  PROVE  /\ IterateHolds(Given(t), held, d)
         /\ Len(Content[Given(t).rest]) + 1 <= Len(Content[t.rest])
<1> DEFINE v == HeadOf(t.rest)
           m == Pop[t.rest]
<1>1. t.rest \in FitsAt(d) /\ t.rest \in Lists /\ d <= Depth /\ t.items \in Seq(ItemsAt[d])
  BY FitsType DEF IterateHolds
<1>2. Took(v, m, Content[t.rest], d)
  <2>1. PopsAt(t.rest, d)
    BY <1>1, PopRight
  <2> QED BY <1>1, <2>1 DEF PopsAt
<1>3. v \in ItemsAt[d] /\ m \in FitsAt(d)
  BY <1>2 DEF Took
<1>4. /\ Leaves[v] \in Seq(Int) /\ Len(Leaves[v]) >= 1 /\ Len(Leaves[v]) \in Nat
      /\ Content[m] \in Seq(Int) /\ Len(Content[m]) \in Nat
  BY <1>1, <1>3, AtLeaves, FitsType
<1>5. v \in Items /\ t.items \in Seq(Items)
  BY <1>1, <1>3, AtTypes
<1>6. Append(t.items, v) \in Seq(ItemsAt[d])
  BY <1>1, <1>3, AppendProperties
<1>7. Given(t).items = Append(t.items, v) /\ Given(t).rest = m
  BY DEF Given
<1> DEFINE given == LeavesOf(t.items)
           q == Leaves[v]
           r == Content[m]
<1>8. given \in Seq(Int)
  BY <1>5, LeavesOfType, ReverseType
<1>9. LeavesOf(Append(t.items, v)) = given \o q
  BY <1>5, LeavesOfAppend
<1>10. held = given \o (q \o r)
  BY <1>2 DEF IterateHolds, Took
<1>11. Content[t.rest] = q \o r
  BY <1>2 DEF Took
<1>12. q \in Seq(Int) /\ r \in Seq(Int) /\ Len(q) >= 1 /\ Len(q) \in Nat /\ Len(r) \in Nat
  BY <1>4
<1> HIDE DEF v, m, given, q, r
<1>13. held = (given \o q) \o r
  BY <1>8, <1>10, <1>12, LeavesAssociate
<1>14. IterateHolds(Given(t), held, d)
  BY <1>3, <1>6, <1>7, <1>9, <1>13 DEF IterateHolds, r
<1>15. Len(Content[t.rest]) = Len(q) + Len(r)
  <2>1. Len(q \o r) = Len(q) + Len(r)
    BY <1>12, LeavesJoin
  <2> QED BY <1>11, <2>1
<1>16. Len(Content[Given(t).rest]) = Len(r)
  BY <1>7 DEF r
<1> DEFINE a == Len(q)
           b == Len(r)
<1> HIDE DEF a, b
<1>17. b + 1 <= a + b
  <2>1. a \in Nat /\ b \in Nat /\ a >= 1
    BY <1>12 DEF a, b
  <2> QED BY <2>1
<1> QED BY <1>14, <1>15, <1>16, <1>17 DEF a, b

\* An iterator gives the items of the list, in order.
LEMMA IterateRight ==
  ASSUME NEW d \in Nat, NEW l, l \in FitsAt(d)
  PROVE  /\ Iterate(l) \in Seq(ItemsAt[d])
         /\ Content[l] = LeavesOf(Iterate(l))
<1> DEFINE n == Size(l)
<1>0. n \in Nat /\ n = Len(Content[l]) /\ Content[l] \in Seq(Int) /\ d <= Depth
  BY SizeIs, FitsType
<1>1. PICK turn : /\ turn[0] = IterateOn(turn[0], 0, l)
                  /\ \A i \in 1..n : turn[i] = IterateOn(turn[i - 1], i, l)
                  /\ Iterate(l) = turn[n].items
  <2>1. Size(l) \in Nat
    BY <1>0
  <2>2. \E f : /\ f[0] = IterateOn(f[0], 0, l)
               /\ \A i \in 1..Size(l) : f[i] = IterateOn(f[i - 1], i, l)
               /\ Iterate(l) = f[Size(l)].items
    BY ONLY <2>1, IterateTurns
  <2> QED BY ONLY <2>2 DEF n
<1>2. /\ turn[0] = [items |-> << >>, rest |-> l]
      /\ \A i \in 1..n : turn[i] = IF turn[i - 1].rest = list_empty THEN turn[i - 1] ELSE Given(turn[i - 1])
  <2>1. \A i \in 1..n : i # 0
    BY <1>0
  <2> QED BY <1>1, <2>1 DEF IterateOn
<1> DEFINE Left(i) == Len(Content[turn[i].rest])
           Good(i) == /\ IterateHolds(turn[i], Content[l], d)
                      /\ turn[i].rest # list_empty => i + Left(i) <= n
<1>3. Good(0)
  <2>1. turn[0].items = << >> /\ turn[0].rest = l
    BY <1>2
  <2>2. << >> \in Seq(ItemsAt[d])
    BY EmptySeq
  <2>3. Content[l] = LeavesOf(<< >>) \o Content[l]
    BY <1>0, LeavesOfEmpty, ReverseEmpty, ConcatEmptySeq
  <2>4. 0 + n <= n
    BY <1>0
  <2>5. IterateHolds(turn[0], Content[l], d)
    BY <2>1, <2>2, <2>3 DEF IterateHolds
  <2>6. 0 + Left(0) <= n
    BY <1>0, <2>1, <2>4
  <2> QED BY <2>5, <2>6
<1>4. ASSUME NEW i \in Nat, i + 1 <= n, Good(i) PROVE Good(i + 1)
  <2>1. turn[i + 1] = IF turn[i].rest = list_empty THEN turn[i] ELSE Given(turn[i])
    <3>1. i + 1 \in 1..n /\ (i + 1) - 1 = i
      BY <1>0, <1>4
    <3> QED BY <1>2, <3>1
  <2>2. CASE turn[i].rest = list_empty
    BY <1>4, <2>1, <2>2
  <2>3. CASE turn[i].rest # list_empty
    <3>1. IterateHolds(turn[i], Content[l], d) /\ i + Left(i) <= n /\ turn[i + 1] = Given(turn[i])
      BY <1>4, <2>1, <2>3
    <3>2. IterateHolds(turn[i + 1], Content[l], d) /\ Left(i + 1) + 1 <= Left(i)
      BY <2>3, <3>1, IterateTurn
    <3>3. Left(i) \in Nat /\ Left(i + 1) \in Nat
      <4>1. turn[i].rest \in FitsAt(d) /\ turn[i + 1].rest \in FitsAt(d)
        BY <3>1, <3>2 DEF IterateHolds
      <4> QED BY <4>1, FitsType
    <3> DEFINE a == Left(i)
               b == Left(i + 1)
    <3>4. a \in Nat /\ b \in Nat /\ b + 1 <= a /\ i + a <= n
      BY <3>1, <3>2, <3>3
    <3> HIDE DEF a, b, n
    <3>5. (i + 1) + b <= n
      BY <1>0, <3>4
    <3> QED BY <3>2, <3>5 DEF b
  <2> QED BY <2>2, <2>3
<1> HIDE DEF Good
<1>5. \A i \in Nat : i <= n => Good(i)
  <2> DEFINE Fine == {i \in Nat : i <= n => Good(i)}
  <2>1. 0 \in Fine
    BY <1>3
  <2>2. ASSUME NEW i \in Fine PROVE i + 1 \in Fine
    <3>1. i \in Nat /\ (i + 1 <= n => i <= n)
      BY <1>0
    <3>2. i + 1 <= n => Good(i + 1)
      BY <1>4, <3>1
    <3> QED BY <3>1, <3>2
  <2> HIDE DEF Fine
  <2>3. Fine = Nat
    BY <2>1, <2>2, Induction DEF Fine
  <2> QED BY <2>3 DEF Fine
<1>6. IterateHolds(turn[n], Content[l], d) /\ (turn[n].rest # list_empty => n + Left(n) <= n)
  <2>1. Good(n)
    BY <1>0, <1>5
  <2> QED BY <2>1 DEF Good
<1>7. turn[n].rest = list_empty
  <2> SUFFICES ASSUME turn[n].rest # list_empty PROVE FALSE
    OBVIOUS
  <2>1. turn[n].rest \in FitsAt(d) /\ n + Left(n) <= n
    BY <1>6 DEF IterateHolds
  <2>2. Left(n) >= 1 /\ Left(n) \in Nat
    BY <2>1, NonemptyHasLeaves
  <2> DEFINE a == Left(n)
  <2> HIDE DEF a, n
  <2>3. a >= 1 /\ a \in Nat /\ n + a <= n /\ n \in Nat
    BY <1>0, <2>1, <2>2 DEF a
  <2> QED BY <2>3
<1>8. turn[n].items \in Seq(ItemsAt[d]) /\ Content[turn[n].rest] = << >>
  BY <1>6, <1>7, ContentOfForms DEF IterateHolds
<1>9. LeavesOf(turn[n].items) \in Seq(Int)
  <2>1. turn[n].items \in Seq(Items)
    BY <1>0, <1>8, AtTypes
  <2> QED BY <2>1, ReverseType, LeavesOfType
<1>10. Content[l] = LeavesOf(turn[n].items)
  BY <1>6, <1>8, <1>9, ConcatEmptySeq DEF IterateHolds
<1> QED BY <1>1, <1>8, <1>10

\* What an iterator has given and what it has left.
IterateBackHolds(t, held, d) ==
    /\ t.items \in Seq(ItemsAt[d]) /\ t.rest \in FitsAt(d)
    /\ held = Content[t.rest] \o LeavesOf(Reverse(t.items))

LEMMA IterateBackTurn ==
  ASSUME NEW d \in Nat, NEW t, NEW held, IterateBackHolds(t, held, d), t.rest # list_empty
  PROVE  /\ IterateBackHolds(GivenBack(t), held, d)
         /\ Len(Content[GivenBack(t).rest]) + 1 <= Len(Content[t.rest])
<1> DEFINE v == TailOf(t.rest)
           m == Chop[t.rest]
<1>1. t.rest \in FitsAt(d) /\ t.rest \in Lists /\ d <= Depth /\ t.items \in Seq(ItemsAt[d])
  BY FitsType DEF IterateBackHolds
<1>2. TookLast(v, m, Content[t.rest], d)
  <2>1. ChopsAt(t.rest, d)
    BY <1>1, ChopRight
  <2> QED BY <1>1, <2>1 DEF ChopsAt
<1>3. v \in ItemsAt[d] /\ m \in FitsAt(d)
  BY <1>2 DEF TookLast
<1>4. /\ Leaves[v] \in Seq(Int) /\ Len(Leaves[v]) >= 1 /\ Len(Leaves[v]) \in Nat
      /\ Content[m] \in Seq(Int) /\ Len(Content[m]) \in Nat
  BY <1>1, <1>3, AtLeaves, FitsType
<1>5. v \in Items /\ t.items \in Seq(Items)
  BY <1>1, <1>3, AtTypes
<1>6. Append(t.items, v) \in Seq(ItemsAt[d])
  BY <1>1, <1>3, AppendProperties
<1>7. GivenBack(t).items = Append(t.items, v) /\ GivenBack(t).rest = m
  BY DEF GivenBack
<1> DEFINE given == LeavesOf(Reverse(t.items))
           q == Leaves[v]
           r == Content[m]
<1>8. given \in Seq(Int)
  BY <1>5, LeavesOfType, ReverseType
<1>9. LeavesOf(Reverse(Append(t.items, v))) = q \o given
  <2>1. Reverse(Append(t.items, v)) = << v >> \o Reverse(t.items) /\ Reverse(t.items) \in Seq(Items)
    BY <1>5, ReverseAppend, ReverseType
  <2> QED BY <1>5, <2>1, LeavesOfFirst
<1>10. held = (r \o q) \o given
  BY <1>2 DEF IterateBackHolds, TookLast
<1>11. Content[t.rest] = r \o q
  BY <1>2 DEF TookLast
<1>12. q \in Seq(Int) /\ r \in Seq(Int) /\ Len(q) >= 1 /\ Len(q) \in Nat /\ Len(r) \in Nat
  BY <1>4
<1> HIDE DEF v, m, given, q, r
<1>13. held = r \o (q \o given)
  BY <1>8, <1>10, <1>12, LeavesAssociate
<1>14. IterateBackHolds(GivenBack(t), held, d)
  BY <1>3, <1>6, <1>7, <1>9, <1>13 DEF IterateBackHolds, r
<1>15. Len(Content[t.rest]) = Len(q) + Len(r)
  <2>1. Len(r \o q) = Len(q) + Len(r)
    BY <1>12, LeavesJoin
  <2> QED BY <1>11, <2>1
<1>16. Len(Content[GivenBack(t).rest]) = Len(r)
  BY <1>7 DEF r
<1> DEFINE a == Len(q)
           b == Len(r)
<1> HIDE DEF a, b
<1>17. b + 1 <= a + b
  <2>1. a \in Nat /\ b \in Nat /\ a >= 1
    BY <1>12 DEF a, b
  <2> QED BY <2>1
<1> QED BY <1>14, <1>15, <1>16, <1>17 DEF a, b

\* An iterator of the reversed form gives the items of the list, the last first.
LEMMA IterateBackRight ==
  ASSUME NEW d \in Nat, NEW l, l \in FitsAt(d)
  PROVE  /\ IterateBack(l) \in Seq(ItemsAt[d])
         /\ Content[l] = LeavesOf(Reverse(IterateBack(l)))
<1> DEFINE n == Size(l)
<1>0. n \in Nat /\ n = Len(Content[l]) /\ Content[l] \in Seq(Int) /\ d <= Depth
  BY SizeIs, FitsType
<1>1. PICK turn : /\ turn[0] = IterateBackOn(turn[0], 0, l)
                  /\ \A i \in 1..n : turn[i] = IterateBackOn(turn[i - 1], i, l)
                  /\ IterateBack(l) = turn[n].items
  <2>1. Size(l) \in Nat
    BY <1>0
  <2>2. \E f : /\ f[0] = IterateBackOn(f[0], 0, l)
               /\ \A i \in 1..Size(l) : f[i] = IterateBackOn(f[i - 1], i, l)
               /\ IterateBack(l) = f[Size(l)].items
    BY ONLY <2>1, IterateBackTurns
  <2> QED BY ONLY <2>2 DEF n
<1>2. /\ turn[0] = [items |-> << >>, rest |-> l]
      /\ \A i \in 1..n : turn[i] = IF turn[i - 1].rest = list_empty THEN turn[i - 1] ELSE GivenBack(turn[i - 1])
  <2>1. \A i \in 1..n : i # 0
    BY <1>0
  <2> QED BY <1>1, <2>1 DEF IterateBackOn
<1> DEFINE Left(i) == Len(Content[turn[i].rest])
           Good(i) == /\ IterateBackHolds(turn[i], Content[l], d)
                      /\ turn[i].rest # list_empty => i + Left(i) <= n
<1>3. Good(0)
  <2>1. turn[0].items = << >> /\ turn[0].rest = l
    BY <1>2
  <2>2. << >> \in Seq(ItemsAt[d])
    BY EmptySeq
  <2>3. Content[l] = Content[l] \o LeavesOf(Reverse(<< >>))
    BY <1>0, LeavesOfEmpty, ReverseEmpty, ConcatEmptySeq
  <2>4. 0 + n <= n
    BY <1>0
  <2>5. IterateBackHolds(turn[0], Content[l], d)
    BY <2>1, <2>2, <2>3 DEF IterateBackHolds
  <2>6. 0 + Left(0) <= n
    BY <1>0, <2>1, <2>4
  <2> QED BY <2>5, <2>6
<1>4. ASSUME NEW i \in Nat, i + 1 <= n, Good(i) PROVE Good(i + 1)
  <2>1. turn[i + 1] = IF turn[i].rest = list_empty THEN turn[i] ELSE GivenBack(turn[i])
    <3>1. i + 1 \in 1..n /\ (i + 1) - 1 = i
      BY <1>0, <1>4
    <3> QED BY <1>2, <3>1
  <2>2. CASE turn[i].rest = list_empty
    BY <1>4, <2>1, <2>2
  <2>3. CASE turn[i].rest # list_empty
    <3>1. IterateBackHolds(turn[i], Content[l], d) /\ i + Left(i) <= n /\ turn[i + 1] = GivenBack(turn[i])
      BY <1>4, <2>1, <2>3
    <3>2. IterateBackHolds(turn[i + 1], Content[l], d) /\ Left(i + 1) + 1 <= Left(i)
      BY <2>3, <3>1, IterateBackTurn
    <3>3. Left(i) \in Nat /\ Left(i + 1) \in Nat
      <4>1. turn[i].rest \in FitsAt(d) /\ turn[i + 1].rest \in FitsAt(d)
        BY <3>1, <3>2 DEF IterateBackHolds
      <4> QED BY <4>1, FitsType
    <3> DEFINE a == Left(i)
               b == Left(i + 1)
    <3>4. a \in Nat /\ b \in Nat /\ b + 1 <= a /\ i + a <= n
      BY <3>1, <3>2, <3>3
    <3> HIDE DEF a, b, n
    <3>5. (i + 1) + b <= n
      BY <1>0, <3>4
    <3> QED BY <3>2, <3>5 DEF b
  <2> QED BY <2>2, <2>3
<1> HIDE DEF Good
<1>5. \A i \in Nat : i <= n => Good(i)
  <2> DEFINE Fine == {i \in Nat : i <= n => Good(i)}
  <2>1. 0 \in Fine
    BY <1>3
  <2>2. ASSUME NEW i \in Fine PROVE i + 1 \in Fine
    <3>1. i \in Nat /\ (i + 1 <= n => i <= n)
      BY <1>0
    <3>2. i + 1 <= n => Good(i + 1)
      BY <1>4, <3>1
    <3> QED BY <3>1, <3>2
  <2> HIDE DEF Fine
  <2>3. Fine = Nat
    BY <2>1, <2>2, Induction DEF Fine
  <2> QED BY <2>3 DEF Fine
<1>6. IterateBackHolds(turn[n], Content[l], d) /\ (turn[n].rest # list_empty => n + Left(n) <= n)
  <2>1. Good(n)
    BY <1>0, <1>5
  <2> QED BY <2>1 DEF Good
<1>7. turn[n].rest = list_empty
  <2> SUFFICES ASSUME turn[n].rest # list_empty PROVE FALSE
    OBVIOUS
  <2>1. turn[n].rest \in FitsAt(d) /\ n + Left(n) <= n
    BY <1>6 DEF IterateBackHolds
  <2>2. Left(n) >= 1 /\ Left(n) \in Nat
    BY <2>1, NonemptyHasLeaves
  <2> DEFINE a == Left(n)
  <2> HIDE DEF a, n
  <2>3. a >= 1 /\ a \in Nat /\ n + a <= n /\ n \in Nat
    BY <1>0, <2>1, <2>2 DEF a
  <2> QED BY <2>3
<1>8. turn[n].items \in Seq(ItemsAt[d]) /\ Content[turn[n].rest] = << >>
  BY <1>6, <1>7, ContentOfForms DEF IterateBackHolds
<1>9. LeavesOf(Reverse(turn[n].items)) \in Seq(Int)
  <2>1. turn[n].items \in Seq(Items)
    BY <1>0, <1>8, AtTypes
  <2> QED BY <2>1, ReverseType, LeavesOfType
<1>10. Content[l] = LeavesOf(Reverse(turn[n].items))
  BY <1>6, <1>8, <1>9, ConcatEmptySeq DEF IterateBackHolds
<1> QED BY <1>1, <1>8, <1>10

-----------------------------------------------------------------------------
(* Joining: what goes to cold storage.                                      *)
\* The chunks for the two cold storages are well shaped, and hold the leaves
\* that were between them.
Stows(chunks, between, d) ==
    /\ chunks.first \in Seq(ItemsAt[d + 1]) /\ chunks.second \in Seq(ItemsAt[d + 1])
    /\ LeavesOf(chunks.first) \o LeavesOf(Reverse(chunks.second)) = between

LEMMA MatrixIs ==
  /\ Matrix[6] = 4 /\ Matrix[7] = 4 /\ Matrix[8] = 2
  /\ Matrix[10] = 4 /\ Matrix[11] = 4 /\ Matrix[12] = 5
  /\ Matrix[14] = 3 /\ Matrix[15] = 5 /\ Matrix[16] = 5
BY DEF Matrix

\* The actions that three rows and columns of the matrix give.
LEMMA ActionIs ==
  ASSUME NEW y \in 1..3, NEW x \in 1..3, NEW behind
  PROVE  LET a == ActionFor(y, x, behind)
         IN \/ a = 4 /\ y <= 2 /\ x <= 2
            \/ a = 2 /\ y = 1 /\ x = 3
            \/ a = 3 /\ y = 3 /\ x = 1
            \/ a = 5 /\ y >= 2 /\ x >= 2
<1>1. 4 * y + x < 16 /\ ActionFor(y, x, behind) = Matrix[4 * y + x + 1]
  BY DEF ActionFor
<1>2. CASE y = 1
  <2>1. 4 * y + x + 1 = x + 5
    BY <1>2
  <2>2. x + 5 \in {6, 7, 8} /\ (x + 5 = 6 => x = 1) /\ (x + 5 = 7 => x = 2) /\ (x + 5 = 8 => x = 3)
    OBVIOUS
  <2> QED BY <1>1, <1>2, <2>1, <2>2, MatrixIs
<1>3. CASE y = 2
  <2>1. 4 * y + x + 1 = x + 9
    BY <1>3
  <2>2. x + 9 \in {10, 11, 12} /\ (x + 9 = 10 => x = 1) /\ (x + 9 = 11 => x = 2) /\ (x + 9 = 12 => x = 3)
    OBVIOUS
  <2> QED BY <1>1, <1>3, <2>1, <2>2, MatrixIs
<1>4. CASE y = 3
  <2>1. 4 * y + x + 1 = x + 13
    BY <1>4
  <2>2. x + 13 \in {14, 15, 16} /\ (x + 13 = 14 => x = 1) /\ (x + 13 = 15 => x = 2) /\ (x + 13 = 16 => x = 3)
    OBVIOUS
  <2> QED BY <1>1, <1>4, <2>1, <2>2, MatrixIs
<1>5. y = 1 \/ y = 2 \/ y = 3
  OBVIOUS
<1> QED BY <1>2, <1>3, <1>4, <1>5

LEMMA ReverseOne == \A v : Reverse(<< v >>) = << v >>
<1> SUFFICES ASSUME NEW v PROVE Reverse(<< v >>) = << v >>
  OBVIOUS
<1>1. << >> \in Seq({v}) /\ v \in {v} /\ Append(<< >>, v) = << v >>
  BY EmptySeq
<1>2. Reverse(Append(<< >>, v)) = << v >> \o Reverse(<< >>)
  BY <1>1, ReverseAppend
<1>3. << v >> \o Reverse(<< >>) = << v >>
  <2>1. << v >> \in Seq({v})
    BY OneAndTwo
  <2> QED BY <2>1, ReverseEmpty, ConcatEmptySeq
<1> QED BY <1>1, <1>2, <1>3

LEMMA LeavesOfTwo ==
  ASSUME NEW v \in Items, NEW w \in Items
  PROVE  LeavesOf(<< v, w >>) = Leaves[v] \o Leaves[w]
<1>1. << v >> \in Seq(Items) /\ << v, w >> = Append(<< v >>, w)
  BY OneAndTwo
<1> QED BY <1>1, LeavesOfAppend, LeavesOfOne

\* One chunk for each.
LEMMA StowOneEach ==
  ASSUME NEW d \in Nat, d < Depth, NEW v \in ItemsAt[d + 1], NEW w \in ItemsAt[d + 1]
  PROVE  Stows([first |-> << v >>, second |-> << w >>], Leaves[v] \o Leaves[w], d)
<1>1. v \in Items /\ w \in Items
  <2>1. d + 1 \in Nat /\ d + 1 <= Depth
    BY DepthType
  <2> QED BY <2>1, AtTypes
<1>2. << v >> \in Seq(ItemsAt[d + 1]) /\ << w >> \in Seq(ItemsAt[d + 1])
  BY OneAndTwo
<1>3. LeavesOf(<< v >>) = Leaves[v] /\ LeavesOf(<< w >>) = Leaves[w]
  BY <1>1, LeavesOfOne
<1> QED BY <1>2, <1>3, ReverseOne DEF Stows

LEMMA StowTwoAndOne ==
  ASSUME NEW d \in Nat, d < Depth, NEW v \in ItemsAt[d + 1], NEW u \in ItemsAt[d + 1], NEW w \in ItemsAt[d + 1]
  PROVE  Stows([first |-> << v, u >>, second |-> << w >>], (Leaves[v] \o Leaves[u]) \o Leaves[w], d)
<1>1. v \in Items /\ w \in Items /\ u \in Items
  <2>1. d + 1 \in Nat /\ d + 1 <= Depth
    BY DepthType
  <2> QED BY <2>1, AtTypes
<1>2. << v, u >> \in Seq(ItemsAt[d + 1]) /\ << w >> \in Seq(ItemsAt[d + 1])
  BY OneAndTwo
<1>3. LeavesOf(<< v, u >>) = Leaves[v] \o Leaves[u] /\ LeavesOf(<< w >>) = Leaves[w]
  BY <1>1, LeavesOfOne, LeavesOfTwo
<1> QED BY <1>2, <1>3, ReverseOne DEF Stows

\* Chunks of less than four items, or with one less, may be an item.
LEMMA EndToItem ==
  ASSUME NEW d \in Nat, d < Depth, NEW c \in EndsAt(d), chunk_item_count(c) <= 3
  PROVE  c \in ItemsAt[d + 1]
BY EndParts

\* What an action of List_concatenate stores has the leaves of the two ends.
LEMMA StowedRight ==
  ASSUME NEW d \in Nat, d < Depth, NEW ours \in EndsAt(d), NEW others \in EndsAt(d),
         chunk_can_grow(ours), chunk_can_grow(others), NEW behind
  PROVE  Stows(Stowed(ours, others, ActionFor(chunk_item_count(ours), chunk_item_count(others), behind)),
               Leaves[ours] \o Leaves[others], d)
<1> DEFINE y == chunk_item_count(ours)
           x == chunk_item_count(others)
           a == ActionFor(y, x, behind)
<1>1. y \in 1..3 /\ x \in 1..3
  <2>1. y \in 1..4 /\ x \in 1..4
    BY EndParts
  <2>2. y < 4 /\ x < 4
    BY DEF chunk_can_grow
  <2> QED BY <2>1, <2>2
<1>2. \/ a = 4 /\ y <= 2 /\ x <= 2
      \/ a = 2 /\ y = 1 /\ x = 3
      \/ a = 3 /\ y = 3 /\ x = 1
      \/ a = 5 /\ y >= 2 /\ x >= 2
  BY <1>1, ActionIs
<1>3. /\ Leaves[ours] \in Seq(Int) /\ Leaves[others] \in Seq(Int)
      /\ ours \in ItemsAt[d + 1] /\ others \in ItemsAt[d + 1]
  <2>1. y <= 3 /\ x <= 3
    BY <1>1
  <2> QED BY <2>1, EndToItem, EndType
<1> DEFINE t == chunk_tail(ours)
           h == chunk_head(others)
<1>4. t \in ItemsAt[d] /\ h \in ItemsAt[d]
  BY ChunkEnds
<1>5. Leaves[t] \in Seq(Int) /\ Leaves[h] \in Seq(Int)
  <2>1. d <= Depth
    BY DepthType
  <2> QED BY <1>4, <2>1, AtLeaves
<1>6. x >= 2 => /\ chunk_pop(others) \in ItemsAt[d + 1]
                /\ Leaves[others] = Leaves[h] \o Leaves[chunk_pop(others)]
                /\ Leaves[chunk_pop(others)] \in Seq(Int)
  <2> SUFFICES ASSUME x >= 2 PROVE /\ chunk_pop(others) \in ItemsAt[d + 1]
                                   /\ Leaves[others] = Leaves[h] \o Leaves[chunk_pop(others)]
                                   /\ Leaves[chunk_pop(others)] \in Seq(Int)
    OBVIOUS
  <2>1. chunk_can_shrink(others)
    <3>1. x > 1
      BY <1>1
    <3> QED BY <3>1 DEF chunk_can_shrink
  <2>2. /\ chunk_pop(others) \in ItemsAt[d + 1] /\ chunk_pop(others) \in EndsAt(d)
        /\ Leaves[others] = Leaves[h] \o Leaves[chunk_pop(others)]
    BY <2>1, ChunkShrinks
  <2> QED BY <2>2, EndType
<1>7. y >= 2 => /\ chunk_chop(ours) \in ItemsAt[d + 1]
                /\ Leaves[ours] = Leaves[chunk_chop(ours)] \o Leaves[t]
                /\ Leaves[chunk_chop(ours)] \in Seq(Int)
  <2> SUFFICES ASSUME y >= 2 PROVE /\ chunk_chop(ours) \in ItemsAt[d + 1]
                                   /\ Leaves[ours] = Leaves[chunk_chop(ours)] \o Leaves[t]
                                   /\ Leaves[chunk_chop(ours)] \in Seq(Int)
    OBVIOUS
  <2>1. chunk_can_shrink(ours)
    <3>1. y > 1
      BY <1>1
    <3> QED BY <3>1 DEF chunk_can_shrink
  <2>2. /\ chunk_chop(ours) \in ItemsAt[d + 1] /\ chunk_chop(ours) \in EndsAt(d)
        /\ Leaves[ours] = Leaves[chunk_chop(ours)] \o Leaves[t]
    BY <2>1, ChunkShrinks
  <2> QED BY <2>2, EndType
<1>8. /\ y <= 2 => /\ chunk_append(ours, h) \in ItemsAt[d + 1]
                   /\ Leaves[chunk_append(ours, h)] = Leaves[ours] \o Leaves[h]
      /\ x <= 2 => /\ chunk_push(others, t) \in ItemsAt[d + 1]
                   /\ Leaves[chunk_push(others, t)] = Leaves[t] \o Leaves[others]
  <2>1. /\ chunk_append(ours, h) \in EndsAt(d) /\ Leaves[chunk_append(ours, h)] = Leaves[ours] \o Leaves[h]
        /\ chunk_item_count(chunk_append(ours, h)) = y + 1
    BY <1>4, ChunkGrows
  <2>2. /\ chunk_push(others, t) \in EndsAt(d) /\ Leaves[chunk_push(others, t)] = Leaves[t] \o Leaves[others]
        /\ chunk_item_count(chunk_push(others, t)) = x + 1
    BY <1>4, ChunkGrows
  <2>3. (y <= 2 => y + 1 <= 3) /\ (x <= 2 => x + 1 <= 3)
    BY <1>1
  <2> HIDE DEF y, x
  <2> QED BY <2>1, <2>2, <2>3, EndToItem
<1>9. CASE a = 4
  <2>1. Stowed(ours, others, a) = [first |-> << ours >>, second |-> << others >>]
    BY <1>9 DEF Stowed
  <2> QED BY <1>3, <2>1, StowOneEach
<1>10. CASE a = 2 /\ y = 1 /\ x = 3
  <2>1. Stowed(ours, others, a) = [first |-> << chunk_append(ours, h) >>, second |-> << chunk_pop(others) >>]
    BY <1>10 DEF Stowed
  <2> DEFINE p == Leaves[chunk_pop(others)]
             l == Leaves[h]
             o == Leaves[ours]
  <2>2. p \in Seq(Int) /\ Leaves[others] = l \o p /\ chunk_pop(others) \in ItemsAt[d + 1]
    <3>1. x >= 2
      BY <1>10
    <3> HIDE DEF y, x
    <3> QED BY <1>6, <3>1
  <2>3. chunk_append(ours, h) \in ItemsAt[d + 1] /\ Leaves[chunk_append(ours, h)] = o \o l
    <3>1. y <= 2
      BY <1>10
    <3> HIDE DEF y, x
    <3> QED BY <1>8, <3>1
  <2>4. Stows(Stowed(ours, others, a), (o \o l) \o p, d)
    BY <2>1, <2>2, <2>3, StowOneEach
  <2>5. (o \o l) \o p = o \o (l \o p)
    <3>1. o \in Seq(Int) /\ l \in Seq(Int)
      BY <1>3, <1>5
    <3> HIDE DEF o, l, p
    <3> QED BY <2>2, <3>1, LeavesAssociate
  <2> QED BY <2>2, <2>4, <2>5
<1>11. CASE a = 3 /\ y = 3 /\ x = 1
  <2>1. Stowed(ours, others, a) = [first |-> << chunk_chop(ours) >>, second |-> << chunk_push(others, t) >>]
    BY <1>11 DEF Stowed
  <2> DEFINE c == Leaves[chunk_chop(ours)]
             l == Leaves[t]
             o == Leaves[others]
  <2>2. c \in Seq(Int) /\ Leaves[ours] = c \o l /\ chunk_chop(ours) \in ItemsAt[d + 1]
    <3>1. y >= 2
      BY <1>11
    <3> HIDE DEF y, x
    <3> QED BY <1>7, <3>1
  <2>3. chunk_push(others, t) \in ItemsAt[d + 1] /\ Leaves[chunk_push(others, t)] = l \o o
    <3>1. x <= 2
      BY <1>11
    <3> HIDE DEF y, x
    <3> QED BY <1>8, <3>1
  <2>4. Stows(Stowed(ours, others, a), c \o (l \o o), d)
    BY <2>1, <2>2, <2>3, StowOneEach
  <2>5. c \o (l \o o) = (c \o l) \o o
    <3>1. o \in Seq(Int) /\ l \in Seq(Int)
      BY <1>3, <1>5
    <3> HIDE DEF o, l, c
    <3> QED BY <2>2, <3>1, LeavesAssociate
  <2> QED BY <2>2, <2>4, <2>5
<1>12. CASE a = 5 /\ y >= 2 /\ x >= 2
  <2> DEFINE m == ChunkOf(<< t, h >>)
  <2>1. Stowed(ours, others, a) = [first |-> << chunk_chop(ours), m >>, second |-> << chunk_pop(others) >>]
    BY <1>12 DEF Stowed
  <2> DEFINE c == Leaves[chunk_chop(ours)]
             l == Leaves[t]
             q == Leaves[h]
             p == Leaves[chunk_pop(others)]
  <2>2. c \in Seq(Int) /\ Leaves[ours] = c \o l /\ chunk_chop(ours) \in ItemsAt[d + 1]
    BY <1>7, <1>12
  <2>3. p \in Seq(Int) /\ Leaves[others] = q \o p /\ chunk_pop(others) \in ItemsAt[d + 1]
    BY <1>6, <1>12
  <2>4. m \in ItemsAt[d + 1] /\ Leaves[m] = l \o q
    BY <1>4, TwoItemChunk
  <2>5. Stows(Stowed(ours, others, a), (c \o (l \o q)) \o p, d)
    BY <2>1, <2>2, <2>3, <2>4, StowTwoAndOne
  <2>6. (c \o (l \o q)) \o p = (c \o l) \o (q \o p)
    <3>1. AreLeaves(c, l, q, p, p)
      BY <1>5, <2>2, <2>3 DEF AreLeaves
    <3> HIDE DEF c, l, q, p
    <3>2. (c \o (l \o q)) \o p = ((c \o l) \o q) \o p
      BY ONLY <3>1, Regroup3c
    <3>3. ((c \o l) \o q) \o p = (c \o l) \o (q \o p)
      BY ONLY <3>1, Regroup3b
    <3> QED BY <3>2, <3>3
  <2> QED BY <2>2, <2>3, <2>5, <2>6
<1> QED BY <1>2, <1>9, <1>10, <1>11, <1>12

-----------------------------------------------------------------------------
(* Joining: the recursion.                                                  *)
JoinedOver(prev, n) == [behind \in AnyAction |-> [p \in Pairs |->
    CASE p.first.kind = "empty"  -> p.second
      [] p.first.kind = "single" -> Push[p.second][p.first.value]
      [] OTHER ->
           IF ~ BothLong(p) THEN AttachAll(p.first, Iterate(p.second))
           ELSE IF Throws(p.first, p.second, behind) THEN StoppedList
           ELSE LET colds == Stored(p.first, p.second, behind)
                    cold == IF n = 0 THEN list_empty ELSE prev[behind][colds]
                IN IF cold = StoppedList THEN StoppedList
                   ELSE alloc_list(p.first.head, cold, p.second.tail)]]
JoinableOver(prev, n) ==
    {p \in Pairs : BothLong(p) =>
        /\ chunk_can_grow(p.first.tail) /\ chunk_can_grow(p.second.head)
        /\ n > 0 /\ Stored(p.first, p.second, 6) \in prev}

LEMMA JoinedWithinExists ==
  ASSUME NEW n \in Nat
  PROVE  \E f : f = [i \in 0..n |-> JoinedOver(f[i - 1], i)]
<1> DEFINE Has == {m \in Nat : \E f : f = [i \in 0..m |-> JoinedOver(f[i - 1], i)]}
<1>0. \A a, b : JoinedOver(a, 0) = JoinedOver(b, 0)
  BY DEF JoinedOver
<1>1. 0 \in Has
  <2> DEFINE f == [i \in 0..0 |-> JoinedOver({}, 0)]
  <2>1. f = [i \in 0..0 |-> JoinedOver(f[i - 1], i)]
    BY <1>0
  <2> QED BY <2>1
<1>2. ASSUME NEW m \in Has PROVE m + 1 \in Has
  <2>1. PICK f : f = [i \in 0..m |-> JoinedOver(f[i - 1], i)]
    OBVIOUS
  <2> DEFINE g == [i \in 0..(m + 1) |-> IF i <= m THEN f[i] ELSE JoinedOver(f[m], m + 1)]
  <2>2. m \in Nat
    OBVIOUS
  <2>3. ASSUME NEW i \in 0..(m + 1) PROVE g[i] = JoinedOver(g[i - 1], i)
    <3>1. CASE i = 0
      <4>1. g[i] = f[0] /\ f[0] = JoinedOver(f[0 - 1], 0)
        BY <2>1, <2>2, <3>1
      <4> QED BY <1>0, <3>1, <4>1
    <3>2. CASE i \in 1..m
      <4>1. g[i] = f[i] /\ g[i - 1] = f[i - 1] /\ f[i] = JoinedOver(f[i - 1], i)
        BY <2>1, <2>2, <3>2
      <4> QED BY <4>1
    <3>3. CASE i = m + 1
      <4>1. i - 1 = m /\ g[i - 1] = f[m] /\ g[i] = JoinedOver(f[m], m + 1)
        BY <2>2, <3>3
      <4> QED BY <3>3, <4>1
    <3> QED BY <2>2, <3>1, <3>2, <3>3
  <2>4. g = [i \in 0..(m + 1) |-> JoinedOver(g[i - 1], i)]
    BY <2>3
  <2> HIDE DEF g
  <2>5. m + 1 \in Nat /\ \E h : h = [i \in 0..(m + 1) |-> JoinedOver(h[i - 1], i)]
    BY <2>2, <2>4
  <2> QED BY <2>5
<1> HIDE DEF Has
<1>3. Has = Nat
  BY <1>1, <1>2, Induction DEF Has
<1> QED BY <1>3 DEF Has

LEMMA JoinableWithinExists ==
  ASSUME NEW n \in Nat
  PROVE  \E f : f = [i \in 0..n |-> JoinableOver(f[i - 1], i)]
<1> DEFINE Has == {m \in Nat : \E f : f = [i \in 0..m |-> JoinableOver(f[i - 1], i)]}
<1>0. \A a, b : JoinableOver(a, 0) = JoinableOver(b, 0)
  <2>1. ~ (0 > 0)
    OBVIOUS
  <2> QED BY <2>1 DEF JoinableOver
<1>1. 0 \in Has
  <2> DEFINE f == [i \in 0..0 |-> JoinableOver({}, 0)]
  <2>1. f = [i \in 0..0 |-> JoinableOver(f[i - 1], i)]
    BY <1>0
  <2> QED BY <2>1
<1>2. ASSUME NEW m \in Has PROVE m + 1 \in Has
  <2>1. PICK f : f = [i \in 0..m |-> JoinableOver(f[i - 1], i)]
    OBVIOUS
  <2> DEFINE g == [i \in 0..(m + 1) |-> IF i <= m THEN f[i] ELSE JoinableOver(f[m], m + 1)]
  <2>2. m \in Nat
    OBVIOUS
  <2>3. ASSUME NEW i \in 0..(m + 1) PROVE g[i] = JoinableOver(g[i - 1], i)
    <3>1. CASE i = 0
      <4>1. g[i] = f[0] /\ f[0] = JoinableOver(f[0 - 1], 0)
        BY <2>1, <2>2, <3>1
      <4> QED BY <1>0, <3>1, <4>1
    <3>2. CASE i \in 1..m
      <4>1. g[i] = f[i] /\ g[i - 1] = f[i - 1] /\ f[i] = JoinableOver(f[i - 1], i)
        BY <2>1, <2>2, <3>2
      <4> QED BY <4>1
    <3>3. CASE i = m + 1
      <4>1. i - 1 = m /\ g[i - 1] = f[m] /\ g[i] = JoinableOver(f[m], m + 1)
        BY <2>2, <3>3
      <4> QED BY <3>3, <4>1
    <3> QED BY <2>2, <3>1, <3>2, <3>3
  <2>4. g = [i \in 0..(m + 1) |-> JoinableOver(g[i - 1], i)]
    BY <2>3
  <2> HIDE DEF g
  <2>5. m + 1 \in Nat /\ \E h : h = [i \in 0..(m + 1) |-> JoinableOver(h[i - 1], i)]
    BY <2>2, <2>4
  <2> QED BY <2>5
<1> HIDE DEF Has
<1>3. Has = Nat
  BY <1>1, <1>2, Induction DEF Has
<1> QED BY <1>3 DEF Has

\* Joining is what its equation says.
LEMMA JoinedIs ==
  /\ \A n \in 0..Depth : JoinedWithin[n] = JoinedOver(JoinedWithin[n - 1], n)
  /\ \A n \in 0..Depth : JoinableWithin[n] = JoinableOver(JoinableWithin[n - 1], n)
<1>1. JoinedWithin = [n \in 0..Depth |-> JoinedOver(JoinedWithin[n - 1], n)]
  BY DepthType, JoinedWithinExists DEF JoinedWithin, JoinedOver
<1>2. JoinableWithin = [n \in 0..Depth |-> JoinableOver(JoinableWithin[n - 1], n)]
  BY DepthType, JoinableWithinExists DEF JoinableWithin, JoinableOver
<1>3. \A n \in 0..Depth : JoinedWithin[n] = JoinedOver(JoinedWithin[n - 1], n)
  BY ONLY <1>1
<1>4. \A n \in 0..Depth : JoinableWithin[n] = JoinableOver(JoinableWithin[n - 1], n)
  BY ONLY <1>2
<1> QED BY <1>3, <1>4

LEMMA JoinedForms ==
  ASSUME NEW n \in 0..Depth, NEW behind \in AnyAction, NEW p \in Pairs
  PROVE  /\ p.first.kind = "empty" => JoinedWithin[n][behind][p] = p.second
         /\ p.first.kind = "single" => JoinedWithin[n][behind][p] = Push[p.second][p.first.value]
         /\ p.first.kind = "list" /\ p.second.kind # "list" =>
              JoinedWithin[n][behind][p] = AttachAll(p.first, Iterate(p.second))
         /\ BothLong(p) /\ n # 0 /\ ~ Throws(p.first, p.second, behind)
              /\ JoinedWithin[n - 1][behind][Stored(p.first, p.second, behind)] # StoppedList =>
              JoinedWithin[n][behind][p]
                = alloc_list(p.first.head, JoinedWithin[n - 1][behind][Stored(p.first, p.second, behind)],
                             p.second.tail)
<1>1. JoinedWithin[n][behind][p] = JoinedOver(JoinedWithin[n - 1], n)[behind][p]
  BY JoinedIs
<1> DEFINE prev == JoinedWithin[n - 1]
<1> HIDE DEF prev
<1>2. JoinedOver(prev, n)[behind][p] =
    CASE p.first.kind = "empty"  -> p.second
      [] p.first.kind = "single" -> Push[p.second][p.first.value]
      [] OTHER ->
           IF ~ BothLong(p) THEN AttachAll(p.first, Iterate(p.second))
           ELSE IF Throws(p.first, p.second, behind) THEN StoppedList
           ELSE LET cold == IF n = 0 THEN list_empty
                            ELSE prev[behind][Stored(p.first, p.second, behind)]
                IN IF cold = StoppedList THEN StoppedList
                   ELSE alloc_list(p.first.head, cold, p.second.tail)
  BY DEF JoinedOver
<1>3. JoinedWithin[n][behind][p] = JoinedOver(prev, n)[behind][p]
  BY <1>1 DEF prev
<1>4. p.first.kind = "empty" => JoinedWithin[n][behind][p] = p.second
  BY <1>2, <1>3
<1>5. p.first.kind = "single" => JoinedWithin[n][behind][p] = Push[p.second][p.first.value]
  BY <1>2, <1>3
<1>6. p.first.kind = "list" /\ p.second.kind # "list" =>
        JoinedWithin[n][behind][p] = AttachAll(p.first, Iterate(p.second))
  BY <1>2, <1>3 DEF BothLong
<1>7. BothLong(p) /\ n # 0 /\ ~ Throws(p.first, p.second, behind)
        /\ prev[behind][Stored(p.first, p.second, behind)] # StoppedList =>
        JoinedWithin[n][behind][p]
          = alloc_list(p.first.head, prev[behind][Stored(p.first, p.second, behind)], p.second.tail)
  BY <1>2, <1>3 DEF BothLong
<1> QED BY <1>4, <1>5, <1>6, <1>7 DEF prev

\* What lies between the ends of two lists.
Between(l, o) == (Content[l.cold] \o Leaves[l.tail]) \o (Leaves[o.head] \o Content[o.cold])

\* The two cold storages, with the chunks that lay between.
LEMMA StoredRight ==
  ASSUME NEW d \in Nat, NEW l \in FitsAt(d), NEW o \in FitsAt(d), l.kind = "list", o.kind = "list",
         chunk_can_grow(l.tail), chunk_can_grow(o.head), NEW behind, Room(d + 1, Between(l, o))
  PROVE  /\ Stored(l, o, behind).first \in FitsAt(d + 1) /\ Stored(l, o, behind).second \in FitsAt(d + 1)
         /\ Content[Stored(l, o, behind).first] \o Content[Stored(l, o, behind).second] = Between(l, o)
<1> DEFINE middle == Between(l, o)
           chunks == Stowed(l.tail, o.head,
                            ActionFor(chunk_item_count(l.tail), chunk_item_count(o.head), behind))
           c == Content[l.cold]
           t == Leaves[l.tail]
           h == Leaves[o.head]
           e == Content[o.cold]
           f == LeavesOf(chunks.first)
           s == LeavesOf(Reverse(chunks.second))
<1>1. /\ d < Depth /\ d + 1 \in Nat /\ d + 1 <= Depth
      /\ l.tail \in EndsAt(d) /\ o.head \in EndsAt(d)
      /\ l.cold \in FitsAt(d + 1) /\ o.cold \in FitsAt(d + 1)
      /\ c \in Seq(Int) /\ t \in Seq(Int) /\ h \in Seq(Int) /\ e \in Seq(Int)
  <2>1. /\ d < Depth /\ d + 1 < Depth /\ l.tail \in EndsAt(d) /\ l.cold \in FitsAt(d + 1)
        /\ c \in Seq(Int) /\ t \in Seq(Int)
    BY ListParts
  <2>2. o.head \in EndsAt(d) /\ o.cold \in FitsAt(d + 1) /\ h \in Seq(Int) /\ e \in Seq(Int)
    BY ListParts
  <2> QED BY <2>1, <2>2, DepthType
<1>2. Stows(chunks, t \o h, d)
  BY <1>1, StowedRight
<1>3. chunks.first \in Seq(ItemsAt[d + 1]) /\ chunks.second \in Seq(ItemsAt[d + 1]) /\ f \o s = t \o h
  BY <1>2 DEF Stows
<1>4. f \in Seq(Int) /\ s \in Seq(Int)
  <2>1. chunks.first \in Seq(Items) /\ chunks.second \in Seq(Items)
    BY <1>1, <1>3, AtTypes
  <2> QED BY <2>1, ReverseType, LeavesOfType
<1>5. /\ Stored(l, o, behind).first = AttachAll(l.cold, chunks.first)
      /\ Stored(l, o, behind).second = PushAll(o.cold, chunks.second)
  BY DEF Stored, Displaced
<1> HIDE DEF chunks
<1>6. middle = (c \o f) \o (s \o e)
  <2>1. AreLeaves(c, t, h, e, e) /\ AreLeaves(c, f, s, e, e)
    BY <1>1, <1>4 DEF AreLeaves
  <2> HIDE DEF c, t, h, e, f, s
  <2>2. (c \o (t \o h)) \o e = ((c \o t) \o h) \o e
    BY ONLY <2>1, Regroup3c
  <2>3. ((c \o t) \o h) \o e = (c \o t) \o (h \o e)
    BY ONLY <2>1, Regroup3b
  <2>4. (c \o (f \o s)) \o e = ((c \o f) \o s) \o e
    BY ONLY <2>1, Regroup3c
  <2>5. ((c \o f) \o s) \o e = (c \o f) \o (s \o e)
    BY ONLY <2>1, Regroup3b
  <2>6. middle = (c \o t) \o (h \o e)
    BY DEF c, t, h, e, Between
  <2> QED BY <1>3, <2>2, <2>3, <2>4, <2>5, <2>6
<1>7. c \o f \in Seq(Int) /\ s \o e \in Seq(Int)
  BY <1>1, <1>4, LeavesJoin
<1>8. Room(d + 1, c \o f) /\ Room(d + 1, s \o e)
  <2>1. Room(d + 1, (c \o f) \o (s \o e))
    BY <1>6
  <2> DEFINE a == c \o f
             b == s \o e
  <2> HIDE DEF a, b
  <2>2. Room(d + 1, a \o b) /\ a \in Seq(Int) /\ b \in Seq(Int) /\ d + 1 \in Nat
    BY <1>1, <1>7, <2>1 DEF a, b
  <2>3. Room(d + 1, a) /\ Room(d + 1, b)
    BY <2>2, RoomParts
  <2> QED BY <2>3 DEF a, b
<1>9. Holds(AttachAll(l.cold, chunks.first), c \o f, d + 1)
  <2>1. Holds(l.cold, c, d + 1)
    BY <1>1 DEF Holds
  <2> HIDE DEF c
  <2> QED BY <1>1, <1>3, <1>8, <2>1, AttachAllRight
<1>10. Holds(PushAll(o.cold, chunks.second), s \o e, d + 1)
  <2>1. Holds(o.cold, e, d + 1)
    BY <1>1 DEF Holds
  <2> HIDE DEF e
  <2> QED BY <1>1, <1>3, <1>8, <2>1, PushAllRight
<1> HIDE DEF c, t, h, e, f, s
<1> QED BY <1>5, <1>6, <1>9, <1>10 DEF Holds

LEMMA StoredAlike ==
  ASSUME NEW d \in Nat, NEW l \in FitsAt(d), NEW o \in FitsAt(d), l.kind = "list", o.kind = "list",
         chunk_can_grow(l.tail), chunk_can_grow(o.head), NEW behind
  PROVE  Stored(l, o, behind) = Stored(l, o, 6)
<1> DEFINE y == chunk_item_count(l.tail)
           x == chunk_item_count(o.head)
<1>1. y \in 1..4 /\ x \in 1..4
  <2>1. d < Depth /\ l.tail \in EndsAt(d) /\ o.head \in EndsAt(d)
    BY ListParts
  <2> QED BY <2>1, EndParts
<1>2. y < 4 /\ x < 4
  BY DEF chunk_can_grow
<1> HIDE DEF y, x
<1>3. 4 * y + x < 16
  BY <1>1, <1>2
<1>4. ActionFor(y, x, behind) = ActionFor(y, x, 6)
  BY <1>3 DEF ActionFor
<1> QED BY <1>4 DEF Stored, Displaced, y, x

\* What goes to cold storage are chunks, and no exceptions.
LEMMA NothingThrown ==
  ASSUME NEW d \in Nat, NEW l \in FitsAt(d), NEW o \in FitsAt(d), l.kind = "list", o.kind = "list",
         chunk_can_grow(l.tail), chunk_can_grow(o.head), NEW behind
  PROVE  ~ Throws(l, o, behind)
<1> DEFINE chunks == Stowed(l.tail, o.head,
                            ActionFor(chunk_item_count(l.tail), chunk_item_count(o.head), behind))
<1>1. d < Depth /\ d + 1 \in Nat /\ d + 1 <= Depth /\ l.tail \in EndsAt(d) /\ o.head \in EndsAt(d)
  <2>1. d < Depth /\ l.tail \in EndsAt(d) /\ o.head \in EndsAt(d)
    BY ListParts
  <2> QED BY <2>1, DepthType
<1>2. Stows(chunks, Leaves[l.tail] \o Leaves[o.head], d)
  BY <1>1, StowedRight
<1> HIDE DEF chunks
<1>3. chunks.first \in Seq(Items) /\ chunks.second \in Seq(Items)
  <2>1. chunks.first \in Seq(ItemsAt[d + 1]) /\ chunks.second \in Seq(ItemsAt[d + 1])
    BY <1>2 DEF Stows
  <2> QED BY <1>1, <2>1, AtTypes
<1>4. ThrownItem \notin Items
  <2> SUFFICES ASSUME ThrownItem \in Items PROVE FALSE
    OBVIOUS
  <2>1. DOMAIN ThrownItem = {"thrown"}
    BY DEF ThrownItem
  <2>2. ~ IsAChunk(ThrownItem)
    BY <2>1 DEF IsAChunk
  <2>3. ThrownItem = Leaf(ThrownItem.leaf)
    BY <2>2, ItemForms DEF IsLeafItem, IsChunkOver
  <2>4. DOMAIN Leaf(ThrownItem.leaf) = {"leaf"}
    BY DEF Leaf
  <2> QED BY <2>1, <2>3, <2>4
<1>5. /\ \A i \in DOMAIN chunks.first : chunks.first[i] \in Items
      /\ \A i \in DOMAIN chunks.second : chunks.second[i] \in Items
  BY <1>3
<1>6. ~ \E i \in DOMAIN chunks.first : chunks.first[i] = ThrownItem
  BY <1>4, <1>5
<1>7. ~ \E i \in DOMAIN chunks.second : chunks.second[i] = ThrownItem
  BY <1>4, <1>5
<1> QED BY <1>6, <1>7 DEF Throws, Displaced, chunks

\* What joining promises, within so many storages.
JoinsAt(n, l, o, d) ==
    \A behind \in AnyAction :
       l \in FitsAt(d) /\ o \in FitsAt(d) /\ Room(d, Content[l] \o Content[o])
         /\ Pair(l, o) \in JoinableWithin[n] =>
         /\ Holds(JoinedWithin[n][behind][Pair(l, o)], Content[l] \o Content[o], d)
         /\ l # list_empty \/ o # list_empty => JoinedWithin[n][behind][Pair(l, o)] # list_empty

LEMMA PairIs ==
  \A l, o \in Lists : Pair(l, o) \in Pairs /\ Pair(l, o).first = l /\ Pair(l, o).second = o
BY DEF Pair, Pairs

LEMMA JoinShort ==
  ASSUME NEW d \in Nat, NEW l \in FitsAt(d), NEW o \in FitsAt(d), Room(d, Content[l] \o Content[o]),
         NEW n \in 0..Depth, NEW behind \in AnyAction, l.kind # "list" \/ o.kind # "list"
  PROVE  /\ Holds(JoinedWithin[n][behind][Pair(l, o)], Content[l] \o Content[o], d)
         /\ l # list_empty \/ o # list_empty => JoinedWithin[n][behind][Pair(l, o)] # list_empty
<1> DEFINE p == Pair(l, o)
           j == JoinedWithin[n][behind][p]
<1>1. l \in Lists /\ o \in Lists /\ Content[l] \in Seq(Int) /\ Content[o] \in Seq(Int) /\ d <= Depth
  BY FitsType
<1>2. p \in Pairs /\ p.first = l /\ p.second = o
  BY <1>1, PairIs
<1>3. CASE l.kind = "empty"
  <2>1. l = list_empty /\ Content[l] = << >>
    BY <1>1, <1>3, Kinds, ContentOfForms
  <2>2. j = o
    BY <1>2, <1>3, JoinedForms
  <2>3. Content[l] \o Content[o] = Content[o]
    BY <1>1, <2>1, ConcatEmptySeq
  <2> QED BY <2>1, <2>2, <2>3 DEF Holds
<1>4. CASE l.kind = "single"
  <2>1. l.value \in ItemsAt[d] /\ Content[l] = Leaves[l.value]
    BY <1>4, SingleParts
  <2>2. j = Push[o][l.value]
    BY <1>2, <1>4, JoinedForms
  <2>3. PushesAt(o, d)
    BY <1>1, PushRight
  <2>4. Put(Push[o][l.value], Content[l] \o Content[o], d)
    BY <2>1, <2>3 DEF PushesAt
  <2> QED BY <2>2, <2>4 DEF Put, Holds
<1>5. CASE l.kind = "list"
  <2>1. o.kind # "list"
    BY <1>5
  <2>2. j = AttachAll(l, Iterate(o))
    BY <1>2, <1>5, <2>1, JoinedForms
  <2>3. Iterate(o) \in Seq(ItemsAt[d]) /\ Content[o] = LeavesOf(Iterate(o))
    BY IterateRight
  <2>4. Holds(l, Content[l], d)
    BY DEF Holds
  <2> DEFINE held == Content[l]
             items == Iterate(o)
  <2>5. held \in Seq(Int) /\ items \in Seq(ItemsAt[d]) /\ Holds(l, held, d) /\ Room(d, held \o LeavesOf(items))
    BY <1>1, <2>3, <2>4
  <2> HIDE DEF held, items
  <2>6. Holds(AttachAll(l, items), held \o LeavesOf(items), d)
    BY <2>5, AttachAllRight
  <2>7. Holds(j, Content[l] \o Content[o], d)
    BY <2>2, <2>3, <2>6 DEF held, items
  <2>8. j # list_empty
    <3> SUFFICES ASSUME j = list_empty PROVE FALSE
      OBVIOUS
    <3>1. Content[l] \o Content[o] = << >>
      BY <2>7, ContentOfForms DEF Holds
    <3>2. Len(Content[l]) >= 2 /\ Len(Content[l]) \in Nat
      BY <1>5, ListParts, FitsType
    <3>3. Len(Content[l] \o Content[o]) = Len(Content[l]) + Len(Content[o]) /\ Len(Content[o]) \in Nat
      BY <1>1, LeavesJoin
    <3>4. Len(Content[l] \o Content[o]) = 0
      BY <3>1, EmptySeq
    <3> DEFINE a == Len(Content[l])
               b == Len(Content[o])
    <3>5. a >= 2 /\ a \in Nat /\ b \in Nat /\ a + b = 0
      BY <3>2, <3>3, <3>4
    <3> HIDE DEF a, b
    <3> QED BY <3>5
  <2> QED BY <2>7, <2>8
<1> QED BY <1>1, <1>3, <1>4, <1>5, Kinds

LEMMA JoinLong ==
  ASSUME NEW d \in Nat, NEW l \in FitsAt(d), NEW o \in FitsAt(d), Room(d, Content[l] \o Content[o]),
         l.kind = "list", o.kind = "list",
         NEW n \in 0..Depth, n # 0, NEW behind \in AnyAction, Pair(l, o) \in JoinableWithin[n],
         \A x, y \in Lists : JoinsAt(n - 1, x, y, d + 1)
  PROVE  /\ Holds(JoinedWithin[n][behind][Pair(l, o)], Content[l] \o Content[o], d)
         /\ JoinedWithin[n][behind][Pair(l, o)] # list_empty
<1> DEFINE p == Pair(l, o)
           j == JoinedWithin[n][behind][p]
           st == Stored(l, o, behind)
           k == JoinedWithin[n - 1][behind][st]
<1>1. l \in Lists /\ o \in Lists /\ p \in Pairs /\ p.first = l /\ p.second = o
  BY FitsType, PairIs
<1>2. /\ chunk_can_grow(l.tail) /\ chunk_can_grow(o.head)
      /\ Stored(l, o, 6) \in JoinableWithin[n - 1]
  <2>1. p \in JoinableOver(JoinableWithin[n - 1], n)
    BY JoinedIs
  <2>2. BothLong(p)
    BY <1>1 DEF BothLong
  <2> QED BY <1>1, <2>1, <2>2 DEF JoinableOver
<1>3. st = Stored(l, o, 6)
  BY <1>2, StoredAlike
<1> DEFINE a == Leaves[l.head]
           c == Content[l.cold]
           t == Leaves[l.tail]
           h == Leaves[o.head]
           e == Content[o.cold]
           z == Leaves[o.tail]
           middle == (c \o t) \o (h \o e)
<1>5. /\ a \in Seq(Int) /\ c \in Seq(Int) /\ t \in Seq(Int) /\ d < Depth
      /\ Content[l] = (a \o c) \o t /\ Len(a) >= 1 /\ l.head \in EndsAt(d)
  BY ListParts
<1>6. /\ h \in Seq(Int) /\ e \in Seq(Int) /\ z \in Seq(Int)
      /\ Content[o] = (h \o e) \o z /\ o.tail \in EndsAt(d)
  BY ListParts
<1> HIDE DEF a, c, t, h, e, z
<1>7. middle \in Seq(Int) /\ c \o t \in Seq(Int) /\ h \o e \in Seq(Int)
  <2>1. c \o t \in Seq(Int) /\ h \o e \in Seq(Int)
    BY <1>5, <1>6, LeavesJoin
  <2> QED BY <2>1, LeavesJoin
<1>8. Content[l] \o Content[o] = (a \o middle) \o z
  <2> DEFINE u == c \o t
             v == h \o e
  <2>1. (a \o c) \o t = a \o u
    BY <1>5, LeavesAssociate
  <2>2. u \in Seq(Int) /\ v \in Seq(Int) /\ a \in Seq(Int) /\ z \in Seq(Int) /\ middle = u \o v
    BY <1>5, <1>6, <1>7
  <2> HIDE DEF u, v, middle
  <2>3. AreLeaves(a, u, v, z, z)
    BY <2>2 DEF AreLeaves
  <2>4. (a \o (u \o v)) \o z = ((a \o u) \o v) \o z
    BY ONLY <2>3, Regroup3c
  <2>5. ((a \o u) \o v) \o z = (a \o u) \o (v \o z)
    BY ONLY <2>3, Regroup3b
  <2>6. Content[l] = a \o u /\ Content[o] = v \o z
    BY <1>5, <1>6, <2>1 DEF u, v
  <2> QED BY <2>2, <2>4, <2>5, <2>6
<1>9. Room(d, (a \o middle) \o z)
  BY <1>8
<1> HIDE DEF middle
<1>10. Room(d + 1, middle)
  <2>1. a \o middle \in Seq(Int)
    BY <1>5, <1>7, LeavesJoin
  <2>2. Room(d, a \o middle)
    BY <1>6, <1>9, <2>1, RoomParts
  <2> QED BY <1>5, <1>7, <2>2, RoomParts
<1>11. /\ st.first \in FitsAt(d + 1) /\ st.second \in FitsAt(d + 1)
       /\ Content[st.first] \o Content[st.second] = middle
  <2>1. middle = Between(l, o)
    BY DEF middle, c, t, h, e, Between
  <2>2. chunk_can_grow(l.tail) /\ chunk_can_grow(o.head)
    BY <1>2
  <2>3. /\ Stored(l, o, behind).first \in FitsAt(d + 1) /\ Stored(l, o, behind).second \in FitsAt(d + 1)
        /\ Content[Stored(l, o, behind).first] \o Content[Stored(l, o, behind).second] = middle
    <3>1. Room(d + 1, Between(l, o))
      BY <1>10, <2>1
    <3>2. Content[Stored(l, o, behind).first] \o Content[Stored(l, o, behind).second] = Between(l, o)
      BY <2>2, <3>1, StoredRight
    <3> QED BY <2>1, <2>2, <3>1, <3>2, StoredRight
  <2> QED BY <2>3
<1>12. st = Pair(st.first, st.second) /\ st.first \in Lists /\ st.second \in Lists
  <2>1. st.first \in Lists /\ st.second \in Lists
    <3>1. d + 1 \in Nat
      OBVIOUS
    <3> QED BY <1>11, <3>1, FitsType
  <2> QED BY <2>1 DEF Stored, Pair
<1> HIDE DEF st
<1>13. Holds(k, middle, d + 1)
  <2>1. JoinsAt(n - 1, st.first, st.second, d + 1)
    BY <1>12
  <2>2. Pair(st.first, st.second) \in JoinableWithin[n - 1]
    BY <1>2, <1>3, <1>12
  <2>3. Holds(JoinedWithin[n - 1][behind][Pair(st.first, st.second)], Content[st.first] \o Content[st.second], d + 1)
    BY <1>10, <1>11, <2>1, <2>2 DEF JoinsAt
  <2> QED BY <1>11, <1>12, <2>3
<1>4. j = alloc_list(l.head, k, o.tail)
  <2>1. BothLong(p)
    BY <1>1 DEF BothLong
  <2>2. ~ Throws(l, o, behind)
    BY <1>2, NothingThrown
  <2>3. k # StoppedList
    <3> SUFFICES ASSUME k = StoppedList PROVE FALSE
      OBVIOUS
    <3>1. k \in Lists
      <4>1. k \in FitsAt(d + 1) /\ d + 1 \in Nat
        BY <1>13 DEF Holds
      <4> QED BY <4>1, FitsType
    <3>2. k.kind = "stopped"
      BY DEF StoppedList
    <3> QED BY <3>1, <3>2, Kinds
  <2> QED BY <1>1, <2>1, <2>2, <2>3, JoinedForms DEF st
<1> HIDE DEF k
<1>14. HasParts(l.head, k, o.tail, Content[l] \o Content[o], d)
  <2>1. Content[l] \o Content[o] = Leaves[l.head] \o Content[k] \o Leaves[o.tail]
    BY <1>8, <1>13 DEF Holds, a, z
  <2> QED BY <1>5, <1>6, <1>13, <2>1 DEF Holds, HasParts
<1>15. Put(j, Content[l] \o Content[o], d)
  BY <1>4, <1>14, Assembled
<1> QED BY <1>15 DEF Put, Holds

\* List_concatenate puts the leaves of one list after those of the other, at every level.
LEMMA JoinedRight ==
  \A n \in 0..Depth : \A l, o \in Lists, d \in Nat : JoinsAt(n, l, o, d)
<1> DEFINE Good(n) == \A l, o \in Lists, d \in Nat : JoinsAt(n, l, o, d)
           Fine == {n \in Nat : n <= Depth => Good(n)}
<1>1. ASSUME NEW n \in 0..Depth, n # 0 => Good(n - 1) PROVE Good(n)
  <2> SUFFICES ASSUME NEW l \in Lists, NEW o \in Lists, NEW d \in Nat, NEW behind \in AnyAction,
                      l \in FitsAt(d), o \in FitsAt(d), Room(d, Content[l] \o Content[o]),
                      Pair(l, o) \in JoinableWithin[n]
               PROVE  /\ Holds(JoinedWithin[n][behind][Pair(l, o)], Content[l] \o Content[o], d)
                      /\ l # list_empty \/ o # list_empty => JoinedWithin[n][behind][Pair(l, o)] # list_empty
    BY DEF JoinsAt
  <2>1. CASE l.kind # "list" \/ o.kind # "list"
    BY <2>1, JoinShort
  <2>2. CASE l.kind = "list" /\ o.kind = "list"
    <3>1. n # 0
      <4>1. Pair(l, o) \in JoinableOver(JoinableWithin[n - 1], n)
        BY JoinedIs
      <4>2. BothLong(Pair(l, o))
        BY <2>2, PairIs DEF BothLong
      <4> QED BY <4>1, <4>2 DEF JoinableOver
    <3>2. \A x, y \in Lists : JoinsAt(n - 1, x, y, d + 1)
      BY <1>1, <3>1
    <3> HIDE DEF Good
    <3> QED BY <2>2, <3>1, <3>2, JoinLong
  <2> QED BY <2>1, <2>2
<1> HIDE DEF Good
<1>2. 0 \in Fine
  <2>1. 0 \in 0..Depth
    BY DepthType
  <2> QED BY <1>1, <2>1
<1>3. ASSUME NEW n \in Fine PROVE n + 1 \in Fine
  <2> SUFFICES ASSUME n + 1 <= Depth PROVE Good(n + 1)
    OBVIOUS
  <2>1. n \in Nat /\ n <= Depth /\ n + 1 \in 0..Depth /\ (n + 1) - 1 = n
    BY DepthType
  <2>2. Good(n)
    BY <2>1
  <2> QED BY <1>1, <2>1, <2>2
<1> HIDE DEF Fine
<1>4. Fine = Nat
  BY <1>2, <1>3, Induction DEF Fine
<1>5. \A n \in 0..Depth : Good(n)
  BY <1>4, DepthType DEF Fine
<1> QED BY <1>5 DEF Good

-----------------------------------------------------------------------------
(* The program's list, whose items are leaves.                              *)
LEMMA LeafItems ==
  /\ \A n \in Int : Leaf(n) \in ItemsAt[0] /\ Leaves[Leaf(n)] = << n >>
  /\ \A v \in ItemsAt[0] : /\ v \in Items /\ v.leaf \in Int /\ v = Leaf(v.leaf)
                           /\ Leaves[v] = << v.leaf >> /\ LeavesInValue(v) = 1
<1>1. \A n \in Int : IsLeafItem(Leaf(n)) /\ Leaf(n).leaf = n
  BY DEF IsLeafItem, IsAChunk, Leaf
<1>2. \A n \in Int : Leaf(n) \in ItemsAt[0] /\ Leaves[Leaf(n)] = << n >>
  <2> TAKE n \in Int
  <2>1. IsLeafItem(Leaf(n)) /\ Leaf(n) \in Items
    BY <1>1, MadeOfParts
  <2> QED BY <1>1, <2>1, AtUnfold, LeavesOfForms DEF IsLeafItem
<1>3. \A v \in ItemsAt[0] : IsLeafItem(v) /\ v \in Items
  BY AtUnfold, ItemForms DEF IsChunkOver
<1>4. \A v \in ItemsAt[0] : Leaves[v] = << v.leaf >> /\ LeavesInValue(v) = 1
  BY <1>3, LeavesOfForms DEF LeavesInValue, IsLeafItem
<1> QED BY <1>2, <1>3, <1>4 DEF IsLeafItem

LEMMA ReverseConcat ==
  ASSUME NEW S, NEW s \in Seq(S), NEW t \in Seq(S)
  PROVE  Reverse(s \o t) = Reverse(t) \o Reverse(s)
<1>0. \A x, y, z \in Seq(S) : (x \o y) \o z = x \o (y \o z)
  BY ConcatAssociative, SMTT(30)
<1> DEFINE P == {u \in Seq(S) : Reverse(s \o u) = Reverse(u) \o Reverse(s)}
<1>1. << >> \in P
  <2>1. s \o << >> = s /\ Reverse(s) \in Seq(S) /\ << >> \o Reverse(s) = Reverse(s) /\ << >> \in Seq(S)
    BY ReverseType, ConcatEmptySeq, EmptySeq
  <2> QED BY <2>1, ReverseEmpty
<1>2. ASSUME NEW u \in P, NEW e \in S PROVE Append(u, e) \in P
  <2>1. u \in Seq(S) /\ Append(u, e) \in Seq(S) /\ s \o u \in Seq(S) /\ << e >> \in Seq(S)
    BY AppendProperties, ConcatProperties, OneAndTwo
  <2>2. s \o Append(u, e) = Append(s \o u, e)
    <3>1. Append(u, e) = u \o << e >> /\ Append(s \o u, e) = (s \o u) \o << e >>
      BY <2>1, AppendIsConcat
    <3>2. (s \o u) \o << e >> = s \o (u \o << e >>)
      BY <2>1, ConcatAssociative
    <3> QED BY <3>1, <3>2
  <2>3. Reverse(Append(s \o u, e)) = << e >> \o Reverse(s \o u)
    BY <2>1, ReverseAppend
  <2>4. Reverse(Append(u, e)) = << e >> \o Reverse(u)
    BY <2>1, ReverseAppend
  <2>5. Reverse(s \o u) = Reverse(u) \o Reverse(s)
    OBVIOUS
  <2>6. << e >> \o (Reverse(u) \o Reverse(s)) = (<< e >> \o Reverse(u)) \o Reverse(s)
    <3> DEFINE a == Reverse(u)
               b == Reverse(s)
               c == << e >>
    <3>1. a \in Seq(S) /\ b \in Seq(S) /\ c \in Seq(S)
      BY <2>1, ReverseType
    <3> HIDE DEF a, b, c
    <3>2. (c \o a) \o b = c \o (a \o b)
      BY <1>0, <3>1, Zenon
    <3> QED BY <3>2 DEF a, b, c
  <2>7. Reverse(s \o Append(u, e)) = Reverse(Append(u, e)) \o Reverse(s)
    BY <2>2, <2>3, <2>4, <2>5, <2>6
  <2> QED BY <2>1, <2>7
<1> HIDE DEF P
<1>3. P = Seq(S)
  BY <1>1, <1>2, AppendInduction DEF P
<1> QED BY <1>3 DEF P

\* Items that are leaves come in the order of their leaves.
LEMMA LeavesOfReversed ==
  ASSUME NEW items, items \in Seq(ItemsAt[0])
  PROVE  LeavesOf(Reverse(items)) = Reverse(LeavesOf(items)) /\ Len(LeavesOf(items)) = Len(items)
<1> DEFINE S == ItemsAt[0]
           P == {s \in Seq(S) : LeavesOf(Reverse(s)) = Reverse(LeavesOf(s)) /\ Len(LeavesOf(s)) = Len(s)}
<1>0. 0 \in Nat /\ 0 <= Depth
  BY DepthType
<1>1. << >> \in P
  BY LeavesOfEmpty, ReverseEmpty, EmptySeq
<1>2. ASSUME NEW s \in P, NEW v \in S PROVE Append(s, v) \in P
  <2>1. s \in Seq(S) /\ Append(s, v) \in Seq(S) /\ s \in Seq(Items) /\ v \in Items /\ Len(s) \in Nat
        /\ Len(Append(s, v)) = Len(s) + 1
    BY <1>0, AppendProperties, AtTypes, LenProperties
  <2>2. Leaves[v] = << v.leaf >> /\ v.leaf \in Int
    BY LeafItems
  <2>3. LeavesOf(Append(s, v)) = LeavesOf(s) \o Leaves[v] /\ LeavesOf(s) \in Seq(Int)
    BY <2>1, LeavesOfAppend, LeavesOfType
  <2>4. LeavesOf(Append(s, v)) = Append(LeavesOf(s), v.leaf)
    BY <2>2, <2>3, AppendIsConcat
  <2>5. Reverse(LeavesOf(Append(s, v))) = << v.leaf >> \o Reverse(LeavesOf(s))
    BY <2>2, <2>3, <2>4, ReverseAppend
  <2>6. LeavesOf(Reverse(Append(s, v))) = Leaves[v] \o LeavesOf(Reverse(s))
    <3>1. Reverse(Append(s, v)) = << v >> \o Reverse(s) /\ Reverse(s) \in Seq(Items)
      BY <2>1, ReverseAppend, ReverseType
    <3> QED BY <2>1, <3>1, LeavesOfFirst
  <2>7. LeavesOf(Reverse(Append(s, v))) = Reverse(LeavesOf(Append(s, v)))
    BY <2>2, <2>5, <2>6
  <2>8. Len(LeavesOf(Append(s, v))) = Len(LeavesOf(s)) + 1
    BY <2>2, <2>3, <2>4, AppendProperties
  <2> QED BY <2>1, <2>7, <2>8
<1> HIDE DEF P
<1>3. P = Seq(S)
  BY <1>1, <1>2, AppendInduction DEF P
<1> QED BY <1>3 DEF P

-----------------------------------------------------------------------------
(* A leaf at either end.                                                    *)
LEMMA RoomIs ==
  ASSUME NEW d \in Nat, NEW s, s \in Seq(Int), NEW t, t \in Seq(Int), d + Len(s) + Len(t) <= Depth
  PROVE  Room(d, s \o t) /\ s \o t \in Seq(Int) /\ Len(s \o t) = Len(s) + Len(t)
<1>1. s \o t \in Seq(Int) /\ Len(s \o t) = Len(s) + Len(t) /\ Len(s) \in Nat /\ Len(t) \in Nat
  BY LeavesJoin
<1> DEFINE a == Len(s)
           b == Len(t)
<1>2. a \in Nat /\ b \in Nat /\ d + a + b <= Depth /\ Depth \in Nat
  BY <1>1, DepthType
<1> HIDE DEF a, b
<1>3. d + (a + b) <= Depth
  BY <1>2
<1> QED BY <1>1, <1>3 DEF Room, a, b

LEMMA OneLeaf == \A x \in Int : << x >> \in Seq(Int) /\ Len(<< x >>) = 1 /\ Reverse(<< x >>) = << x >>
BY OneAndTwo, ReverseOne

LEMMA PutLeaf ==
  ASSUME NEW l, l \in FitsAt(0), NEW x \in Int, Len(Content[l]) < Depth
  PROVE  /\ Put(Push[l][Leaf(x)], << x >> \o Content[l], 0)
         /\ Put(Attach[l][Leaf(x)], Content[l] \o << x >>, 0)
<1>1. l \in Lists /\ Content[l] \in Seq(Int) /\ Len(Content[l]) \in Nat
  BY FitsType
<1>2. Leaf(x) \in ItemsAt[0] /\ Leaves[Leaf(x)] = << x >> /\ << x >> \in Seq(Int) /\ Len(<< x >>) = 1
  BY LeafItems, OneLeaf
<1>3. Room(0, << x >> \o Content[l]) /\ Room(0, Content[l] \o << x >>)
  <2> DEFINE n == Len(Content[l])
  <2>1. n \in Nat /\ n < Depth
    BY <1>1
  <2> HIDE DEF n
  <2>2. 0 + 1 + n <= Depth /\ 0 + n + 1 <= Depth
    BY <2>1, DepthType
  <2>3. 0 + Len(<< x >>) + Len(Content[l]) <= Depth /\ 0 + Len(Content[l]) + Len(<< x >>) <= Depth
    BY <1>2, <2>2 DEF n
  <2> QED BY <1>1, <1>2, <2>3, RoomIs
<1>4. PushesAt(l, 0) /\ AttachesAt(l, 0)
  BY <1>1, PushRight, AttachRight
<1> QED BY <1>2, <1>3, <1>4 DEF PushesAt, AttachesAt

-----------------------------------------------------------------------------
(* Looking a leaf up.                                                       *)
LEMMA PickLeaf ==
  ASSUME NEW a, a \in Seq(Int), NEW b, b \in Seq(Int), NEW i \in Nat
  PROVE  /\ i < Len(a) => (a \o b)[i + 1] = a[i + 1]
         /\ i >= Len(a) /\ i - Len(a) < Len(b) => (a \o b)[i + 1] = b[(i - Len(a)) + 1]
OBVIOUS

Gets(c) ==
    \A index \in Nat :
        index < Len(Leaves[c]) => chunk_get_leaf[c][index] = << Leaves[c][index + 1] >>

LEMMA EndsOf ==
  ASSUME NEW d \in Nat, d <= Depth, NEW items, items \in Seq(ItemsAt[d]), NEW i \in 0..Len(items)
  PROVE  /\ EndOf(items, i) = Len(LeavesOf(SubSeq(items, 1, i))) /\ EndOf(items, i) \in Nat
         /\ EndOf(items, i) <= Len(LeavesOf(items)) /\ LeavesOf(items) \in Seq(Int)
         /\ LeavesOf(SubSeq(items, 1, i)) \in Seq(Int)
         /\ \E t \in Seq(Int) : LeavesOf(items) = LeavesOf(SubSeq(items, 1, i)) \o t
<1>1. PICK t \in Seq(Int) : /\ LeavesOf(SubSeq(items, 1, i)) \in Seq(Int)
                            /\ LeavesOf(items) = LeavesOf(SubSeq(items, 1, i)) \o t
  BY RoomPrefix
<1>2. items \in Seq(Items) /\ items \in Seq(Counted)
  BY AtTypes
<1>3. SubSeq(items, 1, i) \in Seq(Counted)
  BY <1>2, PrefixSplits
<1>4. EndOf(items, i) = Len(LeavesOf(SubSeq(items, 1, i)))
  BY <1>3, SumIs DEF EndOf
<1> DEFINE p == LeavesOf(SubSeq(items, 1, i))
<1>5. LeavesOf(items) = p \o t /\ p \in Seq(Int)
  BY <1>1
<1> HIDE DEF p
<1>6. Len(p \o t) = Len(p) + Len(t) /\ Len(p) \in Nat /\ Len(t) \in Nat /\ p \o t \in Seq(Int)
  BY <1>5, LeavesJoin
<1> DEFINE a == Len(p \o t)
           b == Len(p)
           c == Len(t)
<1>7. a = b + c /\ b \in Nat /\ c \in Nat
  BY <1>6
<1> HIDE DEF a, b, c
<1>8. b <= a
  BY ONLY <1>7
<1>9. Len(p) <= Len(p \o t)
  BY <1>8 DEF a, b
<1> QED BY <1>4, <1>5, <1>6, <1>9 DEF p

LEMMA GetForms ==
  ASSUME NEW c \in Items, NEW index \in Int
  PROVE  /\ ~ IsAChunk(c) => chunk_get_leaf[c][index] = << c.leaf >>
         /\ IsAChunk(c) /\ {i \in DOMAIN c.items : index < EndOf(c.items, i)} = {} =>
              chunk_get_leaf[c][index] = ThrownValue
         /\ IsAChunk(c) /\ {i \in DOMAIN c.items : index < EndOf(c.items, i)} # {} =>
              chunk_get_leaf[c][index]
                = chunk_get_leaf[c.items[Holder(c, index)]][index - EndOf(c.items, Holder(c, index) - 1)]
<1>1. chunk_get_leaf[c] = LeafOver(Below(chunk_get_leaf, c), c)
  BY GetLeafIs
<1>2. ~ IsAChunk(c) => chunk_get_leaf[c][index] = << c.leaf >>
  BY <1>1 DEF LeafOver
<1>3. IsAChunk(c) /\ {i \in DOMAIN c.items : index < EndOf(c.items, i)} = {} =>
              chunk_get_leaf[c][index] = ThrownValue
  BY <1>1 DEF LeafOver
<1>4. ASSUME IsAChunk(c), {i \in DOMAIN c.items : index < EndOf(c.items, i)} # {}
      PROVE  chunk_get_leaf[c][index]
                = chunk_get_leaf[c.items[Holder(c, index)]][index - EndOf(c.items, Holder(c, index) - 1)]
  <2>1. Holder(c, index) \in DOMAIN c.items
    BY <1>4, HolderIs
  <2> DEFINE h == Holder(c, index)
             j == index - EndOf(c.items, h - 1)
  <2>2. Below(chunk_get_leaf, c)[h] = chunk_get_leaf[c.items[h]]
    BY <2>1 DEF Below
  <2>3. chunk_get_leaf[c][index] = Below(chunk_get_leaf, c)[h][j]
    BY <1>1, <1>4 DEF LeafOver
  <2> QED BY <2>2, <2>3
<1> QED BY <1>2, <1>3, <1>4

LEMMA GetChunk ==
  ASSUME NEW d \in Nat, d < Depth, NEW c \in EndsAt(d), \A v \in ItemsAt[d] : Gets(v)
  PROVE  /\ Gets(c)
         /\ \A index \in Nat : index >= Len(Leaves[c]) => chunk_get_leaf[c][index] = ThrownValue
<1> DEFINE items == c.items
           s == Leaves[c]
<1>1. /\ c \in Items /\ IsAChunk(c) /\ items \in Seq(ItemsAt[d]) /\ items # << >> /\ s = LeavesOf(items)
      /\ Len(items) \in 1..4 /\ s \in Seq(Int) /\ Len(s) \in Nat
  BY EndParts
<1>2. d <= Depth /\ DOMAIN items = 1..Len(items) /\ Len(items) \in Nat
  <2>1. d <= Depth
    BY DepthType
  <2> QED BY <1>1, <2>1
<1>3. \A i \in 0..Len(items) : EndOf(items, i) <= Len(s) /\ EndOf(items, i) \in Nat
  BY <1>1, <1>2, EndsOf
<1>4. ASSUME NEW index \in Nat, index >= Len(s) PROVE chunk_get_leaf[c][index] = ThrownValue
  <2>1. \A i \in DOMAIN items : ~ (index < EndOf(items, i))
    <3> SUFFICES ASSUME NEW i \in DOMAIN items, index < EndOf(items, i) PROVE FALSE
      OBVIOUS
    <3> DEFINE e == EndOf(items, i)
               n == Len(s)
    <3>1. e <= n /\ e \in Nat /\ n \in Nat /\ index >= n /\ index < e
      BY <1>1, <1>2, <1>3, <1>4
    <3> HIDE DEF e, n
    <3> QED BY ONLY <3>1
  <2>2. {i \in DOMAIN c.items : index < EndOf(c.items, i)} = {} /\ index \in Int
    BY <2>1
  <2> QED BY <1>1, <2>2, GetForms
<1>5. ASSUME NEW index \in Nat, index < Len(s) PROVE chunk_get_leaf[c][index] = << s[index + 1] >>
  <2> DEFINE h == Holder(c, index)
  <2>1. {i \in DOMAIN c.items : index < EndOf(c.items, i)} # {}
    <3>1. EndOf(items, Len(items)) = Len(LeavesOf(SubSeq(items, 1, Len(items))))
      BY <1>1, <1>2, EndsOf
    <3>2. SubSeq(items, 1, Len(items)) = items
      BY <1>1, PrefixEnds
    <3>3. EndOf(items, Len(items)) = Len(s)
      BY <1>1, <3>1, <3>2
    <3>4. Len(items) \in DOMAIN items
      BY <1>1, <1>2
    <3> QED BY <1>5, <3>3, <3>4
  <2>2. /\ h \in DOMAIN items /\ index < EndOf(items, h)
        /\ \A j \in DOMAIN items : index < EndOf(items, j) => h <= j
    BY <1>1, <2>1, HolderIs
  <2> HIDE DEF h
  <2>3. h \in 1..Len(items) /\ h - 1 \in 0..Len(items) /\ h \in Nat /\ h \in 0..Len(items)
    BY <1>2, <2>2
  <2> DEFINE p == LeavesOf(SubSeq(items, 1, h - 1))
             q == Leaves[items[h]]
             e == EndOf(items, h - 1)
             j == index - e
  <2>4. items \in Seq(Items) /\ items[h] \in ItemsAt[d]
    BY <1>1, <1>2, <2>3, AtTypes
  <2>5. e = Len(p) /\ e \in Nat /\ p \in Seq(Int)
    BY <1>1, <1>2, <2>3, EndsOf
  <2>6. LeavesOf(SubSeq(items, 1, h)) = p \o q
    BY <1>2, <2>3, <2>4, LeavesOfPrefix
  <2>7. PICK t \in Seq(Int) : s = LeavesOf(SubSeq(items, 1, h)) \o t
    BY <1>1, <1>2, <2>3, EndsOf
  <2>8. q \in Seq(Int)
    BY <1>2, <2>4, AtLeaves
  <2>9. EndOf(items, h) = Len(p \o q)
    BY <1>1, <1>2, <2>3, <2>6, EndsOf
  <2>10. e <= index
    <3>1. CASE h = 1
      <4>1. SubSeq(items, 1, h - 1) = << >>
        BY <1>1, <3>1, PrefixEnds
      <4>2. e = 0
        BY <2>5, <4>1, LeavesOfEmpty, EmptySeq
      <4> QED BY <4>2
    <3>2. CASE h # 1
      <4>1. h - 1 \in DOMAIN items /\ ~ (h <= h - 1)
        BY <1>2, <2>3, <3>2
      <4>2. ~ (index < e)
        BY <2>2, <4>1
      <4> QED BY <2>5, <4>2
    <3> QED BY <3>1, <3>2
  <2>11. chunk_get_leaf[c][index] = chunk_get_leaf[items[h]][j]
    BY <1>1, <2>1, GetForms DEF h
  <2> DEFINE n == Len(q)
             m == Len(p \o q)
  <2>12. m = e + n /\ n \in Nat /\ e \in Nat /\ index < m /\ e <= index /\ index \in Nat
    BY <2>2, <2>5, <2>8, <2>9, <2>10, LeavesJoin
  <2> HIDE DEF n, m, e, p, q
  <2>13. j \in Nat /\ j < n
    BY ONLY <2>12 DEF j
  <2>14. Gets(items[h])
    BY <2>4
  <2>15. chunk_get_leaf[items[h]][j] = << q[j + 1] >>
    BY <2>13, <2>14 DEF Gets, q, n
  <2>16. (p \o q)[index + 1] = q[j + 1]
    BY <2>5, <2>8, <2>12, <2>13, PickLeaf DEF n, j
  <2>17. ((p \o q) \o t)[index + 1] = (p \o q)[index + 1]
    <3>1. p \o q \in Seq(Int)
      BY <2>5, <2>8, LeavesJoin
    <3> QED BY <2>12, <3>1, PickLeaf DEF m
  <2> QED BY <2>6, <2>7, <2>11, <2>15, <2>16, <2>17
<1> QED BY <1>4, <1>5 DEF Gets

\* chunk_get_leaf finds every leaf of an item by its index.
LEMMA GetItems == \A d \in Nat : d <= Depth => \A v \in ItemsAt[d] : Gets(v)
<1> DEFINE Has == {d \in Nat : d <= Depth => \A v \in ItemsAt[d] : Gets(v)}
<1>1. 0 \in Has
  <2> SUFFICES ASSUME NEW v \in ItemsAt[0] PROVE Gets(v)
    OBVIOUS
  <2>1. v \in Items /\ Leaves[v] = << v.leaf >> /\ ~ IsAChunk(v)
    BY LeafItems, AtUnfold
  <2>2. \A index \in Nat : index < 1 => index = 0 /\ index \in Int
    OBVIOUS
  <2>3. Len(<< v.leaf >>) = 1 /\ << v.leaf >>[0 + 1] = v.leaf
    OBVIOUS
  <2> QED BY <2>1, <2>2, <2>3, GetForms DEF Gets
<1>2. ASSUME NEW d \in Has PROVE d + 1 \in Has
  <2> SUFFICES ASSUME d + 1 <= Depth, NEW v \in ItemsAt[d + 1] PROVE Gets(v)
    OBVIOUS
  <2>1. d \in Nat /\ d < Depth /\ d <= Depth
    BY DepthType
  <2>2. v \in EndsAt(d)
    BY <2>1, StoredIsEnd
  <2>3. \A w \in ItemsAt[d] : Gets(w)
    BY <2>1
  <2> QED BY <2>1, <2>2, <2>3, GetChunk
<1> HIDE DEF Has
<1>3. Has = Nat
  BY <1>1, <1>2, Induction DEF Has
<1> QED BY <1>3 DEF Has

LEMMA GetEnds ==
  ASSUME NEW d \in Nat, d < Depth, NEW c \in EndsAt(d), NEW index \in Nat
  PROVE  chunk_get_leaf[c][index]
           = IF index < Len(Leaves[c]) THEN << Leaves[c][index + 1] >> ELSE ThrownValue
<1>1. d <= Depth /\ c \in Items
  BY DepthType, EndParts
<1>2. \A v \in ItemsAt[d] : Gets(v)
  BY <1>1, GetItems
<1>3. Gets(c) /\ (index >= Len(Leaves[c]) => chunk_get_leaf[c][index] = ThrownValue)
  BY <1>2, GetChunk
<1>4. Len(Leaves[c]) \in Nat
  BY EndParts
<1> DEFINE n == Len(Leaves[c])
<1>5. n \in Nat
  BY <1>4
<1> HIDE DEF n
<1>6. index < n \/ index >= n
  BY <1>5
<1> QED BY <1>3, <1>6 DEF Gets, n

(* Lookup, whatever the depth of the list.                                  *)
At(s, index) == IF index \in 0..(Len(s) - 1) THEN << s[index + 1] >> ELSE ThrownValue
LooksAt(l, d) == l \in FitsAt(d) => \A index \in Int : Lookup[l][index] = At(Content[l], index)

LEMMA LookupForms ==
  ASSUME NEW l \in Lists, NEW index \in Int
  PROVE  /\ l.kind = "empty" => Lookup[l][index] = ThrownValue
         /\ l.kind = "single" =>
              Lookup[l][index] = IF index \in 0..(Size(l) - 1)
                                   THEN chunk_get_leaf[ChunkOf(<< l.value >>)][index] ELSE ThrownValue
         /\ l.kind = "list" =>
              LET cold == index - l.head.leaves
                  last == cold - Size(l.cold)
              IN /\ index < 0 => Lookup[l][index] = ThrownValue
                 /\ ~ (index < 0) /\ cold < 0 => Lookup[l][index] = chunk_get_leaf[l.head][index]
                 /\ ~ (index < 0) /\ ~ (cold < 0) /\ last < 0 => Lookup[l][index] = Lookup[l.cold][cold]
                 /\ ~ (index < 0) /\ ~ (cold < 0) /\ ~ (last < 0) =>
                      Lookup[l][index] = chunk_get_leaf[l.tail][last]
<1>1. Lookup[l] = LookupOver(Lookup[l.cold], l)
  BY MethodsAre
<1> QED BY <1>1 DEF LookupOver

LEMMA LookupShort ==
  ASSUME NEW d \in Nat, NEW l, l \in FitsAt(d), l.kind # "list", NEW index \in Int
  PROVE  Lookup[l][index] = At(Content[l], index)
<1>1. l \in Lists /\ d <= Depth
  BY FitsType
<1>2. CASE l = list_empty
  <2>1. l.kind = "empty" /\ Content[l] = << >>
    BY <1>2, ContentOfForms DEF list_empty
  <2>2. Lookup[l][index] = ThrownValue
    BY <1>1, <2>1, LookupForms
  <2>3. ~ (index \in 0..(Len(<< >>) - 1))
    OBVIOUS
  <2> QED BY <2>1, <2>2, <2>3 DEF At
<1>3. CASE l.kind = "single"
  <2> DEFINE s == Content[l]
             c == ChunkOf(<< l.value >>)
  <2>1. l.value \in ItemsAt[d] /\ s = Leaves[l.value] /\ d < Depth
    BY <1>3, SingleParts
  <2>2. c \in EndsAt(d) /\ Leaves[c] = s
    BY <2>1, OneItemChunk
  <2>3. Size(l) = Len(s) /\ Len(s) \in Nat
    BY SizeIs, FitsType
  <2>4. Lookup[l][index] = IF index \in 0..(Size(l) - 1) THEN chunk_get_leaf[c][index] ELSE ThrownValue
    BY <1>1, <1>3, LookupForms
  <2>5. CASE index \in 0..(Len(s) - 1)
    <3>1. index \in Nat /\ index < Len(s)
      BY <2>3, <2>5
    <3> HIDE DEF c, s
    <3>2. chunk_get_leaf[c][index] = << s[index + 1] >>
      BY <2>1, <2>2, <3>1, GetEnds
    <3> QED BY <2>3, <2>4, <2>5, <3>2 DEF At, s
  <2>6. CASE ~ (index \in 0..(Len(s) - 1))
    BY <2>3, <2>4, <2>6 DEF At
  <2> QED BY <2>5, <2>6
<1> QED BY <1>1, <1>2, <1>3, Kinds

LEMMA PickOfThree ==
  ASSUME NEW h, h \in Seq(Int), NEW m, m \in Seq(Int), NEW t, t \in Seq(Int), NEW index \in Int
  PROVE  /\ index < 0 => At(h \o m \o t, index) = ThrownValue
         /\ index >= 0 /\ index < Len(h) => At(h \o m \o t, index) = << h[index + 1] >>
         /\ index >= Len(h) /\ index - Len(h) < Len(m) => At(h \o m \o t, index) = At(m, index - Len(h))
         /\ index >= Len(h) /\ (index - Len(h)) - Len(m) >= 0 =>
              At(h \o m \o t, index) = IF (index - Len(h)) - Len(m) < Len(t)
                                         THEN << t[((index - Len(h)) - Len(m)) + 1] >> ELSE ThrownValue
<1> DEFINE s == h \o m \o t
           a == Len(h)
           b == Len(m)
           c == Len(t)
           n == Len(s)
           i == index - a
           j == i - b
<1>1. /\ h \o m \in Seq(Int) /\ s \in Seq(Int) /\ a \in Nat /\ b \in Nat /\ c \in Nat
      /\ Len(h \o m) = a + b /\ n = (a + b) + c
  BY LeavesJoin
<1> HIDE DEF a, b, c, n
<1>2. index < 0 => At(s, index) = ThrownValue
  <2>1. index < 0 => ~ (index \in 0..(n - 1))
    BY <1>1
  <2> QED BY <2>1 DEF At, n
<1>3. ASSUME index >= 0, index < a PROVE At(s, index) = << h[index + 1] >>
  <2>1. index \in Nat /\ index \in 0..(n - 1) /\ index < a + b
    BY <1>1, <1>3
  <2>2. s[index + 1] = (h \o m)[index + 1]
    BY <1>1, <2>1, PickLeaf
  <2>3. (h \o m)[index + 1] = h[index + 1]
    BY <1>1, <1>3, <2>1, PickLeaf DEF a
  <2> QED BY <2>1, <2>2, <2>3 DEF At, n
<1>4. ASSUME index >= a, i < b PROVE At(s, index) = At(m, i)
  <2>1. index \in Nat /\ index \in 0..(n - 1) /\ index < a + b /\ i \in 0..(b - 1)
    BY <1>1, <1>4
  <2>2. s[index + 1] = (h \o m)[index + 1]
    BY <1>1, <2>1, PickLeaf
  <2>3. (h \o m)[index + 1] = m[i + 1]
    BY <1>1, <1>4, <2>1, PickLeaf DEF a, b
  <2>4. At(m, i) = << m[i + 1] >>
    BY <2>1 DEF At, b
  <2> HIDE DEF s, i
  <2> QED BY <2>1, <2>2, <2>3, <2>4 DEF At, n
<1>5. ASSUME index >= a, j >= 0 PROVE At(s, index) = IF j < c THEN << t[j + 1] >> ELSE ThrownValue
  <2>1. index \in Nat /\ index >= a + b /\ j = index - (a + b)
    BY <1>1, <1>5
  <2>2. index \in 0..(n - 1) <=> j < c
    BY <1>1, <1>5
  <2>3. ASSUME j < c PROVE s[index + 1] = t[j + 1]
    <3>1. index - Len(h \o m) = j
      BY <1>1, <2>1
    <3>2. index >= Len(h \o m) /\ index - Len(h \o m) < Len(t)
      BY <1>1, <2>1, <2>3, <3>1 DEF c
    <3>3. s[index + 1] = t[(index - Len(h \o m)) + 1]
      BY <1>1, <2>1, <3>2, PickLeaf
    <3> HIDE DEF s, j
    <3> QED BY <3>1, <3>3
  <2> HIDE DEF s, j
  <2> QED BY <2>2, <2>3 DEF At, n
<1> QED BY <1>2, <1>3, <1>4, <1>5 DEF a, b, c

LEMMA LookupLong ==
  ASSUME NEW d \in Nat, NEW l, l \in FitsAt(d), l.kind = "list", LooksAt(l.cold, d + 1), NEW index \in Int
  PROVE  Lookup[l][index] = At(Content[l], index)
<1> DEFINE h == Leaves[l.head]
           m == Content[l.cold]
           t == Leaves[l.tail]
           i == index - l.head.leaves
           j == i - Size(l.cold)
<1>1. /\ l.head \in EndsAt(d) /\ l.cold \in FitsAt(d + 1) /\ l.tail \in EndsAt(d) /\ d < Depth
      /\ Content[l] = h \o m \o t
      /\ h \in Seq(Int) /\ m \in Seq(Int) /\ t \in Seq(Int)
      /\ l.head.leaves = Len(h) /\ Len(h) \in Nat /\ Len(m) \in Nat /\ Len(t) \in Nat
  BY ListParts
<1>2. l \in Lists /\ Size(l.cold) = Len(m)
  <2>1. d + 1 \in Nat /\ l \in Lists
    BY FitsType
  <2> QED BY <1>1, <2>1, SizeIs
<1>3. i = index - Len(h) /\ j = (index - Len(h)) - Len(m) /\ i \in Int /\ j \in Int
  BY <1>1, <1>2
<1>4. CASE index < 0
  <2>1. Lookup[l][index] = ThrownValue
    BY <1>2, <1>4, LookupForms
  <2>2. At(h \o m \o t, index) = ThrownValue
    BY <1>1, <1>4, PickOfThree
  <2> HIDE DEF h, m, t, i, j
  <2> QED BY <1>1, <2>1, <2>2
<1>5. CASE ~ (index < 0) /\ i < 0
  <2>1. Lookup[l][index] = chunk_get_leaf[l.head][index]
    BY <1>2, <1>5, LookupForms
  <2>2. index \in Nat /\ index >= 0 /\ index < Len(h)
    BY <1>1, <1>3, <1>5
  <2>3. chunk_get_leaf[l.head][index] = << h[index + 1] >>
    BY <1>1, <2>2, GetEnds
  <2>4. At(h \o m \o t, index) = << h[index + 1] >>
    BY <1>1, <2>2, PickOfThree, SMTT(30)
  <2> HIDE DEF h, m, t, i, j
  <2> QED BY <1>1, <2>1, <2>3, <2>4
<1>6. CASE ~ (index < 0) /\ ~ (i < 0) /\ j < 0
  <2>1. Lookup[l][index] = Lookup[l.cold][i]
    BY <1>2, <1>6, LookupForms
  <2>2. index >= Len(h) /\ index - Len(h) < Len(m)
    <3> DEFINE a == Len(h)
               b == Len(m)
    <3>1. a \in Nat /\ b \in Nat /\ i = index - a /\ j = (index - a) - b /\ ~ (i < 0) /\ j < 0
      BY <1>1, <1>3, <1>6
    <3> HIDE DEF a, b, i, j
    <3>2. index >= a /\ index - a < b
      BY ONLY <3>1
    <3> QED BY <3>2 DEF a, b
  <2>3. Lookup[l.cold][i] = At(m, i)
    BY <1>1, <1>3 DEF LooksAt
  <2>4. At(h \o m \o t, index) = At(m, index - Len(h))
    BY <1>1, <2>2, PickOfThree
  <2> QED BY <1>1, <1>3, <2>1, <2>3, <2>4
<1>7. CASE ~ (index < 0) /\ ~ (i < 0) /\ ~ (j < 0)
  <2>1. Lookup[l][index] = chunk_get_leaf[l.tail][j]
    BY <1>2, <1>7, LookupForms
  <2>2. index >= Len(h) /\ (index - Len(h)) - Len(m) >= 0 /\ j \in Nat
    BY <1>1, <1>3, <1>7
  <2>3. chunk_get_leaf[l.tail][j] = IF j < Len(t) THEN << t[j + 1] >> ELSE ThrownValue
    BY <1>1, <2>2, GetEnds
  <2>4. At(h \o m \o t, index) = IF (index - Len(h)) - Len(m) < Len(t)
                                   THEN << t[((index - Len(h)) - Len(m)) + 1] >> ELSE ThrownValue
    BY <1>1, <2>2, PickOfThree
  <2> HIDE DEF h, m, t, i, j
  <2> QED BY <1>1, <1>3, <2>1, <2>3, <2>4
<1> QED BY <1>4, <1>5, <1>6, <1>7

\* List_lookup finds every leaf by its index, and none beside them, at every level.
LEMMA LookupRight == \A l \in Lists : \A d \in Nat : LooksAt(l, d)
<1> DEFINE P == {l \in Lists : \A d \in Nat : LooksAt(l, d)}
<1>1. ASSUME NEW l \in Lists, IsShort(l) PROVE l \in P
  <2>1. l.kind # "list"
    BY <1>1, ShortKinds
  <2>2. \A d \in Nat : LooksAt(l, d)
    BY <2>1, LookupShort DEF LooksAt
  <2> QED BY <2>2
<1>2. ASSUME NEW l \in Lists, IsLong(P, l) PROVE l \in P
  <2>1. l.kind = "list" /\ l.cold \in P
    BY <1>2 DEF IsLong
  <2>2. ASSUME NEW d \in Nat PROVE LooksAt(l, d)
    <3>1. LooksAt(l.cold, d + 1)
      BY <2>1
    <3> QED BY <2>1, <3>1, LookupLong DEF LooksAt
  <2> QED BY <2>2
<1> HIDE DEF P
<1>3. P = Lists
  BY <1>1, <1>2, ListsInduction DEF P
<1> QED BY <1>3 DEF P

-----------------------------------------------------------------------------
(* Dividing a list, at its ends.                                            *)
MoveToHeadOn(prev, i, l, index) == 
    IF i = 0 THEN [before |-> list_empty, after |-> l, index |-> index]
    ELSE IF prev.index <= 0 \/ prev.after = list_empty THEN prev ELSE MovedToHead(prev)

LEMMA MoveToHeadTurns ==
  ASSUME NEW l, NEW index, Size(l) \in Nat
  PROVE  \E f : /\ f[0] = MoveToHeadOn(f[0], 0, l, index)
                /\ \A i \in 1..Size(l) : f[i] = MoveToHeadOn(f[i - 1], i, l, index)
                /\ MoveToHead(l, index) = IF f[Size(l)].index <= 0 THEN Parts(f[Size(l)].before, f[Size(l)].after) ELSE Stopped
<1> DEFINE Has == {m \in Nat : \E f : f = [i \in 0..m |-> MoveToHeadOn(f[i - 1], i, l, index)]}
<1>0. \A a, b : MoveToHeadOn(a, 0, l, index) = MoveToHeadOn(b, 0, l, index)
  BY DEF MoveToHeadOn
<1>1. 0 \in Has
  <2> DEFINE f == [i \in 0..0 |-> MoveToHeadOn({}, 0, l, index)]
  <2>1. f = [i \in 0..0 |-> MoveToHeadOn(f[i - 1], i, l, index)]
    BY <1>0
  <2> QED BY <2>1
<1>2. ASSUME NEW m \in Has PROVE m + 1 \in Has
  <2>1. PICK f : f = [i \in 0..m |-> MoveToHeadOn(f[i - 1], i, l, index)]
    OBVIOUS
  <2> DEFINE g == [i \in 0..(m + 1) |-> IF i <= m THEN f[i] ELSE MoveToHeadOn(f[m], m + 1, l, index)]
  <2>2. m \in Nat
    OBVIOUS
  <2>3. ASSUME NEW i \in 0..(m + 1) PROVE g[i] = MoveToHeadOn(g[i - 1], i, l, index)
    <3>1. CASE i = 0
      <4>1. g[i] = f[0] /\ f[0] = MoveToHeadOn(f[0 - 1], 0, l, index)
        BY <2>1, <2>2, <3>1
      <4> QED BY <1>0, <3>1, <4>1
    <3>2. CASE i \in 1..m
      <4>1. g[i] = f[i] /\ g[i - 1] = f[i - 1] /\ f[i] = MoveToHeadOn(f[i - 1], i, l, index)
        BY <2>1, <2>2, <3>2
      <4> QED BY <4>1
    <3>3. CASE i = m + 1
      <4>1. i - 1 = m /\ g[i - 1] = f[m] /\ g[i] = MoveToHeadOn(f[m], m + 1, l, index)
        BY <2>2, <3>3
      <4> QED BY <3>3, <4>1
    <3> QED BY <2>2, <3>1, <3>2, <3>3
  <2>4. g = [i \in 0..(m + 1) |-> MoveToHeadOn(g[i - 1], i, l, index)]
    BY <2>3
  <2> HIDE DEF g
  <2>5. m + 1 \in Nat /\ \E h : h = [i \in 0..(m + 1) |-> MoveToHeadOn(h[i - 1], i, l, index)]
    BY <2>2, <2>4
  <2> QED BY <2>5
<1> HIDE DEF Has
<1>3. Has = Nat
  BY <1>1, <1>2, Induction DEF Has
<1>4. \E f : f = [i \in 0..Size(l) |-> MoveToHeadOn(f[i - 1], i, l, index)]
  BY <1>3 DEF Has
<1>5. \E f : f = [i \in 0..Size(l) |-> 
    IF i = 0 THEN [before |-> list_empty, after |-> l, index |-> index]
    ELSE IF f[i - 1].index <= 0 \/ f[i - 1].after = list_empty THEN f[i - 1] ELSE MovedToHead(f[i - 1])]
  BY <1>4 DEF MoveToHeadOn
<1> DEFINE turn == CHOOSE f : f = [i \in 0..Size(l) |-> 
    IF i = 0 THEN [before |-> list_empty, after |-> l, index |-> index]
    ELSE IF f[i - 1].index <= 0 \/ f[i - 1].after = list_empty THEN f[i - 1] ELSE MovedToHead(f[i - 1])]
<1>6. turn = [i \in 0..Size(l) |-> 
    IF i = 0 THEN [before |-> list_empty, after |-> l, index |-> index]
    ELSE IF turn[i - 1].index <= 0 \/ turn[i - 1].after = list_empty THEN turn[i - 1] ELSE MovedToHead(turn[i - 1])]
  BY <1>5
<1>7. MoveToHead(l, index) = IF turn[Size(l)].index <= 0 THEN Parts(turn[Size(l)].before, turn[Size(l)].after) ELSE Stopped
  BY DEF MoveToHead
<1> HIDE DEF turn
<1>8. turn = [i \in 0..Size(l) |-> MoveToHeadOn(turn[i - 1], i, l, index)]
  BY <1>6 DEF MoveToHeadOn
<1>9. turn[0] = MoveToHeadOn(turn[0], 0, l, index)
  <2>1. 0 \in 0..Size(l)
    OBVIOUS
  <2>2. turn[0] = MoveToHeadOn(turn[0 - 1], 0, l, index)
    BY <1>8, <2>1
  <2> QED BY <1>0, <2>2
<1>10. \A i \in 1..Size(l) : turn[i] = MoveToHeadOn(turn[i - 1], i, l, index)
  BY <1>8
<1> QED BY <1>7, <1>9, <1>10

MoveToTailOn(prev, i, l, target) == 
    IF i = 0 THEN Parts(l, list_empty)
    ELSE IF Size(prev.after) >= target THEN prev ELSE MovedToTail(prev)

LEMMA MoveToTailTurns ==
  ASSUME NEW l, NEW target, Size(l) \in Nat
  PROVE  \E f : /\ f[0] = MoveToTailOn(f[0], 0, l, target)
                /\ \A i \in 1..Size(l) : f[i] = MoveToTailOn(f[i - 1], i, l, target)
                /\ MoveToTail(l, target) = f[Size(l)]
<1> DEFINE Has == {m \in Nat : \E f : f = [i \in 0..m |-> MoveToTailOn(f[i - 1], i, l, target)]}
<1>0. \A a, b : MoveToTailOn(a, 0, l, target) = MoveToTailOn(b, 0, l, target)
  BY DEF MoveToTailOn
<1>1. 0 \in Has
  <2> DEFINE f == [i \in 0..0 |-> MoveToTailOn({}, 0, l, target)]
  <2>1. f = [i \in 0..0 |-> MoveToTailOn(f[i - 1], i, l, target)]
    BY <1>0
  <2> QED BY <2>1
<1>2. ASSUME NEW m \in Has PROVE m + 1 \in Has
  <2>1. PICK f : f = [i \in 0..m |-> MoveToTailOn(f[i - 1], i, l, target)]
    OBVIOUS
  <2> DEFINE g == [i \in 0..(m + 1) |-> IF i <= m THEN f[i] ELSE MoveToTailOn(f[m], m + 1, l, target)]
  <2>2. m \in Nat
    OBVIOUS
  <2>3. ASSUME NEW i \in 0..(m + 1) PROVE g[i] = MoveToTailOn(g[i - 1], i, l, target)
    <3>1. CASE i = 0
      <4>1. g[i] = f[0] /\ f[0] = MoveToTailOn(f[0 - 1], 0, l, target)
        BY <2>1, <2>2, <3>1
      <4> QED BY <1>0, <3>1, <4>1
    <3>2. CASE i \in 1..m
      <4>1. g[i] = f[i] /\ g[i - 1] = f[i - 1] /\ f[i] = MoveToTailOn(f[i - 1], i, l, target)
        BY <2>1, <2>2, <3>2
      <4> QED BY <4>1
    <3>3. CASE i = m + 1
      <4>1. i - 1 = m /\ g[i - 1] = f[m] /\ g[i] = MoveToTailOn(f[m], m + 1, l, target)
        BY <2>2, <3>3
      <4> QED BY <3>3, <4>1
    <3> QED BY <2>2, <3>1, <3>2, <3>3
  <2>4. g = [i \in 0..(m + 1) |-> MoveToTailOn(g[i - 1], i, l, target)]
    BY <2>3
  <2> HIDE DEF g
  <2>5. m + 1 \in Nat /\ \E h : h = [i \in 0..(m + 1) |-> MoveToTailOn(h[i - 1], i, l, target)]
    BY <2>2, <2>4
  <2> QED BY <2>5
<1> HIDE DEF Has
<1>3. Has = Nat
  BY <1>1, <1>2, Induction DEF Has
<1>4. \E f : f = [i \in 0..Size(l) |-> MoveToTailOn(f[i - 1], i, l, target)]
  BY <1>3 DEF Has
<1>5. \E f : f = [i \in 0..Size(l) |-> 
    IF i = 0 THEN Parts(l, list_empty)
    ELSE IF Size(f[i - 1].after) >= target THEN f[i - 1] ELSE MovedToTail(f[i - 1])]
  BY <1>4 DEF MoveToTailOn
<1> DEFINE turn == CHOOSE f : f = [i \in 0..Size(l) |-> 
    IF i = 0 THEN Parts(l, list_empty)
    ELSE IF Size(f[i - 1].after) >= target THEN f[i - 1] ELSE MovedToTail(f[i - 1])]
<1>6. turn = [i \in 0..Size(l) |-> 
    IF i = 0 THEN Parts(l, list_empty)
    ELSE IF Size(turn[i - 1].after) >= target THEN turn[i - 1] ELSE MovedToTail(turn[i - 1])]
  BY <1>5
<1>7. MoveToTail(l, target) = turn[Size(l)]
  BY DEF MoveToTail
<1> HIDE DEF turn
<1>8. turn = [i \in 0..Size(l) |-> MoveToTailOn(turn[i - 1], i, l, target)]
  BY <1>6 DEF MoveToTailOn
<1>9. turn[0] = MoveToTailOn(turn[0], 0, l, target)
  <2>1. 0 \in 0..Size(l)
    OBVIOUS
  <2>2. turn[0] = MoveToTailOn(turn[0 - 1], 0, l, target)
    BY <1>8, <2>1
  <2> QED BY <1>0, <2>2
<1>10. \A i \in 1..Size(l) : turn[i] = MoveToTailOn(turn[i - 1], i, l, target)
  BY <1>8
<1> QED BY <1>7, <1>9, <1>10

LEMMA MoveNone ==
  ASSUME NEW l, Size(l) \in Nat
  PROVE  MoveToHead(l, 0) = Parts(list_empty, l)
<1>1. PICK f : /\ f[0] = MoveToHeadOn(f[0], 0, l, 0)
               /\ \A i \in 1..Size(l) : f[i] = MoveToHeadOn(f[i - 1], i, l, 0)
               /\ MoveToHead(l, 0) = IF f[Size(l)].index <= 0
                                       THEN Parts(f[Size(l)].before, f[Size(l)].after) ELSE Stopped
  BY MoveToHeadTurns
<1> DEFINE begun == [before |-> list_empty, after |-> l, index |-> 0]
           Has == {n \in Nat : n <= Size(l) => f[n] = begun}
<1>2. 0 \in Has
  BY <1>1 DEF MoveToHeadOn
<1>3. ASSUME NEW n \in Has PROVE n + 1 \in Has
  <2> SUFFICES ASSUME n + 1 <= Size(l) PROVE f[n + 1] = begun
    OBVIOUS
  <2>1. n \in Nat /\ n + 1 \in 1..Size(l) /\ n <= Size(l) /\ (n + 1) - 1 = n /\ n + 1 # 0
    OBVIOUS
  <2>2. f[n] = begun
    BY <2>1
  <2>3. f[n + 1] = MoveToHeadOn(f[n], n + 1, l, 0)
    BY <1>1, <2>1
  <2>4. f[n].index <= 0
    BY <2>2
  <2> QED BY <2>1, <2>2, <2>3, <2>4 DEF MoveToHeadOn
<1> HIDE DEF Has
<1>4. Has = Nat
  BY <1>2, <1>3, Induction DEF Has
<1>5. f[Size(l)] = begun
  BY <1>4 DEF Has
<1> QED BY <1>1, <1>5

\* The last k leaves of s are in the second part.
Splits(p, s, k) ==
    /\ p.before \in FitsAt(0) /\ p.after \in FitsAt(0)
    /\ s = Content[p.before] \o Content[p.after] /\ Len(Content[p.after]) = k

LEMMA PartsAre == \A a, b : Parts(a, b).before = a /\ Parts(a, b).after = b
BY DEF Parts

LEMMA MoveTailTurn ==
  ASSUME NEW p, NEW s, s \in Seq(Int), NEW k \in Nat, Splits(p, s, k), k < Len(s), Len(s) <= Depth
  PROVE  Splits(MovedToTail(p), s, k + 1)
<1> DEFINE a == Content[p.before]
           b == Content[p.after]
           v == TailOf(p.before)
           m == Chop[p.before]
<1>1. /\ p.before \in FitsAt(0) /\ p.after \in FitsAt(0) /\ s = a \o b /\ Len(b) = k
      /\ a \in Seq(Int) /\ b \in Seq(Int) /\ p.before \in Lists /\ 0 \in Nat
  BY FitsType DEF Splits
<1>2. p.before # list_empty
  <2> SUFFICES ASSUME p.before = list_empty PROVE FALSE
    OBVIOUS
  <2>1. a = << >> /\ << >> \o b = b
    BY <1>1, ContentOfForms, ConcatEmptySeq
  <2>2. s = b /\ Len(s) = k
    BY <1>1, <2>1
  <2> QED BY <2>2
<1>3. TookLast(v, m, a, 0)
  BY <1>1, <1>2, ChopRight DEF ChopsAt
<1>4. m \in FitsAt(0) /\ v \in ItemsAt[0] /\ a = Content[m] \o Leaves[v]
  BY <1>3 DEF TookLast
<1> DEFINE x == v.leaf
           c == Content[m]
<1>5. x \in Int /\ v = Leaf(x) /\ Leaves[v] = << x >> /\ c \in Seq(Int)
  BY <1>1, <1>4, LeafItems, FitsType
<1>6. Len(b) < Depth
  <2> DEFINE n == Len(s)
  <2>1. n \in Nat /\ k < n /\ n <= Depth
    OBVIOUS
  <2> HIDE DEF n
  <2>2. k < Depth
    BY <2>1, DepthType
  <2> QED BY <1>1, <2>2
<1>7. Put(Push[p.after][v], << x >> \o b, 0)
  BY <1>1, <1>5, <1>6, PutLeaf
<1>8. MovedToTail(p).before = m /\ MovedToTail(p).after = Push[p.after][v]
  BY PartsAre DEF MovedToTail
<1> HIDE DEF a, b, v, m, x, c
<1>9. << x >> \in Seq(Int) /\ Len(<< x >>) = 1
  BY <1>5, OneLeaf
<1>10. (c \o << x >>) \o b = c \o (<< x >> \o b)
  <2> DEFINE q == << x >>
  <2>1. c \in Seq(Int) /\ q \in Seq(Int) /\ b \in Seq(Int)
    BY <1>1, <1>5, <1>9
  <2> HIDE DEF q
  <2>2. (c \o q) \o b = c \o (q \o b)
    BY <2>1, LeavesAssociate
  <2> QED BY <2>2 DEF q
<1>11. Len(<< x >> \o b) = 1 + Len(b)
  BY <1>1, <1>9, LeavesJoin
<1>12. Content[Push[p.after][v]] = << x >> \o b /\ Push[p.after][v] \in FitsAt(0)
  BY <1>7 DEF Put
<1>13. s = Content[m] \o Content[Push[p.after][v]]
  BY <1>1, <1>4, <1>5, <1>10, <1>12 DEF c
<1>14. Len(Content[Push[p.after][v]]) = k + 1
  BY <1>1, <1>11, <1>12
<1> QED BY <1>4, <1>8, <1>12, <1>13, <1>14 DEF Splits

\* Moving leaves from the tail of the list to that of another.
LEMMA MoveTailRight ==
  ASSUME NEW l, l \in FitsAt(0), NEW target \in 0..Len(Content[l])
  PROVE  Splits(MoveToTail(l, target), Content[l], target)
<1> DEFINE s == Content[l]
<1>1. s \in Seq(Int) /\ Size(l) = Len(s) /\ Len(s) \in Nat /\ Len(s) <= Depth /\ l \in Lists /\ 0 \in 0..Depth
  BY FitsType, SizeIs, DepthType
<1>2. PICK f : /\ f[0] = MoveToTailOn(f[0], 0, l, target)
               /\ \A i \in 1..Size(l) : f[i] = MoveToTailOn(f[i - 1], i, l, target)
               /\ MoveToTail(l, target) = f[Size(l)]
  BY <1>1, MoveToTailTurns
<1> DEFINE Moved(n) == IF n <= target THEN n ELSE target
           Has == {n \in Nat : n <= Size(l) => Splits(f[n], s, Moved(n))}
<1>3. 0 \in Has
  <2>1. f[0] = Parts(l, list_empty)
    BY <1>2 DEF MoveToTailOn
  <2>2. f[0].before = l /\ f[0].after = list_empty
    BY <2>1, PartsAre
  <2>3. list_empty \in FitsAt(0) /\ Content[list_empty] = << >> /\ s \o << >> = s
    BY <1>1, FitsEmpty, ConcatEmptySeq
  <2>4. Len(<< >>) = 0 /\ Moved(0) = 0
    BY <1>1
  <2>5. Splits(f[0], s, 0)
    BY <2>2, <2>3, <2>4 DEF Splits
  <2> QED BY <2>4, <2>5
<1>4. ASSUME NEW n \in Has PROVE n + 1 \in Has
  <2> SUFFICES ASSUME n + 1 <= Size(l) PROVE Splits(f[n + 1], s, Moved(n + 1))
    OBVIOUS
  <2>1. n \in Nat /\ n + 1 \in 1..Size(l) /\ n <= Size(l) /\ (n + 1) - 1 = n /\ n + 1 # 0
    BY <1>1
  <2>2. Splits(f[n], s, Moved(n))
    BY <2>1
  <2>3. f[n + 1] = MoveToTailOn(f[n], n + 1, l, target)
    BY <1>2, <2>1
  <2>4. Size(f[n].after) = Moved(n)
    <3>1. f[n].after \in FitsAt(0) /\ Len(Content[f[n].after]) = Moved(n)
      BY <2>2 DEF Splits
    <3> HIDE DEF Moved
    <3> QED BY <3>1, SizeIs
  <2>5. target \in Nat /\ Moved(n) \in Nat
    BY <1>1, <2>1
  <2>6. CASE n >= target
    <3>1. Moved(n) >= target /\ Moved(n + 1) = Moved(n)
      BY <2>1, <2>5, <2>6
    <3>2. f[n + 1] = f[n]
      BY <2>1, <2>3, <2>4, <3>1 DEF MoveToTailOn
    <3> QED BY <2>2, <3>1, <3>2
  <2>7. CASE n < target
    <3>1. ~ (Moved(n) >= target) /\ Moved(n) = n /\ Moved(n + 1) = n + 1
      BY <2>1, <2>5, <2>7
    <3>2. f[n + 1] = MovedToTail(f[n])
      BY <2>1, <2>3, <2>4, <3>1 DEF MoveToTailOn
    <3>3. n < Len(s)
      BY <1>1, <2>1
    <3> HIDE DEF Moved, s
    <3>4. Splits(MovedToTail(f[n]), s, n + 1)
      BY <1>1, <2>1, <2>2, <3>1, <3>3, MoveTailTurn
    <3> QED BY <3>1, <3>2, <3>4
  <2> QED BY <2>1, <2>5, <2>6, <2>7
<1> HIDE DEF Has
<1>5. Has = Nat
  BY <1>3, <1>4, Induction DEF Has
<1>6. Splits(f[Size(l)], s, Moved(Size(l)))
  BY <1>1, <1>5 DEF Has
<1>7. Moved(Size(l)) = target
  BY <1>1
<1> QED BY <1>2, <1>6, <1>7

LEMMA PartitionForms ==
  ASSUME NEW l \in Lists, NEW index \in Int
  PROVE  /\ l.kind = "empty" => Partition[l][index] = Parts(l, l)
         /\ l.kind = "single" /\ index < Size(l) => Partition[l][index] = Parts(list_empty, l)
         /\ l.kind = "single" /\ ~ (index < Size(l)) => Partition[l][index] = Parts(l, list_empty)
         /\ l.kind = "list" /\ InHeadChunk(l, index) => Partition[l][index] = MoveToHead(l, index)
         /\ l.kind = "list" /\ InTailChunk(l, index) =>
              Partition[l][index] = MoveToTail(l, l.size - index)
<1>1. Partition[l] = PartitionOver(Partition[l.cold], l)
  BY MethodsAre
<1>2. InTailChunk(l, index) => ~ InHeadChunk(l, index)
  BY DEF InTailChunk
<1> QED BY <1>1, <1>2 DEF PartitionOver

\* The first part holds what comes before the index.
Divided(p, s, index) ==
    /\ p.before \in FitsAt(0) /\ p.after \in FitsAt(0)
    /\ s = Content[p.before] \o Content[p.after] /\ Len(Content[p.before]) = index

LEMMA SplitsDivides ==
  ASSUME NEW p, NEW s, s \in Seq(Int), NEW index \in 0..Len(s), Splits(p, s, Len(s) - index)
  PROVE  Divided(p, s, index)
<1> DEFINE a == Content[p.before]
           b == Content[p.after]
<1>1. /\ p.before \in FitsAt(0) /\ p.after \in FitsAt(0) /\ s = a \o b /\ Len(b) = Len(s) - index
  BY DEF Splits
<1>2. a \in Seq(Int) /\ b \in Seq(Int)
  BY <1>1, FitsType
<1> HIDE DEF a, b
<1>3. Len(s) = Len(a) + Len(b) /\ Len(a) \in Nat /\ Len(b) \in Nat
  BY <1>1, <1>2, LeavesJoin
<1> DEFINE n == Len(s)
           x == Len(a)
           y == Len(b)
<1>4. n = x + y /\ x \in Nat /\ y \in Nat /\ y = n - index /\ index \in 0..n
  BY <1>1, <1>3
<1> HIDE DEF n, x, y
<1>5. x = index
  BY ONLY <1>4
<1> QED BY <1>1, <1>5 DEF a, b, x, Divided

LEMMA DividedParts ==
  \A a, b \in FitsAt(0) : \A s, index :
    s = Content[a] \o Content[b] /\ Len(Content[a]) = index => Divided(Parts(a, b), s, index)
BY PartsAre DEF Divided

LEMMA EmptyIn == list_empty \in FitsAt(0) /\ Content[list_empty] = << >> /\ Len(<< >>) = 0 /\ 0 \in Nat
BY FitsEmpty, DepthType

\* List_partition divides a list at its ends as a sequence is cut.
LEMMA PartitionRight ==
  ASSUME NEW l, l \in FitsAt(0), NEW index \in 0..Len(Content[l]),
         l.kind = "list" => index = 0 \/ InTailChunk(l, index)
  PROVE  Divided(Partition[l][index], Content[l], index)
<1> DEFINE s == Content[l]
<1>1. l \in Lists /\ s \in Seq(Int) /\ Size(l) = Len(s) /\ Len(s) \in Nat /\ index \in Nat /\ index \in Int
  BY EmptyIn, FitsType, SizeIs
<1>2. s \o << >> = s /\ << >> \o s = s
  BY <1>1, ConcatEmptySeq
<1>3. CASE l.kind = "empty"
  <2>1. Partition[l][index] = Parts(l, l) /\ l = list_empty
    BY <1>1, <1>3, PartitionForms, Kinds
  <2>2. s = << >> /\ index = 0
    BY <2>1, EmptyIn
  <2> QED BY <1>2, <2>1, <2>2, EmptyIn, DividedParts
<1>4. CASE l.kind = "single"
  <2>1. Len(s) = 1
    <3>1. l.value \in ItemsAt[0] /\ s = Leaves[l.value]
      BY <1>4, EmptyIn, SingleParts
    <3>2. Leaves[l.value] = << l.value.leaf >>
      BY <3>1, LeafItems
    <3> QED BY <3>1, <3>2
  <2>2. CASE index = 0
    <3>1. index < Size(l)
      BY <1>1, <2>1, <2>2
    <3>2. Partition[l][index] = Parts(list_empty, l)
      BY <1>1, <1>4, <3>1, PartitionForms
    <3> QED BY <1>2, <2>2, <3>2, EmptyIn, DividedParts
  <2>3. CASE index = 1
    <3>1. ~ (index < Size(l))
      BY <1>1, <2>1, <2>3
    <3>2. Partition[l][index] = Parts(l, list_empty)
      BY <1>1, <1>4, <3>1, PartitionForms
    <3> QED BY <1>2, <2>1, <2>3, <3>2, EmptyIn, DividedParts
  <2>4. index = 0 \/ index = 1
    BY <2>1
  <2> QED BY <2>2, <2>3, <2>4
<1>5. CASE l.kind = "list"
  <2>1. l.head.leaves = Len(Leaves[l.head]) /\ Len(Leaves[l.head]) >= 1 /\ Len(Leaves[l.head]) \in Nat /\ l.size = Len(s)
    BY <1>5, EmptyIn, ListParts
  <2>2. CASE index = 0
    <3>1. InHeadChunk(l, index)
      BY <2>1, <2>2 DEF InHeadChunk
    <3>2. Partition[l][index] = Parts(list_empty, l)
      BY <1>1, <1>5, <2>2, <3>1, PartitionForms, MoveNone
    <3> QED BY <1>2, <2>2, <3>2, EmptyIn, DividedParts
  <2>3. CASE InTailChunk(l, index)
    <3>1. Partition[l][index] = MoveToTail(l, Len(s) - index)
      BY <1>1, <1>5, <2>1, <2>3, PartitionForms
    <3> DEFINE k == Len(s) - index
    <3>2. k \in 0..Len(s)
      BY <1>1
    <3> HIDE DEF k
    <3>3. Splits(MoveToTail(l, k), s, k)
      BY <3>2, MoveTailRight
    <3> QED BY <1>1, <3>1, <3>3, SplitsDivides DEF k
  <2> QED BY <1>5, <2>2, <2>3
<1> QED BY <1>1, <1>3, <1>4, <1>5, Kinds

=============================================================================
