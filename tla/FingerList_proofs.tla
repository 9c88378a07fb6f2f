------------------------- MODULE FingerList_proofs -------------------------
(* The lists of FingerList, for every bound on their length: the chunks and *)
(* cold storages keep their shape, and the list goes through its calls as a *)
(* plain sequence does.                                                     *)
EXTENDS FingerList, FingerTree_proofs

-----------------------------------------------------------------------------
\* A list that a program may hold.
ListOk(l) == Under(l) \in FitsAt(0) /\ (IsReversed(l) => l.list.kind = "list")

LEMMA OkForms ==
  ASSUME NEW l, ListOk(l)
  PROVE  /\ Under(l) \in FitsAt(0) /\ Under(l) \in Lists
         /\ IsReversed(l) => Under(l) = l.list /\ l.list.kind = "list" /\ InOrder(l) = Reverse(Content[l.list])
         /\ ~ IsReversed(l) => Under(l) = l /\ InOrder(l) = Content[l]
         /\ Content[Under(l)] \in Seq(Int) /\ InOrder(l) \in Seq(Int)
         /\ Len(InOrder(l)) = Len(Content[Under(l)]) /\ Size(Under(l)) = Len(InOrder(l))
         /\ Len(InOrder(l)) \in Nat /\ Len(InOrder(l)) <= Depth
<1>1. Under(l) \in FitsAt(0) /\ (IsReversed(l) => l.list.kind = "list")
  BY DEF ListOk
<1>2. /\ Under(l) \in Lists /\ Content[Under(l)] \in Seq(Int) /\ Len(Content[Under(l)]) \in Nat
      /\ 0 + Len(Content[Under(l)]) <= Depth
  BY <1>1, FitsType
<1>3. IsReversed(l) => Under(l) = l.list /\ InOrder(l) = Reverse(Content[l.list])
  BY DEF Under, IsReversed, InOrder
<1>4. ~ IsReversed(l) => Under(l) = l /\ InOrder(l) = Content[l]
  <2> SUFFICES ASSUME ~ IsReversed(l) PROVE Under(l) = l /\ InOrder(l) = Content[l]
    OBVIOUS
  <2>1. Under(l) = l
    BY DEF Under
  <2>2. l.kind \in {"empty", "single", "list"}
    BY <1>2, <2>1, Kinds
  <2> QED BY <2>1, <2>2 DEF InOrder
<1>5. Size(Under(l)) = Len(Content[Under(l)])
  BY <1>1, SizeIs
<1>6. InOrder(l) \in Seq(Int) /\ Len(InOrder(l)) = Len(Content[Under(l)])
  <2>1. CASE IsReversed(l)
    BY <1>2, <1>3, <2>1, ReverseType
  <2>2. CASE ~ IsReversed(l)
    BY <1>2, <1>4, <2>2
  <2> QED BY <2>1, <2>2
<1>7. Len(Content[Under(l)]) <= Depth
  <2> DEFINE n == Len(Content[Under(l)])
  <2>1. n \in Nat /\ 0 + n <= Depth
    BY <1>2
  <2> HIDE DEF n
  <2>2. n <= Depth
    BY <2>1, DepthType
  <2> QED BY <2>2 DEF n
<1> QED BY <1>1, <1>2, <1>3, <1>4, <1>5, <1>6, <1>7

\* A well-shaped list of leaves is one the program may hold.
LEMMA StraightOk ==
  ASSUME NEW m, m \in FitsAt(0)
  PROVE  ListOk(m) /\ ~ IsReversed(m) /\ InOrder(m) = Content[m] /\ Under(m) = m
<1>1. m \in Lists
  BY FitsType
<1>2. ~ IsReversed(m)
  BY <1>1, Kinds DEF IsReversed
<1>3. ListOk(m) /\ Under(m) = m
  BY <1>2 DEF ListOk, Under
<1> QED BY <1>2, <1>3, OkForms

\* One leaf or none reads the same backwards.
LEMMA ReverseShort ==
  ASSUME NEW l \in FitsAt(0), l.kind # "list"
  PROVE  Reverse(Content[l]) = Content[l]
<1>1. l \in Lists
  BY FitsType
<1>2. CASE l = list_empty
  BY <1>2, ContentOfForms, ReverseEmpty
<1>3. CASE l.kind = "single"
  <2>1. l.value \in ItemsAt[0] /\ Content[l] = Leaves[l.value]
    BY <1>3, SingleParts
  <2>2. Content[l] = << l.value.leaf >>
    BY <2>1, LeafItems
  <2> QED BY <2>2, ReverseOne
<1> QED BY <1>1, <1>2, <1>3, Kinds

LEMMA ReversedOk ==
  ASSUME NEW l, ListOk(l)
  PROVE  /\ ListOk(Reversed(l)) /\ InOrder(Reversed(l)) = Reverse(InOrder(l))
         /\ Under(Reversed(l)) = Under(l)
<1>1. CASE IsReversed(l)
  <2>1. l.list \in FitsAt(0) /\ InOrder(l) = Reverse(Content[l.list]) /\ Content[l.list] \in Seq(Int) /\ Under(l) = l.list
    BY <1>1, OkForms
  <2>2. Reversed(l) = l.list
    BY <1>1 DEF Reversed, IsReversed
  <2>3. ListOk(l.list) /\ InOrder(l.list) = Content[l.list] /\ Under(l.list) = l.list
    BY <2>1, StraightOk
  <2>4. Reverse(Reverse(Content[l.list])) = Content[l.list]
    BY <2>1, ReverseTwice
  <2> QED BY <2>1, <2>2, <2>3, <2>4
<1>2. CASE ~ IsReversed(l) /\ l.kind = "list"
  <2>1. l \in FitsAt(0) /\ InOrder(l) = Content[l] /\ Under(l) = l
    BY <1>2, OkForms
  <2>2. Reversed(l) = [kind |-> "reversed", list |-> l]
    BY <1>2 DEF Reversed
  <2>3. IsReversed(Reversed(l)) /\ Reversed(l).list = l
    BY <2>2 DEF IsReversed
  <2>4. ListOk(Reversed(l)) /\ Under(Reversed(l)) = l
    BY <1>2, <2>1, <2>3 DEF ListOk, Under
  <2>5. InOrder(Reversed(l)) = Reverse(Content[l])
    BY <2>3, <2>4, OkForms
  <2> QED BY <2>1, <2>4, <2>5
<1>3. CASE ~ IsReversed(l) /\ l.kind # "list"
  <2>1. l \in FitsAt(0) /\ InOrder(l) = Content[l] /\ Under(l) = l
    BY <1>3, OkForms
  <2>2. Reversed(l) = l
    BY <1>3 DEF Reversed, IsReversed
  <2> QED BY <1>3, <2>1, <2>2, ReverseShort
<1> QED BY <1>1, <1>2, <1>3

\* A straight list run backwards.
LEMMA BackwardsOk ==
  ASSUME NEW m, m \in FitsAt(0)
  PROVE  /\ ListOk(Reversed(m)) /\ InOrder(Reversed(m)) = Reverse(Content[m])
         /\ Under(Reversed(m)) = m
BY StraightOk, ReversedOk

-----------------------------------------------------------------------------
(* What a call makes of the program's list.                                 *)
\* The list m holds these leaves, in this order.
IsList(m, leaves) == ListOk(m) /\ InOrder(m) = leaves

\* What a method makes of such a list, and the reversed form of it.
LEMMA PutIsList ==
  \A m, s : Put(m, s, 0) => IsList(m, s) /\ IsList(Reversed(m), Reverse(s))
<1> SUFFICES ASSUME NEW m, NEW s, Put(m, s, 0) PROVE IsList(m, s) /\ IsList(Reversed(m), Reverse(s))
  OBVIOUS
<1>1. m \in FitsAt(0) /\ Content[m] = s
  BY DEF Put
<1> QED BY <1>1, StraightOk, BackwardsOk DEF IsList

LEMMA PushIsList ==
  ASSUME NEW l, ListOk(l), NEW x \in Int, Len(InOrder(l)) < Depth
  PROVE  /\ ~ IsReversed(l) => IsList(Push[l][Leaf(x)], << x >> \o InOrder(l))
         /\ IsReversed(l) => IsList(Reversed(Attach[Under(l)][Leaf(x)]), << x >> \o InOrder(l))
         /\ ~ IsReversed(l) => IsList(Attach[l][Leaf(x)], Append(InOrder(l), x))
         /\ IsReversed(l) => IsList(Reversed(Push[Under(l)][Leaf(x)]), Append(InOrder(l), x))
<1> DEFINE u == Under(l)
           s == Content[u]
<1>1. u \in FitsAt(0) /\ s \in Seq(Int) /\ Len(s) < Depth /\ InOrder(l) \in Seq(Int)
  BY OkForms
<1> HIDE DEF u
<1>2. Put(Push[u][Leaf(x)], << x >> \o s, 0) /\ Put(Attach[u][Leaf(x)], s \o << x >>, 0)
  BY <1>1, PutLeaf
<1>3. << x >> \in Seq(Int) /\ Reverse(<< x >>) = << x >>
  BY OneLeaf
<1>4. Reverse(<< x >> \o s) = Reverse(s) \o << x >> /\ Reverse(s \o << x >>) = << x >> \o Reverse(s)
  BY <1>1, <1>3, ReverseConcat
<1>5. Append(InOrder(l), x) = InOrder(l) \o << x >>
  BY <1>1, AppendIsConcat
<1>6. CASE ~ IsReversed(l)
  <2>1. u = l /\ InOrder(l) = s
    BY <1>6, OkForms DEF u
  <2> QED BY <1>2, <1>5, <1>6, <2>1, PutIsList
<1>7. CASE IsReversed(l)
  <2>1. InOrder(l) = Reverse(s)
    BY <1>7, OkForms DEF u
  <2> QED BY <1>2, <1>4, <1>5, <1>7, <2>1, PutIsList DEF u
<1> QED BY <1>6, <1>7

LEMMA HeadTailIs ==
  ASSUME NEW x \in Int, NEW s, s \in Seq(Int)
  PROVE  /\ << x >> \o s # << >> /\ Tail(<< x >> \o s) = s /\ Head(<< x >> \o s) = x
         /\ s \o << x >> # << >> /\ Front(s \o << x >>) = s /\ Last(s \o << x >>) = x
         /\ (<< x >> \o s)[1] = x
<1>1. << x >> \in Seq(Int) /\ Len(<< x >>) = 1 /\ << x >>[1] = x /\ Len(s) \in Nat
  BY OneLeaf, LenProperties
<1> DEFINE t == << x >> \o s
           r == s \o << x >>
           n == Len(s)
<1>2. /\ t \in Seq(Int) /\ Len(t) = 1 + n /\ t[1] = x
      /\ \A i \in 1..n : t[i + 1] = s[i]
  <2>1. t \in Seq(Int) /\ Len(t) = 1 + n
    BY <1>1, ConcatProperties
  <2>2. \A i \in 1..(1 + n) : t[i] = IF i <= 1 THEN << x >>[i] ELSE s[i - 1]
    BY <1>1, ConcatProperties
  <2> HIDE DEF t, n
  <2>3. 1 \in 1..(1 + n) /\ \A i \in 1..n : i + 1 \in 1..(1 + n) /\ ~ (i + 1 <= 1) /\ (i + 1) - 1 = i
    BY <1>1 DEF n
  <2> QED BY <1>1, <2>1, <2>2, <2>3
<1>3. /\ r \in Seq(Int) /\ Len(r) = n + 1 /\ r[n + 1] = x
      /\ \A i \in 1..n : r[i] = s[i]
  <2>1. r \in Seq(Int) /\ Len(r) = n + 1
    BY <1>1, ConcatProperties
  <2>2. \A i \in 1..(n + 1) : r[i] = IF i <= n THEN s[i] ELSE << x >>[i - n]
    BY <1>1, ConcatProperties
  <2> HIDE DEF r, n
  <2>3. n + 1 \in 1..(n + 1) /\ ~ (n + 1 <= n) /\ (n + 1) - n = 1 /\ \A i \in 1..n : i \in 1..(n + 1) /\ i <= n
    BY <1>1 DEF n
  <2> QED BY <1>1, <2>1, <2>2, <2>3
<1>4. t # << >> /\ r # << >>
  <2>1. Len(t) # 0 /\ Len(r) # 0
    BY <1>1, <1>2, <1>3
  <2> QED BY <2>1, EmptySeq
<1>5. Tail(t) = s /\ Head(t) = x
  <2>1. /\ Tail(t) \in Seq(Int) /\ Len(Tail(t)) = Len(t) - 1 /\ Head(t) = t[1]
        /\ \A i \in 1..Len(Tail(t)) : Tail(t)[i] = t[i + 1]
    BY <1>2, <1>4, HeadTailProperties
  <2>2. Len(Tail(t)) = n
    <3> HIDE DEF n, t
    <3> QED BY <1>1, <1>2, <2>1 DEF n
  <2>3. \A i \in 1..n : Tail(t)[i] = s[i]
    <3> HIDE DEF n, t
    <3> QED BY <1>2, <2>1, <2>2
  <2>4. Tail(t) = s
    BY <2>1, <2>2, <2>3, SeqEqual
  <2> QED BY <1>2, <2>1, <2>4
<1>6. Front(r) = s /\ Last(r) = x
  <2>1. Front(r) \in Seq(Int) /\ Len(Front(r)) = Len(r) - 1 /\ r = Append(Front(r), Last(r)) /\ Last(r) \in Int
    BY <1>3, <1>4, TailOff
  <2>2. Len(Front(r)) = n
    <3> HIDE DEF n, r
    <3> QED BY <1>1, <1>3, <2>1 DEF n
  <2>3. \A i \in 1..n : Front(r)[i] = r[i]
    <3>1. \A i \in 1..Len(Front(r)) : Append(Front(r), Last(r))[i] = Front(r)[i]
      BY <2>1, AppendProperties
    <3> HIDE DEF n, r
    <3> QED BY <2>1, <2>2, <3>1
  <2>4. Front(r) = s
    <3>1. \A i \in 1..n : Front(r)[i] = s[i]
      BY <1>3, <2>3
    <3> QED BY <2>1, <2>2, <3>1, SeqEqual
  <2>5. Last(r) = x
    <3>1. Last(r) = r[Len(r)]
      BY DEF Last
    <3> HIDE DEF n, r
    <3> QED BY <1>3, <3>1
  <2> QED BY <2>4, <2>5
<1> QED BY <1>2, <1>4, <1>5, <1>6

LEMMA EmptyIs ==
  ASSUME NEW l, ListOk(l)
  PROVE  /\ l = list_empty <=> InOrder(l) = << >>
         /\ l # list_empty <=> Under(l) # list_empty
<1>1. Under(l) \in FitsAt(0) /\ Len(InOrder(l)) = Len(Content[Under(l)]) /\ InOrder(l) \in Seq(Int)
  BY OkForms
<1>2. l = list_empty <=> Under(l) = list_empty
  <2>1. CASE IsReversed(l)
    <3>1. Under(l).kind = "list" /\ l.kind = "reversed"
      BY <2>1, OkForms DEF IsReversed
    <3> QED BY <3>1 DEF list_empty
  <2>2. CASE ~ IsReversed(l)
    BY <2>2, OkForms
  <2> QED BY <2>1, <2>2
<1>3. Under(l) = list_empty => InOrder(l) = << >>
  <2>1. Under(l) = list_empty => Len(Content[Under(l)]) = 0
    BY ContentOfForms, EmptySeq
  <2> QED BY <1>1, <2>1, EmptySeq
<1>4. Under(l) # list_empty => InOrder(l) # << >>
  <2> SUFFICES ASSUME Under(l) # list_empty PROVE InOrder(l) # << >>
    OBVIOUS
  <2>1. 0 \in Nat
    OBVIOUS
  <2>2. Len(Content[Under(l)]) >= 1
    BY <1>1, <2>1, NonemptyHasLeaves
  <2>3. Len(InOrder(l)) # 0
    BY <1>1, <2>2
  <2> QED BY <2>3, EmptySeq
<1> QED BY <1>2, <1>3, <1>4

\* The item at the head of a list is its first leaf.
LEMMA PopIsList ==
  ASSUME NEW l, ListOk(l), l # list_empty
  PROVE  /\ ~ IsReversed(l) => IsList(Pop[l], Tail(InOrder(l))) /\ Leaves[HeadOf(l)] = << InOrder(l)[1] >>
         /\ IsReversed(l) => /\ IsList(Reversed(Chop[Under(l)]), Tail(InOrder(l)))
                             /\ Leaves[TailOf(l.list)] = << InOrder(l)[1] >>
         /\ ~ IsReversed(l) => IsList(Chop[l], Front(InOrder(l))) /\ Leaves[TailOf(l)] = << Last(InOrder(l)) >>
         /\ IsReversed(l) => /\ IsList(Reversed(Pop[Under(l)]), Front(InOrder(l)))
                             /\ Leaves[HeadOf(l.list)] = << Last(InOrder(l)) >>
<1> DEFINE u == Under(l)
           s == Content[u]
<1>1. u \in FitsAt(0) /\ u \in Lists /\ u # list_empty
  BY OkForms, EmptyIs
<1> HIDE DEF u
<1>2. Took(HeadOf(u), Pop[u], s, 0) /\ TookLast(TailOf(u), Chop[u], s, 0)
  <2>1. PopsAt(u, 0) /\ ChopsAt(u, 0)
    BY <1>1, PopRight, ChopRight
  <2> QED BY <1>1, <2>1 DEF PopsAt, ChopsAt
<1>3. PICK x \in Int : Leaves[HeadOf(u)] = << x >> /\ s = << x >> \o Content[Pop[u]]
  BY <1>2, LeafItems DEF Took
<1>4. PICK y \in Int : Leaves[TailOf(u)] = << y >> /\ s = Content[Chop[u]] \o << y >>
  BY <1>2, LeafItems DEF TookLast
<1>5. Pop[u] \in FitsAt(0) /\ Chop[u] \in FitsAt(0)
  BY <1>2 DEF Took, TookLast
<1> DEFINE p == Content[Pop[u]]
           c == Content[Chop[u]]
<1>6. p \in Seq(Int) /\ c \in Seq(Int)
  BY <1>5, FitsType
<1>7. Tail(s) = p /\ s[1] = x /\ Front(s) = c /\ Last(s) = y
  <2> HIDE DEF p, c, s
  <2>1. s = << x >> \o p /\ s = c \o << y >>
    BY <1>3, <1>4 DEF p, c, s
  <2> QED BY <1>6, <2>1, HeadTailIs, Zenon
<1>8. /\ IsList(Pop[u], p) /\ IsList(Reversed(Pop[u]), Reverse(p))
      /\ IsList(Chop[u], c) /\ IsList(Reversed(Chop[u]), Reverse(c))
  BY <1>5, StraightOk, BackwardsOk DEF IsList
<1>9. CASE ~ IsReversed(l)
  <2>1. u = l /\ InOrder(l) = s
    BY <1>9, OkForms DEF u
  <2> QED BY <1>3, <1>4, <1>7, <1>8, <1>9, <2>1
<1>10. CASE IsReversed(l)
  <2>1. u = l.list /\ InOrder(l) = Reverse(s) /\ u = Under(l)
    BY <1>10, OkForms DEF u
  <2>2. Reverse(s) = << y >> \o Reverse(c) /\ Reverse(s) = Reverse(p) \o << x >>
    <3>1. << x >> \in Seq(Int) /\ << y >> \in Seq(Int) /\ Reverse(<< x >>) = << x >> /\ Reverse(<< y >>) = << y >>
      BY OneLeaf
    <3>2. Reverse(c \o << y >>) = << y >> \o Reverse(c)
      <4> HIDE DEF c
      <4> QED BY <1>6, <3>1, ReverseConcat
    <3>3. Reverse(<< x >> \o p) = Reverse(p) \o << x >>
      <4> HIDE DEF p
      <4> QED BY <1>6, <3>1, ReverseConcat
    <3> QED BY <1>3, <1>4, <3>2, <3>3
  <2>3. Tail(Reverse(s)) = Reverse(c) /\ Reverse(s)[1] = y /\ Front(Reverse(s)) = Reverse(p) /\ Last(Reverse(s)) = x
    <3> DEFINE rc == Reverse(c)
               rp == Reverse(p)
               rs == Reverse(s)
    <3>1. rc \in Seq(Int) /\ rp \in Seq(Int)
      BY <1>6, ReverseType
    <3>2. rs = << y >> \o rc /\ rs = rp \o << x >>
      BY <2>2
    <3> HIDE DEF rc, rp, rs
    <3>3. Tail(rs) = rc /\ rs[1] = y /\ Front(rs) = rp /\ Last(rs) = x
      BY <3>1, <3>2, HeadTailIs, Zenon
    <3> QED BY <3>3 DEF rc, rp, rs
  <2> HIDE DEF s, p, c
  <2> QED BY <1>3, <1>4, <1>8, <1>10, <2>1, <2>3
<1> QED BY <1>9, <1>10

-----------------------------------------------------------------------------
(* Joining the program's list to another.                                   *)
LEMMA SumRoom ==
  ASSUME NEW s, s \in Seq(Int), NEW t, t \in Seq(Int), Len(s) + Len(t) <= Depth
  PROVE  Room(0, s \o t) /\ s \o t \in Seq(Int) /\ Len(s \o t) = Len(s) + Len(t)
<1>1. Len(s) \in Nat /\ Len(t) \in Nat
  BY LenProperties
<1> DEFINE a == Len(s)
           b == Len(t)
<1>2. a \in Nat /\ b \in Nat /\ a + b <= Depth
  BY <1>1
<1> HIDE DEF a, b
<1>3. 0 + a + b <= Depth
  BY <1>2, DepthType
<1>4. 0 + Len(s) + Len(t) <= Depth
  BY <1>3 DEF a, b
<1> QED BY <1>4, RoomIs

LEMMA JoinedStraight ==
  ASSUME NEW l, l \in FitsAt(0), NEW o, o \in FitsAt(0), Len(Content[l]) + Len(Content[o]) <= Depth,
         Joinable(l, o), NEW behind \in AnyAction
  PROVE  Holds(Joined(l, o, behind), Content[l] \o Content[o], 0)
<1>1. l \in Lists /\ o \in Lists /\ Content[l] \in Seq(Int) /\ Content[o] \in Seq(Int)
  BY FitsType
<1>2. Room(0, Content[l] \o Content[o])
  BY <1>1, SumRoom
<1>3. Depth \in 0..Depth /\ 0 \in Nat
  BY DepthType
<1>4. JoinsAt(Depth, l, o, 0)
  BY <1>1, <1>3, JoinedRight
<1>5. Pair(l, o) \in JoinableWithin[Depth]
  BY DEF Joinable
<1> QED BY <1>2, <1>4, <1>5 DEF JoinsAt, Joined

LEMMA HoldsIsList ==
  \A m, s : Holds(m, s, 0) => IsList(m, s) /\ IsList(Reversed(m), Reverse(s))
BY StraightOk, BackwardsOk DEF Holds, IsList

\* All leaves of a list one after the other, on top of another one.
LEMMA AllOfBackwards ==
  ASSUME NEW l, l \in FitsAt(0)
  PROVE  /\ Iterate(l) \in Seq(ItemsAt[0]) /\ LeavesOf(Iterate(l)) = Content[l]
         /\ IterateBack(l) \in Seq(ItemsAt[0]) /\ LeavesOf(IterateBack(l)) = Reverse(Content[l])
         /\ Holds(PushAll(list_empty, Iterate(l)), Reverse(Content[l]), 0)
<1>0. 0 \in Nat /\ 0 \in 0..Depth /\ 0 <= Depth
  BY DepthType
<1>1. Iterate(l) \in Seq(ItemsAt[0]) /\ LeavesOf(Iterate(l)) = Content[l]
  BY <1>0, IterateRight
<1>2. IterateBack(l) \in Seq(ItemsAt[0]) /\ LeavesOf(Reverse(IterateBack(l))) = Content[l]
  BY <1>0, IterateBackRight
<1>3. LeavesOf(IterateBack(l)) = Reverse(Content[l])
  <2>1. LeavesOf(Reverse(IterateBack(l))) = Reverse(LeavesOf(IterateBack(l)))
    BY <1>2, LeavesOfReversed
  <2>2. LeavesOf(IterateBack(l)) \in Seq(Int)
    BY <1>0, <1>2, AtTypes, LeavesOfType
  <2>3. Reverse(Reverse(LeavesOf(IterateBack(l)))) = LeavesOf(IterateBack(l))
    BY <2>2, ReverseTwice
  <2> QED BY <1>2, <2>1, <2>3
<1>4. Holds(PushAll(list_empty, Iterate(l)), Reverse(Content[l]), 0)
  <2> DEFINE items == Iterate(l)
             s == Content[l]
             r == Reverse(s)
  <2>1. s \in Seq(Int) /\ Room(0, s)
    BY <1>0, FitsIs, FitsType
  <2>2. r \in Seq(Int) /\ Len(r) = Len(s) /\ LeavesOf(Reverse(items)) = r
    BY <1>1, <2>1, ReverseType, LeavesOfReversed
  <2>3. Holds(list_empty, << >>, 0)
    BY <1>0, FitsEmpty DEF Holds
  <2>4. r \o << >> = r /\ Room(0, r)
    BY <2>1, <2>2, ConcatEmptySeq DEF Room
  <2>5. << >> \in Seq(Int) /\ items \in Seq(ItemsAt[0])
    BY <1>1, EmptySeq
  <2> HIDE DEF items, r
  <2>6. Room(0, LeavesOf(Reverse(items)) \o << >>)
    BY <2>2, <2>4
  <2>7. Holds(PushAll(list_empty, items), LeavesOf(Reverse(items)) \o << >>, 0)
    BY <1>0, <2>3, <2>5, <2>6, PushAllRight
  <2> QED BY <2>2, <2>4, <2>7 DEF items, r
<1> QED BY <1>1, <1>2, <1>3, <1>4

\* Joining keeps to lists the program may hold, in either form.
LEMMA JoinIsList ==
  ASSUME NEW l, ListOk(l), NEW o, ListOk(o), Len(InOrder(l)) + Len(InOrder(o)) <= Depth,
         JoinableLists(l, o), NEW behind \in AnyAction
  PROVE  IsList(JoinedLists(l, o, behind), InOrder(l) \o InOrder(o))
<1>0. 0 \in Nat /\ 0 \in 0..Depth /\ 0 <= Depth
  BY DepthType
<1> DEFINE j == JoinedLists(l, o, behind)
<1>1. CASE IsReversed(l) /\ IsReversed(o)
  <2> DEFINE s == Content[l.list]
             t == Content[o.list]
  <2>1. /\ l.list \in FitsAt(0) /\ o.list \in FitsAt(0) /\ InOrder(l) = Reverse(s) /\ InOrder(o) = Reverse(t)
        /\ s \in Seq(Int) /\ t \in Seq(Int) /\ Len(InOrder(l)) = Len(s) /\ Len(InOrder(o)) = Len(t)
    BY <1>1, OkForms
  <2>2. Joinable(o.list, l.list)
    BY <1>1 DEF JoinableLists
  <2>3. Len(t) + Len(s) <= Depth
    <3>1. Len(t) \in Nat /\ Len(s) \in Nat
      BY <2>1, LenProperties
    <3> DEFINE a == Len(s)
               b == Len(t)
    <3>2. a + b <= Depth /\ a \in Nat /\ b \in Nat
      BY <2>1, <3>1
    <3> HIDE DEF a, b
    <3>3. b + a <= Depth
      BY <3>2
    <3> QED BY <3>3 DEF a, b
  <2>4. Holds(Joined(o.list, l.list, behind), t \o s, 0)
    BY <2>1, <2>2, <2>3, JoinedStraight
  <2>5. Reverse(t \o s) = Reverse(s) \o Reverse(t)
    <3> HIDE DEF s, t
    <3> QED BY <2>1, ReverseConcat
  <2>6. j = Reversed(Joined(o.list, l.list, behind))
    BY <1>1 DEF JoinedLists
  <2>7. IsList(Reversed(Joined(o.list, l.list, behind)), Reverse(t \o s))
    BY <2>4, HoldsIsList
  <2> QED BY <2>1, <2>5, <2>6, <2>7
<1>2. CASE IsReversed(l) /\ ~ IsReversed(o)
  <2> DEFINE s == Content[l.list]
             p == PushAll(list_empty, Iterate(l.list))
  <2>1. /\ l.list \in FitsAt(0) /\ o \in FitsAt(0) /\ InOrder(l) = Reverse(s) /\ InOrder(o) = Content[o]
        /\ s \in Seq(Int)
    BY <1>2, OkForms
  <2>2. Joinable(p, o)
    BY <1>2 DEF JoinableLists
  <2>3. Holds(p, Reverse(s), 0)
    BY <2>1, AllOfBackwards
  <2> HIDE DEF p
  <2>4. p \in FitsAt(0) /\ Content[p] = InOrder(l)
    BY <2>1, <2>3 DEF Holds
  <2>5. Len(Content[p]) + Len(Content[o]) <= Depth
    BY <2>1, <2>4
  <2>6. Holds(Joined(p, o, behind), Content[p] \o Content[o], 0)
    BY <2>1, <2>2, <2>4, <2>5, JoinedStraight
  <2>7. j = Joined(p, o, behind)
    BY <1>2 DEF JoinedLists, p
  <2> QED BY <2>1, <2>4, <2>6, <2>7, HoldsIsList
<1>3. CASE ~ IsReversed(l) /\ IsReversed(o)
  <2> DEFINE s == Content[l]
             t == Content[o.list]
  <2>1. /\ l \in FitsAt(0) /\ l \in Lists /\ o.list \in FitsAt(0) /\ InOrder(l) = s /\ InOrder(o) = Reverse(t)
        /\ s \in Seq(Int) /\ t \in Seq(Int) /\ Len(InOrder(o)) = Len(t) /\ o.list.kind = "list"
    BY <1>3, OkForms
  <2>2. CASE l.kind = "empty"
    <3>1. l = list_empty /\ s = << >>
      BY <2>1, <2>2, Kinds, ContentOfForms
    <3>2. j = o
      BY <1>3, <2>2 DEF JoinedLists
    <3>3. InOrder(o) \in Seq(Int)
      BY OkForms
    <3>4. s \o InOrder(o) = InOrder(o)
      BY <3>1, <3>3, ConcatEmptySeq
    <3> QED BY <2>1, <3>2, <3>4 DEF IsList
  <2>3. CASE l.kind = "single"
    <3>1. l.value \in ItemsAt[0] /\ s = Leaves[l.value]
      BY <1>0, <2>1, <2>3, SingleParts
    <3>2. PICK x \in Int : l.value = Leaf(x) /\ s = << x >>
      BY <3>1, LeafItems
    <3>3. j = Reversed(Attach[o.list][Leaf(x)])
      BY <1>3, <2>3, <3>2 DEF JoinedLists
    <3>4. Len(t) < Depth
      <4>1. Len(s) = 1 /\ Len(t) \in Nat
        BY <2>1, <3>2, OneLeaf, LenProperties
      <4> DEFINE b == Len(t)
      <4>2. 1 + b <= Depth /\ b \in Nat
        BY <2>1, <4>1
      <4> HIDE DEF b
      <4>3. b < Depth
        BY <4>2, DepthType
      <4> QED BY <4>3 DEF b
    <3>5. Put(Attach[o.list][Leaf(x)], t \o << x >>, 0)
      BY <2>1, <3>4, PutLeaf
    <3>6. Reverse(t \o << x >>) = << x >> \o Reverse(t)
      <4>1. << x >> \in Seq(Int) /\ Reverse(<< x >>) = << x >>
        BY OneLeaf
      <4> HIDE DEF t
      <4> QED BY <2>1, <4>1, ReverseConcat
    <3>7. IsList(Reversed(Attach[o.list][Leaf(x)]), Reverse(t \o << x >>))
      BY <3>5, PutIsList
    <3> QED BY <2>1, <3>2, <3>3, <3>6, <3>7
  <2>4. CASE l.kind = "list"
    <3> DEFINE items == IterateBack(o.list)
    <3>1. items \in Seq(ItemsAt[0]) /\ LeavesOf(items) = Reverse(t)
      BY <2>1, AllOfBackwards
    <3>2. j = AttachAll(l, items)
      BY <1>3, <2>4 DEF JoinedLists, ItemsOf
    <3>3. Reverse(t) \in Seq(Int)
      BY <2>1, ReverseType
    <3>4. Room(0, s \o Reverse(t))
      BY <2>1, <3>3, SumRoom
    <3>5. Holds(l, s, 0)
      BY <2>1 DEF Holds
    <3> HIDE DEF items, s, t
    <3>6. Holds(AttachAll(l, items), s \o LeavesOf(items), 0)
      BY <1>0, <2>1, <3>1, <3>4, <3>5, AttachAllRight
    <3> QED BY <2>1, <3>1, <3>2, <3>6, HoldsIsList
  <2> QED BY <2>1, <2>2, <2>3, <2>4, Kinds
<1>4. CASE ~ IsReversed(l) /\ ~ IsReversed(o)
  <2>1. l \in FitsAt(0) /\ o \in FitsAt(0) /\ InOrder(l) = Content[l] /\ InOrder(o) = Content[o]
    BY <1>4, OkForms
  <2>2. Joinable(l, o)
    BY <1>4 DEF JoinableLists
  <2>3. j = Joined(l, o, behind)
    BY <1>4 DEF JoinedLists
  <2>4. Len(Content[l]) + Len(Content[o]) <= Depth
    BY <2>1
  <2>5. Holds(Joined(l, o, behind), Content[l] \o Content[o], 0)
    BY <2>1, <2>2, <2>4, JoinedStraight
  <2> QED BY <2>1, <2>3, <2>5, HoldsIsList
<1> QED BY <1>1, <1>2, <1>3, <1>4

-----------------------------------------------------------------------------
(* The values a program pushes, and the lists it joins.                     *)
LEMMA Remainder == \A x \in Int : x % Period \in 0..(Period - 1) /\ x % Period \in Int
BY ListAssumption

LEMMA Multiple == \A a, b \in Int : a * b \in Int
OBVIOUS

\* The program's list is one it may hold.
ListInv == ListOk(list) /\ Length <= MaxLength

LEMMA LengthIs ==
  ASSUME ListInv
  PROVE  /\ Length = Len(InOrder(list)) /\ Length \in Nat /\ InOrder(list) \in Seq(Int)
         /\ Length <= MaxLength /\ Length < Depth
<1>1. ListOk(list) /\ Length <= MaxLength
  BY DEF ListInv
<1>2. Length = Len(InOrder(list)) /\ Length \in Nat /\ InOrder(list) \in Seq(Int)
  BY <1>1, OkForms DEF Length
<1>3. \A n \in Nat : n <= MaxLength => n < Depth
  BY MaxLengthAssumption DEF Depth
<1> QED BY <1>1, <1>2, <1>3

LEMMA ValuesPushed ==
  ASSUME ListInv
  PROVE  Before \in 0..(Period - 1) /\ \A n \in Nat : After(n) \in 0..(Period - 1)
<1> DEFINE s == InOrder(list)
<1>1. s \in Seq(Int) /\ Length = Len(s) /\ Length \in Nat
  BY LengthIs
<1>2. \A i \in 1..Len(s) : s[i] \in Int
  BY <1>1, ElementOfSeq
<1>3. Step \in Int
  <2>1. CASE Length < 2
    BY <2>1 DEF Step
  <2>2. CASE ~ (Length < 2)
    <3>1. 1 \in 1..Len(s) /\ 2 \in 1..Len(s)
      BY <1>1, <2>2
    <3>2. s[1] \in Int /\ s[2] \in Int
      BY <1>2, <3>1
    <3>3. Step = s[2] - s[1]
      BY <2>2 DEF Step
    <3> HIDE DEF s
    <3> QED BY <3>2, <3>3
  <2> QED BY <2>1, <2>2
<1>4. CASE Length = 0
  <2>1. Before = 0 /\ \A n \in Nat : After(n) = n % Period
    BY <1>4 DEF Before, After
  <2>2. 0 \in 0..(Period - 1)
    BY ListAssumption
  <2> QED BY <2>1, <2>2, Remainder
<1>5. CASE Length # 0
  <2>1. 1 \in 1..Len(s) /\ Len(s) \in 1..Len(s)
    BY <1>1, <1>5
  <2>2. s[1] \in Int /\ Last(s) \in Int
    BY <1>2, <2>1 DEF Last
  <2>3. Before = (s[1] - Step) % Period /\ \A n \in Nat : After(n) = (Last(s) + n * Step) % Period
    BY <1>5 DEF Before, After
  <2> DEFINE a == s[1]
             b == Last(s)
             c == Step
  <2>4. a \in Int /\ b \in Int /\ c \in Int
    BY <1>3, <2>2
  <2>5. Before = (a - c) % Period /\ \A n \in Nat : After(n) = (b + n * c) % Period
    BY <2>3
  <2> HIDE DEF a, b, c
  <2>6. a - c \in Int
    BY <2>4
  <2>7. ASSUME NEW n \in Nat PROVE After(n) \in 0..(Period - 1)
    <3>1. n * c \in Int
      BY <2>4, Multiple
    <3> DEFINE m == n * c
    <3>2. m \in Int /\ After(n) = (b + m) % Period
      BY <2>5, <3>1
    <3> HIDE DEF m
    <3>3. b + m \in Int
      BY <2>4, <3>2
    <3> QED BY <3>2, <3>3, Remainder
  <2>8. Before \in 0..(Period - 1)
    BY <2>5, <2>6, Remainder
  <2> QED BY <2>7, <2>8
<1> QED BY <1>4, <1>5

\* A list made by pushing or appending leaves, in either form.
LEMMA ItemsAreLeaves ==
  ASSUME NEW items, items \in Seq(ItemsAt[0]), Len(items) <= Depth
  PROVE  /\ IsList(AttachAll(list_empty, items), LeavesOf(items))
         /\ IsList(PushAll(list_empty, items), LeavesOf(Reverse(items)))
         /\ IsList(Reversed(AttachAll(list_empty, items)), Reverse(LeavesOf(items)))
         /\ Len(LeavesOf(items)) = Len(items) /\ LeavesOf(items) \in Seq(Int)
<1>0. 0 \in Nat /\ 0 \in 0..Depth /\ 0 <= Depth
  BY DepthType
<1>1. items \in Seq(Items)
  BY <1>0, AtTypes
<1>2. LeavesOf(items) \in Seq(Int) /\ Len(LeavesOf(items)) = Len(items)
  BY <1>1, LeavesOfType, LeavesOfReversed
<1>3. LeavesOf(Reverse(items)) \in Seq(Int) /\ Len(LeavesOf(Reverse(items))) = Len(items)
  <2>1. LeavesOf(Reverse(items)) = Reverse(LeavesOf(items))
    BY LeavesOfReversed
  <2> DEFINE s == LeavesOf(items)
  <2> HIDE DEF s
  <2>2. Reverse(s) \in Seq(Int) /\ Len(Reverse(s)) = Len(s)
    BY <1>2, ReverseType DEF s
  <2> QED BY <1>2, <2>1, <2>2 DEF s
<1> DEFINE p == LeavesOf(items)
           q == LeavesOf(Reverse(items))
           e == Content[list_empty]
<1>4. Holds(list_empty, e, 0) /\ e = << >> /\ e \in Seq(Int)
  BY <1>0, FitsEmpty, EmptySeq DEF Holds
<1>5. e \o p = p /\ q \o e = q
  BY <1>2, <1>3, <1>4, ConcatEmptySeq
<1>6. Room(0, e \o p) /\ Room(0, q \o e)
  <2> DEFINE n == Len(items)
  <2>1. n \in Nat /\ n <= Depth
    BY LenProperties
  <2> HIDE DEF n
  <2>2. 0 + n <= Depth
    BY <2>1, DepthType
  <2>3. 0 + Len(p) <= Depth /\ 0 + Len(q) <= Depth
    BY <1>2, <1>3, <2>2 DEF n
  <2> QED BY <1>2, <1>3, <1>5, <2>3 DEF Room
<1> HIDE DEF e
<1>7. Holds(AttachAll(list_empty, items), e \o p, 0)
  BY <1>0, <1>4, <1>6, AttachAllRight
<1>8. Holds(PushAll(list_empty, items), q \o e, 0)
  BY <1>0, <1>4, <1>6, PushAllRight
<1> QED BY <1>2, <1>5, <1>7, <1>8, HoldsIsList

\* The lists the program joins to its own.
LEMMA OthersOk ==
  ASSUME ListInv, NEW n \in Lengths, Length + n <= MaxLength, NEW o \in Others(n)
  PROVE  ListOk(o) /\ Len(InOrder(o)) = n /\ InOrder(o) # << >>
<1> DEFINE next == [k \in 1..n |-> Leaf(After(k))]
<1>1. n \in Nat /\ n >= 1 /\ n <= Depth
  <2>1. n \in Nat /\ n # 0
    BY ListAssumption
  <2>2. Length \in Nat
    BY LengthIs
  <2>3. \A a, b \in Nat : a + b <= MaxLength /\ b # 0 => b >= 1 /\ b <= Depth
    BY MaxLengthAssumption DEF Depth
  <2> QED BY <2>1, <2>2, <2>3
<1>2. next \in Seq(ItemsAt[0]) /\ Len(next) = n
  <2>1. ASSUME NEW k \in 1..n PROVE Leaf(After(k)) \in ItemsAt[0]
    <3>1. k \in Nat
      BY <1>1
    <3>2. After(k) \in 0..(Period - 1)
      BY <3>1, ValuesPushed
    <3>3. After(k) \in Int
      BY <3>2, ListAssumption
    <3> QED BY <3>3, LeafItems
  <2>2. next \in [1..n -> ItemsAt[0]]
    BY <2>1
  <2> QED BY <1>1, <2>2, SeqDef, LenProperties
<1>3. o \in {AttachAll(list_empty, next), PushAll(list_empty, Reverse(next)),
             Reversed(AttachAll(list_empty, Reverse(next)))}
  BY DEF Others
<1> HIDE DEF next
<1>4. Reverse(next) \in Seq(ItemsAt[0]) /\ Len(Reverse(next)) = n /\ Reverse(Reverse(next)) = next
  BY <1>2, ReverseType, ReverseTwice
<1>5. /\ IsList(AttachAll(list_empty, next), LeavesOf(next))
      /\ Len(LeavesOf(next)) = n /\ LeavesOf(next) \in Seq(Int)
  BY <1>1, <1>2, ItemsAreLeaves
<1>6. /\ IsList(PushAll(list_empty, Reverse(next)), LeavesOf(next))
      /\ IsList(Reversed(AttachAll(list_empty, Reverse(next))), Reverse(LeavesOf(Reverse(next))))
  BY <1>1, <1>4, ItemsAreLeaves
<1>7. Reverse(LeavesOf(Reverse(next))) = LeavesOf(next)
  <2> DEFINE s == LeavesOf(next)
  <2>1. LeavesOf(Reverse(next)) = Reverse(s)
    BY <1>2, LeavesOfReversed
  <2>2. s \in Seq(Int)
    BY <1>5
  <2> HIDE DEF s
  <2>3. Reverse(Reverse(s)) = s
    BY <2>2, ReverseTwice
  <2> QED BY <2>1, <2>3 DEF s
<1>8. IsList(o, LeavesOf(next))
  BY <1>3, <1>5, <1>6, <1>7
<1>9. LeavesOf(next) # << >>
  <2>1. Len(LeavesOf(next)) # 0
    BY <1>1, <1>5
  <2> QED BY <2>1, EmptySeq
<1> QED BY <1>5, <1>8, <1>9 DEF IsList

-----------------------------------------------------------------------------
(* The calls of the program.                                                *)
LEMMA Stays ==
  ASSUME NEW s, IsList(list', s), Len(s) <= MaxLength
  PROVE  ListInv'
<1>1. ListOk(list') /\ InOrder(list') = s
  BY DEF IsList
<1>2. Size(Under(list')) = Len(InOrder(list'))
  BY <1>1, OkForms
<1> QED BY <1>1, <1>2 DEF ListInv, Length

LEMMA PushStep ==
  ASSUME ListInv, List_push
  PROVE  \E v \in 0..(Period - 1) : IsList(list', << v >> \o InOrder(list)) /\ joined' = << >> /\ ListInv'
<1> DEFINE s == InOrder(list)
<1>1. ListOk(list) /\ s \in Seq(Int) /\ Length = Len(s) /\ Len(s) \in Nat /\ Len(s) < Depth /\ Len(s) < MaxLength
  BY LengthIs DEF ListInv, List_push
<1>2. Before \in 0..(Period - 1) /\ Before \in Int
  <2>1. Before \in 0..(Period - 1)
    BY ValuesPushed
  <2> QED BY <2>1, ListAssumption
<1>3. list' = Either(Push[list][Leaf(Before)], Attach[Under(list)][Leaf(Before)]) /\ joined' = << >>
  BY DEF List_push, Keep
<1>4. IsList(list', << Before >> \o s)
  <2>1. CASE IsReversed(list)
    <3>1. list' = Reversed(Attach[Under(list)][Leaf(Before)])
      BY <1>3, <2>1 DEF Either
    <3> QED BY <1>1, <1>2, <2>1, <3>1, PushIsList
  <2>2. CASE ~ IsReversed(list)
    <3>1. list' = Push[list][Leaf(Before)]
      BY <1>3, <2>2 DEF Either
    <3> QED BY <1>1, <1>2, <2>2, <3>1, PushIsList
  <2> QED BY <2>1, <2>2
<1>5. Len(<< Before >> \o s) <= MaxLength
  <2>1. << Before >> \in Seq(Int) /\ Len(<< Before >>) = 1
    BY <1>2, OneLeaf
  <2>2. Len(<< Before >> \o s) = 1 + Len(s)
    BY <1>1, <2>1, LeavesJoin
  <2> DEFINE n == Len(s)
  <2>3. n \in Nat /\ n < MaxLength
    BY <1>1
  <2> HIDE DEF n
  <2>4. 1 + n <= MaxLength
    BY <2>3, MaxLengthAssumption
  <2> QED BY <2>2, <2>4 DEF n
<1>6. ListInv'
  BY <1>4, <1>5, Stays
<1> QED BY <1>2, <1>3, <1>4, <1>6

LEMMA AppendStep ==
  ASSUME ListInv, List_append
  PROVE  \E v \in 0..(Period - 1) : IsList(list', Append(InOrder(list), v)) /\ joined' = << >> /\ ListInv'
<1> DEFINE s == InOrder(list)
           x == After(1)
<1>1. ListOk(list) /\ s \in Seq(Int) /\ Length = Len(s) /\ Len(s) \in Nat /\ Len(s) < Depth /\ Len(s) < MaxLength
  BY LengthIs DEF ListInv, List_append
<1>2. x \in 0..(Period - 1) /\ x \in Int
  <2>1. x \in 0..(Period - 1)
    BY ValuesPushed
  <2> QED BY <2>1, ListAssumption
<1>3. list' = Either(Attach[list][Leaf(x)], Push[Under(list)][Leaf(x)]) /\ joined' = << >>
  BY DEF List_append, Keep
<1> HIDE DEF x
<1>4. IsList(list', Append(s, x))
  <2>1. CASE IsReversed(list)
    <3>1. list' = Reversed(Push[Under(list)][Leaf(x)])
      BY <1>3, <2>1 DEF Either
    <3> QED BY <1>1, <1>2, <2>1, <3>1, PushIsList
  <2>2. CASE ~ IsReversed(list)
    <3>1. list' = Attach[list][Leaf(x)]
      BY <1>3, <2>2 DEF Either
    <3> QED BY <1>1, <1>2, <2>2, <3>1, PushIsList
  <2> QED BY <2>1, <2>2
<1>5. Len(Append(s, x)) <= MaxLength
  <2>1. Len(Append(s, x)) = Len(s) + 1
    BY <1>1, <1>2, AppendProperties
  <2> DEFINE n == Len(s)
  <2>2. n \in Nat /\ n < MaxLength
    BY <1>1
  <2> HIDE DEF n
  <2>3. n + 1 <= MaxLength
    BY <2>2, MaxLengthAssumption
  <2> QED BY <2>1, <2>3 DEF n
<1>6. ListInv'
  BY <1>4, <1>5, Stays
<1> QED BY <1>2, <1>3, <1>4, <1>6

LEMMA PopStep ==
  ASSUME ListInv, List_pop
  PROVE  InOrder(list) # << >> /\ IsList(list', Tail(InOrder(list))) /\ joined' = << >> /\ ListInv'
<1> DEFINE s == InOrder(list)
<1>1. ListOk(list) /\ s \in Seq(Int) /\ Length = Len(s) /\ Len(s) \in Nat /\ Len(s) <= MaxLength /\ list # list_empty
  BY LengthIs DEF ListInv, List_pop
<1>2. list' = Either(Pop[list], Chop[Under(list)]) /\ joined' = << >>
  BY DEF List_pop, Keep
<1>3. IsList(list', Tail(s))
  <2>1. CASE IsReversed(list)
    <3>1. list' = Reversed(Chop[Under(list)])
      BY <1>2, <2>1 DEF Either
    <3> QED BY <1>1, <2>1, <3>1, PopIsList
  <2>2. CASE ~ IsReversed(list)
    <3>1. list' = Pop[list]
      BY <1>2, <2>2 DEF Either
    <3> QED BY <1>1, <2>2, <3>1, PopIsList
  <2> QED BY <2>1, <2>2
<1>4. s # << >>
  BY <1>1, EmptyIs
<1>5. Len(Tail(s)) <= MaxLength
  <2>1. Len(Tail(s)) = Len(s) - 1
    BY <1>1, <1>4, HeadOff
  <2> DEFINE n == Len(s)
  <2>2. n \in Nat /\ n <= MaxLength
    BY <1>1
  <2> HIDE DEF n
  <2>3. n - 1 <= MaxLength
    BY <2>2, MaxLengthAssumption
  <2> QED BY <2>1, <2>3 DEF n
<1>6. ListInv'
  BY <1>3, <1>5, Stays
<1> QED BY <1>2, <1>3, <1>4, <1>6

LEMMA ChopStep ==
  ASSUME ListInv, List_chop
  PROVE  InOrder(list) # << >> /\ IsList(list', Front(InOrder(list))) /\ joined' = << >> /\ ListInv'
<1> DEFINE s == InOrder(list)
<1>1. ListOk(list) /\ s \in Seq(Int) /\ Length = Len(s) /\ Len(s) \in Nat /\ Len(s) <= MaxLength /\ list # list_empty
  BY LengthIs DEF ListInv, List_chop
<1>2. list' = Either(Chop[list], Pop[Under(list)]) /\ joined' = << >>
  BY DEF List_chop, Keep
<1>3. IsList(list', Front(s))
  <2>1. CASE IsReversed(list)
    <3>1. list' = Reversed(Pop[Under(list)])
      BY <1>2, <2>1 DEF Either
    <3> QED BY <1>1, <2>1, <3>1, PopIsList
  <2>2. CASE ~ IsReversed(list)
    <3>1. list' = Chop[list]
      BY <1>2, <2>2 DEF Either
    <3> QED BY <1>1, <2>2, <3>1, PopIsList
  <2> QED BY <2>1, <2>2
<1>4. s # << >>
  BY <1>1, EmptyIs
<1>5. Len(Front(s)) <= MaxLength
  <2>1. Len(Front(s)) = Len(s) - 1
    BY <1>1, <1>4, TailOff
  <2> DEFINE n == Len(s)
  <2>2. n \in Nat /\ n <= MaxLength
    BY <1>1
  <2> HIDE DEF n
  <2>3. n - 1 <= MaxLength
    BY <2>2, MaxLengthAssumption
  <2> QED BY <2>1, <2>3 DEF n
<1>6. ListInv'
  BY <1>3, <1>5, Stays
<1> QED BY <1>2, <1>3, <1>4, <1>6

LEMMA ReverseStep ==
  ASSUME ListInv, List_reverse
  PROVE  /\ IsList(list', Reverse(InOrder(list))) /\ joined' = << >> /\ ListInv'
         /\ Under(list') = Under(list)
<1>1. ListOk(list) /\ InOrder(list) \in Seq(Int) /\ Length = Len(InOrder(list)) /\ Length <= MaxLength
  BY LengthIs DEF ListInv
<1>2. list' = Reversed(list) /\ joined' = << >>
  BY DEF List_reverse, Keep
<1>3. IsList(list', Reverse(InOrder(list))) /\ Under(list') = Under(list)
  BY <1>1, <1>2, ReversedOk DEF IsList
<1>4. Len(Reverse(InOrder(list))) <= MaxLength
  BY <1>1, ReverseType
<1> QED BY <1>2, <1>3, <1>4, Stays

\* No call runs into a full chunk.
LEMMA JoinStep ==
  ASSUME "full chunk" \notin ListReaches, ListInv,
         NEW n \in Lengths, Length + n <= MaxLength, NEW o \in Others(n), List_concatenate(o)
  PROVE  /\ IsList(list', InOrder(list) \o InOrder(o)) /\ joined' = InOrder(o) /\ joined' # << >>
         /\ ListInv'
<1> DEFINE s == InOrder(list)
           t == InOrder(o)
<1>1. ListOk(list) /\ s \in Seq(Int) /\ Length = Len(s) /\ Len(s) \in Nat
  BY LengthIs DEF ListInv
<1>2. ListOk(o) /\ Len(t) = n /\ t # << >> /\ t \in Seq(Int) /\ n \in Nat
  <2>1. ListOk(o) /\ Len(t) = n /\ t # << >>
    BY OthersOk
  <2> QED BY <2>1, OkForms, ListAssumption
<1>3. JoinableLists(list, o) /\ list' = JoinedLists(list, o, 6) /\ joined' = t
  BY DEF List_concatenate
<1>4. Len(s) + Len(t) <= Depth /\ Len(s) + Len(t) <= MaxLength
  <2> DEFINE a == Len(s)
  <2>1. a \in Nat /\ a + n <= MaxLength
    BY <1>1
  <2> HIDE DEF a
  <2>2. \A m \in Nat : m <= MaxLength => m <= Depth
    BY ONLY MaxLengthAssumption DEF Depth
  <2>3. a + n \in Nat
    <3>1. n \in Nat /\ a \in Nat
      BY <1>2, <2>1
    <3> QED BY ONLY <3>1
  <2>4. a + n <= Depth
    BY ONLY <2>1, <2>2, <2>3
  <2> QED BY <1>2, <2>1, <2>4 DEF a
<1>5. 6 \in AnyAction
  BY ONLY DEF AnyAction
<1>6. IsList(list', s \o t)
  BY <1>1, <1>2, <1>3, <1>4, <1>5, JoinIsList
<1>7. Len(s \o t) <= MaxLength
  BY <1>1, <1>2, <1>4, LeavesJoin
<1>8. ListInv'
  BY <1>6, <1>7, Stays
<1> QED BY <1>2, <1>3, <1>6, <1>8

\* A call keeps the invariant and is a step of the plain sequence.
LEMMA StepIs ==
  ASSUME "full chunk" \notin ListReaches, ListInv, ListNext
  PROVE  ListInv' /\ Straight!Next
<1>1. CASE List_push
  <2>1. PICK v \in 0..(Period - 1) : IsList(list', << v >> \o InOrder(list)) /\ joined' = << >> /\ ListInv'
    BY <1>1, PushStep
  <2>2. Straight!Push(v)
    BY <2>1 DEF Straight!Push, IsList
  <2> QED BY <2>1, <2>2 DEF Straight!Next
<1>2. CASE List_append
  <2>1. PICK v \in 0..(Period - 1) : IsList(list', Append(InOrder(list), v)) /\ joined' = << >> /\ ListInv'
    BY <1>2, AppendStep
  <2>2. Straight!Attach(v)
    BY <2>1 DEF Straight!Attach, IsList
  <2> QED BY <2>1, <2>2 DEF Straight!Next
<1>3. CASE List_pop
  <2>1. InOrder(list) # << >> /\ IsList(list', Tail(InOrder(list))) /\ joined' = << >> /\ ListInv'
    BY <1>3, PopStep
  <2>2. Straight!Pop
    BY <2>1 DEF Straight!Pop, IsList
  <2> QED BY <2>1, <2>2 DEF Straight!Next
<1>4. CASE List_chop
  <2>1. InOrder(list) # << >> /\ IsList(list', Front(InOrder(list))) /\ joined' = << >> /\ ListInv'
    BY <1>4, ChopStep
  <2>2. Straight!Chop
    BY <2>1 DEF Straight!Chop, Straight!Front, Front, IsList
  <2> QED BY <2>1, <2>2 DEF Straight!Next
<1>5. CASE List_reverse
  <2>1. IsList(list', Reverse(InOrder(list))) /\ joined' = << >> /\ ListInv'
    BY <1>5, ReverseStep
  <2>2. Straight!Turn
    BY <2>1 DEF Straight!Turn, Straight!Reverse, Reverse, IsList
  <2> QED BY <2>1, <2>2 DEF Straight!Next
<1>6. CASE \E n \in Lengths : Length + n <= MaxLength /\ \E o \in Others(n) : List_concatenate(o)
  <2>1. PICK n \in Lengths : Length + n <= MaxLength /\ \E o \in Others(n) : List_concatenate(o)
    BY <1>6
  <2>2. PICK o \in Others(n) : List_concatenate(o)
    BY <2>1
  <2>3. /\ IsList(list', InOrder(list) \o InOrder(o)) /\ joined' = InOrder(o) /\ joined' # << >>
        /\ ListInv'
    BY <2>1, <2>2, JoinStep
  <2> QED BY <2>3 DEF Straight!Next, Straight!Join, IsList
<1> QED BY <1>1, <1>2, <1>3, <1>4, <1>5, <1>6 DEF ListNext

LEMMA Starts == ListInit => ListInv /\ Straight!Init
<1> SUFFICES ASSUME ListInit PROVE ListInv /\ Straight!Init
  OBVIOUS
<1>1. list = list_empty /\ joined = << >> /\ 0 \in 0..Depth
  BY DepthType DEF ListInit
<1>2. list_empty \in FitsAt(0) /\ Content[list_empty] = << >>
  BY <1>1, FitsEmpty
<1>3. ListOk(list) /\ InOrder(list) = << >>
  BY <1>1, <1>2, StraightOk
<1>4. Length = 0
  <2>1. Size(Under(list)) = Len(InOrder(list))
    BY <1>3, OkForms
  <2> QED BY <1>3, <2>1, EmptySeq DEF Length
<1> QED BY <1>1, <1>3, <1>4, MaxLengthAssumption DEF ListInv, Straight!Init

\* The list stays one the program may hold.
THEOREM ListInvariant ==
  ASSUME "full chunk" \notin ListReaches
  PROVE  ListSpec => []ListInv
<1>1. ListInv /\ [ListNext]_listVars => ListInv'
  <2> SUFFICES ASSUME ListInv, [ListNext]_listVars PROVE ListInv'
    OBVIOUS
  <2>1. CASE ListNext
    BY <2>1, StepIs
  <2>2. CASE UNCHANGED listVars
    BY <2>2 DEF listVars, ListInv, Length
  <2> QED BY <2>1, <2>2
<1> QED BY Starts, <1>1, PTL DEF ListSpec

(* The chunks and cold storages keep their shape (list-chunks.c:21-31) when *)
(* no call meets a full chunk, however long the list is: leaves of one      *)
(* depth, known numbers of leaves, one to three items to a chunk inside and *)
(* one to four at the ends.                                                 *)
THEOREM ListWellShaped ==
  ASSUME "full chunk" \notin ListReaches
  PROVE  ListSpec => []WellShaped
<1>1. ListInv => WellShaped
  <2> SUFFICES ASSUME ListInv PROVE WellShaped
    OBVIOUS
  <2>1. Under(list) \in FitsAt(0) /\ (IsReversed(list) => list.list.kind = "list")
    BY DEF ListInv, ListOk
  <2>2. 0 \in DepthsOf[Under(list)]
    BY <2>1, FitsIs
  <2> QED BY <2>1, <2>2 DEF WellShaped
<1> QED BY <1>1, ListInvariant, PTL

(* The refinement: the leaves in the list go through the calls of a program *)
(* as a plain sequence does, when no call meets a full chunk.               *)
THEOREM ListImplementsPlainList ==
  ASSUME "full chunk" \notin ListReaches
  PROVE  ListSpec => ImplementsPlainList
<1>1. ListInv /\ [ListNext]_listVars => [Straight!Next]_<<InOrder(list), joined>>
  <2> SUFFICES ASSUME ListInv, [ListNext]_listVars PROVE [Straight!Next]_<<InOrder(list), joined>>
    OBVIOUS
  <2>1. CASE ListNext
    BY <2>1, StepIs
  <2>2. CASE UNCHANGED listVars
    BY <2>2 DEF listVars
  <2> QED BY <2>1, <2>2
<1> QED BY Starts, ListInvariant, <1>1, PTL DEF ListSpec, ImplementsPlainList, Straight!Spec

-----------------------------------------------------------------------------
(* What a call that went to cold storage leaves at the end it worked on.    *)
EasyEnd(was, is, grown) ==
    was # is => chunk_can_grow(is) /\ (grown => chunk_can_shrink(is))
Eases(l, m) ==
    l.kind = "list" /\ m.kind = "list" /\ l.cold # m.cold =>
        EasyEnd(l.head, m.head, m.size > l.size) /\ EasyEnd(l.tail, m.tail, m.size > l.size)

LEMMA AllocParts ==
  \A h, c, t : alloc_list(h, c, t).head = h /\ alloc_list(h, c, t).cold = c /\ alloc_list(h, c, t).tail = t
BY DEF alloc_list

LEMMA PushEases ==
  ASSUME NEW l, l \in FitsAt(0), NEW x \in Int
  PROVE  Eases(l, Push[l][Leaf(x)]) /\ Eases(l, Attach[l][Leaf(x)])
<1> DEFINE v == Leaf(x)
<1>1. l \in Lists /\ v \in ItemsAt[0] /\ v \in Items /\ 0 \in Nat
  BY FitsType, LeafItems
<1> HIDE DEF v
<1> SUFFICES ASSUME l.kind = "list"
             PROVE  Eases(l, Push[l][v]) /\ Eases(l, Attach[l][v])
  BY DEF Eases, v
<1>2. l.head \in EndsAt(0) /\ l.tail \in EndsAt(0) /\ 0 < Depth
  BY <1>1, ListParts
<1>3. Eases(l, Push[l][v])
  <2>1. CASE chunk_can_grow(l.head)
    <3>1. Push[l][v] = alloc_list(chunk_push(l.head, v), l.cold, l.tail)
      BY <1>1, <2>1, PushForms
    <3> QED BY <3>1, AllocParts DEF Eases
  <2>2. CASE ~ chunk_can_grow(l.head)
    <3> DEFINE kept == ChunkOf(<< chunk_head(l.head) >>)
               new == chunk_push(kept, v)
    <3>1. Push[l][v] = alloc_list(new, Push[l.cold][chunk_pop(l.head)], l.tail)
      BY <1>1, <2>2, PushForms
    <3>2. chunk_head(l.head) \in ItemsAt[0]
      BY <1>2, ChunkEnds
    <3>3. kept \in EndsAt(0) /\ chunk_item_count(kept) = 1
      BY <1>2, <3>2, OneItemChunk
    <3> HIDE DEF kept
    <3>4. chunk_can_grow(kept)
      BY <3>3 DEF chunk_can_grow
    <3>5. chunk_item_count(new) = chunk_item_count(kept) + 1
      BY <1>1, <1>2, <3>3, <3>4, ChunkGrows
    <3> HIDE DEF new
    <3>6. chunk_can_grow(new) /\ chunk_can_shrink(new)
      BY <3>3, <3>5 DEF chunk_can_grow, chunk_can_shrink
    <3> QED BY <3>1, <3>6, AllocParts DEF Eases, EasyEnd
  <2> QED BY <2>1, <2>2
<1>4. Eases(l, Attach[l][v])
  <2>1. CASE chunk_can_grow(l.tail)
    <3>1. Attach[l][v] = alloc_list(l.head, l.cold, chunk_append(l.tail, v))
      BY <1>1, <2>1, AttachForms
    <3> QED BY <3>1, AllocParts DEF Eases
  <2>2. CASE ~ chunk_can_grow(l.tail)
    <3> DEFINE new == ChunkOf(<< chunk_tail(l.tail), v >>)
    <3>1. Attach[l][v] = alloc_list(l.head, Attach[l.cold][chunk_chop(l.tail)], new)
      BY <1>1, <2>2, AttachForms
    <3>2. chunk_tail(l.tail) \in ItemsAt[0]
      BY <1>2, ChunkEnds
    <3>3. chunk_item_count(new) = 2
      BY <1>1, <1>2, <3>2, TwoItemChunk
    <3> HIDE DEF new
    <3>4. chunk_can_grow(new) /\ chunk_can_shrink(new)
      BY <3>3 DEF chunk_can_grow, chunk_can_shrink
    <3> QED BY <3>1, <3>4, AllocParts DEF Eases, EasyEnd
  <2> QED BY <2>1, <2>2
<1> QED BY <1>3, <1>4

LEMMA Shortens ==
  ASSUME NEW l, l \in FitsAt(0), NEW m, m \in FitsAt(0), NEW s, s \in Seq(Int),
         Content[l] = s \o Content[m] \/ Content[l] = Content[m] \o s,
         l.kind = "list", m.kind = "list"
  PROVE  ~ (m.size > l.size)
<1>1. 0 \in Nat
  OBVIOUS
<1>2. l.size = Len(Content[l]) /\ m.size = Len(Content[m])
  BY <1>1, ListParts
<1>3. Content[l] \in Seq(Int) /\ Content[m] \in Seq(Int)
  BY <1>1, FitsType
<1>4. Len(Content[l]) = Len(s) + Len(Content[m]) /\ Len(s) \in Nat /\ Len(Content[m]) \in Nat
  <2>1. Len(Content[l]) = Len(s) + Len(Content[m]) \/ Len(Content[l]) = Len(Content[m]) + Len(s)
    BY <1>3, LeavesJoin, Zenon
  <2>2. Len(s) \in Nat /\ Len(Content[m]) \in Nat
    BY <1>3, LeavesJoin
  <2> DEFINE a == Len(Content[l])
             b == Len(s)
             c == Len(Content[m])
  <2>3. (a = b + c \/ a = c + b) /\ b \in Nat /\ c \in Nat
    BY <2>1, <2>2
  <2> HIDE DEF a, b, c
  <2>4. a = b + c
    BY ONLY <2>3
  <2> QED BY <2>2, <2>4 DEF a, b, c
<1> DEFINE a == Len(Content[l])
           b == Len(s)
           c == Len(Content[m])
<1>5. a = b + c /\ b \in Nat /\ c \in Nat /\ l.size = a /\ m.size = c
  BY <1>2, <1>4
<1> HIDE DEF a, b, c
<1>6. ~ (c > a)
  BY ONLY <1>5
<1> QED BY <1>5, <1>6

LEMMA PopEases ==
  ASSUME NEW l, l \in FitsAt(0)
  PROVE  Eases(l, Pop[l]) /\ Eases(l, Chop[l])
<1>1. l \in Lists /\ 0 \in Nat /\ 0 + 1 = 1
  BY FitsType
<1> SUFFICES ASSUME l.kind = "list"
             PROVE  Eases(l, Pop[l]) /\ Eases(l, Chop[l])
  BY DEF Eases
<1>2. l.head \in EndsAt(0) /\ l.tail \in EndsAt(0) /\ l.cold \in FitsAt(0 + 1) /\ 0 < Depth /\ l # list_empty
  <2>1. l.head \in EndsAt(0) /\ l.tail \in EndsAt(0) /\ l.cold \in FitsAt(0 + 1) /\ 0 < Depth
    BY <1>1, ListParts
  <2>2. l # list_empty
    BY DEF list_empty
  <2> QED BY <2>1, <2>2
<1>3. Took(HeadOf(l), Pop[l], Content[l], 0) /\ TookLast(TailOf(l), Chop[l], Content[l], 0)
  BY <1>1, <1>2, PopRight, ChopRight DEF PopsAt, ChopsAt
<1>4. Leaves[HeadOf(l)] \in Seq(Int) /\ Leaves[TailOf(l)] \in Seq(Int)
  <2>1. 0 <= Depth /\ HeadOf(l) \in ItemsAt[0] /\ TailOf(l) \in ItemsAt[0]
    BY <1>3, DepthType DEF Took, TookLast
  <2> QED BY <1>1, <2>1, AtLeaves
<1>5. Eases(l, Pop[l])
  <2> SUFFICES ASSUME Pop[l].kind = "list", l.cold # Pop[l].cold
               PROVE  EasyEnd(l.head, Pop[l].head, Pop[l].size > l.size)
                        /\ EasyEnd(l.tail, Pop[l].tail, Pop[l].size > l.size)
    BY DEF Eases
  <2>1. ~ (Pop[l].size > l.size)
    BY <1>3, <1>4, Shortens DEF Took
  <2>2. ~ chunk_can_shrink(l.head) /\ l.cold # list_empty
    <3>1. CASE chunk_can_shrink(l.head)
      <4>1. Pop[l] = alloc_list(chunk_pop(l.head), l.cold, l.tail)
        BY <1>1, <3>1, PopForms
      <4> QED BY <4>1, AllocParts
    <3>2. CASE ~ chunk_can_shrink(l.head) /\ l.cold = list_empty /\ chunk_can_shrink(l.tail)
      <4>1. Pop[l] = alloc_list(ChunkOf(<< chunk_head(l.tail) >>), l.cold, chunk_pop(l.tail))
        BY <1>1, <3>2, PopForms
      <4> QED BY <4>1, AllocParts
    <3>3. CASE ~ chunk_can_shrink(l.head) /\ l.cold = list_empty /\ ~ chunk_can_shrink(l.tail)
      <4>1. Pop[l] = Single(chunk_head(l.tail))
        BY <1>1, <3>3, PopForms
      <4> QED BY <4>1 DEF Single
    <3> QED BY <3>1, <3>2, <3>3
  <2>3. Pop[l] = alloc_list(HeadOf(l.cold), Pop[l.cold], l.tail)
    BY <1>1, <2>2, PopForms
  <2>4. Pop[l].head = HeadOf(l.cold) /\ Pop[l].tail = l.tail
    BY <2>3, AllocParts
  <2>5. HeadOf(l.cold) \in ItemsAt[0 + 1]
    <3>1. l.cold \in Lists /\ 0 + 1 \in Nat
      BY <1>1, <1>2, FitsType
    <3> QED BY <1>2, <2>2, <3>1, PopRight DEF PopsAt, Took
  <2>6. chunk_can_grow(HeadOf(l.cold))
    <3>1. chunk_item_count(HeadOf(l.cold)) \in 1..3
      BY <1>1, <1>2, <2>5, StoredIsEnd
    <3> QED BY <3>1 DEF chunk_can_grow
  <2> QED BY <2>1, <2>4, <2>6 DEF EasyEnd
<1>6. Eases(l, Chop[l])
  <2> SUFFICES ASSUME Chop[l].kind = "list", l.cold # Chop[l].cold
               PROVE  EasyEnd(l.head, Chop[l].head, Chop[l].size > l.size)
                        /\ EasyEnd(l.tail, Chop[l].tail, Chop[l].size > l.size)
    BY DEF Eases
  <2>1. ~ (Chop[l].size > l.size)
    BY <1>3, <1>4, Shortens DEF TookLast
  <2>2. ~ chunk_can_shrink(l.tail) /\ l.cold # list_empty
    <3>1. CASE chunk_can_shrink(l.tail)
      <4>1. Chop[l] = alloc_list(l.head, l.cold, chunk_chop(l.tail))
        BY <1>1, <3>1, ChopForms
      <4> QED BY <4>1, AllocParts
    <3>2. CASE ~ chunk_can_shrink(l.tail) /\ l.cold = list_empty /\ chunk_can_shrink(l.head)
      <4>1. Chop[l] = alloc_list(chunk_chop(l.head), l.cold, ChunkOf(<< chunk_tail(l.head) >>))
        BY <1>1, <3>2, ChopForms
      <4> QED BY <4>1, AllocParts
    <3>3. CASE ~ chunk_can_shrink(l.tail) /\ l.cold = list_empty /\ ~ chunk_can_shrink(l.head)
      <4>1. Chop[l] = Single(chunk_tail(l.head))
        BY <1>1, <3>3, ChopForms
      <4> QED BY <4>1 DEF Single
    <3> QED BY <3>1, <3>2, <3>3
  <2>3. Chop[l] = alloc_list(l.head, Chop[l.cold], TailOf(l.cold))
    BY <1>1, <2>2, ChopForms
  <2>4. Chop[l].tail = TailOf(l.cold) /\ Chop[l].head = l.head
    BY <2>3, AllocParts
  <2>5. TailOf(l.cold) \in ItemsAt[0 + 1]
    <3>1. l.cold \in Lists /\ 0 + 1 \in Nat
      BY <1>1, <1>2, FitsType
    <3> QED BY <1>2, <2>2, <3>1, ChopRight DEF ChopsAt, TookLast
  <2>6. chunk_can_grow(TailOf(l.cold))
    <3>1. chunk_item_count(TailOf(l.cold)) \in 1..3
      BY <1>1, <1>2, <2>5, StoredIsEnd
    <3> QED BY <3>1 DEF chunk_can_grow
  <2> QED BY <2>1, <2>4, <2>6 DEF EasyEnd
<1> QED BY <1>5, <1>6

\* Both ways round, whatever the list.
LEMMA UnderEither ==
  ASSUME NEW x, x \in FitsAt(0)
  PROVE  Under(x) = x /\ Under(Reversed(x)) = x
BY StraightOk, BackwardsOk

\* A call that went to cold storage leaves an end that can take and give another item.
LEMMA CallsEase ==
  ASSUME ListInv, ListNext, joined' = << >>
  PROVE  Eases(Under(list), Under(list'))
<1> DEFINE l == Under(list)
<1>1. l \in FitsAt(0) /\ Length = Len(InOrder(list)) /\ (~ IsReversed(list) => l = list) /\ ListOk(list)
         /\ Len(Content[l]) = Length /\ Length <= MaxLength
  BY LengthIs, OkForms DEF ListInv
<1>2. \A x \in Int : Length < MaxLength =>
         Push[l][Leaf(x)] \in FitsAt(0) /\ Attach[l][Leaf(x)] \in FitsAt(0)
  <2> SUFFICES ASSUME NEW x \in Int, Length < MaxLength
               PROVE  Push[l][Leaf(x)] \in FitsAt(0) /\ Attach[l][Leaf(x)] \in FitsAt(0)
    OBVIOUS
  <2>1. Len(Content[l]) < Depth
    BY <1>1, LengthIs
  <2> QED BY <1>1, <2>1, PutLeaf DEF Put
<1>3. l # list_empty => Pop[l] \in FitsAt(0) /\ Chop[l] \in FitsAt(0)
  <2>1. l \in Lists /\ 0 \in Nat
    BY <1>1, FitsType
  <2> QED BY <1>1, <2>1, PopRight, ChopRight DEF PopsAt, ChopsAt, Took, TookLast
<1>4. list # list_empty => l # list_empty
  BY <1>1, EmptyIs
<1>5. Before \in Int /\ After(1) \in Int
  <2>1. Before \in 0..(Period - 1) /\ After(1) \in 0..(Period - 1)
    BY ValuesPushed
  <2> QED BY <2>1, ListAssumption
<1>6. CASE List_push
  <2>1. Length < MaxLength /\ list' = Either(Push[list][Leaf(Before)], Attach[l][Leaf(Before)])
    BY <1>6 DEF List_push, Keep
  <2>2. Under(list') \in {Push[l][Leaf(Before)], Attach[l][Leaf(Before)]}
    BY <1>1, <1>2, <1>5, <2>1, UnderEither DEF Either
  <2> QED BY <1>1, <1>5, <2>2, PushEases
<1>7. CASE List_append
  <2>1. Length < MaxLength /\ list' = Either(Attach[list][Leaf(After(1))], Push[l][Leaf(After(1))])
    BY <1>7 DEF List_append, Keep
  <2>2. Under(list') \in {Push[l][Leaf(After(1))], Attach[l][Leaf(After(1))]}
    BY <1>1, <1>2, <1>5, <2>1, UnderEither DEF Either
  <2> QED BY <1>1, <1>5, <2>2, PushEases
<1>8. CASE List_pop
  <2>1. list # list_empty /\ list' = Either(Pop[list], Chop[l])
    BY <1>8 DEF List_pop, Keep
  <2>2. Under(list') \in {Pop[l], Chop[l]}
    BY <1>1, <1>3, <1>4, <2>1, UnderEither DEF Either
  <2> QED BY <1>1, <2>2, PopEases
<1>9. CASE List_chop
  <2>1. list # list_empty /\ list' = Either(Chop[list], Pop[l])
    BY <1>9 DEF List_chop, Keep
  <2>2. Under(list') \in {Pop[l], Chop[l]}
    BY <1>1, <1>3, <1>4, <2>1, UnderEither DEF Either
  <2> QED BY <1>1, <2>2, PopEases
<1>10. CASE List_reverse
  <2>1. Under(list') = l
    BY <1>10, ReverseStep
  <2> QED BY <2>1 DEF Eases
<1>11. CASE \E n \in Lengths : Length + n <= MaxLength /\ \E o \in Others(n) : List_concatenate(o)
  <2>1. PICK n \in Lengths : Length + n <= MaxLength /\ \E o \in Others(n) : List_concatenate(o)
    BY <1>11
  <2>2. PICK o \in Others(n) : List_concatenate(o)
    BY <2>1
  <2>3. joined' = InOrder(o) /\ InOrder(o) # << >>
    BY <2>1, <2>2, OthersOk DEF List_concatenate
  <2> QED BY <2>3
<1> QED BY <1>6, <1>7, <1>8, <1>9, <1>10, <1>11 DEF ListNext

LEMMA EasesIs ==
  ASSUME joined' = << >> => Eases(Under(list), Under(list'))
  PROVE  CheapAfterExpensive
BY DEF CheapAfterExpensive, Eases, EasyEnd

(* After a call that went to cold storage the end it worked on takes        *)
(* another item, and gives one back, without going there again              *)
(* (lists.c:112-117), however long the list is.                             *)
THEOREM ListExpensiveThenCheap ==
  ASSUME "full chunk" \notin ListReaches
  PROVE  ListSpec => ExpensiveThenCheap
<1>1. ListInv /\ [ListNext]_listVars => CheapAfterExpensive \/ UNCHANGED listVars
  <2> SUFFICES ASSUME ListInv, ListNext PROVE CheapAfterExpensive
    OBVIOUS
  <2> QED BY CallsEase, EasesIs
<1>2. ListInv /\ [ListNext]_listVars => [CheapAfterExpensive]_listVars
  BY <1>1
<1> QED BY ListInvariant, <1>2, PTL DEF ListSpec, ExpensiveThenCheap

(* What concatenate returns is the two lists one after the other            *)
(* (lists.c:37), when no call meets a full chunk.                           *)
THEOREM ListConcatenateJoins ==
  ASSUME "full chunk" \notin ListReaches
  PROVE  ListSpec => ConcatenateJoins
<1>1. ListInv /\ [ListNext]_listVars =>
        [joined' # << >> => InOrder(list') = InOrder(list) \o joined']_listVars
  <2> SUFFICES ASSUME ListInv, ListNext, joined' # << >>
               PROVE  InOrder(list') = InOrder(list) \o joined'
    OBVIOUS
  <2>1. Straight!Next
    BY StepIs
  <2> QED BY <2>1 DEF Straight!Next, Straight!Push, Straight!Attach, Straight!Pop, Straight!Chop,
                      Straight!Turn, Straight!Join
<1> QED BY ListInvariant, <1>1, PTL DEF ListSpec, ConcatenateJoins

-----------------------------------------------------------------------------
(* Plain sequences, cut in two.                                             *)
LEMMA CutIs ==
  ASSUME NEW a, a \in Seq(Int), NEW b, b \in Seq(Int)
  PROVE  /\ SubSeq(a \o b, 1, Len(a)) = a /\ SubSeq(a \o b, Len(a) + 1, Len(a \o b)) = b
<1> DEFINE s == a \o b
           n == Len(a)
           m == Len(b)
           p == SubSeq(s, 1, n)
           q == SubSeq(s, n + 1, Len(s))
<1>1. s \in Seq(Int) /\ Len(s) = n + m /\ n \in Nat /\ m \in Nat
  BY LeavesJoin
<1>2. \A i \in 1..n : s[i] = a[i]
  OBVIOUS
<1>3. \A i \in 1..m : s[n + i] = b[i]
  OBVIOUS
<1> HIDE DEF s
<1>4. p = a
  <2>1. 1 \in 1..(Len(s) + 1) /\ n \in 0..Len(s) /\ n >= 0
    BY <1>1
  <2>2. p \in Seq(Int) /\ Len(p) = n /\ \A i \in 1..n : p[i] = s[i]
    BY <1>1
  <2> QED BY <1>1, <1>2, <2>2, SeqEqual
<1>5. q = b
  <2>1. q \in Seq(Int) /\ Len(q) = m /\ \A i \in 1..m : q[i] = s[n + i]
    BY <1>1
  <2> QED BY <1>1, <1>3, <2>1, SeqEqual
<1> QED BY <1>4, <1>5 DEF s

Picks(s, a, b, n, m) ==
    /\ \A i \in 1..n : s[i] = a[i]
    /\ \A i \in 1..m : s[n + i] = b[i]

LEMMA PickEither ==
  ASSUME NEW a, a \in Seq(Int), NEW b, b \in Seq(Int)
  PROVE  Picks(a \o b, a, b, Len(a), Len(b))
BY DEF Picks

LEMMA InsertIs ==
  ASSUME NEW a, a \in Seq(Int), NEW b, b \in Seq(Int), NEW e \in Int
  PROVE  Straight!InsertAt(a \o b, Len(a) + 1, e) = a \o (<< e >> \o b)
<1> DEFINE s == a \o b
           n == Len(a)
           q == << e >>
<1>1. SubSeq(s, 1, n) = a /\ SubSeq(s, n + 1, Len(s)) = b
  BY CutIs
<1>2. n \in Nat /\ (n + 1) - 1 = n
  BY LeavesJoin
<1>3. q \in Seq(Int)
  BY OneLeaf
<1> HIDE DEF s, n
<1>4. Straight!InsertAt(s, n + 1, e) = (a \o q) \o b
  BY <1>1, <1>2 DEF Straight!InsertAt
<1> HIDE DEF q
<1>5. (a \o q) \o b = a \o (q \o b)
  BY <1>3, LeavesAssociate
<1> QED BY <1>4, <1>5 DEF s, n, q

LEMMA RemoveIs ==
  ASSUME NEW a, a \in Seq(Int), NEW x \in Int, NEW c, c \in Seq(Int), NEW e \in Int
  PROVE  /\ Straight!RemoveAt(a \o (<< x >> \o c), Len(a) + 1) = a \o c
         /\ Straight!ReplaceAt(a \o (<< x >> \o c), Len(a) + 1, e) = a \o (<< e >> \o c)
         /\ Len(a \o (<< x >> \o c)) = (Len(a) + 1) + Len(c) /\ Len(c) \in Nat /\ Len(a) \in Nat
<1> DEFINE q == << x >>
           r == << e >>
           s == a \o (q \o c)
           n == Len(a)
           m == Len(c)
           w == a \o (r \o c)
<1>1. q \in Seq(Int) /\ Len(q) = 1 /\ r \in Seq(Int) /\ Len(r) = 1
  BY OneLeaf
<1>2. q[1] = x /\ r[1] = e
  OBVIOUS
<1> HIDE DEF q, r
<1>3. /\ s \in Seq(Int) /\ w \in Seq(Int) /\ a \o q \in Seq(Int)
      /\ Len(s) = n + (1 + m) /\ Len(w) = n + (1 + m) /\ n \in Nat /\ m \in Nat /\ Len(a \o q) = n + 1
      /\ q \o c \in Seq(Int) /\ r \o c \in Seq(Int) /\ Len(q \o c) = 1 + m /\ Len(r \o c) = 1 + m
  <2> DEFINE y == q \o c
             z == r \o c
  <2>1. /\ y \in Seq(Int) /\ z \in Seq(Int) /\ Len(y) = 1 + m /\ Len(z) = 1 + m
        /\ a \o q \in Seq(Int) /\ Len(a \o q) = n + 1
    BY <1>1, LeavesJoin, Zenon
  <2>2. n \in Nat /\ m \in Nat
    BY LeavesJoin
  <2> HIDE DEF y, z
  <2>3. a \o y \in Seq(Int) /\ a \o z \in Seq(Int) /\ Len(a \o y) = n + Len(y) /\ Len(a \o z) = n + Len(z)
    BY <2>1, LeavesJoin
  <2> QED BY <2>1, <2>2, <2>3 DEF y, z
<1>4. s = (a \o q) \o c
  BY <1>1, LeavesAssociate
<1>5. SubSeq(s, 1, n) = a
  BY <1>3, CutIs
<1>6. SubSeq(s, (n + 1) + 1, Len(s)) = c
  <2> DEFINE p == a \o q
  <2>1. p \in Seq(Int) /\ Len(p) = n + 1 /\ s = p \o c
    BY <1>3, <1>4
  <2> HIDE DEF p, s
  <2> QED BY <2>1, CutIs
<1>7. Straight!RemoveAt(s, n + 1) = a \o c
  <2>1. (n + 1) - 1 = n
    BY <1>3
  <2> HIDE DEF s, n
  <2> QED BY <1>5, <1>6, <2>1 DEF Straight!RemoveAt
<1>8. Straight!ReplaceAt(s, n + 1, e) = w
  <2> DEFINE u == [s EXCEPT ![n + 1] = e]
  <2>1. /\ \A i \in 1..n : s[i] = a[i] /\ w[i] = a[i]
        /\ s[n + 1] = (q \o c)[1] /\ w[n + 1] = (r \o c)[1]
        /\ \A i \in 1..m : s[(n + 1) + i] = c[i] /\ w[(n + 1) + i] = c[i]
    <3>1. \A i \in 1..n : s[i] = a[i] /\ w[i] = a[i]
      BY <1>3
    <3>2. \A i \in 1..(1 + m) : s[n + i] = (q \o c)[i] /\ w[n + i] = (r \o c)[i]
      <4> DEFINE y == q \o c
                 z == r \o c
      <4>1. y \in Seq(Int) /\ z \in Seq(Int) /\ Len(y) = 1 + m /\ Len(z) = 1 + m
        BY <1>3
      <4> HIDE DEF y, z
      <4>2. \A i \in 1..(1 + m) : (a \o y)[n + i] = y[i] /\ (a \o z)[n + i] = z[i]
        BY <4>1
      <4> QED BY <4>2 DEF y, z
    <3>3. \A i \in 1..m : (q \o c)[1 + i] = c[i] /\ (r \o c)[1 + i] = c[i]
      <4>1. Picks(q \o c, q, c, 1, m) /\ Picks(r \o c, r, c, 1, m)
        BY <1>1, PickEither
      <4> QED BY <4>1 DEF Picks
    <3>4. \A i \in 1..m : 1 + i \in 1..(1 + m) /\ n + (1 + i) = (n + 1) + i
      BY <1>3
    <3>5. 1 \in 1..(1 + m)
      BY <1>3
    <3> HIDE DEF s, w
    <3> QED BY <3>1, <3>2, <3>3, <3>4, <3>5
  <2>2. (r \o c)[1] = e
    <3>1. Picks(r \o c, r, c, 1, m)
      BY <1>1, PickEither
    <3> DEFINE z == r \o c
    <3>2. Picks(z, r, c, 1, m)
      BY <3>1
    <3> HIDE DEF z, m
    <3>3. z[1] = r[1]
      BY ONLY <3>2 DEF Picks
    <3> QED BY <1>2, <3>3 DEF z
  <2> HIDE DEF s, w
  <2>3. n + 1 \in DOMAIN s /\ DOMAIN s = 1..(n + (1 + m)) /\ DOMAIN w = 1..(n + (1 + m))
    <3>1. DOMAIN s = 1..Len(s) /\ DOMAIN w = 1..Len(w)
      BY <1>3
    <3> HIDE DEF n, m
    <3> QED BY <1>3, <3>1
  <2>4. u \in Seq(Int) /\ Len(u) = Len(s)
    BY <1>3, <2>3, ExceptSeq
  <2>5. \A i \in 1..Len(w) : u[i] = w[i]
    <3> SUFFICES ASSUME NEW i \in 1..Len(w) PROVE u[i] = w[i]
      OBVIOUS
    <3>1. i \in 1..n \/ i = n + 1 \/ i - (n + 1) \in 1..m
      <4>1. n \in Nat /\ m \in Nat /\ i \in 1..(n + (1 + m))
        BY <1>3
      <4> HIDE DEF n, m
      <4> QED BY ONLY <4>1
    <3>2. CASE i \in 1..n
      BY <1>3, <2>1, <2>3, <3>2
    <3>3. CASE i = n + 1
      BY <2>1, <2>2, <2>3, <3>3
    <3>4. CASE i - (n + 1) \in 1..m
      <4>1. i = (n + 1) + (i - (n + 1)) /\ i # n + 1 /\ i \in DOMAIN s
        BY <1>3, <2>3, <3>4
      <4>2. s[i] = w[i]
        BY <2>1, <3>4, <4>1
      <4> QED BY <4>1, <4>2
    <3> QED BY <3>1, <3>2, <3>3, <3>4
  <2>6. u = w
    BY <1>3, <2>4, <2>5, SeqEqual
  <2> QED BY <2>6 DEF Straight!ReplaceAt
<1>9. Len(s) = (n + 1) + m
  BY <1>3
<1> QED BY <1>3, <1>7, <1>8, <1>9 DEF q, r

LEMMA ReverseThree ==
  ASSUME NEW a, a \in Seq(Int), NEW x \in Int, NEW c, c \in Seq(Int)
  PROVE  /\ Reverse(a \o (<< x >> \o c)) = Reverse(c) \o (<< x >> \o Reverse(a))
         /\ Reverse(a \o c) = Reverse(c) \o Reverse(a)
         /\ Reverse(a) \in Seq(Int) /\ Reverse(c) \in Seq(Int)
         /\ Len(Reverse(a)) = Len(a) /\ Len(Reverse(c)) = Len(c)
<1> DEFINE q == << x >>
<1>1. q \in Seq(Int) /\ Reverse(q) = q
  BY OneLeaf
<1> HIDE DEF q
<1>2. q \o c \in Seq(Int)
  BY <1>1, LeavesJoin
<1>3. Reverse(a \o (q \o c)) = Reverse(q \o c) \o Reverse(a) /\ Reverse(q \o c) = Reverse(c) \o Reverse(q)
  BY <1>1, <1>2, ReverseConcat
<1>4. /\ Reverse(a) \in Seq(Int) /\ Reverse(c) \in Seq(Int)
      /\ Len(Reverse(a)) = Len(a) /\ Len(Reverse(c)) = Len(c)
  BY ReverseType
<1>5. (Reverse(c) \o q) \o Reverse(a) = Reverse(c) \o (q \o Reverse(a))
  BY <1>1, <1>4, LeavesAssociate, Zenon
<1>6. Reverse(a \o c) = Reverse(c) \o Reverse(a)
  BY ReverseConcat
<1> QED BY <1>1, <1>3, <1>4, <1>5, <1>6 DEF q

\* The same, of all sequences.
Cut(a, x, c, e) ==
    /\ Straight!RemoveAt(a \o (<< x >> \o c), Len(a) + 1) = a \o c
    /\ Straight!ReplaceAt(a \o (<< x >> \o c), Len(a) + 1, e) = a \o (<< e >> \o c)
    /\ Len(a \o (<< x >> \o c)) = (Len(a) + 1) + Len(c) /\ Len(c) \in Nat /\ Len(a) \in Nat

\* Inserting, removing and assigning, on sequences cut in two or three.
LEMMA Cuts == \A a, c \in Seq(Int), x, e \in Int : Cut(a, x, c, e)
BY RemoveIs DEF Cut

Turned(a, x, c) ==
    /\ Reverse(a \o (<< x >> \o c)) = Reverse(c) \o (<< x >> \o Reverse(a))
    /\ Reverse(a \o c) = Reverse(c) \o Reverse(a)
    /\ Reverse(a) \in Seq(Int) /\ Reverse(c) \in Seq(Int)
    /\ Len(Reverse(a)) = Len(a) /\ Len(Reverse(c)) = Len(c)

\* The same for a sequence that is seen backwards.
LEMMA Turns == \A a, c \in Seq(Int), x \in Int : Turned(a, x, c)
BY ReverseThree DEF Turned

-----------------------------------------------------------------------------
(* What the plain sequence answers, and what the list does.                 *)
LEMMA PlainAnswers ==
  ASSUME NEW i \in Int
  PROVE  /\ Straight!Answer("size", i) = << Len(InOrder(list)) >>
         /\ Straight!Answer("items", i) = InOrder(list)
         /\ Straight!Answer("head", i) = IF InOrder(list) # << >> THEN << InOrder(list)[1] >> ELSE ThrownValue
         /\ Straight!Answer("tail", i) = IF InOrder(list) # << >> THEN << Last(InOrder(list)) >> ELSE ThrownValue
         /\ Straight!Answer("lookup", i) = IF 0 <= i /\ i < Len(InOrder(list)) THEN << InOrder(list)[i + 1] >> ELSE ThrownValue
         /\ Straight!Answer("remove", i) = IF 0 <= i /\ i < Len(InOrder(list)) THEN Straight!RemoveAt(InOrder(list), i + 1) ELSE ThrownValue
         /\ Straight!Answer("assign", i) = IF 0 <= i /\ i < Len(InOrder(list)) THEN Straight!ReplaceAt(InOrder(list), i + 1, New) ELSE ThrownValue
         /\ Straight!Answer("before", i) = IF 0 <= i /\ i <= Len(InOrder(list)) THEN SubSeq(InOrder(list), 1, i) ELSE ThrownValue
         /\ Straight!Answer("after", i) = IF 0 <= i /\ i <= Len(InOrder(list)) THEN SubSeq(InOrder(list), i + 1, Len(InOrder(list))) ELSE ThrownValue
         /\ Straight!Answer("insert", i) = IF 0 <= i /\ i <= Len(InOrder(list)) THEN Straight!InsertAt(InOrder(list), i + 1, New) ELSE ThrownValue
<1>1. Straight!Answer("size", i) = << Len(InOrder(list)) >>
  BY DEF Straight!Answer, Straight!Valid, Straight!Ends, Straight!Elements, Straight!Gaps, Straight!Thrown,
         ThrownValue
<1>2. Straight!Answer("items", i) = InOrder(list)
  BY DEF Straight!Answer, Straight!Valid, Straight!Ends, Straight!Elements, Straight!Gaps, Straight!Thrown,
         ThrownValue
<1>3. Straight!Answer("head", i) = IF InOrder(list) # << >> THEN << InOrder(list)[1] >> ELSE ThrownValue
  BY DEF Straight!Answer, Straight!Valid, Straight!Ends, Straight!Elements, Straight!Gaps, Straight!Thrown,
         ThrownValue
<1>4. Straight!Answer("tail", i) = IF InOrder(list) # << >> THEN << Last(InOrder(list)) >> ELSE ThrownValue
  BY DEF Straight!Answer, Straight!Valid, Straight!Ends, Straight!Elements, Straight!Gaps, Straight!Thrown,
         ThrownValue, Straight!Last, Last
<1>5. Straight!Answer("lookup", i) = IF 0 <= i /\ i < Len(InOrder(list)) THEN << InOrder(list)[i + 1] >> ELSE ThrownValue
  BY DEF Straight!Answer, Straight!Valid, Straight!Ends, Straight!Elements, Straight!Gaps, Straight!Thrown,
         ThrownValue
<1>6. Straight!Answer("remove", i) = IF 0 <= i /\ i < Len(InOrder(list)) THEN Straight!RemoveAt(InOrder(list), i + 1) ELSE ThrownValue
  BY DEF Straight!Answer, Straight!Valid, Straight!Ends, Straight!Elements, Straight!Gaps, Straight!Thrown,
         ThrownValue
<1>7. Straight!Answer("assign", i) = IF 0 <= i /\ i < Len(InOrder(list)) THEN Straight!ReplaceAt(InOrder(list), i + 1, New) ELSE ThrownValue
  BY DEF Straight!Answer, Straight!Valid, Straight!Ends, Straight!Elements, Straight!Gaps, Straight!Thrown,
         ThrownValue
<1>8. Straight!Answer("before", i) = IF 0 <= i /\ i <= Len(InOrder(list)) THEN SubSeq(InOrder(list), 1, i) ELSE ThrownValue
  BY DEF Straight!Answer, Straight!Valid, Straight!Ends, Straight!Elements, Straight!Gaps, Straight!Thrown,
         ThrownValue
<1>9. Straight!Answer("after", i) = IF 0 <= i /\ i <= Len(InOrder(list)) THEN SubSeq(InOrder(list), i + 1, Len(InOrder(list))) ELSE ThrownValue
  BY DEF Straight!Answer, Straight!Valid, Straight!Ends, Straight!Elements, Straight!Gaps, Straight!Thrown,
         ThrownValue
<1>10. Straight!Answer("insert", i) = IF 0 <= i /\ i <= Len(InOrder(list)) THEN Straight!InsertAt(InOrder(list), i + 1, New) ELSE ThrownValue
  BY DEF Straight!Answer, Straight!Valid, Straight!Ends, Straight!Elements, Straight!Gaps, Straight!Thrown,
         ThrownValue
<1> QED BY <1>1, <1>2, <1>3, <1>4, <1>5, <1>6, <1>7, <1>8, <1>9, <1>10

LEMMA ListAnswers ==
  ASSUME NEW i
  PROVE  /\ Answer("size", i) = << Length >>
         /\ Answer("items", i) = LeavesOf(ItemsOf(list))
         /\ Answer("head", i) = IF list = list_empty THEN ThrownValue
                 ELSE LeavesOf(<< IF IsReversed(list) THEN TailOf(list.list) ELSE HeadOf(list) >>)
         /\ Answer("tail", i) = IF list = list_empty THEN ThrownValue
                 ELSE LeavesOf(<< IF IsReversed(list) THEN HeadOf(list.list) ELSE TailOf(list) >>)
         /\ Answer("lookup", i) = Lookup[Under(list)][Flipped(i)]
         /\ Answer("before", i) = IF Flipped(i) \in 0..Length THEN InOrder(Partitioned(i).before) ELSE ThrownValue
         /\ Answer("after", i) = IF Flipped(i) \in 0..Length THEN InOrder(Partitioned(i).after) ELSE ThrownValue
         /\ Answer("insert", i) = IF Flipped(i) \in 0..Length THEN InOrder(Edited("insert", i)) ELSE ThrownValue
         /\ Answer("remove", i) = IF Flipped(i) \in 0..(Length - 1) THEN InOrder(Edited("remove", i)) ELSE ThrownValue
         /\ Answer("assign", i) = IF Flipped(i) \in 0..(Length - 1) THEN InOrder(Edited("assign", i)) ELSE ThrownValue
BY DEF Answer

LEMMA Flips ==
  ASSUME ListInv, NEW i \in Int
  PROVE  /\ Flipped(i) \in Int
         /\ ~ IsReversed(list) => Flipped(i) = i
         /\ IsReversed(list) => Flipped(i) = (Length - 1) - i
         /\ Flipped(i) \in 0..(Length - 1) <=> 0 <= i /\ i < Len(InOrder(list))
         /\ Len(Content[Under(list)]) = Length /\ Length \in Nat
<1>1. /\ Length \in Nat /\ Length = Len(InOrder(list)) /\ Len(Content[Under(list)]) = Length
  BY LengthIs, OkForms DEF ListInv
<1>2. IsReversed(list) => Flipped(i) = (Length - 1) - i
  BY <1>1 DEF Flipped, FlipIndex, Length, Under
<1>3. ~ IsReversed(list) => Flipped(i) = i
  BY DEF Flipped
<1> DEFINE n == Length
           f == Flipped(i)
<1>4. n \in Nat /\ (f = i \/ f = (n - 1) - i)
  BY <1>1, <1>2, <1>3
<1> HIDE DEF n, f
<1>5. f \in Int /\ (f \in 0..(n - 1) <=> 0 <= i /\ i < n)
  BY ONLY <1>4
<1> QED BY <1>1, <1>2, <1>3, <1>5 DEF n, f

LEMMA AnswersSize == ListInv => \A i \in Int : Answer("size", i) = Straight!Answer("size", i)
BY LengthIs, PlainAnswers, ListAnswers

LEMMA AnswersItems == ListInv => \A i \in Int : Answer("items", i) = Straight!Answer("items", i)
<1> SUFFICES ASSUME ListInv PROVE LeavesOf(ItemsOf(list)) = InOrder(list)
  BY PlainAnswers, ListAnswers
<1>1. ListOk(list) /\ Under(list) \in FitsAt(0)
  BY DEF ListInv, ListOk
<1>2. /\ LeavesOf(Iterate(Under(list))) = Content[Under(list)]
      /\ LeavesOf(IterateBack(Under(list))) = Reverse(Content[Under(list)])
  BY <1>1, AllOfBackwards
<1> QED BY <1>1, <1>2, OkForms DEF ItemsOf

LEMMA AnswersEnds ==
  ListInv => \A i \in Int : /\ Answer("head", i) = Straight!Answer("head", i)
                            /\ Answer("tail", i) = Straight!Answer("tail", i)
<1> SUFFICES ASSUME ListInv, NEW i \in Int
             PROVE  /\ Answer("head", i) = Straight!Answer("head", i)
                    /\ Answer("tail", i) = Straight!Answer("tail", i)
  OBVIOUS
<1>1. ListOk(list) /\ (list = list_empty <=> InOrder(list) = << >>)
  BY EmptyIs DEF ListInv
<1>2. CASE list = list_empty
  BY <1>1, <1>2, PlainAnswers, ListAnswers
<1>3. CASE list # list_empty
  <2> DEFINE first == IF IsReversed(list) THEN TailOf(list.list) ELSE HeadOf(list)
             last == IF IsReversed(list) THEN HeadOf(list.list) ELSE TailOf(list)
  <2>1. Leaves[first] = << InOrder(list)[1] >> /\ Leaves[last] = << Last(InOrder(list)) >>
    BY <1>1, <1>3, PopIsList
  <2>2. first \in Items /\ last \in Items
    <3>1. Under(list) \in FitsAt(0) /\ Under(list) \in Lists /\ Under(list) # list_empty
      BY <1>1, <1>3, OkForms, EmptyIs
    <3>2. HeadOf(Under(list)) \in ItemsAt[0] /\ TailOf(Under(list)) \in ItemsAt[0]
      BY <3>1, EmptyIn, PopRight, ChopRight DEF PopsAt, ChopsAt, Took, TookLast
    <3>3. HeadOf(Under(list)) \in Items /\ TailOf(Under(list)) \in Items
      BY <3>2, LeafItems
    <3> QED BY <3>3 DEF Under
  <2> HIDE DEF first, last
  <2>3. LeavesOf(<< first >>) = << InOrder(list)[1] >> /\ LeavesOf(<< last >>) = << Last(InOrder(list)) >>
    BY <2>1, <2>2, LeavesOfOne
  <2>4. Answer("head", i) = LeavesOf(<< first >>) /\ Answer("tail", i) = LeavesOf(<< last >>)
    BY <1>3, ListAnswers DEF first, last
  <2> QED BY <1>1, <1>3, <2>3, <2>4, PlainAnswers
<1> QED BY <1>2, <1>3

\* Lookup answers as the plain sequence.
LEMMA AnswersLookup == ListInv => \A i \in Int : Answer("lookup", i) = Straight!Answer("lookup", i)
<1> SUFFICES ASSUME ListInv, NEW i \in Int PROVE Answer("lookup", i) = Straight!Answer("lookup", i)
  OBVIOUS
<1> DEFINE u == Content[Under(list)]
           s == InOrder(list)
           f == Flipped(i)
           n == Length
<1>1. ListOk(list) /\ Under(list) \in FitsAt(0) /\ Under(list) \in Lists
  BY OkForms DEF ListInv
<1>2. f \in Int /\ (f \in 0..(n - 1) <=> 0 <= i /\ i < Len(s)) /\ Len(u) = n /\ n \in Nat
  BY Flips
<1>3. Answer("lookup", i) = At(u, f)
  <2>1. LooksAt(Under(list), 0)
    BY <1>1, EmptyIn, LookupRight
  <2> QED BY <1>1, <1>2, <2>1, ListAnswers DEF LooksAt
<1>4. At(u, f) = IF f \in 0..(n - 1) THEN << u[f + 1] >> ELSE ThrownValue
  BY <1>2 DEF At
<1>5. ASSUME f \in 0..(n - 1) PROVE u[f + 1] = s[i + 1]
  <2>1. CASE ~ IsReversed(list)
    BY <1>1, <2>1, Flips, OkForms
  <2>2. CASE IsReversed(list)
    <3>1. s = Reverse(u) /\ f = (n - 1) - i /\ u \in Seq(Int)
      BY <1>1, <2>2, Flips, OkForms
    <3> HIDE DEF u, s, f, n
    <3>2. i + 1 \in 1..Len(u) /\ (Len(u) - (i + 1)) + 1 = f + 1
      BY <1>2, <1>5, <3>1
    <3>3. Reverse(u)[i + 1] = u[(Len(u) - (i + 1)) + 1]
      BY <3>1, <3>2, ReverseType
    <3> QED BY <3>1, <3>2, <3>3
  <2> QED BY <2>1, <2>2
<1> HIDE DEF u, f, n
<1> QED BY <1>2, <1>3, <1>4, <1>5, PlainAnswers

-----------------------------------------------------------------------------
(* The calls that divide the list.                                          *)
Straightforward ==
    "head chunk" \notin ListReaches /\ "cold storage" \notin ListReaches /\ "backwards" \notin ListReaches

\* Before and after: the two parts, in either form of the list.
LEMMA DividesRight ==
  ASSUME ListInv, Straightforward, NEW i \in Int, Divides(i), Flipped(i) \in 0..Length
  PROVE  Divided(Partition[Under(list)][Flipped(i)], Content[Under(list)], Flipped(i))
<1>1. Under(list) \in FitsAt(0) /\ Len(Content[Under(list)]) = Length
  BY Flips DEF ListInv, ListOk
<1>2. Under(list).kind = "list" => Flipped(i) = 0 \/ InTailChunk(Under(list), Flipped(i))
  BY DEF Divides, Straightforward
<1> QED BY <1>1, <1>2, PartitionRight

LEMMA AnswersBefore ==
  ASSUME ListInv, Straightforward, NEW i \in Int
  PROVE  /\ Sound("before", i) => Answer("before", i) = Straight!Answer("before", i)
         /\ Sound("after", i) => Answer("after", i) = Straight!Answer("after", i)
<1> SUFFICES ASSUME Sound("before", i) \/ Sound("after", i)
             PROVE  /\ Answer("before", i) = Straight!Answer("before", i)
                    /\ Answer("after", i) = Straight!Answer("after", i)
  OBVIOUS
<1> DEFINE s == InOrder(list)
<1>1. ~ IsReversed(list) /\ Divides(i)
  BY DEF Sound, Straightforward
<1>2. Flipped(i) = i /\ Length = Len(s) /\ Length \in Nat /\ s \in Seq(Int)
  BY <1>1, Flips, LengthIs
<1>3. i \in 0..Length <=> 0 <= i /\ i <= Len(s)
  BY <1>2
<1>4. CASE ~ (i \in 0..Length)
  BY <1>2, <1>3, <1>4, PlainAnswers, ListAnswers
<1>5. CASE i \in 0..Length
  <2> DEFINE p == Partition[Under(list)][Flipped(i)]
             a == Content[p.before]
             b == Content[p.after]
  <2>1. Divided(p, Content[Under(list)], i) /\ Content[Under(list)] = s
    <3>1. Content[Under(list)] = s
      BY <1>1, OkForms DEF ListInv
    <3> QED BY <1>1, <1>2, <1>5, <3>1, DividesRight
  <2>2. p.before \in FitsAt(0) /\ p.after \in FitsAt(0) /\ s = a \o b /\ Len(a) = i
    BY <2>1 DEF Divided
  <2>3. InOrder(p.before) = a /\ InOrder(p.after) = b
    BY <2>2, StraightOk
  <2>4. Partitioned(i) = p
    BY <1>1 DEF Partitioned
  <2>5. a \in Seq(Int) /\ b \in Seq(Int)
    BY <2>2, EmptyIn, FitsType
  <2>6. Answer("before", i) = a /\ Answer("after", i) = b
    BY <1>2, <1>5, <2>3, <2>4, ListAnswers
  <2> HIDE DEF a, b, p
  <2>7. SubSeq(s, 1, i) = a /\ SubSeq(s, i + 1, Len(s)) = b
    BY <2>2, <2>5, CutIs
  <2> QED BY <1>3, <1>5, <2>6, <2>7, PlainAnswers
<1> QED BY <1>4, <1>5

\* What is made of the second part.
LEMMA ChangedRight ==
  ASSUME NEW m, m \in FitsAt(0), Len(Content[m]) < Depth
  PROVE  /\ Holds(Changed("insert", m), << New >> \o Content[m], 0)
         /\ m = list_empty => Changed("insert", m).kind # "list"
         /\ m # list_empty =>
              \E x \in Int, c \in Seq(Int) :
                 /\ Content[m] = << x >> \o c
                 /\ Holds(Changed("remove", m), c, 0)
                 /\ Holds(Changed("assign", m), << New >> \o c, 0)
<1>1. New \in Int /\ m \in Lists
  BY ListAssumption, EmptyIn, FitsType DEF New
<1>2. Put(Push[m][Leaf(New)], << New >> \o Content[m], 0)
  BY <1>1, PutLeaf
<1>3. Changed("insert", m) = Push[m][Leaf(New)]
  BY DEF Changed
<1>4. ASSUME m = list_empty PROVE Changed("insert", m).kind # "list"
  <2>1. Push[m][Leaf(New)] = Single(Leaf(New))
    BY <1>1, <1>4, LeafItems, PushForms
  <2> QED BY <1>3, <2>1 DEF Single
<1>5. ASSUME m # list_empty
      PROVE  \E x \in Int, c \in Seq(Int) :
                 /\ Content[m] = << x >> \o c
                 /\ Holds(Changed("remove", m), c, 0)
                 /\ Holds(Changed("assign", m), << New >> \o c, 0)
  <2> DEFINE v == HeadOf(m)
             r == Pop[m]
             x == v.leaf
             c == Content[r]
  <2>1. v \in ItemsAt[0] /\ r \in FitsAt(0) /\ Content[m] = Leaves[v] \o c
    BY <1>1, <1>5, EmptyIn, PopRight DEF PopsAt, Took
  <2>2. x \in Int /\ Leaves[v] = << x >> /\ c \in Seq(Int)
    BY <2>1, EmptyIn, LeafItems, FitsType
  <2>3. Changed("remove", m) = r /\ Changed("assign", m) = Push[r][Leaf(New)]
    BY DEF Changed
  <2> HIDE DEF v, r, x, c
  <2>4. Len(c) < Depth
    <3>1. << x >> \in Seq(Int) /\ Len(<< x >>) = 1
      BY <2>2, OneLeaf
    <3>2. Len(Content[m]) = 1 + Len(c) /\ Len(c) \in Nat
      BY <2>1, <2>2, <3>1, LeavesJoin
    <3> DEFINE k == Len(c)
               n == Len(Content[m])
    <3>3. n = 1 + k /\ k \in Nat /\ n < Depth
      BY <3>2
    <3> HIDE DEF k, n
    <3>4. k < Depth
      BY <3>3, DepthType
    <3> QED BY <3>4 DEF k
  <2>5. Put(Push[r][Leaf(New)], << New >> \o c, 0)
    BY <1>1, <2>1, <2>4, PutLeaf DEF c
  <2>6. Holds(Changed("remove", m), c, 0) /\ Holds(Changed("assign", m), << New >> \o c, 0)
    BY <2>1, <2>3, <2>5 DEF Holds, Put, c
  <2> QED BY <2>1, <2>2, <2>6
<1> QED BY <1>2, <1>3, <1>4, <1>5 DEF Holds, Put

LEMMA ShortJoinable ==
  ASSUME NEW l \in Lists, NEW o \in Lists, o.kind # "list"
  PROVE  Joinable(l, o)
<1>1. Depth \in 0..Depth
  BY DepthType
<1>2. JoinableWithin[Depth] = JoinableOver(JoinableWithin[Depth - 1], Depth)
  BY <1>1, JoinedIs
<1>3. Pair(l, o) \in Pairs /\ Pair(l, o).second = o
  BY PairIs
<1>4. ~ BothLong(Pair(l, o))
  BY <1>3 DEF BothLong
<1> QED BY <1>2, <1>3, <1>4 DEF Joinable, JoinableOver

\* The list that insert, remove or assign makes.
EditedTo(call, i, leaves) ==
    InOrder(Edited(call, i)) = IF IsReversed(list) THEN Reverse(leaves) ELSE leaves

\* Insert, remove and assign put the parts together again.
LEMMA WholeRight ==
  ASSUME ListInv, NEW i \in Int, NEW call, NEW t, t \in Seq(Int),
         NEW p, p = Partition[Under(list)][Flipped(i)],
         p.before \in FitsAt(0), Holds(Changed(call, p.after), t, 0),
         Joinable(p.before, Changed(call, p.after)),
         Len(Content[p.before]) + Len(t) <= Depth
  PROVE  EditedTo(call, i, Content[p.before] \o t)
<1> DEFINE o == Changed(call, p.after)
           whole == Joined(p.before, o, 6)
<1>1. o \in FitsAt(0) /\ Content[o] = t
  BY DEF Holds
<1>2. 6 \in AnyAction
  BY ONLY DEF AnyAction
<1>3. Len(Content[p.before]) + Len(Content[o]) <= Depth
  BY <1>1
<1>4. Holds(whole, Content[p.before] \o Content[o], 0)
  BY <1>1, <1>2, <1>3, JoinedStraight
<1>5. IsList(whole, Content[p.before] \o t) /\ IsList(Reversed(whole), Reverse(Content[p.before] \o t))
  BY <1>1, <1>4, HoldsIsList
<1>6. Edited(call, i) = IF IsReversed(list) THEN Reversed(whole) ELSE whole
  BY DEF Edited
<1> QED BY <1>5, <1>6 DEF IsList, EditedTo

LEMMA AnswersInsert ==
  ASSUME ListInv, Straightforward, NEW i \in Int, Sound("insert", i)
  PROVE  Answer("insert", i) = Straight!Answer("insert", i)
<1> DEFINE s == InOrder(list)
<1>1. ~ IsReversed(list) /\ Divides(i) /\ Rejoins("insert", i)
  BY DEF Sound, Straightforward
<1>2. /\ Flipped(i) = i /\ Length = Len(s) /\ Length \in Nat /\ s \in Seq(Int) /\ Length < Depth
      /\ Content[Under(list)] = s
  BY <1>1, Flips, LengthIs, OkForms DEF ListInv
<1>3. i \in 0..Length <=> 0 <= i /\ i <= Len(s)
  BY <1>2
<1>4. CASE ~ (i \in 0..Length)
  BY <1>2, <1>3, <1>4, PlainAnswers, ListAnswers
<1>5. CASE i \in 0..Length
  <2> DEFINE p == Partition[Under(list)][Flipped(i)]
             m == p.after
             a == Content[p.before]
             b == Content[m]
             o == Changed("insert", m)
             t == << New >> \o b
  <2>1. Divided(p, Content[Under(list)], i)
    BY <1>1, <1>2, <1>5, DividesRight
  <2>2. p.before \in FitsAt(0) /\ m \in FitsAt(0) /\ s = a \o b /\ Len(a) = i
    BY <1>2, <2>1 DEF Divided
  <2>3. a \in Seq(Int) /\ b \in Seq(Int) /\ p.before \in Lists /\ m \in Lists
    BY <2>2, EmptyIn, FitsType
  <2>4. New \in Int /\ << New >> \in Seq(Int) /\ Len(<< New >>) = 1
    BY ListAssumption, OneLeaf DEF New
  <2>5. t \in Seq(Int) /\ Len(t) = 1 + Len(b) /\ Len(s) = Len(a) + Len(b) /\ Len(b) \in Nat /\ Len(a) \in Nat
    <3> DEFINE q == << New >>
    <3>1. q \in Seq(Int) /\ Len(q) = 1
      BY <2>4
    <3> HIDE DEF q, a, b
    <3>2. q \o b \in Seq(Int) /\ Len(q \o b) = 1 + Len(b)
      BY <2>3, <3>1, LeavesJoin
    <3> QED BY <2>2, <2>3, <3>2, LeavesJoin DEF q
  <2>6. Len(b) < Depth /\ Len(a) + Len(t) <= Depth /\ (i = Length => Len(b) = 0)
    <3> DEFINE x == Len(a)
               y == Len(b)
               n == Length
    <3>1. n = x + y /\ x \in Nat /\ y \in Nat /\ n < Depth /\ x = i /\ Len(t) = 1 + y
      BY <1>2, <2>2, <2>5
    <3> HIDE DEF x, y, n, t
    <3>2. y < Depth /\ x + Len(t) <= Depth /\ (i = n => y = 0)
      BY <3>1, DepthType
    <3> QED BY <3>2 DEF x, y, n
  <2>7. Holds(o, t, 0) /\ (m = list_empty => o.kind # "list")
    BY <2>2, <2>6, ChangedRight
  <2>8. Joinable(p.before, o)
    <3>1. CASE i \in 0..(Length - 1)
      BY <1>1, <1>2, <3>1 DEF Rejoins
    <3>2. CASE i = Length
      <4>1. m = list_empty
        <5> SUFFICES ASSUME m # list_empty PROVE FALSE
          OBVIOUS
        <5>1. Len(b) >= 1
          BY <2>2, EmptyIn, NonemptyHasLeaves
        <5> QED BY <2>6, <3>2, <5>1
      <4>2. o \in Lists
        BY <2>7, EmptyIn, FitsType DEF Holds
      <4> HIDE DEF o
      <4> QED BY <2>3, <2>7, <4>1, <4>2, ShortJoinable
    <3> QED BY <1>2, <1>5, <3>1, <3>2
  <2> HIDE DEF t, p
  <2>9. InOrder(Edited("insert", i)) = a \o t
    <3>1. p = Partition[Under(list)][Flipped(i)]
      BY DEF p
    <3>2. EditedTo("insert", i, Content[p.before] \o t)
      BY <2>2, <2>5, <2>6, <2>7, <2>8, <3>1, WholeRight
    <3> QED BY <1>1, <3>2 DEF EditedTo
  <2> HIDE DEF a, b
  <2>10. Straight!InsertAt(a \o b, Len(a) + 1, New) = a \o (<< New >> \o b)
    BY <2>3, <2>4, InsertIs
  <2>11. Straight!InsertAt(s, i + 1, New) = a \o t
    BY <2>2, <2>10 DEF t
  <2> QED BY <1>2, <1>3, <1>5, <2>9, <2>11, PlainAnswers, ListAnswers
<1> QED BY <1>4, <1>5

\* Leaf x at the index, a before it and c behind it.
Around(u, a, x, c, index) ==
    a \in Seq(Int) /\ x \in Int /\ c \in Seq(Int) /\ u = a \o (<< x >> \o c) /\ Len(a) = index

LEMMA ElementsRight ==
  ASSUME ListInv, Straightforward, NEW i \in Int, Divides(i), Flipped(i) \in 0..(Length - 1)
  PROVE  \E a, x, c :
            /\ Around(Content[Under(list)], a, x, c, Flipped(i))
            /\ Rejoins("remove", i) => EditedTo("remove", i, a \o c)
            /\ Rejoins("assign", i) => EditedTo("assign", i, a \o (<< New >> \o c))
<1> DEFINE u == Content[Under(list)]
           f == Flipped(i)
           p == Partition[Under(list)][f]
           m == p.after
           a == Content[p.before]
           b == Content[m]
<1>1. f \in Int /\ Len(u) = Length /\ Length \in Nat /\ Length < Depth
  BY Flips, LengthIs
<1>2. f \in 0..Length
  BY <1>1
<1>3. Divided(p, u, f)
  BY <1>2, DividesRight
<1>4. p.before \in FitsAt(0) /\ m \in FitsAt(0) /\ u = a \o b /\ Len(a) = f
  BY <1>3 DEF Divided
<1>5. a \in Seq(Int) /\ b \in Seq(Int) /\ p.before \in Lists /\ m \in Lists
  BY <1>4, EmptyIn, FitsType
<1>6. Len(u) = Len(a) + Len(b) /\ Len(a) \in Nat /\ Len(b) \in Nat
  <2> HIDE DEF a, b
  <2> QED BY <1>4, <1>5, LeavesJoin
<1>7. Len(b) < Depth /\ Len(b) >= 1
  <2> DEFINE n == Length
             x == Len(a)
             y == Len(b)
  <2>1. n = x + y /\ x \in Nat /\ y \in Nat /\ n < Depth /\ x \in 0..(n - 1)
    BY <1>1, <1>4, <1>6
  <2> HIDE DEF n, x, y
  <2>2. y < Depth /\ y >= 1
    BY <2>1, DepthType
  <2> QED BY <2>2 DEF y
<1>8. m # list_empty
  <2> SUFFICES ASSUME m = list_empty PROVE FALSE
    OBVIOUS
  <2>1. b = << >>
    BY EmptyIn
  <2> HIDE DEF b
  <2> QED BY <1>7, <2>1, EmptySeq
<1>9. PICK x \in Int, c \in Seq(Int) :
         /\ b = << x >> \o c
         /\ Holds(Changed("remove", m), c, 0)
         /\ Holds(Changed("assign", m), << New >> \o c, 0)
  BY <1>4, <1>7, <1>8, ChangedRight
<1>10. c \in Seq(Int) /\ x \in Int
  BY <1>9
<1>11. New \in Int
  BY ListAssumption DEF New
<1> DEFINE t == << New >> \o c
<1>12. t \in Seq(Int) /\ Len(t) = Len(b) /\ Len(c) <= Len(b) /\ Len(c) \in Nat
  <2> DEFINE q == << New >>
             r == << x >>
  <2>1. q \in Seq(Int) /\ Len(q) = 1 /\ r \in Seq(Int) /\ Len(r) = 1
    BY <1>10, <1>11, OneLeaf
  <2> HIDE DEF q, r, b
  <2>2. q \o c \in Seq(Int) /\ Len(q \o c) = 1 + Len(c) /\ Len(r \o c) = 1 + Len(c) /\ Len(c) \in Nat
    BY <1>10, <2>1, LeavesJoin
  <2>3. b = r \o c
    BY <1>9 DEF r
  <2> QED BY <2>2, <2>3 DEF q
<1> HIDE DEF t
<1>13. Len(a) + Len(c) <= Depth /\ Len(a) + Len(t) <= Depth
  <2> DEFINE n == Length
             v == Len(a)
             y == Len(b)
             z == Len(c)
  <2>1. n = v + y /\ v \in Nat /\ y \in Nat /\ n < Depth /\ z <= y /\ z \in Nat
    BY <1>1, <1>6, <1>12
  <2> HIDE DEF n, v, y, z
  <2>2. v + z <= Depth /\ v + y <= Depth
    BY <2>1, DepthType
  <2> QED BY <1>12, <2>2 DEF v, y, z
<1>14. Around(u, a, x, c, f)
  BY <1>4, <1>5, <1>9, <1>10 DEF Around
<1>15. Rejoins("remove", i) => Joinable(p.before, Changed("remove", m))
  BY DEF Rejoins
<1>16. Rejoins("assign", i) => Joinable(p.before, Changed("assign", m))
  BY DEF Rejoins
<1>17. Holds(Changed("remove", m), c, 0) /\ Holds(Changed("assign", m), t, 0)
  BY <1>9 DEF t
<1>20. p = Partition[Under(list)][Flipped(i)]
  OBVIOUS
<1> HIDE DEF p, t
<1>18. Rejoins("remove", i) => EditedTo("remove", i, a \o c)
  <2> SUFFICES ASSUME Rejoins("remove", i) PROVE EditedTo("remove", i, a \o c)
    OBVIOUS
  <2>1. Joinable(p.before, Changed("remove", m))
    BY <1>15
  <2>2. p.before \in FitsAt(0) /\ Len(Content[p.before]) + Len(c) <= Depth
    BY <1>4, <1>13
  <2>3. EditedTo("remove", i, Content[p.before] \o c)
    BY <1>10, <1>17, <1>20, <2>1, <2>2, WholeRight
  <2> QED BY <2>3
<1>19. Rejoins("assign", i) => EditedTo("assign", i, a \o t)
  <2> SUFFICES ASSUME Rejoins("assign", i) PROVE EditedTo("assign", i, a \o t)
    OBVIOUS
  <2>1. Joinable(p.before, Changed("assign", m))
    BY <1>16
  <2>2. p.before \in FitsAt(0) /\ Len(Content[p.before]) + Len(t) <= Depth
    BY <1>4, <1>13
  <2>3. EditedTo("assign", i, Content[p.before] \o t)
    BY <1>12, <1>17, <1>20, <2>1, <2>2, WholeRight
  <2> QED BY <2>3
<1> HIDE DEF a
<1> QED BY <1>14, <1>18, <1>19 DEF t

LEMMA AnswersElements ==
  ASSUME ListInv, Straightforward, NEW i \in Int
  PROVE  /\ Sound("remove", i) => Answer("remove", i) = Straight!Answer("remove", i)
         /\ Sound("assign", i) => Answer("assign", i) = Straight!Answer("assign", i)
<1> DEFINE s == InOrder(list)
           u == Content[Under(list)]
           f == Flipped(i)
<1>1. /\ f \in Int /\ (f \in 0..(Length - 1) <=> 0 <= i /\ i < Len(s)) /\ Len(u) = Length /\ Length \in Nat
      /\ (~ IsReversed(list) => f = i) /\ (IsReversed(list) => f = (Length - 1) - i)
  BY Flips
<1>2. (IsReversed(list) => s = Reverse(u)) /\ (~ IsReversed(list) => s = u)
  BY OkForms DEF ListInv, Under
<1>3. CASE ~ (f \in 0..(Length - 1))
  <2>1. ~ (0 <= i /\ i < Len(s))
    BY <1>1, <1>3
  <2>2. Straight!Answer("remove", i) = ThrownValue /\ Straight!Answer("assign", i) = ThrownValue
    BY <2>1, PlainAnswers
  <2>3. Answer("remove", i) = ThrownValue /\ Answer("assign", i) = ThrownValue
    BY <1>3, ListAnswers
  <2> QED BY <2>2, <2>3
<1>4. CASE f \in 0..(Length - 1)
  <2> SUFFICES ASSUME Sound("remove", i) \/ Sound("assign", i)
               PROVE  /\ Rejoins("remove", i) => Answer("remove", i) = Straight!Answer("remove", i)
                      /\ Rejoins("assign", i) => Answer("assign", i) = Straight!Answer("assign", i)
    BY DEF Sound
  <2>1. Divides(i)
    BY DEF Sound
  <2>2. PICK a, x, c :
            /\ Around(u, a, x, c, f)
            /\ Rejoins("remove", i) => EditedTo("remove", i, a \o c)
            /\ Rejoins("assign", i) => EditedTo("assign", i, a \o (<< New >> \o c))
    BY <1>4, <2>1, ElementsRight
  <2>3. a \in Seq(Int) /\ x \in Int /\ c \in Seq(Int) /\ u = a \o (<< x >> \o c) /\ Len(a) = f /\ New \in Int
    BY <2>2, ListAssumption DEF Around, New
  <2>4. /\ Answer("remove", i) = InOrder(Edited("remove", i))
        /\ Answer("assign", i) = InOrder(Edited("assign", i))
    BY <1>4, ListAnswers
  <2>5. /\ Straight!Answer("remove", i) = Straight!RemoveAt(s, i + 1)
        /\ Straight!Answer("assign", i) = Straight!ReplaceAt(s, i + 1, New)
    BY <1>1, <1>4, PlainAnswers
  <2>6. CASE ~ IsReversed(list)
    <3>1. s = a \o (<< x >> \o c) /\ i = Len(a)
      BY <1>1, <1>2, <2>3, <2>6
    <3>2. /\ Straight!RemoveAt(a \o (<< x >> \o c), Len(a) + 1) = a \o c
          /\ Straight!ReplaceAt(a \o (<< x >> \o c), Len(a) + 1, New) = a \o (<< New >> \o c)
      <4>1. Cut(a, x, c, New)
        BY <2>3, Cuts
      <4> QED BY <4>1 DEF Cut
    <3>3. /\ Straight!RemoveAt(s, i + 1) = a \o c
          /\ Straight!ReplaceAt(s, i + 1, New) = a \o (<< New >> \o c)
      BY <3>1, <3>2
    <3> QED BY <2>2, <2>4, <2>5, <2>6, <3>3 DEF EditedTo
  <2>7. CASE IsReversed(list)
    <3> DEFINE ra == Reverse(a)
               rc == Reverse(c)
    <3>0. Turned(a, x, c) /\ Turned(a, New, c)
      BY <2>3, Turns
    <3>1. s = rc \o (<< x >> \o ra)
      <4>1. s = Reverse(u)
        BY <1>2, <2>7
      <4>2. s = Reverse(a \o (<< x >> \o c))
        BY <2>3, <4>1
      <4> QED BY <3>0, <4>2 DEF Turned
    <3>2. /\ Reverse(a \o c) = rc \o ra /\ Reverse(a \o (<< New >> \o c)) = rc \o (<< New >> \o ra)
          /\ ra \in Seq(Int) /\ rc \in Seq(Int) /\ Len(rc) = Len(c)
      BY <3>0 DEF Turned
    <3>3. i = Len(rc)
      <4>1. Len(u) = (Len(a) + 1) + Len(c) /\ Len(a) \in Nat /\ Len(c) \in Nat
        <5>1. Cut(a, x, c, New)
          BY <2>3, Cuts
        <5>2. Len(u) = Len(a \o (<< x >> \o c))
          BY <2>3
        <5> HIDE DEF u
        <5> QED BY <5>1, <5>2 DEF Cut
      <4>2. f = (Length - 1) - i
        BY <1>1, <2>7
      <4> DEFINE n == Length
                 y == Len(a)
                 z == Len(c)
      <4>3. n = (y + 1) + z /\ y \in Nat /\ z \in Nat /\ y = (n - 1) - i
        BY <1>1, <2>3, <4>1, <4>2
      <4> HIDE DEF n, y, z
      <4>4. i = z
        BY ONLY <4>3
      <4> QED BY <3>2, <4>4 DEF z
    <3> HIDE DEF ra, rc
    <3>4. /\ Straight!RemoveAt(rc \o (<< x >> \o ra), Len(rc) + 1) = rc \o ra
          /\ Straight!ReplaceAt(rc \o (<< x >> \o ra), Len(rc) + 1, New) = rc \o (<< New >> \o ra)
      <4>1. ra \in Seq(Int) /\ rc \in Seq(Int)
        BY <3>2
      <4>2. Cut(rc, x, ra, New)
        BY <2>3, <4>1, Cuts
      <4> QED BY <4>2 DEF Cut
    <3>5. /\ Straight!RemoveAt(s, i + 1) = rc \o ra
          /\ Straight!ReplaceAt(s, i + 1, New) = rc \o (<< New >> \o ra)
      BY <3>1, <3>3, <3>4
    <3> QED BY <2>2, <2>4, <2>5, <2>7, <3>2, <3>5 DEF EditedTo
  <2> QED BY <2>6, <2>7
<1> QED BY <1>3, <1>4

LEMMA AnswersAll ==
  ASSUME ListInv, Straightforward
  PROVE  AnswersAsPlainList
<1> SUFFICES ASSUME NEW call \in Straight!Calls, NEW i \in -1..(Length + 1), Sound(call, i)
             PROVE  Answer(call, i) = Straight!Answer(call, i)
  BY DEF AnswersAsPlainList
<1>1. i \in Int
  <2>1. Length \in Nat
    BY LengthIs
  <2> QED BY <2>1
<1>2. call \in {"size", "items", "head", "tail", "lookup", "remove", "assign", "before", "after", "insert"}
  BY DEF Straight!Calls, Straight!Whole, Straight!Ends, Straight!Elements, Straight!Gaps
<1>3. CASE call = "size"
  BY <1>1, <1>3, AnswersSize
<1>4. CASE call = "items"
  BY <1>1, <1>4, AnswersItems
<1>5. CASE call \in {"head", "tail"}
  BY <1>1, <1>5, AnswersEnds
<1>6. CASE call = "lookup"
  BY <1>1, <1>6, AnswersLookup
<1>7. CASE call \in {"before", "after"}
  BY <1>1, <1>7, AnswersBefore
<1>8. CASE call = "insert"
  BY <1>1, <1>8, AnswersInsert
<1>9. CASE call \in {"remove", "assign"}
  BY <1>1, <1>9, AnswersElements
<1> QED BY <1>2, <1>3, <1>4, <1>5, <1>6, <1>7, <1>8, <1>9

(* Every call that is only looked at answers what a plain sequence would,   *)
(* in every list the program can come to: looking up, dividing, inserting,  *)
(* removing and assigning (lists.c:294-345).  Left out are the calls the    *)
(* code does not carry through (Troubles).                                  *)
THEOREM ListAnswersAsPlainList ==
  ASSUME ListReaches \cap Troubles = {}
  PROVE  ListSpec => []AnswersAsPlainList
<1>1. "full chunk" \notin ListReaches /\ Straightforward
  BY DEF Troubles, Straightforward
<1>2. ListInv => AnswersAsPlainList
  BY <1>1, AnswersAll
<1>3. ListSpec => []ListInv
  BY <1>1, ListInvariant
<1> QED BY <1>2, <1>3, PTL

=============================================================================
