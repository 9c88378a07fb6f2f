---------------------------- MODULE Memory_proofs ----------------------------
(* The blocks and pages of the allocator, for any number of threads, pages  *)
(* and zones, any size of a page and any requests: no two blocks overlap,   *)
(* each block's page tells its zone and its size, and zone_destroy gives back *)
(* every page that holds blocks of its zone.  At the end the zones and the  *)
(* collector side by side (MCMemory): what is proved of each of them holds  *)
(* of the two together.                                                     *)
EXTENDS MCMemory, Closure_proofs, SequenceTheorems, TLAPS

Locked == {"find", "grow", "bump", "large", "enter", "unlock"}
Destroying == {"groups", "index", "overflows"}
Places == {"idle", "lock"} \cup Locked \cup Destroying

(* What the pages hold.                                                     *)
Links == {NULL} \cup Pages
DataPages == [kind : {"data"}, head : Pages]
ZonePages ==
    [kind : {"zone"}, lock : Threads \cup {NoThread}, large_blocks : Seq(Pages),
     overflow : Links, small_blocks : [GroupSizes -> Links]]
GroupPages ==
    [kind : {"group"}, owner : Pages, element_size : 1..(Threshold - 1),
     available : 0..Capacity, previous : Links]
OverflowPages ==
    [kind : {"overflow"}, owner : Pages, available : 0..Capacity,
     previous : Links, entries : Seq(Pages)]
LargePages == [kind : {"large"}, owner : Pages, element_size : Nat]
Contents ==
    {FreePage} \cup DataPages \cup ZonePages \cup GroupPages \cup OverflowPages
    \cup LargePages

Shape ==
    /\ page \in [Pages -> Contents]
    /\ pc \in [Threads -> Places] /\ zone \in [Threads -> Links]
    /\ size \in [Threads -> Nat] /\ cur \in [Threads -> Links]

(* The two indexes of large blocks stay in their pages.                     *)
Counts ==
    \A p \in Pages :
        /\ page[p].kind = "zone" => Len(page[p].large_blocks) <= Midpoint - ZoneStruct
        /\ page[p].kind = "overflow" =>
             Len(page[p].entries) = Capacity - page[p].available

(* A group is the newest of its size when no other one leads to it.         *)
InGroup(t) == /\ cur[t] \in Pages /\ page[cur[t]].kind = "group"
              /\ page[cur[t]].owner = zone[t] /\ page[cur[t]].element_size = size[t]
IsNewest(p) == \A q \in Pages : page[q].kind = "group" => page[q].previous # p

(* What the place a thread has reached says of its zone and its page.       *)
PlaceOK(t) ==
    /\ pc[t] = "idle" => cur[t] = NULL /\ size[t] = 0
    /\ pc[t] # "idle" => zone[t] \in Pages /\ page[zone[t]].kind = "zone"
    /\ pc[t] \in Locked => page[zone[t]].lock = t
    /\ pc[t] = "lock" => size[t] > 0
    /\ pc[t] \in {"find", "grow", "bump"} => size[t] \in 1..(Threshold - 1)
    /\ pc[t] = "grow" => cur[t] = page[zone[t]].small_blocks[size[t]]
    /\ pc[t] = "bump" => InGroup(t) /\ size[t] <= page[cur[t]].available
    /\ pc[t] = "enter" => /\ cur[t] \in Pages /\ page[cur[t]].kind = "large"
                          /\ page[cur[t]].owner = zone[t]
    /\ pc[t] = "groups" /\ cur[t] # NULL => InGroup(t) /\ IsNewest(cur[t])

(* Nobody else is in a zone that is being destroyed.                        *)
AloneOK ==
    \A t, u \in Threads :
        t # u /\ pc[t] \in Destroying /\ pc[u] # "idle" => zone[u] # zone[t]

(* The groups of a zone are chains, one for each size, that zone_destroy    *)
(* takes apart from their newest group on.                                  *)
Unwalked(z, s) ==
    \A t \in Threads : pc[t] \in Destroying /\ zone[t] = z => pc[t] = "groups" /\ size[t] < s
GroupsOK ==
    /\ \A p \in Pages : page[p].kind = "group" /\ page[p].previous # NULL =>
         LET q == page[p].previous
         IN /\ page[q].kind = "group" /\ page[q].owner = page[p].owner
            /\ page[q].element_size = page[p].element_size
            /\ \A r \in Pages : page[r].kind = "group" /\ page[r].previous = q => r = p
    /\ \A z \in Pages, s \in GroupSizes :
         page[z].kind = "zone" /\ Unwalked(z, s) /\ page[z].small_blocks[s] # NULL =>
            LET q == page[z].small_blocks[s]
            IN /\ page[q].kind = "group" /\ page[q].owner = z
               /\ page[q].element_size = s /\ IsNewest(q)

(* A large block has its pages to itself.                                   *)
RunsOK ==
    \A p \in Pages : page[p].kind = "large" =>
        /\ RunOf(p, page[p].element_size) \subseteq Pages
        /\ \A q \in RunOf(p, page[p].element_size) : q # p => page[q] = DataPage(p)

(* The indexes of large blocks that zone_destroy has yet to go through: a   *)
(* zone's own page and its overflow pages are a chain, too, and a block is  *)
(* entered once.                                                            *)
OwnerOf(h) == IF page[h].kind = "zone" THEN h ELSE page[h].owner
EntriesOf(h) ==
    Range(IF page[h].kind = "zone" THEN page[h].large_blocks ELSE page[h].entries)
MoreOf(h) == IF page[h].kind = "zone" THEN page[h].overflow ELSE page[h].previous
IsFirst(live, p) == \A h \in live : MoreOf(h) # p
IndexesOK(live) ==
    /\ \A h \in live :
         /\ page[h].kind \in {"zone", "overflow"}
         /\ \A e \in EntriesOf(h) : page[e].kind = "large" /\ page[e].owner = OwnerOf(h)
         /\ MoreOf(h) # NULL =>
              /\ MoreOf(h) \in live /\ page[MoreOf(h)].kind = "overflow"
              /\ page[MoreOf(h)].owner = OwnerOf(h)
    /\ \A g, h \in live : g # h =>
         /\ EntriesOf(g) \cap EntriesOf(h) = {}
         /\ MoreOf(g) = MoreOf(h) => MoreOf(g) = NULL
    /\ \A z \in Pages : page[z].kind = "zone" =>
         (z \in live <=> \A t \in Threads : pc[t] = "overflows" => zone[t] # z)
    /\ \A t \in Threads :
         /\ pc[t] = "enter" => \A h \in live : cur[t] \notin EntriesOf(h)
         /\ pc[t] = "overflows" /\ cur[t] # NULL =>
              /\ cur[t] \in live /\ page[cur[t]].kind = "overflow"
              /\ page[cur[t]].owner = zone[t] /\ IsFirst(live, cur[t])

(* Where the blocks are.                                                    *)
BlockOK(b) ==
    /\ page[b.zone].kind = "zone" /\ ~BeingDestroyed(b.zone)
    /\ page[b.page].kind \in {"group", "large"}
    /\ page[b.page].owner = b.zone /\ page[b.page].element_size = b.words
    /\ page[b.page].kind = "group" => /\ GroupStruct + page[b.page].available <= b.at
                                      /\ b.at + b.words <= PageWords
    /\ page[b.page].kind = "large" => b.at = LargeStruct
Within(b, c) == b.at + b.words <= c.at \/ c.at + c.words <= b.at
BlocksOK ==
    /\ blocks \subseteq [zone : Pages, page : Pages, at : Nat, words : Nat]
    /\ \A b \in blocks : BlockOK(b)
    /\ \A b, c \in blocks : b # c /\ b.page = c.page => Within(b, c)

IInv ==
    /\ Shape /\ Counts /\ (\A t \in Threads : PlaceOK(t)) /\ AloneOK
    /\ GroupsOK /\ RunsOK /\ BlocksOK
    /\ \E live \in SUBSET Pages : IndexesOK(live)

-----------------------------------------------------------------------------
USE PageAssumption, RequestAssumption, NumPagesAssumption, ThreadsAssumption
USE DEF PageAssumption, RequestAssumption, NumPagesAssumption, ThreadsAssumption,
        NULL, ZoneStruct, GroupStruct, LargeStruct

(* The sizes of the parts of a page.                                        *)
LEMMA Sizes ==
  /\ Midpoint \in Nat /\ Midpoint >= 5 /\ PageWords = 2 * Midpoint
  /\ Capacity = PageWords - 4 /\ Capacity \in Nat
  /\ Threshold = Midpoint - 2 /\ Threshold \in Nat
  /\ 1..(Threshold - 1) \subseteq GroupSizes
  /\ NULL \notin Pages /\ Pages \subseteq Nat
BY DEF Midpoint, Capacity, Threshold, GroupSizes, Pages

(* The kind of a page says what is in it.                                   *)
LEMMA PageKinds ==
  ASSUME Shape, NEW p \in Pages
  PROVE  /\ page[p] \in Contents
         /\ page[p].kind = "free" <=> page[p] = FreePage
         /\ page[p].kind = "data" <=> page[p] \in DataPages
         /\ page[p].kind = "zone" <=> page[p] \in ZonePages
         /\ page[p].kind = "group" <=> page[p] \in GroupPages
         /\ page[p].kind = "overflow" <=> page[p] \in OverflowPages
         /\ page[p].kind = "large" <=> page[p] \in LargePages
BY DEF Shape, Contents, FreePage, DataPages, ZonePages, GroupPages, OverflowPages,
       LargePages
-----------------------------------------------------------------------------
(* What each part of the invariant depends on.                              *)
LEMMA KeepsRuns ==
  ASSUME RunsOK,
         \A p \in Pages : /\ page[p].kind \in {"large", "data"} => page'[p] = page[p]
                          /\ page'[p].kind = "large" => page[p].kind = "large"
  PROVE  RunsOK'
<1> SUFFICES ASSUME NEW p \in Pages, page'[p].kind = "large"
             PROVE  /\ RunOf(p, page'[p].element_size) \subseteq Pages
                    /\ \A q \in RunOf(p, page'[p].element_size) :
                         q # p => page'[q] = DataPage(p)
  BY DEF RunsOK, Pages, RunOf, RunLength
<1>1. page[p].kind = "large" /\ page'[p] = page[p]
  OBVIOUS
<1>2. RunOf(p, page[p].element_size) \subseteq Pages
  BY <1>1 DEF RunsOK
<1>3. \A q \in RunOf(p, page[p].element_size) : q # p => page[q] = DataPage(p)
  BY <1>1 DEF RunsOK
<1>4. DataPage(p).kind = "data"
  BY DEF DataPage
<1> QED BY <1>1, <1>2, <1>3, <1>4

SameGroup(p) == /\ page'[p].kind = page[p].kind /\ page'[p].owner = page[p].owner
                /\ page'[p].element_size = page[p].element_size
                /\ page'[p].previous = page[p].previous
SameSmallBlocks(z) == \/ /\ page[z].kind = "zone"
                         /\ page'[z].small_blocks = page[z].small_blocks
                      \/ page'[z] = ZonePage
LEMMA KeepsGroups ==
  ASSUME Shape, Shape', GroupsOK,
         \A p \in Pages : page[p].kind = "group" => SameGroup(p),
         \A p \in Pages : page'[p].kind = "group" => page[p].kind = "group",
         \A z \in Pages : page'[z].kind = "zone" =>
            /\ SameSmallBlocks(z)
            /\ \A s \in GroupSizes : Unwalked(z, s)' => Unwalked(z, s)
  PROVE  GroupsOK'
<1>1. \A q : IsNewest(q) => IsNewest(q)'
  BY DEF IsNewest, SameGroup
<1>2. \A p \in Pages : page[p].kind = "group" => page[p].previous \in Links
  BY PageKinds DEF GroupPages
<1>3. ASSUME NEW p \in Pages, page'[p].kind = "group", page'[p].previous # NULL
      PROVE  /\ page'[page'[p].previous].kind = "group"
             /\ page'[page'[p].previous].owner = page'[p].owner
             /\ page'[page'[p].previous].element_size = page'[p].element_size
             /\ \A r \in Pages : page'[r].kind = "group"
                                 /\ page'[r].previous = page'[p].previous => r = p
  <2>1. page[p].kind = "group" /\ SameGroup(p) /\ page[p].previous \in Pages
    BY <1>2, <1>3 DEF SameGroup, Links
  <2>2. PICK q \in Pages : q = page[p].previous
    BY <2>1
  <2>3. /\ page[q].kind = "group" /\ page[q].owner = page[p].owner
        /\ page[q].element_size = page[p].element_size
        /\ \A r \in Pages : page[r].kind = "group" /\ page[r].previous = q => r = p
    BY <1>3, <2>1, <2>2 DEF GroupsOK, SameGroup
  <2> QED BY <2>1, <2>2, <2>3 DEF SameGroup
<1>4. ASSUME NEW z \in Pages, NEW s \in GroupSizes, page'[z].kind = "zone",
             Unwalked(z, s)', page'[z].small_blocks[s] # NULL
      PROVE  /\ page'[page'[z].small_blocks[s]].kind = "group"
             /\ page'[page'[z].small_blocks[s]].owner = z
             /\ page'[page'[z].small_blocks[s]].element_size = s
             /\ \A r \in Pages : page'[r].kind = "group" =>
                  page'[r].previous # page'[z].small_blocks[s]
  <2>1. page[z].kind = "zone" /\ page'[z].small_blocks = page[z].small_blocks
    BY <1>4 DEF SameSmallBlocks, ZonePage
  <2>2. PICK q \in Links : q = page[z].small_blocks[s]
    BY <2>1, PageKinds DEF ZonePages
  <2>3. /\ page[q].kind = "group" /\ page[q].owner = z
        /\ page[q].element_size = s /\ IsNewest(q) /\ q \in Pages
    BY <1>4, <2>1, <2>2 DEF GroupsOK, Links
  <2>4. /\ page'[q].kind = "group" /\ page'[q].owner = z
        /\ page'[q].element_size = s
    BY <2>3 DEF SameGroup
  <2>5. \A r \in Pages : page'[r].kind = "group" => page'[r].previous # q
    BY <1>1, <2>3 DEF IsNewest
  <2> QED BY <2>1, <2>2, <2>4, <2>5
<1> QED BY <1>3, <1>4 DEF GroupsOK, IsNewest, Pages, GroupSizes, Midpoint

SameIndex(h) == /\ OwnerOf(h)' = OwnerOf(h) /\ EntriesOf(h)' = EntriesOf(h)
                /\ MoreOf(h)' = MoreOf(h)
LEMMA KeepsIndexes ==
  ASSUME Shape, NEW live \in SUBSET Pages, IndexesOK(live),
         \A p \in Pages :
            /\ page[p].kind \in {"zone", "overflow", "large"} => page'[p].kind = page[p].kind
            /\ page'[p].kind \in {"zone", "overflow"} => page'[p].kind = page[p].kind
            /\ page[p].kind \in {"zone", "overflow"} => SameIndex(p)
            /\ page[p].kind \in {"overflow", "large"} => page'[p].owner = page[p].owner,
         \A t \in Threads :
            /\ pc'[t] = "overflows" <=> pc[t] = "overflows"
            /\ pc'[t] = "overflows" => zone'[t] = zone[t]
            /\ pc'[t] = "overflows" => cur'[t] = cur[t]
            /\ pc'[t] = "enter" => \/ pc[t] = "enter" /\ cur'[t] = cur[t]
                                   \/ page[cur'[t]].kind # "large"
  PROVE  IndexesOK(live)'
<1>1. \A h \in live : page[h].kind \in {"zone", "overflow"} /\ SameIndex(h) /\ h \in Pages
  BY DEF IndexesOK
<1>2. \A h \in live : page'[h].kind = page[h].kind
  BY <1>1
<1>3. \A h \in live : EntriesOf(h) \subseteq Pages /\ MoreOf(h) \in Links
  <2> SUFFICES ASSUME NEW h \in live
               PROVE  EntriesOf(h) \subseteq Pages /\ MoreOf(h) \in Links
    OBVIOUS
  <2>1. CASE page[h].kind = "zone"
    BY <2>1, PageKinds DEF ZonePages, EntriesOf, MoreOf, Range
  <2>2. CASE page[h].kind = "overflow"
    BY <2>2, PageKinds DEF OverflowPages, EntriesOf, MoreOf, Range
  <2> QED BY <1>1, <2>1, <2>2
<1>4. \A h \in live :
        /\ \A e \in EntriesOf(h)' : page'[e].kind = "large" /\ page'[e].owner = OwnerOf(h)'
        /\ MoreOf(h)' # NULL =>
              /\ MoreOf(h)' \in live /\ page'[MoreOf(h)'].kind = "overflow"
              /\ page'[MoreOf(h)'].owner = OwnerOf(h)'
  <2> SUFFICES ASSUME NEW h \in live
               PROVE  /\ \A e \in EntriesOf(h) :
                           page'[e].kind = "large" /\ page'[e].owner = OwnerOf(h)
                      /\ MoreOf(h) # NULL =>
                           /\ MoreOf(h) \in live /\ page'[MoreOf(h)].kind = "overflow"
                           /\ page'[MoreOf(h)].owner = OwnerOf(h)
    BY <1>1 DEF SameIndex
  <2>1. \A e \in EntriesOf(h) : page[e].kind = "large" /\ page[e].owner = OwnerOf(h)
    BY DEF IndexesOK
  <2>2. MoreOf(h) # NULL =>
          /\ MoreOf(h) \in live /\ page[MoreOf(h)].kind = "overflow"
          /\ page[MoreOf(h)].owner = OwnerOf(h)
    BY DEF IndexesOK
  <2> QED BY <1>1, <1>3, <2>1, <2>2
<1>5. \A g, h \in live : g # h =>
        /\ EntriesOf(g)' \cap EntriesOf(h)' = {}
        /\ MoreOf(g)' = MoreOf(h)' => MoreOf(g)' = NULL
  BY <1>1 DEF SameIndex, IndexesOK
<1>6. \A z \in Pages : page'[z].kind = "zone" =>
         (z \in live <=> \A t \in Threads : pc'[t] = "overflows" => zone'[t] # z)
  BY DEF IndexesOK
<1>7. \A t \in Threads :
         /\ pc'[t] = "enter" => \A h \in live : cur'[t] \notin EntriesOf(h)'
         /\ pc'[t] = "overflows" /\ cur'[t] # NULL =>
              /\ cur'[t] \in live /\ page'[cur'[t]].kind = "overflow"
              /\ page'[cur'[t]].owner = zone'[t]
              /\ \A h \in live : MoreOf(h)' # cur'[t]
  <2> SUFFICES ASSUME NEW t \in Threads
               PROVE  /\ pc'[t] = "enter" => \A h \in live : cur'[t] \notin EntriesOf(h)'
                      /\ pc'[t] = "overflows" /\ cur'[t] # NULL =>
                           /\ cur'[t] \in live /\ page'[cur'[t]].kind = "overflow"
                           /\ page'[cur'[t]].owner = zone'[t]
                           /\ \A h \in live : MoreOf(h)' # cur'[t]
    OBVIOUS
  <2>1. pc[t] = "enter" => \A h \in live : cur[t] \notin EntriesOf(h)
    BY DEF IndexesOK
  <2>2. pc[t] = "overflows" /\ cur[t] # NULL =>
              /\ cur[t] \in live /\ page[cur[t]].kind = "overflow"
              /\ page[cur[t]].owner = zone[t] /\ IsFirst(live, cur[t])
    BY DEF IndexesOK
  <2>3. \A h \in live : \A e \in EntriesOf(h) : page[e].kind = "large"
    BY DEF IndexesOK
  <2> QED BY <1>1, <2>1, <2>2, <2>3 DEF SameIndex, IsFirst
<1> QED BY <1>1, <1>2, <1>4, <1>5, <1>6, <1>7 DEF IndexesOK, IsFirst, Pages
LEMMA KeepsBlocks ==
  ASSUME BlocksOK, blocks' \subseteq blocks,
         \A b \in blocks' : /\ page'[b.zone].kind = "zone" /\ ~BeingDestroyed(b.zone)'
                            /\ page'[b.page] = page[b.page]
  PROVE  BlocksOK'
<1>1. \A b \in blocks' : BlockOK(b)'
  BY DEF BlocksOK, BlockOK, BeingDestroyed, Capacity, Threshold
<1> QED BY <1>1 DEF BlocksOK, Within, Pages

(* What a thread's own place depends on.                                    *)
Undisturbed(u) ==
    /\ pc'[u] = pc[u] /\ zone'[u] = zone[u] /\ size'[u] = size[u] /\ cur'[u] = cur[u]
    /\ pc[u] # "idle" => page'[zone[u]].kind = "zone"
    /\ pc[u] \in Locked =>
         /\ page'[zone[u]].lock = page[zone[u]].lock
         /\ page'[zone[u]].small_blocks = page[zone[u]].small_blocks
    /\ pc[u] \in {"bump", "enter"} => page'[cur[u]] = page[cur[u]]
    /\ pc[u] = "groups" /\ cur[u] # NULL =>
         /\ page'[cur[u]] = page[cur[u]]
         /\ \A q \in Pages : page'[q].kind = "group" => page'[q].previous # cur[u]

LEMMA KeepsPlace ==
  ASSUME NEW u \in Threads, PlaceOK(u), Undisturbed(u)
  PROVE  PlaceOK(u)'
BY Sizes DEF PlaceOK, Undisturbed, InGroup, IsNewest, Pages, Locked, Threshold

(* The lock of a zone is one thread's.                                      *)
LEMMA LockIsMine ==
  ASSUME \A t \in Threads : PlaceOK(t), NEW t \in Threads, NEW u \in Threads, t # u,
         \/ pc[t] \in Locked
         \/ pc[t] = "lock" /\ page[zone[t]].lock = NoThread,
         pc[u] \in Locked
  PROVE  zone[u] # zone[t]
<1>1. page[zone[u]].lock = u
  BY DEF PlaceOK
<1>2. page[zone[t]].lock # u
  BY DEF PlaceOK
<1> QED BY <1>1, <1>2

(* A thread in zone_alloc writes the page of its zone and pages nobody else *)
(* is at.                                                                   *)
Writes(t) ==
    /\ pc[t] \in Locked \/ (pc[t] = "lock" /\ page[zone[t]].lock = NoThread)
    /\ page'[zone[t]].kind = "zone"
    /\ \A p \in Pages : p # zone[t] => \/ page'[p] = page[p]
                                       \/ page[p].kind \in {"free", "overflow"}
                                       \/ pc[t] = "bump" /\ p = cur[t]
    /\ \A p \in Pages : page'[p].kind = "group" =>
         \/ page[p].kind = "group" /\ page'[p].previous = page[p].previous
         \/ page'[p].previous = NULL
         \/ page[page'[p].previous].owner = zone[t]
OwnLocals(t) ==
    \A u \in Threads : u # t => /\ pc'[u] = pc[u] /\ zone'[u] = zone[u]
                                /\ size'[u] = size[u] /\ cur'[u] = cur[u]

LEMMA WritesDisturbNobody ==
  ASSUME \A u \in Threads : PlaceOK(u), AloneOK,
         NEW t \in Threads, Writes(t), OwnLocals(t), NEW u \in Threads, u # t
  PROVE  PlaceOK(u)'
<1>1. pc[u] # "idle" => zone[u] \in Pages /\ page[zone[u]].kind = "zone"
  BY DEF PlaceOK
<1>2. zone[t] \in Pages /\ page[zone[t]].kind = "zone"
      /\ (pc[t] = "bump" => InGroup(t))
  BY DEF PlaceOK, Writes, Locked
<1>3. pc[u] \in Locked => zone[u] # zone[t]
  BY LockIsMine DEF Writes
<1>4. pc[u] = "groups" => zone[u] # zone[t]
  BY DEF AloneOK, Destroying, Writes, Locked
<1>5. pc[u] # "idle" => page'[zone[u]].kind = "zone"
  BY <1>1, <1>2 DEF Writes, InGroup
<1>6. pc[u] \in Locked => page'[zone[u]] = page[zone[u]]
  BY <1>1, <1>2, <1>3 DEF Writes, InGroup, Locked
<1>7. pc[u] = "bump" => page'[cur[u]] = page[cur[u]]
  <2>1. pc[u] = "bump" => InGroup(u) /\ pc[u] \in Locked
    BY DEF PlaceOK, Locked
  <2> QED BY <1>2, <1>3, <2>1 DEF Writes, InGroup
<1>8. pc[u] = "enter" => page'[cur[u]] = page[cur[u]]
  <2>1. pc[u] = "enter" => cur[u] \in Pages /\ page[cur[u]].kind = "large"
    BY DEF PlaceOK
  <2> QED BY <1>2, <2>1 DEF Writes, InGroup
<1>9. ASSUME pc[u] = "groups", cur[u] # NULL
      PROVE  /\ page'[cur[u]] = page[cur[u]]
             /\ \A q \in Pages : page'[q].kind = "group" => page'[q].previous # cur[u]
  <2>1. InGroup(u) /\ IsNewest(cur[u])
    BY <1>9 DEF PlaceOK
  <2> QED BY <1>2, <1>4, <1>9, <2>1 DEF Writes, InGroup, IsNewest
<1>10. Undisturbed(u)
  BY <1>5, <1>6, <1>7, <1>8, <1>9 DEF Undisturbed, OwnLocals
<1> QED BY <1>10, KeepsPlace

(* A thread in zone_destroy frees pages of its zone.                        *)
Frees(t) ==
    /\ pc[t] \in Destroying
    /\ \A p \in Pages : \/ page'[p] = page[p]
                        \/ /\ page'[p] = FreePage
                           /\ \/ p = zone[t]
                              \/ page[p].kind = "data"
                              \/ /\ page[p].kind \in {"group", "large"}
                                 /\ page[p].owner = zone[t]

LEMMA FreesDisturbNobody ==
  ASSUME \A u \in Threads : PlaceOK(u), AloneOK,
         NEW t \in Threads, Frees(t), OwnLocals(t), NEW u \in Threads, u # t
  PROVE  PlaceOK(u)'
<1>1. pc[u] # "idle" => /\ zone[u] \in Pages /\ page[zone[u]].kind = "zone"
                        /\ zone[u] # zone[t]
  BY DEF PlaceOK, AloneOK, Frees
<1>2. pc[u] # "idle" => page'[zone[u]] = page[zone[u]]
  BY <1>1 DEF Frees
<1>3. zone[t] \in Pages /\ page[zone[t]].kind = "zone"
  BY DEF PlaceOK, Frees, Destroying
<1>4. pc[u] = "bump" => page'[cur[u]] = page[cur[u]]
  <2>1. pc[u] = "bump" => InGroup(u)
    BY DEF PlaceOK
  <2> QED BY <1>1, <1>3, <2>1 DEF Frees, InGroup
<1>5. pc[u] = "enter" => page'[cur[u]] = page[cur[u]]
  <2>1. pc[u] = "enter" =>
          cur[u] \in Pages /\ page[cur[u]].kind = "large" /\ page[cur[u]].owner = zone[u]
    BY DEF PlaceOK
  <2> QED BY <1>1, <1>3, <2>1 DEF Frees
<1>6. ASSUME pc[u] = "groups", cur[u] # NULL
      PROVE  /\ page'[cur[u]] = page[cur[u]]
             /\ \A q \in Pages : page'[q].kind = "group" => page'[q].previous # cur[u]
  <2>1. InGroup(u) /\ IsNewest(cur[u])
    BY <1>6 DEF PlaceOK
  <2>2. FreePage.kind = "free"
    BY DEF FreePage
  <2> QED BY <1>1, <1>3, <1>6, <2>1, <2>2 DEF Frees, InGroup, IsNewest
<1>7. Undisturbed(u)
  BY <1>1, <1>2, <1>4, <1>5, <1>6 DEF Undisturbed, OwnLocals, Locked
<1> QED BY <1>7, KeepsPlace

(* A step that writes no page, or makes a zone of a free one.               *)
LEMMA OthersUndisturbed ==
  ASSUME \A u \in Threads : PlaceOK(u),
         NEW t \in Threads, OwnLocals(t), NEW u \in Threads, u # t,
         \A p \in Pages : \/ page'[p] = page[p]
                          \/ page[p].kind = "free" /\ page'[p].kind # "group"
  PROVE  PlaceOK(u)'
<1>1. pc[u] # "idle" => page'[zone[u]] = page[zone[u]] /\ page[zone[u]].kind = "zone"
  BY DEF PlaceOK
<1>2. pc[u] \in {"bump", "enter"} \/ (pc[u] = "groups" /\ cur[u] # NULL)
        => page'[cur[u]] = page[cur[u]]
  BY DEF PlaceOK, InGroup
<1>3. pc[u] = "groups" /\ cur[u] # NULL =>
         \A q \in Pages : page'[q].kind = "group" => page'[q].previous # cur[u]
  BY DEF PlaceOK, InGroup, IsNewest
<1>4. Undisturbed(u)
  BY <1>1, <1>2, <1>3 DEF Undisturbed, OwnLocals, Locked
<1> QED BY <1>4, KeepsPlace
-----------------------------------------------------------------------------
(* Steps that write no page.                                                *)
LEMMA NaturalQuotient ==
  ASSUME NEW m \in Nat, NEW r \in Nat \ {0}
  PROVE  /\ m \div r \in Nat
         /\ (m \div r) * r <= m
         /\ m < (m \div r + 1) * r
<1> DEFINE q == m \div r
<1>1. q \in Nat /\ m = r * q + (m % r) /\ 0 <= m % r /\ m % r < r
  BY SMT
<1> HIDE DEF q
<1>2. q * r = r * q /\ (q + 1) * r = r * q + r
  BY <1>1, SMT
<1>3. q * r <= m /\ m < (q + 1) * r
  BY <1>1, <1>2, SMT
<1> QED BY <1>1, <1>3 DEF q

LEMMA Rounded ==
  ASSUME NEW n \in RequestBytes, n > 0
  PROVE  RoundUp(n) \in Nat /\ RoundUp(n) > 0
<1> DEFINE m == n + WordBytes - 1
           q == m \div WordBytes
<1>1. m \in Nat /\ m >= WordBytes
  OBVIOUS
<1>2. q \in Nat /\ m < (q + 1) * WordBytes
  BY <1>1, NaturalQuotient
<1> HIDE DEF q
<1>3. q # 0
  BY <1>1, <1>2
<1> QED BY <1>2, <1>3 DEF RoundUp, q

(* What such a step keeps whatever it does with its own locals.             *)
LEMMA PagesStand ==
  ASSUME Shape, Shape', Counts, RunsOK, page' = page
  PROVE  Counts' /\ RunsOK'
<1>1. Counts'
  BY DEF Counts, Pages, Midpoint, Capacity
<1>2. RunsOK'
  BY KeepsRuns
<1> QED BY <1>1, <1>2

LEMMA SameIndexes == ASSUME page' = page PROVE \A h : SameIndex(h)
BY DEF SameIndex, OwnerOf, EntriesOf, MoreOf

LEMMA CallStep == ASSUME IInv, NEW t \in Threads, Call(t) PROVE IInv'
<1> USE DEF IInv
<1>1. PICK z \in ZonesAlive, n \in RequestBytes :
         /\ n > 0 /\ ~BeingDestroyed(z)
         /\ zone' = [zone EXCEPT ![t] = z]
         /\ size' = [size EXCEPT ![t] = RoundUp(n)]
  BY DEF Call
<1>2. /\ pc[t] = "idle" /\ pc' = [pc EXCEPT ![t] = "lock"]
      /\ page' = page /\ blocks' = blocks /\ cur' = cur
      /\ z \in Pages /\ page[z].kind = "zone"
  BY DEF Call, Goto, ZonesAlive
<1>3. /\ pc'[t] = "lock" /\ zone'[t] = z /\ size'[t] = RoundUp(n) /\ OwnLocals(t)
      /\ RoundUp(n) \in Nat /\ RoundUp(n) > 0
  BY <1>1, <1>2, Rounded DEF Shape, OwnLocals
<1>4. Shape'
  BY <1>1, <1>2, <1>3 DEF Shape, Links, Places
<1>5. Counts' /\ RunsOK'
  BY <1>2, <1>4, PagesStand
<1>6. \A u \in Threads : PlaceOK(u)'
  <2>1. PlaceOK(t)'
    BY <1>2, <1>3 DEF PlaceOK, Locked
  <2> QED BY <1>2, <1>3, <2>1, OthersUndisturbed
<1>7. AloneOK'
  BY <1>1, <1>2, <1>3 DEF AloneOK, OwnLocals, BeingDestroyed, Destroying
<1>8. GroupsOK'
  BY <1>2, <1>3, <1>4, KeepsGroups
  DEF SameGroup, SameSmallBlocks, Unwalked, OwnLocals, Destroying
<1>9. BlocksOK'
  BY <1>2, <1>3, KeepsBlocks DEF BlocksOK, BlockOK, BeingDestroyed, OwnLocals
<1>10. \E live \in SUBSET Pages' : IndexesOK(live)'
  <2>1. PICK live \in SUBSET Pages : IndexesOK(live)
    OBVIOUS
  <2>2. IndexesOK(live)'
    BY <1>2, <1>3, <2>1, SameIndexes, KeepsIndexes DEF OwnLocals
  <2> QED BY <2>2 DEF Pages
<1> QED BY <1>4, <1>5, <1>6, <1>7, <1>8, <1>9, <1>10

LEMMA FindStep == ASSUME IInv, NEW t \in Threads, Find(t) PROVE IInv'
<1> USE DEF IInv
<1>1. PICK group : /\ group = page[zone[t]].small_blocks[size[t]]
                   /\ cur' = [cur EXCEPT ![t] = group]
                   /\ pc' = [pc EXCEPT ![t] =
                        IF group = NULL \/ page[group].available < size[t]
                          THEN "grow" ELSE "bump"]
  BY DEF Find, Goto
<1>2. /\ pc[t] = "find" /\ page' = page /\ blocks' = blocks
      /\ zone' = zone /\ size' = size
  BY DEF Find
<1>3. /\ zone[t] \in Pages /\ page[zone[t]].kind = "zone" /\ page[zone[t]].lock = t
      /\ size[t] \in 1..(Threshold - 1) /\ size[t] \in GroupSizes
  BY <1>2, Sizes DEF PlaceOK, Locked
<1>4. group \in Links
  BY <1>1, <1>3, PageKinds DEF ZonePages
<1>5. /\ OwnLocals(t) /\ cur'[t] = group /\ pc'[t] \in {"grow", "bump"}
      /\ pc'[t] = "bump" => group # NULL /\ ~ page[group].available < size[t]
  BY <1>1, <1>2, <1>4 DEF Shape, OwnLocals
<1>6. Shape'
  BY <1>1, <1>2, <1>4, <1>5 DEF Shape, Places, Locked
<1>7. Counts' /\ RunsOK'
  BY <1>2, <1>6, PagesStand
<1>8. \A u \in Threads : PlaceOK(u)'
  <2>1. Unwalked(zone[t], size[t])
    BY <1>2, <1>3 DEF Unwalked, AloneOK, Destroying
  <2>2. group # NULL => /\ group \in Pages /\ page[group].kind = "group"
                        /\ page[group].owner = zone[t]
                        /\ page[group].element_size = size[t]
    BY <1>1, <1>3, <1>4, <2>1 DEF GroupsOK, Links
  <2>3. group # NULL => page[group].available \in Nat /\ size[t] \in Nat
    BY <2>2, Sizes, PageKinds DEF GroupPages, Shape
  <2>4. pc'[t] = "bump" => InGroup(t)' /\ size'[t] <= page'[cur'[t]].available
    BY <1>2, <1>5, <2>2, <2>3 DEF InGroup, Pages
  <2>5. size'[t] \in (1..(Threshold - 1))' /\ zone'[t] \in Pages'
    BY <1>2, <1>3 DEF Threshold, Capacity, Pages
  <2>6. PlaceOK(t)'
    BY <1>1, <1>2, <1>3, <1>5, <2>4, <2>5 DEF PlaceOK, Locked
  <2> QED BY <1>2, <1>5, <2>6, OthersUndisturbed
<1>9. AloneOK'
  BY <1>2, <1>5 DEF AloneOK, OwnLocals, Destroying
<1>10. GroupsOK'
  BY <1>2, <1>5, <1>6, KeepsGroups
  DEF SameGroup, SameSmallBlocks, Unwalked, OwnLocals, Destroying
<1>11. BlocksOK'
  BY <1>2, <1>5, KeepsBlocks DEF BlocksOK, BlockOK, BeingDestroyed, OwnLocals
<1>12. \E live \in SUBSET Pages' : IndexesOK(live)'
  <2>1. PICK live \in SUBSET Pages : IndexesOK(live)
    OBVIOUS
  <2>2. IndexesOK(live)'
    BY <1>2, <1>5, <2>1, SameIndexes, KeepsIndexes DEF OwnLocals
  <2> QED BY <2>2 DEF Pages
<1> QED BY <1>6, <1>7, <1>8, <1>9, <1>10, <1>11, <1>12
LEMMA DestroyStep == ASSUME IInv, NEW t \in Threads, Destroy(t) PROVE IInv'
<1> USE DEF IInv
<1>1. PICK z \in ZonesAlive : /\ ~Busy(z) /\ zone' = [zone EXCEPT ![t] = z]
                              /\ blocks' = {b \in blocks : b.zone # z}
  BY DEF Destroy
<1>2. /\ pc[t] = "idle" /\ pc' = [pc EXCEPT ![t] = "groups"]
      /\ page' = page /\ size' = size /\ cur' = cur
      /\ z \in Pages /\ page[z].kind = "zone"
  BY DEF Destroy, Goto, ZonesAlive
<1>3. /\ pc'[t] = "groups" /\ zone'[t] = z /\ OwnLocals(t)
      /\ cur'[t] = NULL /\ size'[t] = 0
  BY <1>1, <1>2 DEF Shape, OwnLocals, PlaceOK
<1>4. Shape'
  BY <1>1, <1>2 DEF Shape, Links, Places, Destroying
<1>5. Counts' /\ RunsOK'
  BY <1>2, <1>4, PagesStand
<1>6. \A u \in Threads : PlaceOK(u)'
  <2>1. PlaceOK(t)'
    BY <1>2, <1>3 DEF PlaceOK, Locked
  <2> QED BY <1>2, <1>3, <2>1, OthersUndisturbed
<1>7. AloneOK'
  BY <1>1, <1>2, <1>3 DEF AloneOK, OwnLocals, Busy, Destroying
<1>8. GroupsOK'
  BY <1>2, <1>3, <1>4, KeepsGroups
  DEF SameGroup, SameSmallBlocks, Unwalked, OwnLocals, Destroying
<1>9. BlocksOK'
  BY <1>1, <1>2, <1>3, KeepsBlocks DEF BlocksOK, BlockOK, BeingDestroyed, OwnLocals
<1>10. \E live \in SUBSET Pages' : IndexesOK(live)'
  <2>1. PICK live \in SUBSET Pages : IndexesOK(live)
    OBVIOUS
  <2>2. IndexesOK(live)'
    BY <1>2, <1>3, <2>1, SameIndexes, KeepsIndexes DEF OwnLocals
  <2> QED BY <2>2 DEF Pages
<1> QED BY <1>4, <1>5, <1>6, <1>7, <1>8, <1>9, <1>10

LEMMA LeastNatural ==
  ASSUME NEW S \in SUBSET Nat, S # {}
  PROVE  Min(S) \in S /\ \A r \in S : Min(S) <= r
BY LeastElement DEF Min

LEMMA NextSizeStep ==
  ASSUME IInv, NEW t \in Threads, NextSize(t) PROVE IInv'
<1> USE DEF IInv
<1> DEFINE z == zone[t]
           used == {s \in GroupSizes : s > size[t] /\ page[z].small_blocks[s] # NULL}
<1>1. /\ pc[t] = "groups" /\ cur[t] = NULL /\ page' = page /\ blocks' = blocks
      /\ zone' = zone /\ z \in Pages /\ page[z].kind = "zone"
  BY DEF NextSize, PlaceOK
<1>2. /\ size'[t] = size[t] /\ cur'[t] = NULL /\ pc'[t] = "index" /\ OwnLocals(t) /\ Shape'
      \/ \E s \in used : /\ size'[t] = s /\ cur'[t] = page[z].small_blocks[s]
                         /\ \A r \in used : s <= r
                         /\ pc'[t] = "groups" /\ OwnLocals(t) /\ Shape'
  <2>1. CASE used = {}
    BY <1>1, <2>1 DEF NextSize, Goto, Shape, OwnLocals, Places, Destroying
  <2>2. CASE used # {}
    <3>1. Min(used) \in used /\ \A r \in used : Min(used) <= r
      <4>1. used \subseteq Nat
        BY DEF GroupSizes, Midpoint
      <4> HIDE DEF used
      <4> QED BY <2>2, <4>1, LeastNatural
    <3>2. PICK s \in used : s = Min(used)
      BY <3>1
    <3>3. /\ size' = [size EXCEPT ![t] = s] /\ pc' = pc
          /\ cur' = [cur EXCEPT ![t] = page[z].small_blocks[s]]
      BY <2>2, <3>2 DEF NextSize
    <3>4. s \in Nat /\ page[z].small_blocks[s] \in Links
      BY <1>1, PageKinds DEF GroupSizes, Midpoint, ZonePages
    <3> HIDE DEF used
    <3>5. OwnLocals(t) /\ Shape'
      BY <1>1, <3>3, <3>4 DEF Shape, OwnLocals
    <3> QED BY <1>1, <3>1, <3>2, <3>3, <3>5 DEF Shape
  <2> QED BY <2>1, <2>2
<1>3. OwnLocals(t) /\ Shape' /\ pc'[t] \in {"index", "groups"} /\ size'[t] >= size[t]
  BY <1>2 DEF GroupSizes, Midpoint, Shape
<1>4. Counts' /\ RunsOK'
  BY <1>1, <1>3, PagesStand
<1>5. \A u \in Threads : PlaceOK(u)'
  <2>1. PlaceOK(t)'
    <3>1. CASE pc'[t] = "index"
      BY <1>1, <3>1 DEF PlaceOK, Locked
    <3>2. CASE pc'[t] = "groups"
      <4>1. PICK s \in used : size'[t] = s /\ cur'[t] = page[z].small_blocks[s]
        BY <1>2, <3>2
      <4>2. Unwalked(z, s)
        BY <1>1, <4>1 DEF Unwalked, AloneOK, Destroying
      <4>3. PICK q : q = page[z].small_blocks[s]
        OBVIOUS
      <4>4. q # NULL /\ q \in Links
        BY <1>1, <4>1, <4>3, PageKinds DEF ZonePages
      <4>5. /\ page[q].kind = "group" /\ page[q].owner = z
            /\ page[q].element_size = s /\ IsNewest(q) /\ q \in Pages
        BY <1>1, <4>2, <4>3, <4>4 DEF GroupsOK, Links
      <4>6. InGroup(t)' /\ IsNewest(cur[t])'
        BY <1>1, <4>1, <4>3, <4>5 DEF InGroup, IsNewest, Pages
      <4> QED BY <1>1, <3>2, <4>6 DEF PlaceOK, Locked
    <3> QED BY <1>3, <3>1, <3>2
  <2> QED BY <1>1, <1>3, <2>1, OthersUndisturbed
<1>6. AloneOK'
  BY <1>1, <1>3 DEF AloneOK, OwnLocals, Destroying
<1>7. GroupsOK'
  <2>1. ASSUME NEW y \in Pages, NEW s \in GroupSizes, Unwalked(y, s)'
        PROVE  Unwalked(y, s)
    BY <1>1, <1>3, <2>1 DEF Unwalked, OwnLocals, Destroying, Shape, GroupSizes, Midpoint
  <2> QED BY <1>1, <1>3, <2>1, KeepsGroups DEF SameGroup, SameSmallBlocks
<1>8. BlocksOK'
  BY <1>1, <1>3, KeepsBlocks
  DEF BlocksOK, BlockOK, BeingDestroyed, OwnLocals
<1>9. \E live \in SUBSET Pages' : IndexesOK(live)'
  <2>1. PICK live \in SUBSET Pages : IndexesOK(live)
    OBVIOUS
  <2>2. IndexesOK(live)'
    BY <1>1, <1>3, <2>1, SameIndexes, KeepsIndexes DEF OwnLocals
  <2> QED BY <2>2 DEF Pages
<1> QED BY <1>3, <1>4, <1>5, <1>6, <1>7, <1>8, <1>9
-----------------------------------------------------------------------------
(* A run of pages holds the header and the words of its block.              *)
LEMMA RunFits ==
  ASSUME NEW s \in Nat
  PROVE  /\ RunLength(s) \in Nat /\ RunLength(s) >= 1
         /\ LargeStruct + s <= RunLength(s) * PageWords
<1> DEFINE m == LargeStruct + s + PageWords - 1
           q == m \div PageWords
<1>1. m \in Nat /\ m >= PageWords
  OBVIOUS
<1>2. q \in Nat /\ m < (q + 1) * PageWords
  BY <1>1, NaturalQuotient
<1> HIDE DEF q
<1>3. q # 0
  BY <1>1, <1>2
<1>4. (q + 1) * PageWords = q * PageWords + PageWords /\ q * PageWords \in Nat
  BY <1>2
<1>5. LargeStruct + s <= q * PageWords
  BY <1>2, <1>4
<1> QED BY <1>2, <1>3, <1>5 DEF RunLength, q

LEMMA FreeSingle ==
  ASSUME NEW p \in FreeSingles
  PROVE  p \in Pages /\ page[p] = FreePage /\ page[p].kind = "free"
<1>1. p \in RunOf(p, 1) /\ p \in Pages
  BY RunFits DEF RunOf, FreeSingles, FreeRuns, Pages
<1> QED BY <1>1 DEF FreeSingles, FreeRuns, FreePage

LEMMA CreateStep == ASSUME IInv, NEW t \in Threads, Create(t) PROVE IInv'
<1> USE DEF IInv
<1>1. PICK p \in FreeSingles : page' = [page EXCEPT ![p] = ZonePage]
  BY DEF Create
<1>2. /\ pc[t] = "idle" /\ blocks' = blocks /\ pc' = pc /\ zone' = zone
      /\ size' = size /\ cur' = cur /\ OwnLocals(t)
      /\ p \in Pages /\ page[p] = FreePage /\ page[p].kind = "free"
  BY FreeSingle DEF Create, locals, OwnLocals
<1>3. /\ page'[p] = ZonePage /\ page'[p].kind = "zone" /\ ZonePage \in ZonePages
      /\ \A q \in Pages : q # p => page'[q] = page[q]
  BY <1>1, <1>2 DEF Shape, ZonePage, ZonePages, Links
<1>4. Shape'
  BY <1>1, <1>2, <1>3 DEF Shape, Contents, Pages, ZonePages, GroupPages, OverflowPages,
     LargePages, DataPages, Links, GroupSizes, Midpoint, Threshold, Capacity, Places, FreePage
<1>5. Counts'
  <2>1. Len(page'[p].large_blocks) = 0
    BY <1>3 DEF ZonePage
  <2>2. (Midpoint - ZoneStruct)' = Midpoint - ZoneStruct /\ 0 <= Midpoint - ZoneStruct
    BY Sizes DEF Midpoint
  <2> QED BY <1>3, <2>1, <2>2 DEF Counts, Pages, Capacity
<1>6. RunsOK'
  BY <1>2, <1>3, KeepsRuns
<1>7. \A u \in Threads : PlaceOK(u)'
  <2>1. PlaceOK(t)'
    BY <1>2 DEF PlaceOK, Locked
  <2> QED BY <1>2, <1>3, <2>1, OthersUndisturbed
<1>8. AloneOK'
  BY <1>2 DEF AloneOK
<1>9. GroupsOK'
  BY <1>2, <1>3, <1>4, KeepsGroups DEF SameGroup, SameSmallBlocks, Unwalked
<1>10. BlocksOK'
  BY <1>2, <1>3, KeepsBlocks DEF BlocksOK, BlockOK, BeingDestroyed
<1>11. \E live \in SUBSET Pages' : IndexesOK(live)'
  <2>1. PICK old \in SUBSET Pages : IndexesOK(old)
    OBVIOUS
  <2> DEFINE live == old \cup {p}
  <2>2. p \notin old /\ live \in SUBSET Pages
    BY <1>2, <2>1 DEF IndexesOK
  <2>3. \A h \in old : SameIndex(h) /\ page'[h] = page[h]
    BY <1>3, <2>2 DEF SameIndex, OwnerOf, EntriesOf, MoreOf
  <2>4. EntriesOf(p)' = {} /\ MoreOf(p)' = NULL /\ OwnerOf(p)' = p
    BY <1>3 DEF EntriesOf, MoreOf, OwnerOf, ZonePage, Range
  <2>5. \A h \in old : EntriesOf(h) \subseteq Pages
    BY <2>1, PageKinds DEF IndexesOK, EntriesOf, ZonePages, OverflowPages, Range
  <2>6. \A h \in live :
         /\ page'[h].kind \in {"zone", "overflow"}
         /\ \A e \in EntriesOf(h)' : page'[e].kind = "large" /\ page'[e].owner = OwnerOf(h)'
         /\ MoreOf(h)' # NULL =>
              /\ MoreOf(h)' \in live /\ page'[MoreOf(h)'].kind = "overflow"
              /\ page'[MoreOf(h)'].owner = OwnerOf(h)'
    BY <1>2, <1>3, <2>1, <2>3, <2>4, <2>5 DEF IndexesOK, SameIndex
  <2>7. \A g, h \in live : g # h =>
         /\ EntriesOf(g)' \cap EntriesOf(h)' = {}
         /\ MoreOf(g)' = MoreOf(h)' => MoreOf(g)' = NULL
    BY <2>1, <2>3, <2>4 DEF IndexesOK, SameIndex
  <2>8. \A z \in Pages : page'[z].kind = "zone" =>
         (z \in live <=> \A u \in Threads : pc'[u] = "overflows" => zone'[u] # z)
    BY <1>2, <1>3, <2>1, <2>2 DEF IndexesOK, PlaceOK
  <2>9. \A u \in Threads :
         /\ pc'[u] = "enter" => \A h \in live : cur'[u] \notin EntriesOf(h)'
         /\ pc'[u] = "overflows" /\ cur'[u] # NULL =>
              /\ cur'[u] \in live /\ page'[cur'[u]].kind = "overflow"
              /\ page'[cur'[u]].owner = zone'[u]
              /\ \A h \in live : MoreOf(h)' # cur'[u]
    BY <1>2, <1>3, <2>1, <2>3, <2>4 DEF IndexesOK, SameIndex, IsFirst
  <2> HIDE DEF live
  <2>10. IndexesOK(live)'
    BY <2>6, <2>7, <2>8, <2>9 DEF IndexesOK, IsFirst, Pages
  <2> QED BY <2>2, <2>10 DEF Pages
<1> QED BY <1>4, <1>5, <1>6, <1>7, <1>8, <1>9, <1>10, <1>11
-----------------------------------------------------------------------------
(* Steps that take and release the lock of a zone.                          *)
LEMMA LockWritten ==
  ASSUME Shape, NEW z \in Pages, page[z].kind = "zone", NEW l \in Threads \cup {NoThread},
         page' = [page EXCEPT ![z].lock = l]
  PROVE  /\ page' \in [Pages -> Contents]
         /\ page'[z].kind = "zone" /\ page'[z].lock = l
         /\ page'[z].small_blocks = page[z].small_blocks
         /\ page'[z].large_blocks = page[z].large_blocks
         /\ page'[z].overflow = page[z].overflow
         /\ \A p \in Pages : p # z => page'[p] = page[p]
         /\ \A p \in Pages : page'[p].kind = page[p].kind /\ SameIndex(p)
<1>1. page[z] \in ZonePages
  BY PageKinds
<1>2. page'[z] = [page[z] EXCEPT !.lock = l] /\ page' \in [Pages -> Contents]
  <2>1. [page[z] EXCEPT !.lock = l] \in Contents
    BY <1>1 DEF ZonePages, Contents
  <2> QED BY <2>1 DEF Shape
<1>3. \A p \in Pages : p # z => page'[p] = page[p]
  BY DEF Shape
<1>4. /\ page'[z].kind = "zone" /\ page'[z].lock = l
      /\ page'[z].small_blocks = page[z].small_blocks
      /\ page'[z].large_blocks = page[z].large_blocks
      /\ page'[z].overflow = page[z].overflow
  BY <1>1, <1>2 DEF ZonePages
<1> QED BY <1>2, <1>3, <1>4 DEF SameIndex, OwnerOf, EntriesOf, MoreOf

LEMMA LockStep == ASSUME IInv, NEW t \in Threads, Lock(t) PROVE IInv'
<1> USE DEF IInv
<1> DEFINE z == zone[t]
<1>1. /\ pc[t] = "lock" /\ page[z].lock = NoThread /\ blocks' = blocks
      /\ zone' = zone /\ size' = size /\ cur' = cur
      /\ page' = [page EXCEPT ![z].lock = t]
      /\ pc' = [pc EXCEPT ![t] = IF size[t] >= Threshold THEN "large" ELSE "find"]
  BY DEF Lock, Goto
<1>2. z \in Pages /\ page[z].kind = "zone" /\ size[t] > 0 /\ size[t] \in Nat
  BY <1>1 DEF PlaceOK, Shape
<1>3. /\ page' \in [Pages -> Contents]
      /\ page'[z].kind = "zone" /\ page'[z].lock = t
      /\ page'[z].small_blocks = page[z].small_blocks
      /\ page'[z].large_blocks = page[z].large_blocks
      /\ \A p \in Pages : p # z => page'[p] = page[p]
      /\ \A p \in Pages : page'[p].kind = page[p].kind /\ SameIndex(p)
  BY <1>1, <1>2, LockWritten
<1>4. /\ OwnLocals(t) /\ pc'[t] \in {"large", "find"} /\ zone'[t] = z
      /\ pc'[t] = "find" => size[t] \in 1..(Threshold - 1)
  BY <1>1, <1>2, Sizes DEF OwnLocals, Shape
<1>5. Shape'
  BY <1>1, <1>3, <1>4 DEF Shape, Contents, Pages, ZonePages, GroupPages, OverflowPages,
     LargePages, DataPages, Links, GroupSizes, Midpoint, Threshold, Capacity, Places,
     Locked, FreePage
<1>6. Counts'
  BY <1>2, <1>3 DEF Counts, Pages, Midpoint, Capacity
<1>7. RunsOK'
  BY <1>2, <1>3, KeepsRuns
<1>8. \A u \in Threads : PlaceOK(u)'
  <2>1. PlaceOK(t)'
    <3>1. (1..(Threshold - 1))' = 1..(Threshold - 1) /\ Pages' = Pages
      BY DEF Threshold, Capacity, Pages
    <3> QED BY <1>1, <1>2, <1>3, <1>4, <3>1 DEF PlaceOK, Locked
  <2>2. Writes(t)
    BY <1>1, <1>2, <1>3 DEF Writes
  <2> QED BY <1>4, <2>1, <2>2, WritesDisturbNobody
<1>9. AloneOK'
  BY <1>1, <1>4 DEF AloneOK, OwnLocals, Destroying
<1>10. GroupsOK'
  <2>1. \A p \in Pages : page[p].kind = "group" => SameGroup(p)
    BY <1>2, <1>3 DEF SameGroup
  <2>2. \A y \in Pages : page'[y].kind = "zone" =>
          /\ SameSmallBlocks(y)
          /\ \A s \in GroupSizes : Unwalked(y, s)' => Unwalked(y, s)
    BY <1>1, <1>2, <1>3, <1>4 DEF SameSmallBlocks, Unwalked, OwnLocals, Destroying
  <2> QED BY <1>3, <1>5, <2>1, <2>2, KeepsGroups
<1>11. BlocksOK'
  BY <1>1, <1>2, <1>3, <1>4, KeepsBlocks
  DEF BlocksOK, BlockOK, BeingDestroyed, OwnLocals
<1>12. \E live \in SUBSET Pages' : IndexesOK(live)'
  <2>1. PICK live \in SUBSET Pages : IndexesOK(live)
    OBVIOUS
  <2>2. IndexesOK(live)'
    BY <1>1, <1>2, <1>3, <1>4, <2>1, KeepsIndexes DEF OwnLocals
  <2> QED BY <2>2 DEF Pages
<1> QED BY <1>5, <1>6, <1>7, <1>8, <1>9, <1>10, <1>11, <1>12

LEMMA UnlockStep == ASSUME IInv, NEW t \in Threads, Unlock(t) PROVE IInv'
<1> USE DEF IInv
<1> DEFINE z == zone[t]
<1>1. /\ pc[t] = "unlock" /\ blocks' = blocks
      /\ zone' = [zone EXCEPT ![t] = NULL] /\ size' = [size EXCEPT ![t] = 0]
      /\ cur' = [cur EXCEPT ![t] = NULL]
      /\ page' = [page EXCEPT ![z].lock = NoThread]
      /\ pc' = [pc EXCEPT ![t] = "idle"]
  BY DEF Unlock, Goto
<1>2. z \in Pages /\ page[z].kind = "zone" /\ pc[t] \in Locked
  BY <1>1 DEF PlaceOK, Locked
<1>3. /\ page' \in [Pages -> Contents] /\ page'[z].kind = "zone"
      /\ page'[z].small_blocks = page[z].small_blocks
      /\ page'[z].large_blocks = page[z].large_blocks
      /\ \A p \in Pages : p # z => page'[p] = page[p]
      /\ \A p \in Pages : page'[p].kind = page[p].kind /\ SameIndex(p)
  BY <1>1, <1>2, LockWritten
<1>4. OwnLocals(t) /\ pc'[t] = "idle" /\ cur'[t] = NULL /\ size'[t] = 0 /\ zone'[t] = NULL
  BY <1>1 DEF OwnLocals, Shape
<1>5. Shape'
  BY <1>1, <1>3 DEF Shape, Contents, Pages, ZonePages, GroupPages, OverflowPages,
     LargePages, DataPages, Links, GroupSizes, Midpoint, Threshold, Capacity, Places,
     FreePage
<1>6. Counts'
  BY <1>2, <1>3 DEF Counts, Pages, Midpoint, Capacity
<1>7. RunsOK'
  BY <1>2, <1>3, KeepsRuns
<1>8. \A u \in Threads : PlaceOK(u)'
  <2>1. PlaceOK(t)'
    BY <1>4 DEF PlaceOK, Locked
  <2>2. Writes(t)
    BY <1>2, <1>3 DEF Writes
  <2> QED BY <1>4, <2>1, <2>2, WritesDisturbNobody
<1>9. AloneOK'
  BY <1>4 DEF AloneOK, OwnLocals, Destroying
<1>10. GroupsOK'
  <2>1. \A p \in Pages : page[p].kind = "group" => SameGroup(p)
    BY <1>2, <1>3 DEF SameGroup
  <2>2. \A y \in Pages : page'[y].kind = "zone" =>
          /\ SameSmallBlocks(y)
          /\ \A s \in GroupSizes : Unwalked(y, s)' => Unwalked(y, s)
    BY <1>1, <1>2, <1>3, <1>4 DEF SameSmallBlocks, Unwalked, OwnLocals, Destroying
  <2> QED BY <1>3, <1>5, <2>1, <2>2, KeepsGroups
<1>11. BlocksOK'
  BY <1>1, <1>2, <1>3, <1>4, KeepsBlocks
  DEF BlocksOK, BlockOK, BeingDestroyed, OwnLocals
<1>12. \E live \in SUBSET Pages' : IndexesOK(live)'
  <2>1. PICK live \in SUBSET Pages : IndexesOK(live)
    OBVIOUS
  <2>2. IndexesOK(live)'
    BY <1>1, <1>2, <1>3, <1>4, <2>1, KeepsIndexes DEF OwnLocals
  <2> QED BY <2>2 DEF Pages
<1> QED BY <1>5, <1>6, <1>7, <1>8, <1>9, <1>10, <1>11, <1>12
-----------------------------------------------------------------------------
(* Steps of small_alloc.                                                    *)
LEMMA GrowStep == ASSUME IInv, NEW t \in Threads, Grow(t) PROVE IInv'
<1> USE DEF IInv
<1> DEFINE z == zone[t]
           s == size[t]
           old == cur[t]
<1>1. PICK p \in FreeSingles :
         /\ page' = [page EXCEPT ![p] = GroupPage(z, s, old), ![z].small_blocks[s] = p]
         /\ cur' = [cur EXCEPT ![t] = p]
  BY DEF Grow
<1>2. /\ pc[t] = "grow" /\ blocks' = blocks /\ zone' = zone /\ size' = size
      /\ pc' = [pc EXCEPT ![t] = "bump"]
      /\ p \in Pages /\ page[p] = FreePage /\ page[p].kind = "free"
  BY FreeSingle DEF Grow, Goto
<1>3. /\ z \in Pages /\ page[z].kind = "zone" /\ page[z].lock = t /\ p # z
      /\ s \in 1..(Threshold - 1) /\ s \in GroupSizes /\ old = page[z].small_blocks[s]
  BY <1>2, Sizes DEF PlaceOK, Locked
<1>4. page[z] \in ZonePages /\ old \in Links
  BY <1>3, PageKinds DEF ZonePages
<1>5. /\ page'[p] = GroupPage(z, s, old)
      /\ page'[z] = [page[z] EXCEPT !.small_blocks[s] = p]
      /\ \A q \in Pages : q # p /\ q # z => page'[q] = page[q]
  BY <1>1, <1>2, <1>3 DEF Shape
<1>6. /\ page'[p] \in GroupPages /\ page'[p].kind = "group" /\ page'[p].owner = z
      /\ page'[p].element_size = s /\ page'[p].available = Capacity
      /\ page'[p].previous = old
  BY <1>3, <1>4, <1>5, Sizes DEF GroupPage, GroupPages
<1>7. /\ page'[z] \in ZonePages /\ page'[z].kind = "zone" /\ page'[z].lock = t
      /\ page'[z].large_blocks = page[z].large_blocks
      /\ page'[z].overflow = page[z].overflow
      /\ page'[z].small_blocks = [page[z].small_blocks EXCEPT ![s] = p]
  BY <1>2, <1>3, <1>4, <1>5 DEF ZonePages, Links
<1>8. OwnLocals(t) /\ pc'[t] = "bump" /\ cur'[t] = p
  BY <1>1, <1>2 DEF OwnLocals, Shape
<1>9. Shape'
  <2>1. page' \in [Pages -> Contents]
    BY <1>1, <1>5, <1>6, <1>7 DEF Shape, Contents
  <2> QED
    BY <1>1, <1>2, <2>1 DEF Shape, Contents, Pages, ZonePages, GroupPages, OverflowPages,
       LargePages, DataPages, Links, GroupSizes, Midpoint, Threshold, Capacity, Places,
       Locked, FreePage
<1>10. Counts'
  BY <1>5, <1>6, <1>7, <1>3 DEF Counts, Pages, Midpoint, Capacity
<1>11. RunsOK'
  BY <1>2, <1>3, <1>5, <1>6, <1>7, KeepsRuns
<1>12. old # NULL => /\ old \in Pages /\ page[old].kind = "group" /\ page[old].owner = z
                     /\ page[old].element_size = s /\ IsNewest(old)
  <2>1. Unwalked(z, s)
    BY <1>2, <1>3 DEF Unwalked, AloneOK, Destroying
  <2> QED BY <1>3, <1>4, <2>1 DEF GroupsOK, Links
<1>13. \A u \in Threads : PlaceOK(u)'
  <2>1. PlaceOK(t)'
    <3>1. s \in Nat /\ s <= Capacity /\ (1..(Threshold - 1))' = 1..(Threshold - 1)
          /\ Pages' = Pages
      BY <1>3, Sizes DEF Threshold, Capacity, Pages
    <3>2. InGroup(t)' /\ size'[t] <= page'[cur'[t]].available
      BY <1>2, <1>6, <1>8, <3>1 DEF InGroup
    <3> QED BY <1>2, <1>3, <1>7, <1>8, <3>1, <3>2 DEF PlaceOK, Locked
  <2>2. Writes(t)
    <3>1. \A q \in Pages : page'[q].kind = "group" =>
            \/ page[q].kind = "group" /\ page'[q].previous = page[q].previous
            \/ page'[q].previous = NULL
            \/ page[page'[q].previous].owner = z
      BY <1>5, <1>6, <1>7, <1>12
    <3> QED BY <1>2, <1>5, <1>7, <3>1 DEF Writes, Locked
  <2> QED BY <1>8, <2>1, <2>2, WritesDisturbNobody
<1>14. AloneOK'
  BY <1>2, <1>8 DEF AloneOK, OwnLocals, Destroying
<1>15. GroupsOK'
  <2>1. p # NULL /\ old # p
    BY <1>2, <1>12, Sizes
  <2>2. \A q \in Pages : q # p => /\ page'[q].kind = page[q].kind
                                  /\ page[q].kind = "group" => page'[q] = page[q]
    BY <1>3, <1>5, <1>7
  <2>3. \A q \in Pages : page[q].kind = "group" => page[q].previous # p
    BY <1>2, <2>1 DEF GroupsOK
  <2>4. \A q \in Pages : page[q].kind = "group" => page[q].previous \in Links
    BY PageKinds DEF GroupPages
  <2>5. ASSUME NEW q \in Pages, page'[q].kind = "group", page'[q].previous # NULL
        PROVE  /\ page'[page'[q].previous].kind = "group"
               /\ page'[page'[q].previous].owner = page'[q].owner
               /\ page'[page'[q].previous].element_size = page'[q].element_size
               /\ \A r \in Pages : page'[r].kind = "group"
                                   /\ page'[r].previous = page'[q].previous => r = q
    <3>1. CASE q = p
      <4>1. page'[old] = page[old]
        BY <1>6, <1>12, <2>1, <2>2, <2>5, <3>1
      <4>2. \A r \in Pages : page'[r].kind = "group" /\ page'[r].previous = old => r = p
        BY <1>6, <1>12, <2>2, <2>5, <3>1 DEF IsNewest
      <4> QED BY <1>6, <1>12, <2>5, <3>1, <4>1, <4>2
    <3>2. CASE q # p
      <4>1. PICK r \in Links : r = page[q].previous
        BY <2>2, <2>4, <2>5, <3>2
      <4>2. /\ page[q].kind = "group" /\ page'[q] = page[q] /\ r # NULL /\ r \in Pages
        BY <2>2, <2>5, <3>2, <4>1 DEF Links
      <4>3. /\ page[r].kind = "group" /\ page[r].owner = page[q].owner
            /\ page[r].element_size = page[q].element_size
            /\ \A x \in Pages : page[x].kind = "group" /\ page[x].previous = r => x = q
        BY <4>1, <4>2 DEF GroupsOK
      <4>4. r # old /\ r # p
        BY <1>12, <2>3, <4>1, <4>2 DEF IsNewest
      <4>5. page'[r] = page[r]
        BY <2>2, <4>2, <4>3, <4>4
      <4>6. \A x \in Pages : page'[x].kind = "group" /\ page'[x].previous = r => x = q
        BY <1>6, <2>2, <4>3, <4>4
      <4> QED BY <4>1, <4>2, <4>3, <4>5, <4>6
    <3> QED BY <3>1, <3>2
  <2>6. ASSUME NEW y \in Pages, NEW n \in GroupSizes, page'[y].kind = "zone",
               Unwalked(y, n)', page'[y].small_blocks[n] # NULL
        PROVE  /\ page'[page'[y].small_blocks[n]].kind = "group"
               /\ page'[page'[y].small_blocks[n]].owner = y
               /\ page'[page'[y].small_blocks[n]].element_size = n
               /\ \A r \in Pages : page'[r].kind = "group" =>
                    page'[r].previous # page'[y].small_blocks[n]
    <3>1. CASE y = z /\ n = s
      <4>1. page'[y].small_blocks[n] = p
        BY <1>3, <1>4, <1>7, <3>1 DEF ZonePages
      <4>2. \A r \in Pages : page'[r].kind = "group" => page'[r].previous # p
        BY <1>6, <2>1, <2>2, <2>3
      <4> QED BY <1>6, <3>1, <4>1, <4>2
    <3>2. CASE ~ (y = z /\ n = s)
      <4>1. page[y].kind = "zone" /\ page'[y].small_blocks[n] = page[y].small_blocks[n]
        BY <1>3, <1>4, <1>5, <1>6, <1>7, <2>2, <2>6, <3>2 DEF ZonePages
      <4>2. PICK q \in Links : q = page[y].small_blocks[n]
        BY <4>1, PageKinds DEF ZonePages
      <4>3. Unwalked(y, n)
        BY <1>2, <1>8, <2>6 DEF Unwalked, OwnLocals, Destroying
      <4>4. /\ page[q].kind = "group" /\ page[q].owner = y
            /\ page[q].element_size = n /\ IsNewest(q) /\ q \in Pages
        BY <2>6, <4>1, <4>2, <4>3 DEF GroupsOK, Links
      <4>5. q # old /\ q # p
        BY <1>2, <1>12, <3>2, <4>4, Sizes
      <4>6. /\ page'[q] = page[q]
            /\ \A r \in Pages : page'[r].kind = "group" => page'[r].previous # q
        BY <1>6, <2>2, <4>4, <4>5 DEF IsNewest
      <4> QED BY <4>1, <4>2, <4>4, <4>6
    <3> QED BY <3>1, <3>2
  <2> QED BY <2>5, <2>6 DEF GroupsOK, IsNewest, Pages, GroupSizes, Midpoint
<1>16. BlocksOK'
  <2>1. \A b \in blocks : page'[b.zone].kind = "zone" /\ page'[b.page] = page[b.page]
    BY <1>2, <1>3, <1>5, <1>7 DEF BlocksOK, BlockOK
  <2>2. \A b \in blocks : ~ BeingDestroyed(b.zone)'
    BY <1>2, <1>8 DEF BlocksOK, BlockOK, BeingDestroyed, OwnLocals
  <2> QED BY <1>2, <2>1, <2>2, KeepsBlocks
<1>17. \E live \in SUBSET Pages' : IndexesOK(live)'
  <2>1. PICK live \in SUBSET Pages : IndexesOK(live)
    OBVIOUS
  <2>2. \A q \in Pages : q # p => SameIndex(q) /\ page'[q].kind = page[q].kind
    BY <1>3, <1>5, <1>7 DEF SameIndex, OwnerOf, EntriesOf, MoreOf
  <2>3. IndexesOK(live)'
    BY <1>2, <1>3, <1>5, <1>6, <1>8, <2>1, <2>2, KeepsIndexes DEF OwnLocals
  <2> QED BY <2>3 DEF Pages
<1> QED BY <1>9, <1>10, <1>11, <1>13, <1>14, <1>15, <1>16, <1>17
LEMMA BumpStep == ASSUME IInv, NEW t \in Threads, Bump(t) PROVE IInv'
<1> USE DEF IInv
<1> DEFINE z == zone[t]
           s == size[t]
           c == cur[t]
           left == page[c].available - s
<1>1. /\ pc[t] = "bump" /\ zone' = zone /\ size' = size /\ cur' = cur
      /\ page' = [page EXCEPT ![c].available = left] /\ blocks' = blocks \cup
           {[zone |-> z, page |-> c, at |-> GroupStruct + left, words |-> s]}
      /\ pc' = [pc EXCEPT ![t] = "unlock"]
  BY DEF Bump, Goto, HandOut
<1>2. /\ z \in Pages /\ page[z].kind = "zone" /\ page[z].lock = t
      /\ c \in Pages /\ page[c].kind = "group" /\ page[c].owner = z
      /\ page[c].element_size = s /\ s <= page[c].available /\ s \in Nat /\ s > 0
  BY <1>1, Sizes DEF PlaceOK, InGroup, Locked
<1>3. page[c] \in GroupPages /\ page[c].available \in 0..Capacity /\ left \in 0..Capacity
  BY <1>2, PageKinds, Sizes DEF GroupPages
<1>4. /\ page'[c] = [page[c] EXCEPT !.available = left]
      /\ \A q \in Pages : q # c => page'[q] = page[q]
  BY <1>1, <1>2 DEF Shape
<1>5. /\ page'[c] \in GroupPages /\ page'[c].kind = "group" /\ page'[c].owner = z
      /\ page'[c].element_size = s /\ page'[c].available = left
      /\ page'[c].previous = page[c].previous
  BY <1>2, <1>3, <1>4 DEF GroupPages
<1>6. OwnLocals(t) /\ pc'[t] = "unlock"
  BY <1>1 DEF OwnLocals, Shape
<1> HIDE DEF left
<1>7. Shape'
  <2>1. page' \in [Pages -> Contents]
    BY <1>1, <1>4, <1>5 DEF Shape, Contents
  <2> QED
    BY <1>1, <2>1 DEF Shape, Contents, Pages, ZonePages, GroupPages, OverflowPages,
       LargePages, DataPages, Links, GroupSizes, Midpoint, Threshold, Capacity, Places,
       Locked, FreePage
<1>8. Counts'
  BY <1>2, <1>4, <1>5 DEF Counts, Pages, Midpoint, Capacity
<1>9. RunsOK'
  BY <1>2, <1>4, <1>5, KeepsRuns
<1>10. \A u \in Threads : PlaceOK(u)'
  <2>1. PlaceOK(t)'
    BY <1>1, <1>2, <1>4, <1>6 DEF PlaceOK, Locked, Pages
  <2>2. Writes(t)
    BY <1>1, <1>2, <1>4, <1>5 DEF Writes, Locked
  <2> QED BY <1>6, <2>1, <2>2, WritesDisturbNobody
<1>11. AloneOK'
  BY <1>1, <1>6 DEF AloneOK, OwnLocals, Destroying
<1>12. GroupsOK'
  <2>1. \A p \in Pages : page[p].kind = "group" => SameGroup(p)
    BY <1>2, <1>4, <1>5 DEF SameGroup
  <2>2. \A y \in Pages : page'[y].kind = "zone" =>
          /\ SameSmallBlocks(y)
          /\ \A n \in GroupSizes : Unwalked(y, n)' => Unwalked(y, n)
    BY <1>1, <1>4, <1>5, <1>6 DEF SameSmallBlocks, Unwalked, OwnLocals, Destroying
  <2> QED BY <1>2, <1>4, <1>5, <1>7, <2>1, <2>2, KeepsGroups
<1>13. BlocksOK'
  <2> PICK new : new = [zone |-> z, page |-> c, at |-> GroupStruct + left, words |-> s]
    OBVIOUS
  <2>1. \A b \in blocks : b.page = c => GroupStruct + page[c].available <= b.at /\ b.at \in Nat
    BY <1>2 DEF BlocksOK, BlockOK
  <2>2. new.at \in Nat /\ new.at = GroupStruct + left /\ new.words = s /\ left \in Nat
        /\ new.at + s = GroupStruct + page[c].available /\ page[c].available \in Nat
        /\ left <= page[c].available /\ new.at + s <= PageWords
    BY <1>2, <1>3, Sizes DEF left
  <2>6. new \in [zone : Pages, page : Pages, at : Nat, words : Nat]
        /\ new.page = c /\ new.zone = z
    BY <1>2, <2>2
  <2>3. ASSUME NEW b \in blocks PROVE BlockOK(b)'
    <3>1. /\ BlockOK(b) /\ b \in [zone : Pages, page : Pages, at : Nat, words : Nat]
      BY DEF BlocksOK
    <3>2. ~ BeingDestroyed(b.zone)'
      BY <1>1, <1>6, <3>1 DEF BlockOK, BeingDestroyed, OwnLocals
    <3>3. page'[b.zone].kind = "zone"
      BY <1>2, <1>4, <3>1 DEF BlockOK
    <3>4. CASE b.page # c
      BY <1>4, <3>1, <3>2, <3>3, <3>4 DEF BlockOK
    <3>5. CASE b.page = c
      BY <1>2, <1>5, <2>1, <2>2, <3>1, <3>2, <3>3, <3>5 DEF BlockOK
    <3> QED BY <3>4, <3>5
  <2>4. BlockOK(new)'
    <3>1. ~ BeingDestroyed(new.zone)'
      BY <1>1, <1>6, <2>6 DEF AloneOK, BeingDestroyed, OwnLocals, Destroying
    <3>2. /\ page'[new.zone].kind = "zone" /\ page'[new.page].kind = "group"
          /\ page'[new.page].owner = new.zone /\ page'[new.page].element_size = new.words
          /\ GroupStruct + page'[new.page].available = new.at
          /\ new.at + new.words <= PageWords
      BY <1>2, <1>4, <1>5, <2>2, <2>6
    <3> QED BY <2>2, <2>6, <3>1, <3>2 DEF BlockOK
  <2>5. \A b \in blocks : b.page = c => new.at + new.words <= b.at
    BY <2>1, <2>2
  <2>7. \A a, b \in blocks' : a # b /\ a.page = b.page => Within(a, b)
    BY <1>1, <2>5, <2>6 DEF BlocksOK, Within
  <2> QED BY <1>1, <2>3, <2>4, <2>6, <2>7 DEF BlocksOK, Within, Pages
<1>14. \E live \in SUBSET Pages' : IndexesOK(live)'
  <2>1. PICK live \in SUBSET Pages : IndexesOK(live)
    OBVIOUS
  <2>2. \A q \in Pages : q # c => SameIndex(q)
    BY <1>4 DEF SameIndex, OwnerOf, EntriesOf, MoreOf
  <2>3. IndexesOK(live)'
    BY <1>1, <1>2, <1>4, <1>5, <1>6, <2>1, <2>2, KeepsIndexes DEF OwnLocals
  <2> QED BY <2>3 DEF Pages
<1> QED BY <1>7, <1>8, <1>9, <1>10, <1>11, <1>12, <1>13, <1>14
-----------------------------------------------------------------------------
(* Steps of large_alloc.                                                    *)
LEMMA LargeStep == ASSUME IInv, NEW t \in Threads, Large(t) PROVE IInv'
<1> USE DEF IInv
<1> DEFINE z == zone[t]
           s == size[t]
<1>1. PICK p \in FreeRuns(s) :
         /\ page' = [q \in Pages |->
              IF q = p THEN LargePage(z, s)
              ELSE IF q \in RunOf(p, s) THEN DataPage(p) ELSE page[q]]
         /\ cur' = [cur EXCEPT ![t] = p]
         /\ blocks' = blocks \cup {[zone |-> z, page |-> p, at |-> LargeStruct, words |-> s]}
  BY DEF Large, HandOut
<1>2. /\ pc[t] = "large" /\ zone' = zone /\ size' = size
      /\ pc' = [pc EXCEPT ![t] = "enter"]
      /\ z \in Pages /\ page[z].kind = "zone" /\ page[z].lock = t /\ s \in Nat
  BY DEF Large, Goto, PlaceOK, Locked, Shape
<1> DEFINE run == RunOf(p, s)
<1>3. /\ p \in Pages /\ p \in run /\ run \subseteq Pages
      /\ \A q \in run : page[q] = FreePage /\ page[q].kind = "free"
      /\ z \notin run
  BY <1>2, RunFits DEF FreeRuns, RunOf, Pages, FreePage
<1>4. /\ page'[p] = LargePage(z, s)
      /\ \A q \in run : q # p => page'[q] = DataPage(p)
      /\ \A q \in Pages : q \notin run => page'[q] = page[q]
  BY <1>1, <1>3
<1>5. /\ page'[p] \in LargePages /\ page'[p].kind = "large" /\ page'[p].owner = z
      /\ page'[p].element_size = s
  BY <1>2, <1>4 DEF LargePage, LargePages
<1>6. \A q \in run : q # p => page'[q] \in DataPages /\ page'[q].kind = "data"
  BY <1>3, <1>4 DEF DataPage, DataPages
<1>7. OwnLocals(t) /\ pc'[t] = "enter" /\ cur'[t] = p
  BY <1>1, <1>2, <1>3 DEF OwnLocals, Shape
<1>8. page'[z] = page[z] /\ page'[p].kind # "zone"
  BY <1>2, <1>3, <1>4, <1>5
<1>9. Shape'
  <2>1. \A q \in Pages : page'[q] \in Contents
    BY <1>4, <1>5, <1>6 DEF Shape, Contents
  <2>2. page' \in [Pages -> Contents]
    BY <1>1, <2>1
  <2> QED
    BY <1>1, <1>2, <1>3, <2>2 DEF Shape, Contents, Pages, ZonePages, GroupPages,
       OverflowPages, LargePages, DataPages, Links, GroupSizes, Midpoint, Threshold,
       Capacity, Places, Locked, FreePage
<1>10. \A q \in Pages : \/ page'[q] = page[q]
                        \/ page[q].kind = "free" /\ page'[q].kind \in {"large", "data"}
  BY <1>3, <1>4, <1>5, <1>6
<1>11. Counts'
  BY <1>10 DEF Counts, Pages, Midpoint, Capacity
<1>12. RunsOK'
  <2> SUFFICES ASSUME NEW q \in Pages, page'[q].kind = "large"
               PROVE  /\ RunOf(q, page'[q].element_size) \subseteq Pages
                      /\ \A r \in RunOf(q, page'[q].element_size) :
                           r # q => page'[r] = DataPage(q)
    BY DEF RunsOK, Pages, RunOf, RunLength
  <2>1. CASE q = p
    BY <1>3, <1>4, <1>5, <2>1
  <2>2. CASE q # p
    <3>1. q \notin run /\ page'[q] = page[q]
      BY <1>4, <1>6, <2>2
    <3>2. /\ RunOf(q, page[q].element_size) \subseteq Pages
          /\ \A r \in RunOf(q, page[q].element_size) : r # q => page[r] = DataPage(q)
      BY <3>1 DEF RunsOK
    <3>3. DataPage(q).kind = "data"
      BY DEF DataPage
    <3> QED BY <1>10, <3>1, <3>2, <3>3
  <2> QED BY <2>1, <2>2
<1>13. \A u \in Threads : PlaceOK(u)'
  <2>1. PlaceOK(t)'
    BY <1>2, <1>3, <1>5, <1>7, <1>8 DEF PlaceOK, Locked, Pages
  <2>2. Writes(t)
    BY <1>2, <1>8, <1>10 DEF Writes, Locked
  <2> QED BY <1>7, <2>1, <2>2, WritesDisturbNobody
<1>14. AloneOK'
  BY <1>2, <1>7 DEF AloneOK, OwnLocals, Destroying
<1>15. GroupsOK'
  <2>1. \A q \in Pages : page[q].kind = "group" => SameGroup(q)
    BY <1>10 DEF SameGroup
  <2>2. \A y \in Pages : page'[y].kind = "zone" =>
          /\ SameSmallBlocks(y)
          /\ \A n \in GroupSizes : Unwalked(y, n)' => Unwalked(y, n)
    BY <1>2, <1>7, <1>10 DEF SameSmallBlocks, Unwalked, OwnLocals, Destroying
  <2> QED BY <1>9, <1>10, <2>1, <2>2, KeepsGroups
<1>16. BlocksOK'
  <2> PICK new : new = [zone |-> z, page |-> p, at |-> LargeStruct, words |-> s]
    OBVIOUS
  <2>1. new \in [zone : Pages, page : Pages, at : Nat, words : Nat]
        /\ new.zone = z /\ new.page = p /\ new.at = LargeStruct /\ new.words = s
    BY <1>2, <1>3
  <2>2. ASSUME NEW b \in blocks PROVE BlockOK(b)' /\ b.page # p
    <3>1. /\ BlockOK(b) /\ b \in [zone : Pages, page : Pages, at : Nat, words : Nat]
      BY DEF BlocksOK
    <3>2. ~ BeingDestroyed(b.zone)'
      BY <1>2, <1>7, <3>1 DEF BlockOK, BeingDestroyed, OwnLocals
    <3>3. page'[b.zone] = page[b.zone] /\ page'[b.page] = page[b.page] /\ b.page # p
      BY <1>3, <1>10, <3>1 DEF BlockOK
    <3> QED BY <3>1, <3>2, <3>3 DEF BlockOK
  <2>3. BlockOK(new)'
    <3>1. ~ BeingDestroyed(new.zone)'
      BY <1>2, <1>7, <2>1 DEF AloneOK, BeingDestroyed, OwnLocals, Destroying
    <3> QED BY <1>2, <1>5, <1>8, <2>1, <3>1 DEF BlockOK
  <2>4. \A a, b \in blocks' : a # b /\ a.page = b.page => Within(a, b)
    BY <1>1, <2>1, <2>2 DEF BlocksOK
  <2> QED BY <1>1, <2>1, <2>2, <2>3, <2>4 DEF BlocksOK, Within, Pages
<1>17. \E live \in SUBSET Pages' : IndexesOK(live)'
  <2>1. PICK live \in SUBSET Pages : IndexesOK(live)
    OBVIOUS
  <2>2. \A q \in Pages : page[q].kind \in {"zone", "overflow"} => SameIndex(q)
    BY <1>10 DEF SameIndex, OwnerOf, EntriesOf, MoreOf
  <2>3. IndexesOK(live)'
    BY <1>2, <1>3, <1>7, <1>10, <2>1, <2>2, KeepsIndexes DEF OwnLocals
  <2> QED BY <2>3 DEF Pages
<1> QED BY <1>9, <1>11, <1>12, <1>13, <1>14, <1>15, <1>16, <1>17
Entering(t) ==
    /\ pc[t] = "enter" /\ pc' = [pc EXCEPT ![t] = "unlock"]
    /\ blocks' = blocks /\ zone' = zone /\ size' = size /\ cur' = cur
LEMMA EnterKeeps ==
  ASSUME IInv, Shape', NEW t \in Threads, Entering(t),
         page'[zone[t]].kind = "zone", page'[zone[t]].lock = page[zone[t]].lock,
         page'[zone[t]].small_blocks = page[zone[t]].small_blocks,
         \A p \in Pages : p # zone[t] =>
            \/ page'[p] = page[p]
            \/ page[p].kind \in {"free", "overflow"} /\ page'[p].kind = "overflow"
  PROVE  RunsOK' /\ (\A u \in Threads : PlaceOK(u)') /\ AloneOK' /\ GroupsOK' /\ BlocksOK'
<1> USE DEF IInv
<1>1. /\ zone[t] \in Pages /\ page[zone[t]].kind = "zone" /\ page[zone[t]].lock = t
      /\ OwnLocals(t) /\ pc'[t] = "unlock"
  BY DEF Entering, PlaceOK, Locked, OwnLocals, Shape
<1>2. RunsOK'
  BY <1>1, KeepsRuns
<1>3. \A u \in Threads : PlaceOK(u)'
  <2>1. PlaceOK(t)'
    BY <1>1 DEF Entering, PlaceOK, Locked, Pages
  <2>2. Writes(t)
    BY <1>1 DEF Writes, Entering, Locked
  <2> QED BY <1>1, <2>1, <2>2, WritesDisturbNobody
<1>4. AloneOK'
  BY <1>1 DEF AloneOK, Entering, OwnLocals, Destroying
<1>5. GroupsOK'
  <2>1. \A p \in Pages : page[p].kind = "group" => SameGroup(p)
    BY <1>1 DEF SameGroup
  <2>2. \A y \in Pages : page'[y].kind = "zone" =>
          /\ SameSmallBlocks(y)
          /\ \A n \in GroupSizes : Unwalked(y, n)' => Unwalked(y, n)
    BY <1>1 DEF SameSmallBlocks, Unwalked, OwnLocals, Destroying, Entering
  <2> QED BY <1>1, <2>1, <2>2, KeepsGroups
<1>6. BlocksOK'
  <2>1. \A b \in blocks : page'[b.zone].kind = "zone" /\ page'[b.page] = page[b.page]
    BY <1>1 DEF BlocksOK, BlockOK
  <2>2. \A b \in blocks : ~ BeingDestroyed(b.zone)'
    BY <1>1 DEF BlocksOK, BlockOK, BeingDestroyed, OwnLocals, Entering
  <2> QED BY <2>1, <2>2, KeepsBlocks DEF Entering
<1> QED BY <1>2, <1>3, <1>4, <1>5, <1>6

(* The index of a zone that is not being destroyed is alive.                *)
LEMMA ZoneIndexLives ==
  ASSUME IInv, NEW t \in Threads, pc[t] = "enter", NEW live \in SUBSET Pages, IndexesOK(live)
  PROVE  zone[t] \in live /\ OwnerOf(zone[t]) = zone[t]
BY DEF IInv, IndexesOK, AloneOK, Destroying, PlaceOK, OwnerOf

(* No other thread is about to enter the same block.                        *)
LEMMA EntersAlone ==
  ASSUME IInv, NEW t \in Threads, pc[t] = "enter", NEW u \in Threads, pc[u] = "enter", u # t
  PROVE  cur[u] # cur[t]
<1>1. zone[u] # zone[t]
  BY LockIsMine DEF IInv, Locked
<1> QED BY <1>1 DEF IInv, PlaceOK

LEMMA EntersIndexes ==
  ASSUME IInv, NEW t \in Threads, Entering(t), NEW live \in SUBSET Pages, IndexesOK(live),
         NEW g \in live, OwnerOf(g) = zone[t],
         \A p \in Pages : p # g => page'[p] = page[p],
         page'[g].kind = page[g].kind, OwnerOf(g)' = OwnerOf(g), MoreOf(g)' = MoreOf(g),
         EntriesOf(g)' = EntriesOf(g) \cup {cur[t]}
  PROVE  IndexesOK(live)'
<1> USE DEF IInv
<1>1. /\ page[g].kind \in {"zone", "overflow"} /\ OwnLocals(t) /\ pc'[t] = "unlock"
      /\ cur[t] \in Pages /\ page[cur[t]].kind = "large" /\ page[cur[t]].owner = zone[t]
      /\ \A h \in live : cur[t] \notin EntriesOf(h)
  BY DEF IndexesOK, Entering, OwnLocals, Shape, PlaceOK
<1>2. \A h \in live : h # g => SameIndex(h)
  BY DEF SameIndex, OwnerOf, EntriesOf, MoreOf
<1>3. \A p \in Pages : /\ page'[p].kind = page[p].kind
                       /\ page[p].kind \in {"overflow", "large"} =>
                            page'[p].owner = page[p].owner
  BY <1>1 DEF OwnerOf
<1>4. \A h \in live : /\ EntriesOf(h) \subseteq Pages /\ MoreOf(h) \in Links
                      /\ OwnerOf(h)' = OwnerOf(h) /\ MoreOf(h)' = MoreOf(h)
  <2>1. ASSUME NEW h \in live PROVE EntriesOf(h) \subseteq Pages /\ MoreOf(h) \in Links
    <3>1. CASE page[h].kind = "zone"
      BY <3>1, PageKinds DEF ZonePages, EntriesOf, MoreOf, Range
    <3>2. CASE page[h].kind = "overflow"
      BY <3>2, PageKinds DEF OverflowPages, EntriesOf, MoreOf, Range
    <3> QED BY <3>1, <3>2 DEF IndexesOK
  <2> QED BY <1>2, <2>1 DEF SameIndex
<1>5. ASSUME NEW h \in live
      PROVE  /\ page'[h].kind \in {"zone", "overflow"}
             /\ \A e \in EntriesOf(h)' :
                  page'[e].kind = "large" /\ page'[e].owner = OwnerOf(h)'
             /\ MoreOf(h)' # NULL =>
                  /\ MoreOf(h)' \in live /\ page'[MoreOf(h)'].kind = "overflow"
                  /\ page'[MoreOf(h)'].owner = OwnerOf(h)'
  <2>1. \A e \in EntriesOf(h)' : e \in EntriesOf(h) \/ (h = g /\ e = cur[t])
    BY <1>2 DEF SameIndex
  <2>2. \A e \in EntriesOf(h)' : page'[e].kind = "large" /\ page'[e].owner = OwnerOf(h)'
    BY <1>1, <1>3, <1>4, <2>1 DEF IndexesOK
  <2>3. MoreOf(h) # NULL =>
           /\ MoreOf(h) \in live /\ page[MoreOf(h)].kind = "overflow"
           /\ page[MoreOf(h)].owner = OwnerOf(h)
    BY DEF IndexesOK
  <2>4. page'[h].kind \in {"zone", "overflow"}
    BY <1>3 DEF IndexesOK
  <2>5. MoreOf(h) # NULL =>
           page'[MoreOf(h)].kind = "overflow" /\ page'[MoreOf(h)].owner = OwnerOf(h)
    BY <1>3, <2>3
  <2> QED BY <1>4, <2>2, <2>3, <2>4, <2>5
<1>6. \A f, h \in live : f # h =>
        /\ EntriesOf(f)' \cap EntriesOf(h)' = {}
        /\ MoreOf(f)' = MoreOf(h)' => MoreOf(f)' = NULL
  <2>1. \A f, h \in live : f # h => EntriesOf(f) \cap EntriesOf(h) = {}
    BY DEF IndexesOK
  <2>2. \A f, h \in live : f # h => (MoreOf(f) = MoreOf(h) => MoreOf(f) = NULL)
    BY DEF IndexesOK
  <2>3. \A f, h \in live : f # h => EntriesOf(f)' \cap EntriesOf(h)' = {}
    BY <1>1, <1>2, <2>1 DEF SameIndex
  <2> QED BY <1>4, <2>2, <2>3
<1>7. \A z \in Pages : page'[z].kind = "zone" =>
         (z \in live <=> \A u \in Threads : pc'[u] = "overflows" => zone'[u] # z)
  BY <1>1, <1>3 DEF IndexesOK, OwnLocals, Entering
<1>8. ASSUME NEW u \in Threads
      PROVE  /\ pc'[u] = "enter" => \A h \in live : cur'[u] \notin EntriesOf(h)'
             /\ pc'[u] = "overflows" /\ cur'[u] # NULL =>
                  /\ cur'[u] \in live /\ page'[cur'[u]].kind = "overflow"
                  /\ page'[cur'[u]].owner = zone'[u]
                  /\ \A h \in live : MoreOf(h)' # cur'[u]
  <2>1. pc'[u] = "enter" => pc[u] = "enter" /\ u # t /\ cur'[u] = cur[u] /\ cur[u] # cur[t]
    BY <1>1, EntersAlone DEF OwnLocals, Entering
  <2>2. pc[u] = "enter" => \A h \in live : cur[u] \notin EntriesOf(h)
    BY DEF IndexesOK
  <2>3. pc'[u] = "enter" => \A h \in live : cur'[u] \notin EntriesOf(h)'
    BY <1>2, <2>1, <2>2 DEF SameIndex
  <2>4. pc'[u] = "overflows" =>
          pc[u] = "overflows" /\ cur'[u] = cur[u] /\ zone'[u] = zone[u]
    BY <1>1 DEF OwnLocals, Entering
  <2>5. pc[u] = "overflows" /\ cur[u] # NULL =>
          /\ cur[u] \in live /\ page[cur[u]].kind = "overflow"
          /\ page[cur[u]].owner = zone[u] /\ \A h \in live : MoreOf(h) # cur[u]
    BY DEF IndexesOK, IsFirst
  <2>6. pc'[u] = "overflows" /\ cur'[u] # NULL =>
          /\ cur'[u] \in live /\ page'[cur'[u]].kind = "overflow"
          /\ page'[cur'[u]].owner = zone'[u]
          /\ \A h \in live : MoreOf(h)' # cur'[u]
    BY <1>3, <1>4, <2>4, <2>5
  <2> QED BY <2>3, <2>6
<1> QED BY <1>5, <1>6, <1>7, <1>8 DEF IndexesOK, IsFirst, Pages
LEMMA Prepended ==
  ASSUME NEW S, NEW q \in Seq(S), NEW e \in S
  PROVE  /\ << e >> \o q \in Seq(S) /\ Len(<< e >> \o q) = Len(q) + 1
         /\ Range(<< e >> \o q) = Range(q) \cup {e}
<1> DEFINE r == << e >> \o q
<1>1. r \in Seq(S) /\ Len(r) = Len(q) + 1 /\ Len(q) \in Nat
      /\ r[1] = e /\ \A i \in 1..Len(q) : r[i + 1] = q[i]
  OBVIOUS
<1> HIDE DEF r
<1>2. DOMAIN r = 1..(Len(q) + 1) /\ DOMAIN q = 1..Len(q)
  BY <1>1
<1>3. \A x \in Range(r) : x \in Range(q) \cup {e}
  <2> SUFFICES ASSUME NEW i \in 1..(Len(q) + 1) PROVE r[i] \in Range(q) \cup {e}
    BY <1>2 DEF Range
  <2>1. CASE i = 1
    BY <1>1, <2>1
  <2>2. CASE i # 1
    <3>1. i - 1 \in 1..Len(q) /\ r[(i - 1) + 1] = q[i - 1] /\ (i - 1) + 1 = i
      BY <1>1, <2>2
    <3> QED BY <1>2, <3>1 DEF Range
  <2> QED BY <2>1, <2>2
<1>4. e \in Range(r)
  BY <1>1, <1>2 DEF Range
<1>5. ASSUME NEW i \in 1..Len(q) PROVE q[i] \in Range(r)
  <2>1. i + 1 \in 1..(Len(q) + 1) /\ r[i + 1] = q[i]
    BY <1>1
  <2> QED BY <1>2, <2>1 DEF Range
<1>6. Range(q) \subseteq Range(r)
  BY <1>2, <1>5 DEF Range
<1>7. Range(r) = Range(q) \cup {e}
  BY <1>3, <1>4, <1>6
<1> QED BY <1>1, <1>7 DEF r

LEMMA EnterIndexStep ==
  ASSUME IInv, NEW t \in Threads, EnterIndex(t) PROVE IInv'
<1> USE DEF IInv
<1> DEFINE z == zone[t]
           e == cur[t]
<1>1. /\ Entering(t) /\ Midpoint - Len(page[z].large_blocks) >= ZoneStruct + 1
      /\ page' = [page EXCEPT ![z].large_blocks = << e >> \o @]
      /\ z \in Pages /\ page[z].kind = "zone" /\ page[z].lock = t /\ e \in Pages
  BY DEF EnterIndex, RoomInIndex, Entering, Goto, PlaceOK, Locked
<1>2. page[z] \in ZonePages /\ page[z].large_blocks \in Seq(Pages)
  BY <1>1, PageKinds DEF ZonePages
<1>3. /\ page'[z] = [page[z] EXCEPT !.large_blocks = << e >> \o page[z].large_blocks]
      /\ \A p \in Pages : p # z => page'[p] = page[p]
  BY <1>1 DEF Shape
<1>4. PICK index : index = << e >> \o page[z].large_blocks
  OBVIOUS
<1>5. /\ index \in Seq(Pages) /\ Len(index) = Len(page[z].large_blocks) + 1
      /\ Range(index) = Range(page[z].large_blocks) \cup {e}
  BY <1>1, <1>2, <1>4, Prepended
<1>6. /\ page'[z] \in ZonePages /\ page'[z].kind = "zone" /\ page'[z].lock = page[z].lock
      /\ page'[z].small_blocks = page[z].small_blocks
      /\ page'[z].overflow = page[z].overflow /\ page'[z].large_blocks = index
  BY <1>2, <1>3, <1>4, <1>5 DEF ZonePages
<1>7. Shape'
  <2>1. page' \in [Pages -> Contents]
    BY <1>1, <1>3, <1>6 DEF Shape, Contents
  <2> QED
    BY <1>1, <2>1 DEF Entering, Shape, Contents, Pages, ZonePages, GroupPages,
       OverflowPages, LargePages, DataPages, Links, GroupSizes, Midpoint, Threshold,
       Capacity, Places, Locked, FreePage
<1>8. Counts'
  <2>1. Len(page'[z].large_blocks) <= Midpoint - ZoneStruct
    <3>1. Len(page[z].large_blocks) \in Nat
      BY <1>2
    <3>2. PICK n \in Nat : n = Len(page[z].large_blocks)
      BY <3>1
    <3>3. Midpoint - n >= 5 /\ Len(index) = n + 1
      BY <1>1, <1>5, <3>2
    <3>4. Len(index) <= Midpoint - ZoneStruct
      BY <3>3, Sizes
    <3> QED BY <1>6, <3>4
  <2> QED BY <1>1, <1>3, <1>6, <2>1 DEF Counts, Pages, Midpoint, Capacity
<1>9. RunsOK' /\ (\A u \in Threads : PlaceOK(u)') /\ AloneOK' /\ GroupsOK' /\ BlocksOK'
  BY <1>1, <1>3, <1>6, <1>7, EnterKeeps
<1>10. \E live \in SUBSET Pages' : IndexesOK(live)'
  <2>1. PICK live \in SUBSET Pages : IndexesOK(live)
    OBVIOUS
  <2>2. PICK g \in live : g = z /\ OwnerOf(g) = zone[t]
    BY <1>1, <2>1, ZoneIndexLives DEF Entering
  <2>3. /\ OwnerOf(g)' = OwnerOf(g) /\ MoreOf(g)' = MoreOf(g)
        /\ EntriesOf(g)' = EntriesOf(g) \cup {cur[t]}
    BY <1>1, <1>5, <1>6, <2>2 DEF OwnerOf, MoreOf, EntriesOf
  <2>4. IndexesOK(live)'
    BY <1>1, <1>3, <1>6, <2>1, <2>2, <2>3, EntersIndexes
  <2> QED BY <2>4 DEF Pages
<1> QED BY <1>7, <1>8, <1>9, <1>10

EnteredIn(g, e) == [g EXCEPT !.available = @ - 1, !.entries = << e >> \o @]
LEMMA EntryAdded ==
  ASSUME NEW g \in OverflowPages, g.available >= 1, Len(g.entries) = Capacity - g.available,
         NEW e \in Pages
  PROVE  /\ EnteredIn(g, e) \in OverflowPages /\ EnteredIn(g, e).kind = "overflow"
         /\ EnteredIn(g, e).owner = g.owner /\ EnteredIn(g, e).previous = g.previous
         /\ Len(EnteredIn(g, e).entries) = Capacity - EnteredIn(g, e).available
         /\ Range(EnteredIn(g, e).entries) = Range(g.entries) \cup {e}
<1>1. g.entries \in Seq(Pages) /\ g.available \in 0..Capacity
  BY DEF OverflowPages
<1>2. PICK index : index = << e >> \o g.entries
  OBVIOUS
<1>3. /\ index \in Seq(Pages) /\ Len(index) = Len(g.entries) + 1
      /\ Range(index) = Range(g.entries) \cup {e}
  BY <1>1, <1>2, Prepended
<1>4. g.available - 1 \in 0..Capacity /\ Len(index) = Capacity - (g.available - 1)
  BY <1>1, <1>3, Sizes
<1>5. PICK left : left = g.available - 1
  OBVIOUS
<1>6. EnteredIn(g, e) = [g EXCEPT !.available = left, !.entries = index]
  BY <1>2, <1>5 DEF EnteredIn, OverflowPages
<1>7. /\ EnteredIn(g, e) \in OverflowPages /\ EnteredIn(g, e).kind = "overflow"
      /\ EnteredIn(g, e).owner = g.owner /\ EnteredIn(g, e).previous = g.previous
      /\ EnteredIn(g, e).available = left /\ EnteredIn(g, e).entries = index
  BY <1>3, <1>4, <1>5, <1>6 DEF OverflowPages
<1> QED BY <1>3, <1>4, <1>5, <1>7
LEMMA EnterOverflowStep ==
  ASSUME IInv, NEW t \in Threads, EnterOverflow(t) PROVE IInv'
<1> USE DEF IInv
<1> PICK z, e, group : z = zone[t] /\ e = cur[t] /\ group = page[z].overflow
  OBVIOUS
<1>1. /\ Entering(t) /\ z \in Pages /\ page[z].kind = "zone" /\ page[z].lock = t
      /\ e \in Pages /\ page[e].kind = "large" /\ page[e].owner = z
      /\ page[z] \in ZonePages /\ group \in Links
  <2>1. /\ Entering(t) /\ z \in Pages /\ page[z].kind = "zone" /\ page[z].lock = t
        /\ e \in Pages /\ page[e].kind = "large" /\ page[e].owner = z
    BY DEF EnterOverflow, Entering, Goto, PlaceOK, Locked
  <2> QED BY <2>1, PageKinds DEF ZonePages
<1>2. PICK live \in SUBSET Pages : IndexesOK(live)
  OBVIOUS
<1>3. z \in live /\ OwnerOf(z) = z
  BY <1>1, <1>2, ZoneIndexLives DEF Entering
<1>4. group # NULL => group \in live /\ page[group].kind = "overflow" /\ page[group].owner = z
  BY <1>1, <1>2, <1>3 DEF IndexesOK, MoreOf
<1>5. CASE group # NULL /\ page[group].available >= 1
  <2>1. PICK g : g = group
    OBVIOUS
  <2>2. g \in live /\ g \in Pages /\ page[g].kind = "overflow" /\ page[g].owner = z
        /\ page[g].available >= 1 /\ g # z
    BY <1>1, <1>4, <1>5, <2>1
  <2>3. page[g] \in OverflowPages /\ Len(page[g].entries) = Capacity - page[g].available
    BY <2>2, PageKinds DEF Counts
  <2>4. page' = [page EXCEPT ![g] = EnteredIn(page[g], e)]
    BY <1>5, <2>1 DEF EnterOverflow, EnteredIn
  <2>5. /\ page'[g] = EnteredIn(page[g], e)
        /\ \A p \in Pages : p # g => page'[p] = page[p]
    BY <2>2, <2>4 DEF Shape
  <2>6. /\ page'[g] \in OverflowPages /\ page'[g].kind = "overflow"
        /\ page'[g].owner = z /\ page'[g].previous = page[g].previous
        /\ Len(page'[g].entries) = Capacity - page'[g].available
        /\ Range(page'[g].entries) = Range(page[g].entries) \cup {e}
    <3>1. PICK old : old = page[g]
      OBVIOUS
    <3>2. /\ EnteredIn(old, e) \in OverflowPages /\ EnteredIn(old, e).kind = "overflow"
          /\ EnteredIn(old, e).owner = old.owner
          /\ EnteredIn(old, e).previous = old.previous
          /\ Len(EnteredIn(old, e).entries) = Capacity - EnteredIn(old, e).available
          /\ Range(EnteredIn(old, e).entries) = Range(old.entries) \cup {e}
      BY <1>1, <2>2, <2>3, <3>1, EntryAdded
    <3> QED BY <2>2, <2>5, <3>1, <3>2
  <2>7. Shape'
    <3>1. page' \in [Pages -> Contents]
      BY <2>4, <2>5, <2>6 DEF Shape, Contents
    <3> QED
      BY <1>1, <3>1 DEF Entering, Shape, Contents, Pages, ZonePages, GroupPages,
         OverflowPages, LargePages, DataPages, Links, GroupSizes, Midpoint, Threshold,
         Capacity, Places, Locked, FreePage
  <2>8. Counts'
    BY <2>2, <2>5, <2>6 DEF Counts, Pages, Midpoint, Capacity
  <2>9. RunsOK' /\ (\A u \in Threads : PlaceOK(u)') /\ AloneOK' /\ GroupsOK' /\ BlocksOK'
    BY <1>1, <2>2, <2>5, <2>6, <2>7, EnterKeeps
  <2>10. /\ OwnerOf(g)' = OwnerOf(g) /\ MoreOf(g)' = MoreOf(g)
         /\ EntriesOf(g)' = EntriesOf(g) \cup {cur[t]} /\ OwnerOf(g) = zone[t]
    BY <2>2, <2>6 DEF OwnerOf, MoreOf, EntriesOf
  <2>11. IndexesOK(live)'
    BY <1>1, <1>2, <2>2, <2>5, <2>6, <2>10, EntersIndexes
  <2> QED BY <2>7, <2>8, <2>9, <2>11 DEF Pages
<1>6. CASE ~ (group # NULL /\ page[group].available >= 1)
  <2>1. PICK p \in FreeSingles :
          page' = [page EXCEPT ![p] = EnteredIn(OverflowPage(z, group), e), ![z].overflow = p]
    BY <1>6 DEF EnterOverflow, EnteredIn
  <2>2. p \in Pages /\ page[p].kind = "free" /\ p # z /\ p # NULL
    BY <1>1, FreeSingle, Sizes
  <2>3. /\ page'[p] = EnteredIn(OverflowPage(z, group), e)
        /\ page'[z] = [page[z] EXCEPT !.overflow = p]
        /\ \A q \in Pages : q # p /\ q # z => page'[q] = page[q]
    BY <1>1, <2>1, <2>2 DEF Shape
  <2>4. /\ page'[p] \in OverflowPages /\ page'[p].kind = "overflow"
        /\ page'[p].owner = z /\ page'[p].previous = group
        /\ Len(page'[p].entries) = Capacity - page'[p].available
        /\ Range(page'[p].entries) = {e}
    <3>1. PICK blank : blank = OverflowPage(z, group)
      OBVIOUS
    <3>2. /\ blank \in OverflowPages /\ blank.available = Capacity /\ blank.entries = << >>
          /\ blank.owner = z /\ blank.previous = group
      BY <1>1, <3>1, Sizes DEF OverflowPage, OverflowPages
    <3>3. Len(blank.entries) = Capacity - blank.available /\ blank.available >= 1
          /\ Range(blank.entries) = {}
      BY <3>2, Sizes DEF Range
    <3>4. /\ EnteredIn(blank, e) \in OverflowPages /\ EnteredIn(blank, e).kind = "overflow"
          /\ EnteredIn(blank, e).owner = blank.owner
          /\ EnteredIn(blank, e).previous = blank.previous
          /\ Len(EnteredIn(blank, e).entries) = Capacity - EnteredIn(blank, e).available
          /\ Range(EnteredIn(blank, e).entries) = Range(blank.entries) \cup {e}
      BY <1>1, <3>2, <3>3, EntryAdded
    <3> QED BY <2>3, <3>1, <3>2, <3>3, <3>4
  <2>5. /\ page'[z] \in ZonePages /\ page'[z].kind = "zone" /\ page'[z].lock = page[z].lock
        /\ page'[z].small_blocks = page[z].small_blocks
        /\ page'[z].overflow = p /\ page'[z].large_blocks = page[z].large_blocks
    BY <1>1, <2>2, <2>3 DEF ZonePages, Links
  <2>6. Shape'
    <3>1. page' \in [Pages -> Contents]
      BY <2>1, <2>3, <2>4, <2>5 DEF Shape, Contents
    <3> QED
      BY <1>1, <3>1 DEF Entering, Shape, Contents, Pages, ZonePages, GroupPages,
         OverflowPages, LargePages, DataPages, Links, GroupSizes, Midpoint, Threshold,
         Capacity, Places, Locked, FreePage
  <2>7. Counts'
    BY <1>1, <2>2, <2>3, <2>4, <2>5 DEF Counts, Pages, Midpoint, Capacity
  <2>8. RunsOK' /\ (\A u \in Threads : PlaceOK(u)') /\ AloneOK' /\ GroupsOK' /\ BlocksOK'
    BY <1>1, <2>2, <2>3, <2>4, <2>5, <2>6, EnterKeeps
  <2> DEFINE heads == live \cup {p}
  <2>9. p \notin live /\ heads \in SUBSET Pages /\ z \in heads /\ p \in heads
    BY <1>2, <1>3, <2>2 DEF IndexesOK
  <2>10. /\ EntriesOf(p)' = {e} /\ MoreOf(p)' = group /\ OwnerOf(p)' = z
         /\ EntriesOf(z)' = EntriesOf(z) /\ MoreOf(z)' = p /\ OwnerOf(z)' = z
         /\ \A h \in live : h # z => SameIndex(h)
    BY <1>1, <1>2, <1>3, <2>3, <2>4, <2>5, <2>9
    DEF EntriesOf, MoreOf, OwnerOf, SameIndex
  <2>11. \A h \in live : /\ EntriesOf(h) \subseteq Pages /\ MoreOf(h) \in Links
                         /\ EntriesOf(h)' = EntriesOf(h) /\ OwnerOf(h)' = OwnerOf(h)
                         /\ h # z => MoreOf(h)' = MoreOf(h)
    <3>1. ASSUME NEW h \in live PROVE EntriesOf(h) \subseteq Pages /\ MoreOf(h) \in Links
      <4>1. CASE page[h].kind = "zone"
        BY <4>1, PageKinds DEF ZonePages, EntriesOf, MoreOf, Range
      <4>2. CASE page[h].kind = "overflow"
        BY <4>2, PageKinds DEF OverflowPages, EntriesOf, MoreOf, Range
      <4> QED BY <1>2, <4>1, <4>2 DEF IndexesOK
    <3> QED BY <1>3, <2>10, <3>1 DEF SameIndex
  <2>12. \A h \in live : MoreOf(h) # p
    BY <1>2, <2>2 DEF IndexesOK
  <2>13. \A h \in live : h # z => MoreOf(h) # group \/ group = NULL
    BY <1>1, <1>2, <1>3 DEF IndexesOK, MoreOf
  <2>14. \A q \in Pages : /\ q # p => page'[q].kind = page[q].kind
                          /\ page[q].kind \in {"overflow", "large"} =>
                               page'[q].owner = page[q].owner
    BY <1>1, <2>2, <2>3, <2>5
  <2>15. \A h \in heads : page'[h].kind \in {"zone", "overflow"}
    BY <1>2, <2>4, <2>9, <2>14 DEF IndexesOK
  <2>16. \A h \in heads : \A x \in EntriesOf(h)' :
            page'[x].kind = "large" /\ page'[x].owner = OwnerOf(h)'
    <3>1. page'[e].kind = "large" /\ page'[e].owner = z
      BY <1>1, <2>2, <2>14
    <3>2. ASSUME NEW h \in live, NEW x \in EntriesOf(h)
          PROVE  page'[x].kind = "large" /\ page'[x].owner = OwnerOf(h)'
      <4>1. page[x].kind = "large" /\ page[x].owner = OwnerOf(h) /\ x \in Pages
        BY <1>2, <2>11 DEF IndexesOK
      <4> QED BY <2>2, <2>11, <2>14, <4>1
    <3> QED BY <2>10, <2>11, <3>1, <3>2
  <2>17. \A h \in heads : MoreOf(h)' # NULL =>
            /\ MoreOf(h)' \in heads /\ page'[MoreOf(h)'].kind = "overflow"
            /\ page'[MoreOf(h)'].owner = OwnerOf(h)'
    <3>1. ASSUME NEW h \in live, h # z, MoreOf(h) # NULL
          PROVE  /\ MoreOf(h) \in heads /\ page'[MoreOf(h)].kind = "overflow"
                 /\ page'[MoreOf(h)].owner = OwnerOf(h)
      <4>1. /\ MoreOf(h) \in live /\ page[MoreOf(h)].kind = "overflow"
            /\ page[MoreOf(h)].owner = OwnerOf(h)
        BY <1>2, <3>1 DEF IndexesOK
      <4> QED BY <2>2, <2>14, <4>1
    <3>2. group # NULL => /\ group \in heads /\ page'[group].kind = "overflow"
                          /\ page'[group].owner = z
      BY <1>4, <2>2, <2>14
    <3> QED BY <1>3, <2>4, <2>10, <2>11, <3>1, <3>2
  <2>18. \A g, h \in heads : g # h => EntriesOf(g)' \cap EntriesOf(h)' = {}
    <3>1. \A h \in live : e \notin EntriesOf(h)
      BY <1>1, <1>2 DEF IndexesOK, Entering
    <3>2. \A g, h \in live : g # h => EntriesOf(g) \cap EntriesOf(h) = {}
      BY <1>2 DEF IndexesOK
    <3> QED BY <2>10, <2>11, <3>1, <3>2
  <2>19. \A g, h \in heads : g # h /\ MoreOf(g)' = MoreOf(h)' => MoreOf(g)' = NULL
    <3>1. \A g, h \in live : g # h /\ MoreOf(g) = MoreOf(h) => MoreOf(g) = NULL
      BY <1>2 DEF IndexesOK
    <3>2. group # p
      BY <1>4, <2>2
    <3> QED BY <2>10, <2>11, <2>12, <2>13, <3>1, <3>2
  <2>20. OwnLocals(t) /\ pc'[t] = "unlock" /\ pc[t] = "enter" /\ cur' = cur /\ zone' = zone
    BY <1>1 DEF Entering, OwnLocals, Shape
  <2>21. \A y \in Pages : page'[y].kind = "zone" =>
           (y \in heads <=> \A u \in Threads : pc'[u] = "overflows" => zone'[u] # y)
    BY <1>2, <2>4, <2>14, <2>20 DEF IndexesOK, OwnLocals
  <2>22. ASSUME NEW u \in Threads
         PROVE  /\ pc'[u] = "enter" => \A h \in heads : cur'[u] \notin EntriesOf(h)'
                /\ pc'[u] = "overflows" /\ cur'[u] # NULL =>
                     /\ cur'[u] \in heads /\ page'[cur'[u]].kind = "overflow"
                     /\ page'[cur'[u]].owner = zone'[u]
                     /\ \A h \in heads : MoreOf(h)' # cur'[u]
    <3>1. pc'[u] = "enter" => pc[u] = "enter" /\ u # t /\ cur[u] # e
      BY <2>20, EntersAlone DEF OwnLocals
    <3>2. pc'[u] = "enter" => \A h \in heads : cur'[u] \notin EntriesOf(h)'
      BY <1>2, <2>10, <2>11, <2>20, <3>1 DEF IndexesOK
    <3>3. ASSUME pc'[u] = "overflows", cur[u] # NULL
          PROVE  /\ cur[u] \in live /\ page[cur[u]].kind = "overflow"
                 /\ page[cur[u]].owner = zone[u] /\ \A h \in live : MoreOf(h) # cur[u]
                 /\ zone[u] # z
      BY <1>2, <2>20, <3>3 DEF IndexesOK, IsFirst, OwnLocals, AloneOK, Destroying
    <3>4. ASSUME pc'[u] = "overflows", cur[u] # NULL
          PROVE  /\ cur[u] \in heads /\ page'[cur[u]].kind = "overflow"
                 /\ page'[cur[u]].owner = zone[u]
                 /\ \A h \in heads : MoreOf(h)' # cur[u]
      BY <1>4, <2>2, <2>10, <2>11, <2>14, <3>3, <3>4
    <3> QED BY <2>20, <3>2, <3>4
  <2> HIDE DEF heads
  <2>23. IndexesOK(heads)'
    BY <2>15, <2>16, <2>17, <2>18, <2>19, <2>21, <2>22 DEF IndexesOK, IsFirst, Pages
  <2> QED BY <2>6, <2>7, <2>8, <2>9, <2>23 DEF Pages
<1> QED BY <1>5, <1>6
-----------------------------------------------------------------------------
(* Steps of zone_destroy.                                                   *)
LEMMA FreeGroupStep ==
  ASSUME IInv, NEW t \in Threads, FreeGroup(t) PROVE IInv'
<1> USE DEF IInv
<1> PICK z, c, older : z = zone[t] /\ c = cur[t] /\ older = page[c].previous
  OBVIOUS
<1>1. /\ pc[t] = "groups" /\ c # NULL /\ page' = [page EXCEPT ![c] = FreePage]
      /\ cur' = [cur EXCEPT ![t] = older]
      /\ blocks' = blocks /\ pc' = pc /\ zone' = zone /\ size' = size
  BY DEF FreeGroup
<1>2. /\ z \in Pages /\ page[z].kind = "zone" /\ c \in Pages /\ page[c].kind = "group"
      /\ page[c].owner = z /\ page[c].element_size = size[t] /\ IsNewest(c)
  BY <1>1 DEF PlaceOK, InGroup
<1>3. older \in Links
  BY <1>2, PageKinds DEF GroupPages
<1>4. /\ page'[c] = FreePage /\ page'[c].kind = "free"
      /\ \A q \in Pages : q # c => page'[q] = page[q]
  BY <1>1, <1>2 DEF Shape, FreePage
<1>5. OwnLocals(t) /\ pc'[t] = "groups" /\ cur'[t] = older
  BY <1>1 DEF OwnLocals, Shape
<1>6. older # NULL => /\ older \in Pages /\ older # c /\ page[older].kind = "group"
                      /\ page[older].owner = z /\ page[older].element_size = size[t]
                      /\ \A r \in Pages : page[r].kind = "group" /\ page[r].previous = older
                                          => r = c
  BY <1>2, <1>3 DEF GroupsOK, IsNewest, Links
<1>7. Shape'
  <2>1. page' \in [Pages -> Contents]
    BY <1>1, <1>4 DEF Shape, Contents
  <2> QED
    BY <1>1, <1>3, <2>1 DEF Shape, Contents, Pages, ZonePages, GroupPages, OverflowPages,
       LargePages, DataPages, Links, GroupSizes, Midpoint, Threshold, Capacity, Places,
       FreePage
<1>8. Counts'
  BY <1>4 DEF Counts, Pages, Midpoint, Capacity
<1>9. RunsOK'
  BY <1>2, <1>4, KeepsRuns
<1>10. \A u \in Threads : PlaceOK(u)'
  <2>1. older # NULL => InGroup(t)' /\ IsNewest(older)'
    BY <1>1, <1>4, <1>5, <1>6 DEF InGroup, IsNewest, Pages
  <2>2. IsNewest(cur[t])' <=> IsNewest(older)'
    BY <1>5 DEF IsNewest
  <2>3. PlaceOK(t)'
    BY <1>1, <1>2, <1>4, <1>5, <2>1, <2>2 DEF PlaceOK, Locked, Pages
  <2>4. Frees(t)
    BY <1>1, <1>2, <1>4 DEF Frees, Destroying
  <2> QED BY <1>5, <2>3, <2>4, FreesDisturbNobody
<1>11. AloneOK'
  BY <1>1 DEF AloneOK
<1>12. GroupsOK'
  <2>1. \A q \in Pages : page'[q].kind = "group" => q # c /\ page'[q] = page[q]
    BY <1>4
  <2>2. ASSUME NEW q \in Pages, page'[q].kind = "group", page'[q].previous # NULL
        PROVE  /\ page'[page'[q].previous].kind = "group"
               /\ page'[page'[q].previous].owner = page'[q].owner
               /\ page'[page'[q].previous].element_size = page'[q].element_size
               /\ \A r \in Pages : page'[r].kind = "group"
                                   /\ page'[r].previous = page'[q].previous => r = q
    <3>1. page[q].kind = "group" /\ page'[q] = page[q] /\ page[q].previous # c
      BY <1>2, <2>1, <2>2 DEF IsNewest
    <3>2. PICK r \in Pages : r = page[q].previous
      BY <2>2, <3>1, PageKinds DEF GroupPages, Links
    <3>3. /\ page[r].kind = "group" /\ page[r].owner = page[q].owner
          /\ page[r].element_size = page[q].element_size
          /\ \A x \in Pages : page[x].kind = "group" /\ page[x].previous = r => x = q
      BY <2>2, <3>1, <3>2 DEF GroupsOK
    <3> QED BY <1>4, <2>1, <3>1, <3>2, <3>3
  <2>3. ASSUME NEW y \in Pages, NEW n \in GroupSizes, page'[y].kind = "zone",
               Unwalked(y, n)', page'[y].small_blocks[n] # NULL
        PROVE  /\ page'[page'[y].small_blocks[n]].kind = "group"
               /\ page'[page'[y].small_blocks[n]].owner = y
               /\ page'[page'[y].small_blocks[n]].element_size = n
               /\ \A r \in Pages : page'[r].kind = "group" =>
                    page'[r].previous # page'[y].small_blocks[n]
    <3>1. page[y].kind = "zone" /\ page'[y] = page[y]
      BY <1>4, <2>3
    <3>2. PICK q \in Links : q = page[y].small_blocks[n]
      BY <3>1, PageKinds DEF ZonePages
    <3>3. Unwalked(y, n)
      BY <1>1, <2>3 DEF Unwalked
    <3>4. /\ page[q].kind = "group" /\ page[q].owner = y
          /\ page[q].element_size = n /\ IsNewest(q) /\ q \in Pages
      BY <2>3, <3>1, <3>2, <3>3 DEF GroupsOK, Links
    <3>5. q # c
      <4>1. n \in Nat
        BY DEF GroupSizes, Midpoint
      <4>2. ~ (y = z /\ n = size[t])
        BY <1>1, <3>3, <4>1 DEF Unwalked, Destroying
      <4> QED BY <1>2, <3>4, <4>2
    <3> QED BY <1>4, <2>1, <3>1, <3>2, <3>4, <3>5 DEF IsNewest
  <2> QED BY <2>2, <2>3 DEF GroupsOK, IsNewest, Pages, GroupSizes, Midpoint
<1>13. BlocksOK'
  <2>1. \A b \in blocks : b.zone # z /\ BlockOK(b)
    BY <1>1 DEF BlocksOK, BlockOK, BeingDestroyed
  <2>2. \A b \in blocks : page'[b.zone].kind = "zone" /\ page'[b.page] = page[b.page]
    BY <1>2, <1>4, <2>1 DEF BlocksOK, BlockOK
  <2> QED BY <1>1, <2>1, <2>2, KeepsBlocks DEF BlockOK, BeingDestroyed
<1>14. \E live \in SUBSET Pages' : IndexesOK(live)'
  <2>1. PICK live \in SUBSET Pages : IndexesOK(live)
    OBVIOUS
  <2>2. \A q \in Pages : q # c => SameIndex(q)
    BY <1>4 DEF SameIndex, OwnerOf, EntriesOf, MoreOf
  <2>3. IndexesOK(live)'
    BY <1>1, <1>2, <1>4, <1>5, <2>1, <2>2, KeepsIndexes DEF OwnLocals
  <2> QED BY <2>3 DEF Pages
<1> QED BY <1>7, <1>8, <1>9, <1>10, <1>11, <1>12, <1>13, <1>14

LEMMA ReleaseStep == ASSUME IInv, NEW t \in Threads, Release(t) PROVE IInv'
<1> USE DEF IInv
<1> PICK z : z = zone[t]
  OBVIOUS
<1>1. /\ pc[t] = "overflows" /\ cur[t] = NULL /\ page' = [page EXCEPT ![z] = FreePage]
      /\ pc' = [pc EXCEPT ![t] = "idle"] /\ zone' = [zone EXCEPT ![t] = NULL]
      /\ size' = [size EXCEPT ![t] = 0] /\ blocks' = blocks /\ cur' = cur
      /\ z \in Pages /\ page[z].kind = "zone"
  BY DEF Release, Goto, PlaceOK
<1>2. /\ page'[z] = FreePage /\ page'[z].kind = "free"
      /\ \A q \in Pages : q # z => page'[q] = page[q]
  BY <1>1 DEF Shape, FreePage
<1>3. OwnLocals(t) /\ pc'[t] = "idle" /\ zone'[t] = NULL /\ size'[t] = 0 /\ cur'[t] = NULL
  BY <1>1 DEF OwnLocals, Shape
<1>4. Shape'
  <2>1. page' \in [Pages -> Contents]
    BY <1>1, <1>2 DEF Shape, Contents
  <2> QED
    BY <1>1, <2>1 DEF Shape, Contents, Pages, ZonePages, GroupPages, OverflowPages,
       LargePages, DataPages, Links, GroupSizes, Midpoint, Threshold, Capacity, Places,
       FreePage
<1>5. Counts'
  BY <1>2 DEF Counts, Pages, Midpoint, Capacity
<1>6. RunsOK'
  BY <1>1, <1>2, KeepsRuns
<1>7. \A u \in Threads : PlaceOK(u)'
  <2>1. PlaceOK(t)'
    BY <1>3 DEF PlaceOK, Locked
  <2>2. Frees(t)
    BY <1>1, <1>2 DEF Frees, Destroying
  <2> QED BY <1>3, <2>1, <2>2, FreesDisturbNobody
<1>8. AloneOK'
  BY <1>3 DEF AloneOK, OwnLocals, Destroying
<1>9. GroupsOK'
  <2>1. \A p \in Pages : page[p].kind = "group" => SameGroup(p)
    BY <1>1, <1>2 DEF SameGroup
  <2>2. \A y \in Pages : page'[y].kind = "zone" =>
          /\ SameSmallBlocks(y)
          /\ \A n \in GroupSizes : Unwalked(y, n)' => Unwalked(y, n)
    BY <1>1, <1>2, <1>3 DEF SameSmallBlocks, Unwalked, OwnLocals, Destroying
  <2> QED BY <1>1, <1>2, <1>4, <2>1, <2>2, KeepsGroups
<1>10. BlocksOK'
  <2>1. \A b \in blocks : b.zone # z /\ BlockOK(b)
    BY <1>1 DEF BlocksOK, BlockOK, BeingDestroyed
  <2>2. \A b \in blocks : /\ page'[b.zone].kind = "zone" /\ ~ BeingDestroyed(b.zone)'
                          /\ page'[b.page] = page[b.page]
    BY <1>1, <1>2, <1>3, <2>1 DEF BlocksOK, BlockOK, BeingDestroyed, OwnLocals
  <2> QED BY <1>1, <2>2, KeepsBlocks
<1>11. \E live \in SUBSET Pages' : IndexesOK(live)'
  <2>1. PICK live \in SUBSET Pages : IndexesOK(live)
    OBVIOUS
  <2>2. z \notin live
    BY <1>1, <2>1 DEF IndexesOK
  <2>3. \A h \in live : /\ page'[h] = page[h] /\ SameIndex(h)
                        /\ EntriesOf(h)' = EntriesOf(h) /\ MoreOf(h)' = MoreOf(h)
                        /\ OwnerOf(h)' = OwnerOf(h)
    BY <1>2, <2>2 DEF SameIndex, OwnerOf, EntriesOf, MoreOf
  <2>4. \A h \in live : EntriesOf(h) \subseteq Pages
    BY <2>1, PageKinds DEF IndexesOK, EntriesOf, ZonePages, OverflowPages, Range
  <2>5. ASSUME NEW h \in live
        PROVE  /\ page'[h].kind \in {"zone", "overflow"}
               /\ \A e \in EntriesOf(h)' :
                    page'[e].kind = "large" /\ page'[e].owner = OwnerOf(h)'
               /\ MoreOf(h)' # NULL =>
                    /\ MoreOf(h)' \in live /\ page'[MoreOf(h)'].kind = "overflow"
                    /\ page'[MoreOf(h)'].owner = OwnerOf(h)'
    <3>1. \A e \in EntriesOf(h) : page[e].kind = "large" /\ page[e].owner = OwnerOf(h)
      BY <2>1 DEF IndexesOK
    <3>2. \A e \in EntriesOf(h) : page'[e] = page[e]
      BY <1>1, <1>2, <2>4, <3>1
    <3>3. MoreOf(h) # NULL =>
             /\ MoreOf(h) \in live /\ page[MoreOf(h)].kind = "overflow"
             /\ page[MoreOf(h)].owner = OwnerOf(h)
      BY <2>1 DEF IndexesOK
    <3>4. page[h].kind \in {"zone", "overflow"}
      BY <2>1 DEF IndexesOK
    <3> QED BY <2>3, <3>1, <3>2, <3>3, <3>4
  <2>6. \A g, h \in live : g # h =>
          /\ EntriesOf(g)' \cap EntriesOf(h)' = {}
          /\ MoreOf(g)' = MoreOf(h)' => MoreOf(g)' = NULL
    BY <2>1, <2>3 DEF IndexesOK
  <2>7. \A y \in Pages : page'[y].kind = "zone" =>
          (y \in live <=> \A u \in Threads : pc'[u] = "overflows" => zone'[u] # y)
    BY <1>1, <1>2, <1>3, <2>1 DEF IndexesOK, OwnLocals
  <2>8. \A u \in Threads :
          /\ pc'[u] = "enter" => \A h \in live : cur'[u] \notin EntriesOf(h)'
          /\ pc'[u] = "overflows" /\ cur'[u] # NULL =>
               /\ cur'[u] \in live /\ page'[cur'[u]].kind = "overflow"
               /\ page'[cur'[u]].owner = zone'[u] /\ \A h \in live : MoreOf(h)' # cur'[u]
    BY <1>3, <2>1, <2>3 DEF IndexesOK, IsFirst, OwnLocals
  <2>9. IndexesOK(live)'
    BY <2>5, <2>6, <2>7, <2>8 DEF IndexesOK, IsFirst, Pages
  <2> QED BY <2>9 DEF Pages
<1> QED BY <1>4, <1>5, <1>6, <1>7, <1>8, <1>9, <1>10, <1>11
(* One index of large blocks is gone through, and its blocks are freed.     *)
RunsAt(h) == UNION {RunOf(e, page[e].element_size) : e \in EntriesOf(h)}
LEMMA IndexFreed ==
  ASSUME IInv, NEW t \in Threads, NEW live \in SUBSET Pages, IndexesOK(live),
         NEW g \in live, OwnerOf(g) = zone[t], \A h \in live : MoreOf(h) # g,
         \/ pc[t] = "index" /\ page[g].kind = "zone"
         \/ pc[t] = "overflows" /\ page[g].kind = "overflow",
         page' = Freed(RunsAt(g)), cur' = [cur EXCEPT ![t] = MoreOf(g)],
         pc' = [pc EXCEPT ![t] = "overflows"],
         blocks' = blocks, zone' = zone, size' = size
  PROVE  IInv'
<1> USE DEF IInv
<1> PICK z, more : z = zone[t] /\ more = MoreOf(g)
  OBVIOUS
<1> DEFINE S == RunsAt(g)
<1>1. /\ z \in Pages /\ page[z].kind = "zone" /\ pc[t] \in Destroying
      /\ page[g].kind = "zone" => g = z
  BY DEF PlaceOK, Destroying, OwnerOf
<1>2. \A h \in live : /\ EntriesOf(h) \subseteq Pages /\ MoreOf(h) \in Links
                      /\ page[h].kind \in {"zone", "overflow"}
                      /\ \A e \in EntriesOf(h) : /\ page[e].kind = "large"
                                                 /\ page[e].owner = OwnerOf(h)
                      /\ MoreOf(h) # NULL => /\ MoreOf(h) \in live
                                             /\ page[MoreOf(h)].kind = "overflow"
                                             /\ page[MoreOf(h)].owner = OwnerOf(h)
  <2>1. ASSUME NEW h \in live PROVE EntriesOf(h) \subseteq Pages /\ MoreOf(h) \in Links
    <3>1. CASE page[h].kind = "zone"
      BY <3>1, PageKinds DEF ZonePages, EntriesOf, MoreOf, Range
    <3>2. CASE page[h].kind = "overflow"
      BY <3>2, PageKinds DEF OverflowPages, EntriesOf, MoreOf, Range
    <3> QED BY <3>1, <3>2 DEF IndexesOK
  <2> QED BY <2>1 DEF IndexesOK
<1>3. \A q \in S : \/ q \in EntriesOf(g)
                   \/ \E e \in EntriesOf(g) : page[q] = DataPage(e)
  BY <1>2 DEF RunsOK, RunsAt
<1>4. \A e \in EntriesOf(g) : e \in S
  <2> SUFFICES ASSUME NEW e \in EntriesOf(g) PROVE e \in RunOf(e, page[e].element_size)
    BY DEF RunsAt
  <2>1. e \in Nat /\ page[e].element_size \in Nat
    BY <1>2, PageKinds, Sizes DEF LargePages
  <2> QED BY <2>1, RunFits DEF RunOf
<1> HIDE DEF S
<1>5. /\ \A q \in Pages : q \in S => page'[q] = FreePage /\ page'[q].kind = "free"
      /\ \A q \in Pages : q \notin S => page'[q] = page[q]
      /\ DOMAIN page' = Pages
  BY DEF Freed, FreePage, S
<1>6. /\ \A e : DataPage(e).kind = "data" /\ DataPage(e).head = e
      /\ \A q \in S : page[q].kind = "data" \/ (page[q].kind = "large" /\ page[q].owner = z)
  <2>1. \A e : DataPage(e).kind = "data" /\ DataPage(e).head = e
    BY DEF DataPage
  <2> QED BY <1>2, <1>3, <2>1
<1>7. /\ OwnLocals(t) /\ pc'[t] = "overflows" /\ cur'[t] = more /\ more \in Links
  BY <1>2 DEF OwnLocals, Shape
<1>8. Shape'
  <2>1. \A q \in Pages : page'[q] \in Contents
    BY <1>5 DEF Shape, Contents
  <2>2. page' \in [Pages -> Contents]
    BY <2>1 DEF Freed
  <2> QED
    BY <1>7, <2>2 DEF Shape, Contents, Pages, ZonePages, GroupPages, OverflowPages,
       LargePages, DataPages, Links, GroupSizes, Midpoint, Threshold, Capacity, Places,
       Destroying, FreePage
<1>9. Counts'
  BY <1>5 DEF Counts, Pages, Midpoint, Capacity
<1>10. RunsOK'
  <2> SUFFICES ASSUME NEW p \in Pages, page'[p].kind = "large"
               PROVE  /\ RunOf(p, page'[p].element_size) \subseteq Pages
                      /\ \A q \in RunOf(p, page'[p].element_size) :
                           q # p => page'[q] = DataPage(p)
    BY DEF RunsOK, Pages, RunOf, RunLength
  <2>1. p \notin S /\ page'[p] = page[p]
    BY <1>5
  <2>2. /\ RunOf(p, page[p].element_size) \subseteq Pages
        /\ \A q \in RunOf(p, page[p].element_size) : q # p => page[q] = DataPage(p)
    BY <2>1 DEF RunsOK
  <2>3. \A q \in RunOf(p, page[p].element_size) : q # p => q \notin S
    BY <1>2, <1>3, <1>4, <1>6, <2>1, <2>2
  <2> QED BY <1>5, <2>1, <2>2, <2>3
<1>11. \A u \in Threads : PlaceOK(u)'
  <2>1. PlaceOK(t)'
    BY <1>1, <1>5, <1>6, <1>7 DEF PlaceOK, Locked, Pages
  <2>2. Frees(t)
    BY <1>1, <1>5, <1>6 DEF Frees
  <2> QED BY <1>7, <2>1, <2>2, FreesDisturbNobody
<1>12. AloneOK'
  BY <1>1, <1>7 DEF AloneOK, OwnLocals, Destroying
<1>13. GroupsOK'
  <2>1. \A p \in Pages : page[p].kind = "group" => SameGroup(p)
    BY <1>5, <1>6 DEF SameGroup
  <2>2. \A y \in Pages : page'[y].kind = "zone" =>
          /\ SameSmallBlocks(y)
          /\ \A n \in GroupSizes : Unwalked(y, n)' => Unwalked(y, n)
    BY <1>5, <1>7 DEF SameSmallBlocks, Unwalked, OwnLocals, Destroying
  <2> QED BY <1>5, <1>8, <2>1, <2>2, KeepsGroups
<1>14. BlocksOK'
  <2>1. \A b \in blocks : b.zone # z /\ BlockOK(b) /\ b.zone \in Pages /\ b.page \in Pages
    BY <1>1 DEF BlocksOK, BlockOK, BeingDestroyed, Destroying
  <2>2. \A b \in blocks : page'[b.zone].kind = "zone" /\ page'[b.page] = page[b.page]
    BY <1>5, <1>6, <2>1 DEF BlockOK
  <2>3. \A b \in blocks : ~ BeingDestroyed(b.zone)'
    BY <1>7, <2>1 DEF BlockOK, BeingDestroyed, OwnLocals
  <2> QED BY <2>2, <2>3, KeepsBlocks
<1>15. \E rest \in SUBSET Pages' : IndexesOK(rest)'
  <2> DEFINE rest == live \ {g}
  <2>1. \A h \in live : /\ page'[h] = page[h] /\ EntriesOf(h)' = EntriesOf(h)
                        /\ MoreOf(h)' = MoreOf(h) /\ OwnerOf(h)' = OwnerOf(h)
    BY <1>2, <1>5, <1>6 DEF EntriesOf, MoreOf, OwnerOf
  <2>2. \A h \in rest : \A e \in EntriesOf(h) : e \notin S
    BY <1>2, <1>3, <1>6 DEF IndexesOK
  <2>3. ASSUME NEW h \in rest
        PROVE  /\ page'[h].kind \in {"zone", "overflow"}
               /\ \A e \in EntriesOf(h)' :
                    page'[e].kind = "large" /\ page'[e].owner = OwnerOf(h)'
               /\ MoreOf(h)' # NULL =>
                    /\ MoreOf(h)' \in rest /\ page'[MoreOf(h)'].kind = "overflow"
                    /\ page'[MoreOf(h)'].owner = OwnerOf(h)'
    <3>1. \A e \in EntriesOf(h) : page'[e] = page[e]
      BY <1>2, <1>5, <2>2
    <3>2. MoreOf(h) # NULL => MoreOf(h) \in rest /\ page'[MoreOf(h)] = page[MoreOf(h)]
      BY <1>2, <2>1
    <3> QED BY <1>2, <2>1, <3>1, <3>2
  <2>4. \A f, h \in rest : f # h =>
          /\ EntriesOf(f)' \cap EntriesOf(h)' = {}
          /\ MoreOf(f)' = MoreOf(h)' => MoreOf(f)' = NULL
    BY <2>1 DEF IndexesOK
  <2>5. \A y \in Pages : page'[y].kind = "zone" =>
          (y \in rest <=> \A u \in Threads : pc'[u] = "overflows" => zone'[u] # y)
    <3> SUFFICES ASSUME NEW y \in Pages, page'[y].kind = "zone"
                 PROVE  y \in rest <=> \A u \in Threads : pc'[u] = "overflows" => zone'[u] # y
      OBVIOUS
    <3>1. page[y].kind = "zone"
            /\ (y \in live <=> \A u \in Threads : pc[u] = "overflows" => zone[u] # y)
      BY <1>5 DEF IndexesOK
    <3>2. CASE y = z
      BY <1>1, <1>7, <3>1, <3>2
    <3>3. CASE y # z
      BY <1>1, <1>7, <3>1, <3>3 DEF OwnLocals
    <3> QED BY <3>2, <3>3
  <2>6. ASSUME NEW u \in Threads
        PROVE  /\ pc'[u] = "enter" => \A h \in rest : cur'[u] \notin EntriesOf(h)'
               /\ pc'[u] = "overflows" /\ cur'[u] # NULL =>
                    /\ cur'[u] \in rest /\ page'[cur'[u]].kind = "overflow"
                    /\ page'[cur'[u]].owner = zone'[u]
                    /\ \A h \in rest : MoreOf(h)' # cur'[u]
    <3>1. CASE u = t
      <4>1. more # NULL => \A h \in rest : MoreOf(h) # more
        BY DEF IndexesOK
      <4> QED BY <1>2, <1>7, <2>1, <3>1, <4>1
    <3>2. CASE u # t
      <4>1. /\ pc'[u] = pc[u] /\ cur'[u] = cur[u] /\ zone'[u] = zone[u]
        BY <1>7, <3>2 DEF OwnLocals
      <4>2. pc[u] = "overflows" => zone[u] # z
        BY <1>1, <3>2 DEF AloneOK, Destroying
      <4>3. pc[u] = "overflows" /\ cur[u] # NULL =>
              /\ cur[u] \in live /\ page[cur[u]].kind = "overflow"
              /\ page[cur[u]].owner = zone[u] /\ \A h \in live : MoreOf(h) # cur[u]
        BY DEF IndexesOK, IsFirst
      <4>4. pc[u] = "overflows" /\ cur[u] # NULL => cur[u] \in rest
        BY <4>2, <4>3 DEF OwnerOf
      <4>5. pc[u] = "enter" => \A h \in rest : cur[u] \notin EntriesOf(h)
        BY DEF IndexesOK
      <4> QED BY <2>1, <4>1, <4>3, <4>4, <4>5
    <3> QED BY <3>1, <3>2
  <2> HIDE DEF rest
  <2>7. IndexesOK(rest)'
    BY <2>3, <2>4, <2>5, <2>6 DEF IndexesOK, IsFirst, Pages
  <2>8. rest \in SUBSET Pages'
    BY DEF rest, Pages
  <2> QED BY <2>7, <2>8
<1> QED BY <1>8, <1>9, <1>10, <1>11, <1>12, <1>13, <1>14, <1>15

LEMMA FreeIndexedStep ==
  ASSUME IInv, NEW t \in Threads, FreeIndexed(t) PROVE IInv'
<1> USE DEF IInv
<1>1. PICK live \in SUBSET Pages : IndexesOK(live)
  OBVIOUS
<1> PICK g : g = zone[t]
  OBVIOUS
<1>2. /\ pc[t] = "index" /\ g \in Pages /\ page[g].kind = "zone"
      /\ g = zone[t] /\ g \in live /\ blocks' = blocks /\ zone' = zone /\ size' = size
      /\ pc' = [pc EXCEPT ![t] = "overflows"]
  BY <1>1 DEF FreeIndexed, Goto, PlaceOK, IndexesOK, AloneOK, Destroying
<1>3. /\ OwnerOf(g) = zone[t] /\ MoreOf(g) = page[g].overflow
      /\ EntriesOf(g) = Range(page[g].large_blocks)
  BY <1>2 DEF OwnerOf, MoreOf, EntriesOf
<1>4. page' = Freed(RunsAt(g)) /\ cur' = [cur EXCEPT ![t] = MoreOf(g)]
  BY <1>3 DEF FreeIndexed, RunsAt, PagesOfBlocks
<1>5. \A h \in live : MoreOf(h) # g
  BY <1>1, <1>2, Sizes DEF IndexesOK
<1>6. \/ pc[t] = "index" /\ page[g].kind = "zone"
      \/ pc[t] = "overflows" /\ page[g].kind = "overflow"
  BY <1>2
<1>7. OwnerOf(g) = zone[t]
  BY <1>3
<1> HIDE DEF IInv
<1> QED BY <1>1, <1>2, <1>4, <1>5, <1>6, <1>7, IndexFreed

LEMMA FreeOverflowStep ==
  ASSUME IInv, NEW t \in Threads, FreeOverflow(t) PROVE IInv'
<1> USE DEF IInv
<1>1. PICK live \in SUBSET Pages : IndexesOK(live)
  OBVIOUS
<1>2. PICK g : g = cur[t]
  OBVIOUS
<1>3. /\ pc[t] = "overflows" /\ g # NULL /\ blocks' = blocks /\ zone' = zone /\ size' = size
      /\ pc' = [pc EXCEPT ![t] = "overflows"]
  BY <1>2 DEF FreeOverflow, Shape
<1>4. g \in live /\ page[g].kind = "overflow" /\ page[g].owner = zone[t] /\ IsFirst(live, g)
  BY <1>1, <1>2, <1>3 DEF IndexesOK
<1>5. /\ OwnerOf(g) = zone[t] /\ MoreOf(g) = page[g].previous
      /\ EntriesOf(g) = Range(page[g].entries)
  BY <1>4 DEF OwnerOf, MoreOf, EntriesOf
<1>6. page' = Freed(RunsAt(g)) /\ cur' = [cur EXCEPT ![t] = MoreOf(g)]
  BY <1>2, <1>5 DEF FreeOverflow, RunsAt, PagesOfBlocks
<1>7. \A h \in live : MoreOf(h) # g
  BY <1>4 DEF IsFirst
<1>8. OwnerOf(g) = zone[t]
  BY <1>5
<1>9. \/ pc[t] = "index" /\ page[g].kind = "zone"
      \/ pc[t] = "overflows" /\ page[g].kind = "overflow"
  BY <1>3, <1>4
<1> HIDE DEF IInv
<1> QED BY <1>1, <1>3, <1>4, <1>6, <1>7, <1>8, <1>9, IndexFreed
-----------------------------------------------------------------------------
(* The invariant holds in every state.                                      *)
LEMMA UnchangedStep == ASSUME IInv, UNCHANGED vars PROVE IInv'
<1> USE DEF IInv
<1>1. /\ page' = page /\ blocks' = blocks /\ pc' = pc /\ zone' = zone
      /\ size' = size /\ cur' = cur
  BY DEF vars, locals
<1>2. Shape'
  BY <1>1 DEF Shape, Contents, Pages, ZonePages, GroupPages, OverflowPages, LargePages,
     DataPages, Links, GroupSizes, Midpoint, Threshold, Capacity, Places, FreePage
<1>3. Counts' /\ RunsOK'
  BY <1>1, <1>2, PagesStand
<1>4. \A u \in Threads : PlaceOK(u)'
  BY <1>1, KeepsPlace DEF Undisturbed, PlaceOK, IsNewest
<1>5. AloneOK'
  BY <1>1 DEF AloneOK
<1>6. GroupsOK'
  BY <1>1, <1>2, KeepsGroups DEF SameGroup, SameSmallBlocks, Unwalked
<1>7. BlocksOK'
  BY <1>1, KeepsBlocks DEF BlocksOK, BlockOK, BeingDestroyed
<1>8. \E live \in SUBSET Pages' : IndexesOK(live)'
  <2>1. PICK live \in SUBSET Pages : IndexesOK(live)
    OBVIOUS
  <2>2. IndexesOK(live)'
    BY <1>1, <2>1, SameIndexes, KeepsIndexes
  <2> QED BY <2>2 DEF Pages
<1> QED BY <1>2, <1>3, <1>4, <1>5, <1>6, <1>7, <1>8

LEMMA InitIInv == ASSUME Init PROVE IInv
<1>1. /\ page = [p \in Pages |-> FreePage] /\ blocks = {}
      /\ \A p \in Pages : page[p] = FreePage /\ page[p].kind = "free"
      /\ \A t \in Threads : pc[t] = "idle" /\ cur[t] = NULL /\ size[t] = 0
  BY DEF Init, FreePage
<1>2. Shape
  BY <1>1 DEF Init, Shape, Contents, Places, Links
<1>3. Counts /\ RunsOK /\ GroupsOK /\ BlocksOK /\ AloneOK
  BY <1>1 DEF Counts, RunsOK, GroupsOK, BlocksOK, AloneOK, Destroying
<1>4. \A t \in Threads : PlaceOK(t)
  BY <1>1 DEF PlaceOK, Locked
<1>5. IndexesOK({})
  BY <1>1 DEF IndexesOK
<1> QED BY <1>2, <1>3, <1>4, <1>5 DEF IInv

LEMMA NextIInv == ASSUME IInv, [Next]_vars PROVE IInv'
<1>1. ASSUME NEW t \in Threads, Allocate(t) PROVE IInv'
  BY <1>1, CallStep, LockStep, FindStep, GrowStep, BumpStep, LargeStep, EnterIndexStep,
     EnterOverflowStep, UnlockStep DEF Allocate
<1>2. ASSUME NEW t \in Threads, Dispose(t) PROVE IInv'
  BY <1>2, DestroyStep, FreeGroupStep, NextSizeStep, FreeIndexedStep, FreeOverflowStep,
     ReleaseStep DEF Dispose
<1> QED BY <1>1, <1>2, CreateStep, UnchangedStep DEF Next

LEMMA AlwaysIInv == Spec => []IInv
BY InitIInv, NextIInv, PTL DEF Spec

-----------------------------------------------------------------------------
(* The words of a block come before those of a block on a later page.       *)
LEMMA ProductsOrdered ==
  ASSUME NEW a \in Nat, NEW b \in Nat, NEW r \in Nat, a <= b
  PROVE  a * r <= b * r
<1>1. (b - a) \in Nat
  OBVIOUS
<1>2. (b - a) * r >= 0
  BY <1>1, SMT
<1>3. (b - a) * r = b * r - a * r
  BY SMT
<1> QED BY <1>2, <1>3, SMT

LEMMA LaterPageLaterWords ==
  ASSUME IInv, NEW b \in blocks, NEW c \in blocks, b.page < c.page
  PROVE  Address(b) + b.words <= Address(c)
<1> USE DEF IInv
<1>1. /\ BlockOK(b) /\ BlockOK(c) /\ b.page \in Pages /\ c.page \in Pages
      /\ b.at \in Nat /\ b.words \in Nat /\ c.at \in Nat
      /\ b.page \in Nat /\ c.page \in Nat
  BY Sizes DEF BlocksOK
<1>2. PICK n \in Nat : b.at + b.words <= n * PageWords /\ b.page + n <= c.page
  <2>1. CASE page[b.page].kind = "group"
    <3>1. b.at + b.words <= 1 * PageWords
      BY <1>1, <2>1 DEF BlockOK
    <3>2. b.page + 1 <= c.page
      BY <1>1
    <3> QED BY <3>1, <3>2
  <2>2. CASE page[b.page].kind = "large"
    <3>1. /\ RunLength(b.words) \in Nat
          /\ LargeStruct + b.words <= RunLength(b.words) * PageWords
      BY <1>1, RunFits
    <3>2. b.at = LargeStruct /\ page[b.page].element_size = b.words
      BY <1>1, <2>2 DEF BlockOK
    <3>3. c.page \notin RunOf(b.page, b.words)
      <4>1. \A q \in RunOf(b.page, b.words) : q # b.page => page[q] = DataPage(b.page)
        BY <1>1, <2>2, <3>2 DEF RunsOK
      <4>2. page[c.page] # DataPage(b.page)
        BY <1>1 DEF BlockOK, DataPage
      <4> QED BY <1>1, <4>1, <4>2
    <3>4. b.page + RunLength(b.words) <= c.page
      BY <1>1, <3>1, <3>3 DEF RunOf
    <3>5. b.at + b.words <= RunLength(b.words) * PageWords
      BY <3>1, <3>2
    <3> QED BY <3>1, <3>4, <3>5
  <2> QED BY <1>1, <2>1, <2>2 DEF BlockOK
<1>3. (b.page + n) * PageWords <= c.page * PageWords
  BY <1>1, <1>2, ProductsOrdered
<1>4. /\ (b.page + n) * PageWords = b.page * PageWords + n * PageWords
      /\ b.page * PageWords \in Nat /\ n * PageWords \in Nat /\ c.page * PageWords \in Nat
  BY <1>1, <1>2, SMT
<1>5. b.page * PageWords + b.at + b.words <= c.page * PageWords + c.at
  BY <1>1, <1>2, <1>3, <1>4
<1> QED BY <1>5 DEF Address

(* What an allocation returns belongs to its caller alone: no block shares  *)
(* a word with another one, lies over the header of its page or beyond the  *)
(* page's end, whatever the threads, pages, sizes and requests are.         *)
THEOREM BlocksStayDisjoint == Spec => []BlocksDisjoint
<1>1. IInv => BlocksDisjoint
  <2> SUFFICES ASSUME IInv PROVE BlocksDisjoint
    OBVIOUS
  <2> USE DEF IInv
  <2>1. \A b \in blocks : /\ BlockOK(b) /\ b.page \in Nat /\ b.at \in Nat /\ b.words \in Nat
                          /\ b.page \in Pages
    BY Sizes DEF BlocksOK
  <2>2. ASSUME NEW b \in blocks, NEW c \in blocks, b # c PROVE Apart(b, c)
    <3>1. CASE b.page = c.page
      <4>1. Within(b, c)
        BY <2>2, <3>1 DEF BlocksOK
      <4>2. PICK base \in Nat : base = b.page * PageWords /\ base = c.page * PageWords
        BY <2>1, <3>1, SMT
      <4> QED BY <2>1, <4>1, <4>2 DEF Within, Apart, Address
    <3>2. CASE b.page < c.page
      BY <3>2, LaterPageLaterWords DEF Apart
    <3>3. CASE c.page < b.page
      BY <3>3, LaterPageLaterWords DEF Apart
    <3> QED BY <2>1, <3>1, <3>2, <3>3
  <2>3. ASSUME NEW b \in blocks
        PROVE  IF page[b.page].kind = "group"
                 THEN b.at >= GroupStruct /\ b.at + b.words <= PageWords
                 ELSE b.at >= LargeStruct
    <3>1. CASE page[b.page].kind = "group"
      <4>1. page[b.page].available \in Nat
        BY <2>1, <3>1, PageKinds, Sizes DEF GroupPages
      <4> QED BY <2>1, <3>1, <4>1 DEF BlockOK
    <3>2. CASE page[b.page].kind # "group"
      BY <2>1, <3>2 DEF BlockOK
    <3> QED BY <3>1, <3>2
  <2> QED BY <2>2, <2>3 DEF BlocksDisjoint
<1> QED BY <1>1, AlwaysIInv, PTL

(* The collector finds the zone and the size of an object from the page its *)
(* address is in: the header there is the object's, always.                 *)
THEOREM HeadersStayTrue == Spec => []HeadersDescribeBlocks
<1>1. IInv => HeadersDescribeBlocks
  <2> SUFFICES ASSUME IInv, NEW b \in blocks
               PROVE  /\ page[b.zone].kind = "zone"
                      /\ page[b.page].kind \in {"group", "large"}
                      /\ page[b.page].owner = b.zone
                      /\ page[b.page].element_size = b.words
                      /\ page[b.page].kind = "large" =>
                           \A q \in RunOf(b.page, b.words) \ {b.page} :
                              page[q] = DataPage(b.page)
    BY DEF HeadersDescribeBlocks
  <2>1. BlockOK(b) /\ b.page \in Pages
    BY DEF IInv, BlocksOK
  <2>2. page[b.page].kind = "large" =>
          \A q \in RunOf(b.page, b.words) \ {b.page} : page[q] = DataPage(b.page)
    BY <2>1 DEF IInv, RunsOK, BlockOK
  <2> QED BY <2>1, <2>2 DEF BlockOK
<1> QED BY <1>1, AlwaysIInv, PTL

(* The fields of every page stay in their bounds: the two indexes of large  *)
(* blocks in their pages, what is left of a group within the page.          *)
THEOREM TypeCorrect == Spec => []TypeOK
<1>1. IInv => TypeOK
  <2> SUFFICES ASSUME IInv PROVE TypeOK
    OBVIOUS
  <2> USE DEF IInv
  <2>1. zone \in [Threads -> Links] /\ size \in [Threads -> Nat] /\ cur \in [Threads -> Links]
    BY DEF Shape
  <2>2. ASSUME NEW p \in Pages
        PROVE  CASE page[p].kind = "free" -> page[p] = FreePage
                 [] page[p].kind = "data" -> page[p].head \in Pages
                 [] page[p].kind = "large" ->
                      page[p].owner \in Pages /\ page[p].element_size \in Nat
                 [] page[p].kind = "group" ->
                      /\ page[p].owner \in Pages
                      /\ page[p].element_size \in 1..(Threshold - 1)
                      /\ page[p].available \in 0..Capacity
                      /\ page[p].previous \in {NULL} \cup Pages
                 [] page[p].kind = "overflow" ->
                      /\ page[p].owner \in Pages /\ page[p].previous \in {NULL} \cup Pages
                      /\ page[p].available \in 0..Capacity
                      /\ Len(page[p].entries) = Capacity - page[p].available
                 [] page[p].kind = "zone" ->
                      /\ page[p].lock \in Threads \cup {NoThread}
                      /\ Len(page[p].large_blocks) <= Midpoint - ZoneStruct
                      /\ page[p].overflow \in {NULL} \cup Pages
                      /\ page[p].small_blocks \in [GroupSizes -> {NULL} \cup Pages]
    <3>1. CASE page[p].kind = "free"
      BY <3>1, PageKinds
    <3>2. CASE page[p].kind = "data"
      BY <3>2, PageKinds DEF DataPages
    <3>3. CASE page[p].kind = "large"
      BY <3>3, PageKinds DEF LargePages
    <3>4. CASE page[p].kind = "group"
      BY <3>4, PageKinds DEF GroupPages, Links
    <3>5. CASE page[p].kind = "overflow"
      BY <3>5, PageKinds DEF OverflowPages, Links, Counts
    <3>6. CASE page[p].kind = "zone"
      BY <3>6, PageKinds DEF ZonePages, Links, Counts
    <3>7. page[p].kind \in {"free", "data", "large", "group", "overflow", "zone"}
      BY DEF Shape, Contents, FreePage, DataPages, ZonePages, GroupPages, OverflowPages,
         LargePages
    <3> QED BY <3>1, <3>2, <3>3, <3>4, <3>5, <3>6, <3>7
  <2> QED BY <2>1, <2>2 DEF TypeOK, Links
<1> QED BY <1>1, AlwaysIInv, PTL

-----------------------------------------------------------------------------
(* No page is lost.  A set of pages has all groups that zone_destroy will   *)
(* come to when it has the newest ones, those that a thread is walking, and *)
(* with a group the one before it; every group is in every such set.        *)
HasGroups(T) ==
    /\ \A z \in Pages, s \in GroupSizes :
         page[z].kind = "zone" /\ Unwalked(z, s) /\ page[z].small_blocks[s] # NULL =>
            page[z].small_blocks[s] \in T
    /\ \A t \in Threads : pc[t] = "groups" /\ cur[t] # NULL => cur[t] \in T
    /\ \A p \in T : page[p].kind = "group" /\ page[p].previous # NULL => page[p].previous \in T
GroupsHeld ==
    \A T \in SUBSET Pages :
        HasGroups(T) => \A p \in Pages : page[p].kind = "group" => p \in T

(* The same for the indexes of large blocks, and the blocks in them.        *)
Unindexed(z) == page[z].kind = "zone" /\ \A t \in Threads : pc[t] = "overflows" => zone[t] # z
HasBlocks(T) ==
    /\ \A z \in Pages : Unindexed(z) => z \in T
    /\ \A t \in Threads : pc[t] \in {"enter", "overflows"} /\ cur[t] # NULL => cur[t] \in T
    /\ \A h \in T : Unindexed(h) \/ page[h].kind = "overflow" =>
         EntriesOf(h) \subseteq T /\ (MoreOf(h) # NULL => MoreOf(h) \in T)
BlocksHeld ==
    \A T \in SUBSET Pages :
        HasBlocks(T) => \A p \in Pages : page[p].kind = "large" => p \in T

DataHeld ==
    \A p \in Pages : page[p].kind = "data" =>
        LET q == page[p].head
        IN q \in Pages /\ page[q].kind = "large" /\ p \in RunOf(q, page[q].element_size)

Held == GroupsHeld /\ BlocksHeld /\ DataHeld

(* A step keeps the groups held when what leads to them in the next state,  *)
(* together with the pages given back, leads to them in this one.           *)
LEMMA GroupsStayHeld ==
  ASSUME GroupsHeld, NEW gone \in SUBSET Pages,
         \A T \in SUBSET Pages : HasGroups(T)' =>
           /\ HasGroups(T \cup gone)
           /\ \A p \in Pages : page'[p].kind = "group" =>
                p \in T \/ (page[p].kind = "group" /\ p \notin gone)
  PROVE  GroupsHeld'
<1> SUFFICES ASSUME NEW T \in SUBSET Pages, HasGroups(T)', NEW p \in Pages, page'[p].kind = "group"
             PROVE  p \in T
  BY DEF GroupsHeld, Pages
<1>1. T \cup gone \in SUBSET Pages
  OBVIOUS
<1> QED BY <1>1 DEF GroupsHeld

LEMMA BlocksStayHeld ==
  ASSUME BlocksHeld, NEW gone \in SUBSET Pages,
         \A T \in SUBSET Pages : HasBlocks(T)' =>
           /\ HasBlocks(T \cup gone)
           /\ \A p \in Pages : page'[p].kind = "large" =>
                p \in T \/ (page[p].kind = "large" /\ p \notin gone)
  PROVE  BlocksHeld'
<1> SUFFICES ASSUME NEW T \in SUBSET Pages, HasBlocks(T)', NEW p \in Pages, page'[p].kind = "large"
             PROVE  p \in T
  BY DEF BlocksHeld, Pages
<1>1. T \cup gone \in SUBSET Pages
  OBVIOUS
<1> QED BY <1>1 DEF BlocksHeld

(* Steps that leave the groups as they are.                                 *)
SameGroups ==
    /\ \A p \in Pages : \/ page[p].kind = "group" /\ SameGroup(p)
                        \/ page[p].kind # "group" /\ page'[p].kind # "group"
    /\ \A z \in Pages, s \in GroupSizes :
         page[z].kind = "zone" /\ Unwalked(z, s) =>
           page'[z].kind = "zone" /\ Unwalked(z, s)' /\ page'[z].small_blocks = page[z].small_blocks
    /\ \A t \in Threads : pc[t] = "groups" /\ cur[t] # NULL => pc'[t] = "groups" /\ cur'[t] = cur[t]

LEMMA SameGroupsHeld ==
  ASSUME GroupsHeld, SameGroups PROVE GroupsHeld'
<1>1. {} \in SUBSET Pages
  OBVIOUS
<1>2. ASSUME NEW T \in SUBSET Pages, HasGroups(T)'
      PROVE  /\ HasGroups(T \cup {})
             /\ \A p \in Pages : page'[p].kind = "group" =>
                  p \in T \/ (page[p].kind = "group" /\ p \notin {})
  <2>1. \A z \in Pages, s \in GroupSizes :
          page[z].kind = "zone" /\ Unwalked(z, s) /\ page[z].small_blocks[s] # NULL =>
            page[z].small_blocks[s] \in T
    BY <1>2 DEF HasGroups, SameGroups, Pages, GroupSizes, Midpoint
  <2>2. \A t \in Threads : pc[t] = "groups" /\ cur[t] # NULL => cur[t] \in T
    BY <1>2 DEF HasGroups, SameGroups
  <2>3. \A p \in T : page[p].kind = "group" /\ page[p].previous # NULL => page[p].previous \in T
    BY <1>2 DEF HasGroups, SameGroups, SameGroup
  <2> QED BY <2>1, <2>2, <2>3 DEF HasGroups, SameGroups
<1> QED BY <1>1, <1>2, GroupsStayHeld

(* Steps that leave the indexes as they are.                                *)
SameBlocks ==
    /\ \A p \in Pages : page'[p].kind = "large" => page[p].kind = "large"
    /\ \A h \in Pages : Unindexed(h) => Unindexed(h)' /\ SameIndex(h)
    /\ \A h \in Pages : page[h].kind = "overflow" => page'[h].kind = "overflow" /\ SameIndex(h)
    /\ \A t \in Threads : pc[t] \in {"enter", "overflows"} /\ cur[t] # NULL =>
         pc'[t] = pc[t] /\ cur'[t] = cur[t]

LEMMA SameBlocksHeld ==
  ASSUME BlocksHeld, SameBlocks PROVE BlocksHeld'
<1>1. {} \in SUBSET Pages
  OBVIOUS
<1>2. ASSUME NEW T \in SUBSET Pages, HasBlocks(T)'
      PROVE  /\ HasBlocks(T \cup {})
             /\ \A p \in Pages : page'[p].kind = "large" =>
                  p \in T \/ (page[p].kind = "large" /\ p \notin {})
  <2>1. \A z \in Pages : Unindexed(z) => z \in T
    BY <1>2 DEF HasBlocks, SameBlocks, Pages
  <2>2. \A t \in Threads : pc[t] \in {"enter", "overflows"} /\ cur[t] # NULL => cur[t] \in T
    BY <1>2 DEF HasBlocks, SameBlocks
  <2>3. \A h \in T : Unindexed(h) \/ page[h].kind = "overflow" =>
         EntriesOf(h) \subseteq T /\ (MoreOf(h) # NULL => MoreOf(h) \in T)
    BY <1>2 DEF HasBlocks, SameBlocks, SameIndex
  <2> QED BY <2>1, <2>2, <2>3 DEF HasBlocks, SameBlocks
<1> QED BY <1>1, <1>2, BlocksStayHeld

(* Steps that leave the large blocks as they are.                           *)
SameData ==
    /\ \A p \in Pages : page'[p].kind = "data" => page'[p] = page[p]
    /\ \A p \in Pages : page[p].kind = "large" => page'[p] = page[p]
LEMMA SameDataHeld ==
  ASSUME DataHeld, SameData PROVE DataHeld'
<1> SUFFICES ASSUME NEW p \in Pages, page'[p].kind = "data", NEW q, q = page'[p].head
             PROVE  q \in Pages /\ page'[q].kind = "large" /\ p \in RunOf(q, page'[q].element_size)
  BY DEF DataHeld, Pages, RunOf, RunLength
<1>1. page'[p] = page[p] /\ q \in Pages /\ page[q].kind = "large"
      /\ p \in RunOf(q, page[q].element_size)
  BY DEF SameData, DataHeld
<1> QED BY <1>1 DEF SameData
-----------------------------------------------------------------------------
(* Each step keeps the pages held.  First those that write no page.         *)
LEMMA StandHeld ==
  ASSUME Held, page' = page,
         \A z \in Pages, s \in GroupSizes : Unwalked(z, s) => Unwalked(z, s)',
         \A t \in Threads : pc[t] \in {"groups", "enter", "overflows"} /\ cur[t] # NULL =>
            pc'[t] = pc[t] /\ cur'[t] = cur[t],
         \A t \in Threads : pc'[t] = "overflows" => pc[t] = "overflows" /\ zone'[t] = zone[t]
  PROVE  Held'
<1>1. SameGroups
  BY DEF SameGroups, SameGroup
<1>2. SameBlocks
  BY SameIndexes DEF SameBlocks, Unindexed
<1>3. SameData
  BY DEF SameData
<1> QED BY <1>1, <1>2, <1>3, SameGroupsHeld, SameBlocksHeld, SameDataHeld DEF Held

LEMMA CallHeld == ASSUME IInv, Held, NEW t \in Threads, Call(t) PROVE Held'
<1>1. /\ pc[t] = "idle" /\ pc' = [pc EXCEPT ![t] = "lock"] /\ page' = page /\ cur' = cur
      /\ \A u \in Threads : u # t => zone'[u] = zone[u] /\ size'[u] = size[u]
      /\ pc'[t] = "lock" /\ \A u \in Threads : u # t => pc'[u] = pc[u]
  BY DEF Call, Goto, IInv, Shape
<1>2. \A z \in Pages, s \in GroupSizes : Unwalked(z, s) => Unwalked(z, s)'
  BY <1>1 DEF Unwalked, Destroying
<1> QED BY <1>1, <1>2, StandHeld

LEMMA FindHeld == ASSUME IInv, Held, NEW t \in Threads, Find(t) PROVE Held'
<1>1. /\ pc[t] = "find" /\ pc'[t] \in {"grow", "bump"} /\ page' = page
      /\ zone' = zone /\ size' = size
      /\ \A u \in Threads : u # t => pc'[u] = pc[u] /\ cur'[u] = cur[u]
  BY DEF Find, Goto, IInv, Shape
<1>2. \A z \in Pages, s \in GroupSizes : Unwalked(z, s) => Unwalked(z, s)'
  BY <1>1 DEF Unwalked, Destroying
<1> QED BY <1>1, <1>2, StandHeld

LEMMA DestroyHeld == ASSUME IInv, Held, NEW t \in Threads, Destroy(t) PROVE Held'
<1>1. /\ pc[t] = "idle" /\ pc'[t] = "groups" /\ page' = page
      /\ size' = size /\ cur' = cur /\ size[t] = 0
      /\ \A u \in Threads : u # t => pc'[u] = pc[u] /\ zone'[u] = zone[u]
  BY DEF Destroy, Goto, IInv, Shape, PlaceOK
<1>2. \A z \in Pages, s \in GroupSizes : Unwalked(z, s) => Unwalked(z, s)'
  BY <1>1 DEF Unwalked, Destroying, GroupSizes, Midpoint
<1> QED BY <1>1, <1>2, StandHeld

(* Then those that write a zone's lock, or make a zone of a free page.      *)
LEMMA CreateHeld == ASSUME IInv, Held, NEW t \in Threads, Create(t) PROVE Held'
<1>1. PICK p \in FreeSingles : page' = [page EXCEPT ![p] = ZonePage]
  BY DEF Create
<1>2. /\ pc' = pc /\ zone' = zone /\ size' = size /\ cur' = cur
      /\ p \in Pages /\ page[p].kind = "free" /\ page'[p].kind = "zone"
      /\ \A q \in Pages : q # p => page'[q] = page[q]
  BY <1>1, FreeSingle DEF Create, locals, IInv, Shape, ZonePage
<1>3. SameGroups
  BY <1>2 DEF SameGroups, SameGroup, Unwalked
<1>4. SameBlocks
  BY <1>2 DEF SameBlocks, Unindexed, SameIndex, OwnerOf, EntriesOf, MoreOf
<1>5. SameData
  BY <1>2 DEF SameData
<1> QED BY <1>3, <1>4, <1>5, SameGroupsHeld, SameBlocksHeld, SameDataHeld DEF Held

LEMMA LocksHeld ==
  ASSUME IInv, Held, NEW z \in Pages, page[z].kind = "zone",
         NEW l \in Threads \cup {NoThread}, page' = [page EXCEPT ![z].lock = l],
         NEW t \in Threads, pc[t] \in {"lock", "unlock"}, pc'[t] \in {"find", "large", "idle"},
         OwnLocals(t)
  PROVE  Held'
<1>1. /\ page'[z].kind = "zone"
      /\ page'[z].small_blocks = page[z].small_blocks
      /\ \A p \in Pages : p # z => page'[p] = page[p]
      /\ \A p \in Pages : page'[p].kind = page[p].kind /\ SameIndex(p)
  BY LockWritten DEF IInv
<1>2. SameGroups
  <2>1. \A y \in Pages, s \in GroupSizes : Unwalked(y, s) => Unwalked(y, s)'
    BY DEF Unwalked, Destroying, OwnLocals
  <2> QED BY <1>1, <2>1 DEF SameGroups, SameGroup, OwnLocals
<1>3. SameBlocks
  BY <1>1 DEF SameBlocks, Unindexed, OwnLocals
<1>4. SameData
  BY <1>1 DEF SameData
<1> QED BY <1>2, <1>3, <1>4, SameGroupsHeld, SameBlocksHeld, SameDataHeld DEF Held

LEMMA LockHeld == ASSUME IInv, Held, NEW t \in Threads, Lock(t) PROVE Held'
<1>1. /\ pc[t] = "lock" /\ zone' = zone /\ size' = size /\ cur' = cur
      /\ page' = [page EXCEPT ![zone[t]].lock = t]
      /\ pc' = [pc EXCEPT ![t] = IF size[t] >= Threshold THEN "large" ELSE "find"]
  BY DEF Lock, Goto
<1>2. zone[t] \in Pages /\ page[zone[t]].kind = "zone"
  BY <1>1 DEF PlaceOK, IInv
<1>3. OwnLocals(t) /\ pc'[t] \in {"large", "find"}
  BY <1>1 DEF OwnLocals, Shape, IInv
<1> QED BY <1>1, <1>2, <1>3, LocksHeld

LEMMA UnlockHeld == ASSUME IInv, Held, NEW t \in Threads, Unlock(t) PROVE Held'
<1>1. /\ pc[t] = "unlock" /\ page' = [page EXCEPT ![zone[t]].lock = NoThread]
      /\ pc' = [pc EXCEPT ![t] = "idle"] /\ zone' = [zone EXCEPT ![t] = NULL]
      /\ size' = [size EXCEPT ![t] = 0] /\ cur' = [cur EXCEPT ![t] = NULL]
  BY DEF Unlock, Goto
<1>2. zone[t] \in Pages /\ page[zone[t]].kind = "zone"
  BY <1>1 DEF PlaceOK, IInv
<1>3. OwnLocals(t) /\ pc'[t] = "idle"
  BY <1>1 DEF OwnLocals, Shape, IInv
<1> QED BY <1>1, <1>2, <1>3, LocksHeld
LEMMA BumpHeld == ASSUME IInv, Held, NEW t \in Threads, Bump(t) PROVE Held'
<1> PICK c, left : c = cur[t] /\ left = page[c].available - size[t]
  OBVIOUS
<1>1. /\ pc[t] = "bump" /\ zone' = zone /\ size' = size /\ cur' = cur
      /\ page' = [page EXCEPT ![c].available = left]
      /\ pc' = [pc EXCEPT ![t] = "unlock"]
  BY DEF Bump, Goto
<1>2. c \in Pages /\ page[c].kind = "group"
  BY <1>1 DEF PlaceOK, InGroup, IInv
<1>3. /\ SameGroup(c) /\ page'[c].kind = "group"
      /\ \A p \in Pages : p # c => page'[p] = page[p]
  <2>1. page'[c] = [page[c] EXCEPT !.available = left] /\ page[c] \in GroupPages
    BY <1>1, <1>2, PageKinds DEF IInv, Shape
  <2>2. \A p \in Pages : p # c => page'[p] = page[p]
    BY <1>1, <1>2 DEF IInv, Shape
  <2> QED BY <1>2, <2>1, <2>2 DEF GroupPages, SameGroup
<1>4. pc'[t] = "unlock" /\ \A u \in Threads : u # t => pc'[u] = pc[u]
  BY <1>1 DEF IInv, Shape
<1>5. SameGroups
  <2>1. \A y \in Pages, s \in GroupSizes : Unwalked(y, s) => Unwalked(y, s)'
    BY <1>1, <1>4 DEF Unwalked, Destroying
  <2> QED BY <1>1, <1>2, <1>3, <1>4, <2>1 DEF SameGroups, SameGroup
<1>6. SameBlocks
  BY <1>1, <1>2, <1>3, <1>4 DEF SameBlocks, Unindexed, SameIndex, OwnerOf, EntriesOf, MoreOf
<1>7. SameData
  BY <1>2, <1>3 DEF SameData
<1> QED BY <1>5, <1>6, <1>7, SameGroupsHeld, SameBlocksHeld, SameDataHeld DEF Held

(* The zone's own page goes last, when its groups and its indexes are gone. *)
LEMMA ReleaseHeld == ASSUME IInv, Held, NEW t \in Threads, Release(t) PROVE Held'
<1> PICK z : z = zone[t]
  OBVIOUS
<1>1. /\ pc[t] = "overflows" /\ cur[t] = NULL /\ page' = [page EXCEPT ![z] = FreePage]
      /\ pc' = [pc EXCEPT ![t] = "idle"] /\ zone' = [zone EXCEPT ![t] = NULL]
      /\ size' = [size EXCEPT ![t] = 0] /\ cur' = cur
      /\ z \in Pages /\ page[z].kind = "zone"
  BY DEF Release, Goto, PlaceOK, IInv
<1>2. /\ page'[z].kind = "free" /\ \A q \in Pages : q # z => page'[q] = page[q]
      /\ pc'[t] = "idle" /\ OwnLocals(t)
  BY <1>1 DEF IInv, Shape, FreePage, OwnLocals
<1>3. ~ Unindexed(z) /\ \A s \in GroupSizes : ~ Unwalked(z, s)
  BY <1>1 DEF Unindexed, Unwalked, Destroying
<1>4. SameGroups
  <2>1. \A y \in Pages, s \in GroupSizes : Unwalked(y, s) => Unwalked(y, s)'
    BY <1>2 DEF Unwalked, Destroying, OwnLocals
  <2>2. \A u \in Threads : pc[u] = "groups" /\ cur[u] # NULL =>
          pc'[u] = "groups" /\ cur'[u] = cur[u]
    BY <1>1, <1>2 DEF OwnLocals
  <2>3. \A y \in Pages, s \in GroupSizes : page[y].kind = "zone" /\ Unwalked(y, s) =>
           page'[y].kind = "zone" /\ Unwalked(y, s)' /\ page'[y].small_blocks = page[y].small_blocks
    BY <1>2, <1>3, <2>1
  <2> QED BY <1>1, <1>2, <2>2, <2>3 DEF SameGroups, SameGroup
<1>5. SameBlocks
  BY <1>1, <1>2, <1>3
  DEF SameBlocks, Unindexed, SameIndex, OwnerOf, EntriesOf, MoreOf, OwnLocals
<1>6. SameData
  BY <1>1, <1>2 DEF SameData
<1> QED BY <1>4, <1>5, <1>6, SameGroupsHeld, SameBlocksHeld, SameDataHeld DEF Held

LEMMA UnchangedHeld == ASSUME Held, UNCHANGED vars PROVE Held'
<1>1. page' = page /\ pc' = pc /\ zone' = zone /\ size' = size /\ cur' = cur
  BY DEF vars, locals
<1>2. \A z \in Pages, s \in GroupSizes : Unwalked(z, s) => Unwalked(z, s)'
  BY <1>1 DEF Unwalked
<1> QED BY <1>1, <1>2, StandHeld

LEMMA InitHeld == ASSUME Init PROVE Held
<1>1. \A p \in Pages : page[p].kind = "free"
  BY DEF Init, FreePage
<1> QED BY <1>1 DEF Held, GroupsHeld, BlocksHeld, DataHeld
-----------------------------------------------------------------------------
(* Steps that change the chains of groups.                                  *)
LEMMA GrowHeld == ASSUME IInv, Held, NEW t \in Threads, Grow(t) PROVE Held'
<1> PICK z, s, old : z = zone[t] /\ s = size[t] /\ old = cur[t]
  OBVIOUS
<1>1. PICK p \in FreeSingles :
         /\ page' = [page EXCEPT ![p] = GroupPage(z, s, old), ![z].small_blocks[s] = p]
         /\ cur' = [cur EXCEPT ![t] = p]
  BY DEF Grow
<1>2. /\ pc[t] = "grow" /\ zone' = zone /\ size' = size
      /\ pc' = [pc EXCEPT ![t] = "bump"] /\ p \in Pages /\ page[p].kind = "free"
  BY FreeSingle DEF Grow, Goto
<1>3. /\ z \in Pages /\ page[z].kind = "zone" /\ p # z
      /\ s \in GroupSizes /\ old = page[z].small_blocks[s]
  BY <1>2, Sizes DEF PlaceOK, Locked, IInv
<1>4. page[z] \in ZonePages
  BY <1>3, PageKinds DEF IInv
<1>5. /\ page'[p] = GroupPage(z, s, old)
      /\ page'[z] = [page[z] EXCEPT !.small_blocks[s] = p]
      /\ \A q \in Pages : q # p /\ q # z => page'[q] = page[q]
  BY <1>1, <1>2, <1>3 DEF Shape, IInv
<1>6. /\ page'[p].kind = "group" /\ page'[p].previous = old
      /\ page'[z].kind = "zone" /\ page'[z].large_blocks = page[z].large_blocks
      /\ page'[z].overflow = page[z].overflow
      /\ page'[z].small_blocks = [page[z].small_blocks EXCEPT ![s] = p]
  BY <1>4, <1>5 DEF GroupPage, ZonePages
<1>7. /\ \A n \in GroupSizes : n # s => page'[z].small_blocks[n] = page[z].small_blocks[n]
      /\ page'[z].small_blocks[s] = p
  BY <1>3, <1>4, <1>6 DEF ZonePages
<1>8. OwnLocals(t) /\ pc'[t] = "bump"
  BY <1>1, <1>2 DEF OwnLocals, Shape, IInv
<1>9. SameBlocks
  <2>1. \A h \in Pages : h # p => page'[h].kind = page[h].kind /\ SameIndex(h)
    <3>1. SameIndex(z)
      BY <1>3, <1>6 DEF SameIndex, OwnerOf, EntriesOf, MoreOf
    <3>2. \A h \in Pages : h # p /\ h # z => SameIndex(h)
      BY <1>5 DEF SameIndex, OwnerOf, EntriesOf, MoreOf
    <3> QED BY <1>3, <1>5, <1>6, <3>1, <3>2
  <2>2. \A u \in Threads : /\ pc'[u] = "overflows" => pc[u] = "overflows"
                           /\ pc[u] \in {"enter", "overflows"} =>
                                pc'[u] = pc[u] /\ cur'[u] = cur[u]
    BY <1>2, <1>8 DEF OwnLocals
  <2> QED BY <1>2, <1>6, <2>1, <2>2 DEF SameBlocks, Unindexed
<1>10. SameData
  BY <1>2, <1>3, <1>5, <1>6 DEF SameData
<1>11. ASSUME NEW T \in SUBSET Pages, HasGroups(T)'
       PROVE  /\ HasGroups(T \cup {})
              /\ \A q \in Pages : page'[q].kind = "group" =>
                   q \in T \/ (page[q].kind = "group" /\ q \notin {})
  <2>1. /\ \A y \in Pages, n \in GroupSizes :
             page'[y].kind = "zone" /\ Unwalked(y, n)' /\ page'[y].small_blocks[n] # NULL =>
                page'[y].small_blocks[n] \in T
        /\ \A u \in Threads : pc'[u] = "groups" /\ cur'[u] # NULL => cur'[u] \in T
        /\ \A q \in T : page'[q].kind = "group" /\ page'[q].previous # NULL =>
             page'[q].previous \in T
    BY <1>11 DEF HasGroups, Pages, GroupSizes, Midpoint
  <2>2. \A y \in Pages, n \in GroupSizes : Unwalked(y, n) => Unwalked(y, n)'
    BY <1>8 DEF Unwalked, Destroying, OwnLocals
  <2>3. p \in T
    <3>1. Unwalked(z, s)
      BY <1>2, <1>3 DEF Unwalked, AloneOK, Destroying, IInv
    <3> QED BY <1>2, <1>3, <1>6, <1>7, <2>1, <2>2, <3>1, Sizes
  <2>4. old # NULL => old \in T
    BY <1>6, <2>1, <2>3
  <2>5. \A y \in Pages, n \in GroupSizes :
          page[y].kind = "zone" /\ Unwalked(y, n) /\ page[y].small_blocks[n] # NULL =>
            page[y].small_blocks[n] \in T
    <3> SUFFICES ASSUME NEW y \in Pages, NEW n \in GroupSizes, page[y].kind = "zone",
                        Unwalked(y, n), page[y].small_blocks[n] # NULL
                 PROVE  page[y].small_blocks[n] \in T
      OBVIOUS
    <3>1. CASE y = z /\ n = s
      BY <1>3, <2>4, <3>1
    <3>2. CASE ~ (y = z /\ n = s)
      <4>1. CASE y = z
        BY <1>3, <1>6, <1>7, <2>1, <2>2, <3>2, <4>1
      <4>2. CASE y # z
        BY <1>2, <1>5, <2>1, <2>2, <4>2
      <4> QED BY <4>1, <4>2
    <3> QED BY <3>1, <3>2
  <2>6. \A u \in Threads : pc[u] = "groups" /\ cur[u] # NULL => cur[u] \in T
    BY <1>2, <1>8, <2>1 DEF OwnLocals
  <2>7. \A q \in T : page[q].kind = "group" /\ page[q].previous # NULL => page[q].previous \in T
    BY <1>2, <1>3, <1>5, <2>1
  <2>8. \A q \in Pages : page'[q].kind = "group" => q \in T \/ page[q].kind = "group"
    BY <1>3, <1>5, <1>6, <2>3
  <2> QED BY <2>5, <2>6, <2>7, <2>8 DEF HasGroups
<1>12. {} \in SUBSET Pages
  OBVIOUS
<1> QED BY <1>9, <1>10, <1>11, <1>12, GroupsStayHeld, SameBlocksHeld, SameDataHeld DEF Held

LEMMA FreeGroupHeld == ASSUME IInv, Held, NEW t \in Threads, FreeGroup(t) PROVE Held'
<1> PICK z, c, older : z = zone[t] /\ c = cur[t] /\ older = page[c].previous
  OBVIOUS
<1>1. /\ pc[t] = "groups" /\ c # NULL /\ page' = [page EXCEPT ![c] = FreePage]
      /\ cur' = [cur EXCEPT ![t] = older]
      /\ pc' = pc /\ zone' = zone /\ size' = size
  BY DEF FreeGroup
<1>2. c \in Pages /\ page[c].kind = "group"
  BY <1>1 DEF PlaceOK, InGroup, IInv
<1>3. /\ page'[c].kind = "free" /\ \A q \in Pages : q # c => page'[q] = page[q]
      /\ cur'[t] = older /\ \A u \in Threads : u # t => cur'[u] = cur[u]
  BY <1>1, <1>2 DEF Shape, FreePage, IInv
<1>4. SameBlocks
  BY <1>1, <1>2, <1>3 DEF SameBlocks, Unindexed, SameIndex, OwnerOf, EntriesOf, MoreOf
<1>5. SameData
  BY <1>2, <1>3 DEF SameData
<1>6. ASSUME NEW T \in SUBSET Pages, HasGroups(T)'
      PROVE  /\ HasGroups(T \cup {c})
             /\ \A q \in Pages : page'[q].kind = "group" =>
                  q \in T \/ (page[q].kind = "group" /\ q \notin {c})
  <2>1. /\ \A y \in Pages, n \in GroupSizes :
             page'[y].kind = "zone" /\ Unwalked(y, n)' /\ page'[y].small_blocks[n] # NULL =>
                page'[y].small_blocks[n] \in T
        /\ \A u \in Threads : pc'[u] = "groups" /\ cur'[u] # NULL => cur'[u] \in T
        /\ \A q \in T : page'[q].kind = "group" /\ page'[q].previous # NULL =>
             page'[q].previous \in T
    BY <1>6 DEF HasGroups, Pages, GroupSizes, Midpoint
  <2>2. \A y \in Pages, n \in GroupSizes : Unwalked(y, n) => Unwalked(y, n)'
    BY <1>1 DEF Unwalked
  <2>3. \A y \in Pages, n \in GroupSizes :
          page[y].kind = "zone" /\ Unwalked(y, n) /\ page[y].small_blocks[n] # NULL =>
            page[y].small_blocks[n] \in T
    BY <1>2, <1>3, <2>1, <2>2
  <2>4. \A u \in Threads : pc[u] = "groups" /\ cur[u] # NULL => cur[u] \in T \cup {c}
    BY <1>1, <1>3, <2>1
  <2>5. \A q \in T \cup {c} : page[q].kind = "group" /\ page[q].previous # NULL =>
          page[q].previous \in T
    BY <1>1, <1>3, <2>1
  <2> QED BY <1>3, <2>3, <2>4, <2>5 DEF HasGroups
<1>7. {c} \in SUBSET Pages
  BY <1>2
<1> QED BY <1>4, <1>5, <1>6, <1>7, GroupsStayHeld, SameBlocksHeld, SameDataHeld DEF Held

LEMMA NextSizeHeld == ASSUME IInv, Held, NEW t \in Threads, NextSize(t) PROVE Held'
<1> PICK z : z = zone[t]
  OBVIOUS
<1> DEFINE used == {s \in GroupSizes : s > size[t] /\ page[z].small_blocks[s] # NULL}
<1>1. /\ pc[t] = "groups" /\ cur[t] = NULL /\ page' = page /\ zone' = zone
      /\ \A u \in Threads : u # t /\ pc[u] \in Destroying => zone[u] # z
  BY DEF NextSize, AloneOK, Destroying, IInv
<1>2. \/ used = {} /\ pc'[t] = "index" /\ cur'[t] = NULL
      \/ \E m \in used : /\ size'[t] = m /\ cur'[t] = page[z].small_blocks[m]
                         /\ \A r \in used : m <= r
                         /\ pc'[t] = "groups"
  <2>1. CASE used = {}
    BY <1>1, <2>1 DEF NextSize, Goto, Shape, IInv
  <2>2. CASE used # {}
    <3>1. Min(used) \in used /\ \A r \in used : Min(used) <= r
      <4>1. used \subseteq Nat
        BY DEF GroupSizes, Midpoint
      <4> HIDE DEF used
      <4> QED BY <2>2, <4>1, LeastNatural
    <3>2. PICK m \in used : m = Min(used)
      BY <3>1
    <3>3. /\ size' = [size EXCEPT ![t] = m] /\ pc' = pc
          /\ cur' = [cur EXCEPT ![t] = page[z].small_blocks[m]]
      BY <2>2, <3>2 DEF NextSize
    <3> HIDE DEF used
    <3> QED BY <1>1, <3>1, <3>2, <3>3 DEF Shape, IInv
  <2> QED BY <2>1, <2>2
<1>3. OwnLocals(t)
  BY <1>1 DEF NextSize, Goto, OwnLocals, Shape, IInv
<1>4. SameBlocks
  <2>1. \A u \in Threads : u # t => pc'[u] = pc[u] /\ cur'[u] = cur[u] /\ zone'[u] = zone[u]
    BY <1>3 DEF OwnLocals
  <2>2. pc'[t] \in {"index", "groups"}
    BY <1>2
  <2> QED BY <1>1, <2>1, <2>2, SameIndexes DEF SameBlocks, Unindexed
<1>5. SameData
  BY <1>1 DEF SameData
<1>6. ASSUME NEW T \in SUBSET Pages, HasGroups(T)'
      PROVE  /\ HasGroups(T \cup {})
             /\ \A q \in Pages : page'[q].kind = "group" =>
                  q \in T \/ (page[q].kind = "group" /\ q \notin {})
  <2>1. /\ \A y \in Pages, n \in GroupSizes :
             page[y].kind = "zone" /\ Unwalked(y, n)' /\ page[y].small_blocks[n] # NULL =>
                page[y].small_blocks[n] \in T
        /\ \A u \in Threads : pc'[u] = "groups" /\ cur'[u] # NULL => cur'[u] \in T
        /\ \A q \in T : page[q].kind = "group" /\ page[q].previous # NULL =>
             page[q].previous \in T
    BY <1>1, <1>6 DEF HasGroups, Pages, GroupSizes, Midpoint
  <2>2. \A y \in Pages, n \in GroupSizes : y # z /\ Unwalked(y, n) => Unwalked(y, n)'
    BY <1>1, <1>3 DEF Unwalked, OwnLocals
  <2>3. ASSUME NEW n \in GroupSizes, Unwalked(z, n), page[z].small_blocks[n] # NULL
        PROVE  page[z].small_blocks[n] \in T
    <3>1. n \in used
      BY <1>1, <2>3 DEF Unwalked, Destroying
    <3>2. PICK m \in used : /\ size'[t] = m /\ cur'[t] = page[z].small_blocks[m]
                            /\ \A r \in used : m <= r
                            /\ pc'[t] = "groups"
      BY <1>2, <3>1
    <3>3. CASE n = m
      BY <2>1, <2>3, <3>2, <3>3
    <3>4. CASE n # m
      <4>1. m < n
        BY <3>1, <3>2, <3>4 DEF GroupSizes, Midpoint
      <4>2. Unwalked(z, n)'
        BY <1>1, <1>3, <3>2, <4>1 DEF Unwalked, OwnLocals
      <4>3. z \in Pages /\ page[z].kind = "zone"
        BY <1>1 DEF PlaceOK, IInv
      <4> QED BY <2>1, <2>3, <4>2, <4>3
    <3> QED BY <3>3, <3>4
  <2>4. \A u \in Threads : pc[u] = "groups" /\ cur[u] # NULL => cur[u] \in T
    BY <1>1, <1>3, <2>1 DEF OwnLocals
  <2> QED BY <1>1, <2>1, <2>2, <2>3, <2>4 DEF HasGroups
<1>7. {} \in SUBSET Pages
  OBVIOUS
<1> QED BY <1>4, <1>5, <1>6, <1>7, GroupsStayHeld, SameBlocksHeld, SameDataHeld DEF Held
-----------------------------------------------------------------------------
(* Steps that make large blocks and enter them in an index.                 *)
LEMMA LargeHeld == ASSUME IInv, Held, NEW t \in Threads, Large(t) PROVE Held'
<1> PICK z, s : z = zone[t] /\ s = size[t]
  OBVIOUS
<1>1. PICK p \in FreeRuns(s) :
         /\ page' = [q \in Pages |->
              IF q = p THEN LargePage(z, s)
              ELSE IF q \in RunOf(p, s) THEN DataPage(p) ELSE page[q]]
         /\ cur' = [cur EXCEPT ![t] = p]
  BY DEF Large
<1>2. pc[t] = "large" /\ zone' = zone /\ size' = size /\ pc' = [pc EXCEPT ![t] = "enter"]
      /\ s \in Nat
  BY DEF Large, Goto, Shape, IInv
<1> DEFINE run == RunOf(p, s)
<1>3. /\ p \in Pages /\ p \in run /\ run \subseteq Pages
      /\ \A q \in run : page[q].kind = "free"
  BY <1>2, RunFits DEF FreeRuns, RunOf, Pages, FreePage
<1>4. /\ page'[p].kind = "large" /\ page'[p].element_size = s
      /\ \A q \in run : q # p => page'[q].kind = "data" /\ page'[q].head = p
      /\ \A q \in Pages : q \notin run => page'[q] = page[q]
  BY <1>1, <1>3 DEF LargePage, DataPage
<1>5. OwnLocals(t) /\ pc'[t] = "enter" /\ cur'[t] = p
  BY <1>1, <1>2, <1>3 DEF OwnLocals, Shape, IInv
<1>6. \A q \in Pages : \/ page'[q] = page[q]
                       \/ page[q].kind = "free" /\ page'[q].kind \in {"large", "data"}
  BY <1>3, <1>4
<1>7. SameGroups
  <2>1. \A y \in Pages, n \in GroupSizes : Unwalked(y, n) => Unwalked(y, n)'
    BY <1>5 DEF Unwalked, Destroying, OwnLocals
  <2> QED BY <1>2, <1>5, <1>6, <2>1 DEF SameGroups, SameGroup, OwnLocals
<1>8. DataHeld'
  <2> SUFFICES ASSUME NEW q \in Pages, page'[q].kind = "data", NEW h, h = page'[q].head
               PROVE  h \in Pages /\ page'[h].kind = "large" /\ q \in RunOf(h, page'[h].element_size)
    BY DEF DataHeld, Pages, RunOf, RunLength
  <2>1. CASE q \in run
    BY <1>3, <1>4, <2>1
  <2>2. CASE q \notin run
    <3>1. page[q].kind = "data" /\ h = page[q].head
      BY <1>4, <2>2
    <3>2. h \in Pages /\ page[h].kind = "large" /\ q \in RunOf(h, page[h].element_size)
      BY <3>1 DEF Held, DataHeld
    <3> QED BY <1>6, <3>2
  <2> QED BY <2>1, <2>2
<1>9. ASSUME NEW T \in SUBSET Pages, HasBlocks(T)'
      PROVE  /\ HasBlocks(T \cup {})
             /\ \A q \in Pages : page'[q].kind = "large" =>
                  q \in T \/ (page[q].kind = "large" /\ q \notin {})
  <2>1. /\ \A y \in Pages : Unindexed(y)' => y \in T
        /\ \A u \in Threads : pc'[u] \in {"enter", "overflows"} /\ cur'[u] # NULL => cur'[u] \in T
        /\ \A h \in T : Unindexed(h)' \/ page'[h].kind = "overflow" =>
             EntriesOf(h)' \subseteq T /\ (MoreOf(h)' # NULL => MoreOf(h)' \in T)
    BY <1>9 DEF HasBlocks, Pages
  <2>2. \A y \in Pages : Unindexed(y) => Unindexed(y)'
    BY <1>5, <1>6 DEF Unindexed, OwnLocals
  <2>3. p \in T
    BY <1>3, <1>5, <2>1, Sizes
  <2>4. \A u \in Threads : pc[u] \in {"enter", "overflows"} /\ cur[u] # NULL => cur[u] \in T
    BY <1>2, <1>5, <2>1 DEF OwnLocals
  <2>5. \A h \in Pages : Unindexed(h) \/ page[h].kind = "overflow" =>
          page'[h].kind = page[h].kind /\ SameIndex(h)
    BY <1>6 DEF Unindexed, SameIndex, OwnerOf, EntriesOf, MoreOf
  <2>6. \A h \in T : Unindexed(h) \/ page[h].kind = "overflow" =>
         EntriesOf(h) \subseteq T /\ (MoreOf(h) # NULL => MoreOf(h) \in T)
    BY <2>1, <2>2, <2>5 DEF SameIndex
  <2>7. \A q \in Pages : page'[q].kind = "large" => q \in T \/ page[q].kind = "large"
    BY <1>3, <1>4, <2>3
  <2> QED BY <2>1, <2>2, <2>4, <2>6, <2>7 DEF HasBlocks
<1>10. {} \in SUBSET Pages
  OBVIOUS
<1> QED BY <1>7, <1>8, <1>9, <1>10, SameGroupsHeld, BlocksStayHeld DEF Held

LEMMA EnterHeld ==
  ASSUME IInv, Held, NEW t \in Threads, Entering(t),
         page'[zone[t]].kind = "zone",
         page'[zone[t]].small_blocks = page[zone[t]].small_blocks,
         \A p \in Pages : p # zone[t] =>
            \/ page'[p] = page[p]
            \/ page[p].kind \in {"free", "overflow"} /\ page'[p].kind = "overflow",
         \A T \in SUBSET Pages : HasBlocks(T)' =>
            /\ cur[t] \in T
            /\ \A h \in T : Unindexed(h) \/ page[h].kind = "overflow" =>
                 EntriesOf(h) \subseteq T /\ (MoreOf(h) # NULL => MoreOf(h) \in T)
  PROVE  Held'
<1>1. /\ zone[t] \in Pages /\ page[zone[t]].kind = "zone"
      /\ OwnLocals(t) /\ pc[t] = "enter" /\ pc'[t] = "unlock" /\ cur' = cur /\ zone' = zone
  BY DEF Entering, PlaceOK, OwnLocals, Shape, IInv
<1>2. SameGroups
  <2>1. \A y \in Pages, n \in GroupSizes : Unwalked(y, n) => Unwalked(y, n)'
    BY <1>1 DEF Unwalked, Destroying, OwnLocals
  <2> QED BY <1>1, <2>1 DEF SameGroups, SameGroup, OwnLocals
<1>3. SameData
  BY <1>1 DEF SameData
<1>4. ASSUME NEW T \in SUBSET Pages, HasBlocks(T)'
      PROVE  /\ HasBlocks(T \cup {})
             /\ \A q \in Pages : page'[q].kind = "large" =>
                  q \in T \/ (page[q].kind = "large" /\ q \notin {})
  <2>1. /\ \A y \in Pages : Unindexed(y)' => y \in T
        /\ \A u \in Threads : pc'[u] \in {"enter", "overflows"} /\ cur'[u] # NULL => cur'[u] \in T
    BY <1>4 DEF HasBlocks, Pages
  <2>2. \A y \in Pages : Unindexed(y) => Unindexed(y)'
    BY <1>1 DEF Unindexed, OwnLocals
  <2>3. \A u \in Threads : pc[u] \in {"enter", "overflows"} /\ cur[u] # NULL => cur[u] \in T
    BY <1>1, <1>4, <2>1 DEF OwnLocals
  <2>4. \A q \in Pages : page'[q].kind = "large" => page[q].kind = "large"
    BY <1>1
  <2> QED BY <1>4, <2>1, <2>2, <2>3, <2>4 DEF HasBlocks
<1>5. {} \in SUBSET Pages
  OBVIOUS
<1> QED BY <1>2, <1>3, <1>4, <1>5, SameGroupsHeld, SameDataHeld, BlocksStayHeld DEF Held

LEMMA EntersUnindexed ==
  ASSUME IInv, NEW t \in Threads, Entering(t)
  PROVE  Unindexed(zone[t]) /\ zone[t] \in Pages /\ cur[t] \in Pages
         /\ \A z \in Pages : Unindexed(z) /\ page'[z].kind = "zone" => Unindexed(z)'
BY DEF IInv, Entering, PlaceOK, AloneOK, Destroying, Unindexed, Shape

LEMMA EnterIndexHeld ==
  ASSUME IInv, Held, NEW t \in Threads, EnterIndex(t) PROVE Held'
<1> PICK z, e : z = zone[t] /\ e = cur[t]
  OBVIOUS
<1>1. Entering(t) /\ page' = [page EXCEPT ![z].large_blocks = << e >> \o @]
  BY DEF EnterIndex, Entering, Goto
<1>2. z \in Pages /\ page[z].kind = "zone" /\ e \in Pages
  BY <1>1, EntersUnindexed DEF Unindexed
<1>3. page[z] \in ZonePages /\ page[z].large_blocks \in Seq(Pages)
  BY <1>2, PageKinds DEF ZonePages, IInv
<1>4. PICK index : index = << e >> \o page[z].large_blocks
  OBVIOUS
<1>5. Range(index) = Range(page[z].large_blocks) \cup {e}
  BY <1>2, <1>3, <1>4, Prepended
<1>6. /\ page'[z] = [page[z] EXCEPT !.large_blocks = index]
      /\ \A p \in Pages : p # z => page'[p] = page[p]
  BY <1>1, <1>2, <1>4 DEF Shape, IInv
<1>7. /\ page'[z].kind = "zone" /\ page'[z].large_blocks = index
      /\ page'[z].small_blocks = page[z].small_blocks
      /\ page'[z].overflow = page[z].overflow
  BY <1>3, <1>6 DEF ZonePages
<1>8. /\ EntriesOf(z)' = EntriesOf(z) \cup {e} /\ MoreOf(z)' = MoreOf(z)
      /\ \A h \in Pages : h # z => SameIndex(h) /\ page'[h].kind = page[h].kind
  BY <1>2, <1>5, <1>6, <1>7 DEF EntriesOf, MoreOf, SameIndex, OwnerOf
<1>9. ASSUME NEW T \in SUBSET Pages, HasBlocks(T)'
      PROVE  /\ e \in T
             /\ \A h \in T : Unindexed(h) \/ page[h].kind = "overflow" =>
                  EntriesOf(h) \subseteq T /\ (MoreOf(h) # NULL => MoreOf(h) \in T)
  <2>1. /\ \A y \in Pages : Unindexed(y)' => y \in T
        /\ \A h \in T : Unindexed(h)' \/ page'[h].kind = "overflow" =>
             EntriesOf(h)' \subseteq T /\ (MoreOf(h)' # NULL => MoreOf(h)' \in T)
    BY <1>9 DEF HasBlocks, Pages
  <2>2. \A h \in Pages : Unindexed(h) => Unindexed(h)'
    BY <1>1, <1>7, <1>8, EntersUnindexed DEF Unindexed
  <2>3. z \in T /\ e \in T
    BY <1>1, <1>8, <2>1, <2>2, EntersUnindexed
  <2>4. ASSUME NEW h \in T, Unindexed(h) \/ page[h].kind = "overflow"
        PROVE  EntriesOf(h) \subseteq T /\ (MoreOf(h) # NULL => MoreOf(h) \in T)
    <3>1. Unindexed(h)' \/ page'[h].kind = "overflow"
      BY <1>2, <1>8, <2>2, <2>4
    <3> QED BY <1>8, <2>1, <3>1 DEF SameIndex
  <2> QED BY <2>3, <2>4
<1> QED BY <1>1, <1>6, <1>7, <1>9, EnterHeld
LEMMA EnterOverflowHeld ==
  ASSUME IInv, Held, NEW t \in Threads, EnterOverflow(t) PROVE Held'
<1> PICK z, e, group : z = zone[t] /\ e = cur[t] /\ group = page[z].overflow
  OBVIOUS
<1>1. Entering(t) /\ z \in Pages /\ page[z].kind = "zone" /\ e \in Pages /\ Unindexed(z)
  <2>1. Entering(t)
    BY DEF EnterOverflow, Entering, Goto
  <2> QED BY <2>1, EntersUnindexed DEF Unindexed
<1>2. page[z] \in ZonePages /\ group \in Links
  BY <1>1, PageKinds DEF ZonePages, IInv
<1>3. group # NULL => group \in Pages /\ page[group].kind = "overflow"
  <2>1. PICK live \in SUBSET Pages : IndexesOK(live)
    BY DEF IInv
  <2> QED BY <1>1, <2>1, ZoneIndexLives DEF IndexesOK, MoreOf, Entering
<1>4. MoreOf(z) = group /\ EntriesOf(z) = Range(page[z].large_blocks)
  BY <1>1 DEF MoreOf, EntriesOf
<1>5. CASE group # NULL /\ page[group].available >= 1
  <2>1. PICK g \in Pages : g = group /\ page[g].kind = "overflow" /\ g # z /\ g # NULL
                           /\ page[g].available >= 1
    BY <1>1, <1>3, <1>5
  <2>2. page[g] \in OverflowPages /\ Len(page[g].entries) = Capacity - page[g].available
    BY <2>1, PageKinds DEF Counts, IInv
  <2>3. page' = [page EXCEPT ![g] = EnteredIn(page[g], e)]
    BY <1>5, <2>1 DEF EnterOverflow, EnteredIn
  <2>4. /\ page'[g] = EnteredIn(page[g], e)
        /\ \A p \in Pages : p # g => page'[p] = page[p]
    BY <2>1, <2>3 DEF Shape, IInv
  <2>5. /\ page'[g].kind = "overflow" /\ page'[g].previous = page[g].previous
        /\ Range(page'[g].entries) = Range(page[g].entries) \cup {e}
    <3>1. PICK old : old = page[g]
      OBVIOUS
    <3>2. /\ EnteredIn(old, e).kind = "overflow" /\ EnteredIn(old, e).previous = old.previous
          /\ Range(EnteredIn(old, e).entries) = Range(old.entries) \cup {e}
      BY <1>1, <2>1, <2>2, <3>1, EntryAdded
    <3> QED BY <2>4, <3>1, <3>2
  <2>6. /\ EntriesOf(g)' = EntriesOf(g) \cup {e} /\ MoreOf(g)' = MoreOf(g)
        /\ \A h \in Pages : h # g => SameIndex(h)
        /\ \A h \in Pages : page'[h].kind = page[h].kind
    BY <2>1, <2>4, <2>5 DEF EntriesOf, MoreOf, SameIndex, OwnerOf
  <2>7. ASSUME NEW T \in SUBSET Pages, HasBlocks(T)'
        PROVE  /\ e \in T
               /\ \A h \in T : Unindexed(h) \/ page[h].kind = "overflow" =>
                    EntriesOf(h) \subseteq T /\ (MoreOf(h) # NULL => MoreOf(h) \in T)
    <3>1. /\ \A y \in Pages : Unindexed(y)' => y \in T
          /\ \A h \in T : Unindexed(h)' \/ page'[h].kind = "overflow" =>
               EntriesOf(h)' \subseteq T /\ (MoreOf(h)' # NULL => MoreOf(h)' \in T)
      BY <2>7 DEF HasBlocks, Pages
    <3>2. \A h \in Pages : Unindexed(h) => Unindexed(h)'
      BY <1>1, <2>6, EntersUnindexed DEF Unindexed
    <3>3. z \in T /\ MoreOf(z)' = g
      BY <1>1, <1>4, <2>1, <2>6, <3>1, <3>2 DEF SameIndex
    <3>4. g \in T /\ e \in T
      BY <1>1, <2>1, <2>5, <2>6, <3>1, <3>2, <3>3
    <3>5. ASSUME NEW h \in T, Unindexed(h) \/ page[h].kind = "overflow"
          PROVE  EntriesOf(h) \subseteq T /\ (MoreOf(h) # NULL => MoreOf(h) \in T)
      <4>1. Unindexed(h)' \/ page'[h].kind = "overflow"
        BY <2>6, <3>2, <3>5
      <4> QED BY <2>6, <3>1, <4>1 DEF SameIndex
    <3> QED BY <3>4, <3>5
  <2> QED BY <1>1, <2>1, <2>4, <2>5, <2>7, EnterHeld
<1>6. CASE ~ (group # NULL /\ page[group].available >= 1)
  <2>1. PICK p \in FreeSingles :
          page' = [page EXCEPT ![p] = EnteredIn(OverflowPage(z, group), e), ![z].overflow = p]
    BY <1>6 DEF EnterOverflow, EnteredIn
  <2>2. p \in Pages /\ page[p].kind = "free" /\ p # z /\ p # NULL
    BY <1>1, FreeSingle, Sizes
  <2>3. /\ page'[p] = EnteredIn(OverflowPage(z, group), e)
        /\ page'[z] = [page[z] EXCEPT !.overflow = p]
        /\ \A q \in Pages : q # p /\ q # z => page'[q] = page[q]
    BY <1>1, <2>1, <2>2 DEF Shape, IInv
  <2>4. page'[p].kind = "overflow" /\ page'[p].previous = group /\ Range(page'[p].entries) = {e}
    <3>1. PICK blank : blank = OverflowPage(z, group)
      OBVIOUS
    <3>2. /\ blank \in OverflowPages /\ blank.available = Capacity /\ blank.entries = << >>
          /\ blank.previous = group
      BY <1>1, <1>2, <3>1, Sizes DEF OverflowPage, OverflowPages
    <3>3. Len(blank.entries) = Capacity - blank.available /\ blank.available >= 1
          /\ Range(blank.entries) = {}
      BY <3>2, Sizes DEF Range
    <3>4. /\ EnteredIn(blank, e).kind = "overflow"
          /\ EnteredIn(blank, e).previous = blank.previous
          /\ Range(EnteredIn(blank, e).entries) = Range(blank.entries) \cup {e}
      BY <1>1, <3>2, <3>3, EntryAdded
    <3> QED BY <2>3, <3>1, <3>2, <3>3, <3>4
  <2>5. /\ page'[z].kind = "zone" /\ page'[z].overflow = p
        /\ page'[z].small_blocks = page[z].small_blocks
        /\ page'[z].large_blocks = page[z].large_blocks
    BY <1>2, <2>3 DEF ZonePages
  <2>6. /\ EntriesOf(p)' = {e} /\ MoreOf(p)' = group
        /\ EntriesOf(z)' = EntriesOf(z) /\ MoreOf(z)' = p
        /\ \A h \in Pages : h # z /\ h # p => SameIndex(h)
        /\ \A h \in Pages : h # p => page'[h].kind = page[h].kind
    BY <1>1, <2>3, <2>4, <2>5 DEF EntriesOf, MoreOf, SameIndex, OwnerOf
  <2>7. ASSUME NEW T \in SUBSET Pages, HasBlocks(T)'
        PROVE  /\ e \in T
               /\ \A h \in T : Unindexed(h) \/ page[h].kind = "overflow" =>
                    EntriesOf(h) \subseteq T /\ (MoreOf(h) # NULL => MoreOf(h) \in T)
    <3>1. /\ \A y \in Pages : Unindexed(y)' => y \in T
          /\ \A h \in T : Unindexed(h)' \/ page'[h].kind = "overflow" =>
               EntriesOf(h)' \subseteq T /\ (MoreOf(h)' # NULL => MoreOf(h)' \in T)
      BY <2>7 DEF HasBlocks, Pages
    <3>2. \A h \in Pages : Unindexed(h) => h # p /\ Unindexed(h)'
      BY <1>1, <2>2, <2>6, EntersUnindexed DEF Unindexed
    <3>3. z \in T
      BY <1>1, <3>1, <3>2
    <3>4. p \in T
      BY <1>1, <2>2, <2>6, <3>1, <3>2, <3>3
    <3>5. e \in T /\ (group # NULL => group \in T)
      BY <2>4, <2>6, <3>1, <3>4
    <3>6. ASSUME NEW h \in T, Unindexed(h) \/ page[h].kind = "overflow"
          PROVE  EntriesOf(h) \subseteq T /\ (MoreOf(h) # NULL => MoreOf(h) \in T)
      <4>1. h # p /\ (Unindexed(h)' \/ page'[h].kind = "overflow")
        BY <2>2, <2>6, <3>2, <3>6
      <4>2. EntriesOf(h)' \subseteq T /\ (MoreOf(h)' # NULL => MoreOf(h)' \in T)
        BY <3>1, <4>1
      <4>3. CASE h = z
        BY <1>4, <2>6, <3>5, <4>2, <4>3
      <4>4. CASE h # z
        BY <2>6, <4>1, <4>2, <4>4 DEF SameIndex
      <4> QED BY <4>3, <4>4
    <3> QED BY <3>5, <3>6
  <2>8. \A q \in Pages : q # z =>
          \/ page'[q] = page[q]
          \/ page[q].kind \in {"free", "overflow"} /\ page'[q].kind = "overflow"
    BY <2>2, <2>3, <2>4
  <2> QED BY <1>1, <2>5, <2>7, <2>8, EnterHeld
<1> QED BY <1>5, <1>6
-----------------------------------------------------------------------------
(* Steps that free the blocks an index names.                               *)
LEMMA IndexFreedHeld ==
  ASSUME IInv, Held, NEW t \in Threads, NEW live \in SUBSET Pages, IndexesOK(live),
         NEW g \in live,
         \/ pc[t] = "index" /\ g = zone[t]
         \/ pc[t] = "overflows" /\ g = cur[t] /\ page[g].kind = "overflow",
         page' = Freed(RunsAt(g)), cur' = [cur EXCEPT ![t] = MoreOf(g)],
         pc' = [pc EXCEPT ![t] = "overflows"], zone' = zone, size' = size
  PROVE  Held'
<1> PICK z, S : z = zone[t] /\ S = RunsAt(g)
  OBVIOUS
<1>1. z \in Pages /\ page[z].kind = "zone" /\ pc[t] \in Destroying /\ pc[t] # "groups"
      /\ page[g].kind \in {"zone", "overflow"}
  BY DEF PlaceOK, Destroying, IInv
<1>2. EntriesOf(g) \subseteq Pages /\ \A e \in EntriesOf(g) : page[e].kind = "large"
  <2>1. CASE page[g].kind = "zone"
    BY <2>1, PageKinds DEF ZonePages, EntriesOf, Range, IInv, IndexesOK
  <2>2. CASE page[g].kind = "overflow"
    BY <2>2, PageKinds DEF OverflowPages, EntriesOf, Range, IInv, IndexesOK
  <2> QED BY <1>1, <2>1, <2>2
<1>3. \A q \in S : \/ q \in EntriesOf(g)
                   \/ \E e \in EntriesOf(g) : page[q] = DataPage(e)
  BY <1>2 DEF RunsOK, RunsAt, IInv
<1>4. \A q \in S : \/ page[q].kind = "large" /\ q \in EntriesOf(g)
                   \/ page[q].kind = "data"
  <2>1. \A e : DataPage(e).kind = "data"
    BY DEF DataPage
  <2> QED BY <1>2, <1>3, <2>1
<1>5. \A q \in S : page[q].kind = "large" => q \in EntriesOf(g)
  BY <1>4
<1>6. \A e \in EntriesOf(g) : e \in S /\ RunOf(e, page[e].element_size) \subseteq S
  <2> SUFFICES ASSUME NEW e \in EntriesOf(g) PROVE e \in RunOf(e, page[e].element_size)
    BY DEF RunsAt
  <2>1. e \in Nat /\ page[e].element_size \in Nat
    BY <1>2, PageKinds, Sizes DEF LargePages, IInv
  <2> QED BY <2>1, RunFits DEF RunOf
<1>7. /\ \A q \in Pages : q \in S => page'[q].kind = "free"
      /\ \A q \in Pages : q \notin S => page'[q] = page[q]
  BY DEF Freed, FreePage
<1>8. OwnLocals(t) /\ pc'[t] = "overflows" /\ cur'[t] = MoreOf(g)
  BY DEF OwnLocals, Shape, IInv
<1>9. SameGroups
  <2>1. \A y \in Pages, n \in GroupSizes : Unwalked(y, n) => Unwalked(y, n)'
    BY <1>1, <1>8 DEF Unwalked, Destroying, OwnLocals
  <2> QED BY <1>1, <1>4, <1>7, <1>8, <2>1 DEF SameGroups, SameGroup, OwnLocals
<1>10. DataHeld'
  <2> SUFFICES ASSUME NEW q \in Pages, page'[q].kind = "data", NEW h, h = page'[q].head
               PROVE  h \in Pages /\ page'[h].kind = "large" /\ q \in RunOf(h, page'[h].element_size)
    BY DEF DataHeld, Pages, RunOf, RunLength
  <2>1. page[q].kind = "data" /\ h = page[q].head /\ q \notin S
    BY <1>7
  <2>2. h \in Pages /\ page[h].kind = "large" /\ q \in RunOf(h, page[h].element_size)
    BY <2>1 DEF Held, DataHeld
  <2>3. h \notin S
    BY <1>5, <1>6, <2>1, <2>2
  <2> QED BY <1>7, <2>2, <2>3
<1>11. ASSUME NEW T \in SUBSET Pages, HasBlocks(T)'
       PROVE  /\ HasBlocks(T \cup ((S \cup {g}) \cap Pages))
              /\ \A q \in Pages : page'[q].kind = "large" =>
                   q \in T \/ (page[q].kind = "large" /\ q \notin (S \cup {g}) \cap Pages)
  <2> DEFINE R == T \cup ((S \cup {g}) \cap Pages)
  <2>1. /\ \A y \in Pages : Unindexed(y)' => y \in T
        /\ \A u \in Threads : pc'[u] \in {"enter", "overflows"} /\ cur'[u] # NULL => cur'[u] \in T
        /\ \A h \in T : Unindexed(h)' \/ page'[h].kind = "overflow" =>
             EntriesOf(h)' \subseteq T /\ (MoreOf(h)' # NULL => MoreOf(h)' \in T)
    BY <1>11 DEF HasBlocks, Pages
  <2>2. \A y \in Pages : Unindexed(y) => y \notin S /\ (y = g \/ Unindexed(y)')
    BY <1>1, <1>4, <1>7, <1>8 DEF Unindexed, OwnLocals
  <2>3. \A y \in Pages : Unindexed(y) => y \in R
    BY <2>1, <2>2
  <2>4. \A u \in Threads : pc[u] \in {"enter", "overflows"} /\ cur[u] # NULL => cur[u] \in R
    <3>1. \A u \in Threads : u # t /\ pc[u] \in {"enter", "overflows"} /\ cur[u] # NULL =>
            cur[u] \in T
      BY <1>8, <2>1 DEF OwnLocals
    <3>2. pc[t] \in {"enter", "overflows"} => cur[t] = g
      OBVIOUS
    <3> QED BY <3>1, <3>2
  <2>5. ASSUME NEW h \in R, Unindexed(h) \/ page[h].kind = "overflow"
        PROVE  EntriesOf(h) \subseteq R /\ (MoreOf(h) # NULL => MoreOf(h) \in R)
    <3>1. h \notin S /\ h \in Pages
      BY <1>4, <2>5 DEF Unindexed
    <3>2. CASE h = g
      BY <1>2, <1>6, <1>8, <2>1, <3>2
    <3>3. CASE h # g
      <4>1. h \in T /\ page'[h] = page[h]
        BY <1>7, <3>1, <3>3
      <4>2. Unindexed(h)' \/ page'[h].kind = "overflow"
        BY <2>2, <2>5, <3>1, <3>3, <4>1
      <4>3. EntriesOf(h)' = EntriesOf(h) /\ MoreOf(h)' = MoreOf(h)
        BY <4>1 DEF EntriesOf, MoreOf
      <4> QED BY <2>1, <4>1, <4>2, <4>3
    <3> QED BY <3>2, <3>3
  <2>6. \A q \in Pages : page'[q].kind = "large" => page[q].kind = "large" /\ q \notin S /\ q # g
    BY <1>1, <1>7
  <2> HIDE DEF R
  <2>7. HasBlocks(R)
    BY <2>3, <2>4, <2>5 DEF HasBlocks
  <2> QED BY <2>6, <2>7 DEF R
<1>12. (S \cup {g}) \cap Pages \in SUBSET Pages
  OBVIOUS
<1> QED BY <1>9, <1>10, <1>11, <1>12, SameGroupsHeld, BlocksStayHeld DEF Held

LEMMA FreeIndexedHeld ==
  ASSUME IInv, Held, NEW t \in Threads, FreeIndexed(t) PROVE Held'
<1>1. PICK live \in SUBSET Pages : IndexesOK(live)
  BY DEF IInv
<1> PICK g : g = zone[t]
  OBVIOUS
<1>2. /\ pc[t] = "index" /\ g \in Pages /\ page[g].kind = "zone" /\ g \in live
      /\ zone' = zone /\ size' = size /\ pc' = [pc EXCEPT ![t] = "overflows"]
  BY <1>1 DEF FreeIndexed, Goto, PlaceOK, IndexesOK, AloneOK, Destroying, IInv
<1>3. MoreOf(g) = page[g].overflow /\ EntriesOf(g) = Range(page[g].large_blocks)
  BY <1>2 DEF MoreOf, EntriesOf
<1>4. page' = Freed(RunsAt(g)) /\ cur' = [cur EXCEPT ![t] = MoreOf(g)]
  BY <1>3 DEF FreeIndexed, RunsAt, PagesOfBlocks
<1> QED BY <1>1, <1>2, <1>4, IndexFreedHeld

LEMMA FreeOverflowHeld ==
  ASSUME IInv, Held, NEW t \in Threads, FreeOverflow(t) PROVE Held'
<1>1. PICK live \in SUBSET Pages : IndexesOK(live)
  BY DEF IInv
<1> PICK g : g = cur[t]
  OBVIOUS
<1>2. /\ pc[t] = "overflows" /\ g # NULL /\ zone' = zone /\ size' = size
      /\ pc' = [pc EXCEPT ![t] = "overflows"]
  BY DEF FreeOverflow, Shape, IInv
<1>3. g \in live /\ page[g].kind = "overflow"
  BY <1>1, <1>2 DEF IndexesOK
<1>4. MoreOf(g) = page[g].previous /\ EntriesOf(g) = Range(page[g].entries)
  BY <1>3 DEF MoreOf, EntriesOf
<1>5. page' = Freed(RunsAt(g)) /\ cur' = [cur EXCEPT ![t] = MoreOf(g)]
  BY <1>4 DEF FreeOverflow, RunsAt, PagesOfBlocks
<1> QED BY <1>1, <1>2, <1>3, <1>5, IndexFreedHeld

LEMMA NextHeld == ASSUME IInv, Held, [Next]_vars PROVE Held'
<1>1. ASSUME NEW t \in Threads, Allocate(t) PROVE Held'
  BY <1>1, CallHeld, LockHeld, FindHeld, GrowHeld, BumpHeld, LargeHeld, EnterIndexHeld,
     EnterOverflowHeld, UnlockHeld DEF Allocate
<1>2. ASSUME NEW t \in Threads, Dispose(t) PROVE Held'
  BY <1>2, DestroyHeld, FreeGroupHeld, NextSizeHeld, FreeIndexedHeld, FreeOverflowHeld,
     ReleaseHeld DEF Dispose
<1> QED BY <1>1, <1>2, CreateHeld, UnchangedHeld DEF Next

LEMMA AlwaysHeld == Spec => []Held
<1>1. Init => IInv /\ Held
  BY InitIInv, InitHeld
<1>2. IInv /\ Held /\ [Next]_vars => (IInv /\ Held)'
  BY NextIInv, NextHeld
<1> QED BY <1>1, <1>2, PTL DEF Spec
-----------------------------------------------------------------------------
(* A chain stays in any set of pages that the links stay in, and holds what *)
(* its pages link.                                                          *)
LinksStayIn(U) == \A q \in U \ {NULL} : page[q].previous \in U
OlderIn(U) == [S \in SUBSET U |-> S \cup {page[q].previous : q \in S \ {NULL}}]

LEMMA OlderTyped ==
  ASSUME NEW U, LinksStayIn(U)
  PROVE  /\ OlderIn(U) \in [SUBSET U -> SUBSET U]
         /\ \A S \in SUBSET U : S \subseteq OlderIn(U)[S]
BY DEF OlderIn, LinksStayIn

LEMMA ChainSteps ==
  ASSUME NEW U, LinksStayIn(U), NEW p \in U
  PROVE  \E f : Steps(f, NumPages, {p}, OlderIn(U)) /\ Chain(p) = f[NumPages] \ {NULL}
<1> DEFINE L == NumPages
           older(S) == S \cup {page[q].previous : q \in S \ {NULL}}
           Unfolded(f) == f = [n \in 0..NumPages |-> IF n = 0 THEN {p} ELSE older(f[n - 1])]
<1>1. OlderIn(U) \in [SUBSET U -> SUBSET U] /\ {p} \in SUBSET U
  BY OlderTyped
<1>2. PICK f \in [0..L -> SUBSET U] : Steps(f, L, {p}, OlderIn(U))
  BY <1>1, Iteration
<1>3. Unfolded(f)
  <2>1. \A n \in 0..L : f[n] = IF n = 0 THEN {p} ELSE older(f[n - 1])
    <3> SUFFICES ASSUME NEW n \in 0..L PROVE f[n] = IF n = 0 THEN {p} ELSE older(f[n - 1])
      OBVIOUS
    <3>1. CASE n = 0
      BY <1>2, <3>1 DEF Steps
    <3>2. CASE n # 0
      <4>1. n \in 1..L /\ n - 1 \in 0..L /\ f[n - 1] \in SUBSET U
        BY <1>2, <3>2
      <4>2. f[n] = OlderIn(U)[f[n - 1]]
        BY <1>2, <4>1 DEF Steps
      <4> QED BY <3>2, <4>1, <4>2 DEF OlderIn
    <3> QED BY <3>1, <3>2
  <2> QED BY <1>2, <2>1
<1> DEFINE found == CHOOSE g : Unfolded(g)
<1>4. Unfolded(found)
  <2> HIDE DEF Unfolded
  <2> QED BY <1>3
<1>5. Chain(p) = found[L] \ {NULL}
  BY DEF Chain
<1>6. found = [n \in 0..L |-> IF n = 0 THEN {p} ELSE older(found[n - 1])]
  BY <1>4
<1> HIDE DEF found
<1>7. found[0] = {p} /\ \A n \in 1..L : found[n] = older(found[n - 1])
  <2>1. found[0] = {p}
    BY <1>6
  <2>2. ASSUME NEW n \in 1..L PROVE found[n] = older(found[n - 1])
    <3>1. n \in 0..L /\ n # 0
      OBVIOUS
    <3> QED BY <1>6, <3>1
  <2> QED BY <2>1, <2>2
<1>8. StepsWithin(U, found, L, {p}, OlderIn(U))
  BY <1>7 DEF OlderIn, StepsWithin
<1>9. Steps(found, L, {p}, OlderIn(U))
  BY <1>1, <1>8, StepsTyped
<1> QED BY <1>5, <1>9

LEMMA PagesCounted == IsFiniteSet(Links) /\ Cardinality(Links) = NumPages + 1
<1>1. 0 \in Int /\ NumPages \in Int
  OBVIOUS
<1>2. IsFiniteSet(0..NumPages)
      /\ Cardinality(0..NumPages) = IF 0 > NumPages THEN 0 ELSE NumPages - 0 + 1
  BY <1>1, FS_Interval, Zenon
<1>3. Links = 0..NumPages
  BY DEF Links, Pages
<1> QED BY <1>2, <1>3

LEMMA ChainClosed ==
  ASSUME NEW U \in SUBSET Links, LinksStayIn(U), NEW p \in U
  PROVE  /\ Chain(p) \subseteq U \ {NULL}
         /\ p # NULL => p \in Chain(p)
         /\ \A q \in Chain(p) : page[q].previous # NULL => page[q].previous \in Chain(p)
<1>1. PICK f : Steps(f, NumPages, {p}, OlderIn(U)) /\ Chain(p) = f[NumPages] \ {NULL}
  BY ChainSteps
<1>2. OlderIn(U) \in [SUBSET U -> SUBSET U] /\ \A S \in SUBSET U : S \subseteq OlderIn(U)[S]
  BY OlderTyped
<1>3. IsFiniteSet(U) /\ Cardinality(U) <= NumPages + 1
  BY PagesCounted, FS_Subset
<1>4. Cardinality({p}) = 1 /\ {p} \in SUBSET U
  BY FS_Singleton
<1>5. Cardinality(U) <= NumPages + Cardinality({p})
  BY <1>3, <1>4
<1> PICK G, s, L : G = OlderIn(U) /\ s = {p} /\ L = NumPages
  OBVIOUS
<1>6. G[f[L]] = f[L] /\ s \subseteq f[L] /\ f[L] \in SUBSET U
  <2>1. /\ IsFiniteSet(U) /\ s \in SUBSET U /\ G \in [SUBSET U -> SUBSET U]
        /\ \A S \in SUBSET U : S \subseteq G[S]
        /\ L \in Nat /\ Cardinality(U) <= L + Cardinality(s) /\ Steps(f, L, s, G)
        /\ WorksIn(U, G)
    BY <1>1, <1>2, <1>3, <1>4, <1>5 DEF WorksIn
  <2>2. G[f[L]] = f[L] /\ s \subseteq f[L]
    BY <2>1, ClosureReached
  <2>3. f[L] \in SUBSET U
    BY <2>1, StepsInside
  <2> QED BY <2>2, <2>3
<1>7. OlderIn(U)[f[NumPages]] = f[NumPages] /\ p \in f[NumPages] /\ f[NumPages] \in SUBSET U
  BY <1>6
<1>8. \A q \in f[NumPages] \ {NULL} : page[q].previous \in f[NumPages]
  BY <1>7 DEF OlderIn
<1> QED BY <1>1, <1>7, <1>8

(* What a zone finds from its own page, when no call is under way.          *)
AllIdle == \A t \in Threads : pc[t] = "idle"
ChainsOf(z) == UNION {Chain(page[z].small_blocks[s]) : s \in GroupSizes}
HeadsOf(z) == {z} \cup Chain(page[z].overflow)

LEMMA WhatZonesFind ==
  ASSUME NEW z \in Pages, page[z].kind = "zone",
         \A q \in Chain(page[z].overflow) : page[q].kind = "overflow"
  PROVE  PagesOfZone(z) = {z} \cup ChainsOf(z) \cup Chain(page[z].overflow)
                              \cup (UNION {RunsAt(h) : h \in HeadsOf(z)})
<1>1. RunsAt(z) = PagesOfBlocks(page[z].large_blocks)
  BY DEF RunsAt, EntriesOf, PagesOfBlocks
<1>2. \A q \in Chain(page[z].overflow) : RunsAt(q) = PagesOfBlocks(page[q].entries)
  BY DEF RunsAt, EntriesOf, PagesOfBlocks
<1>3. UNION {RunsAt(h) : h \in HeadsOf(z)} =
        PagesOfBlocks(page[z].large_blocks)
        \cup (UNION {PagesOfBlocks(page[q].entries) : q \in Chain(page[z].overflow)})
  BY <1>1, <1>2 DEF HeadsOf
<1> QED BY <1>3 DEF PagesOfZone, ChainsOf

LEMMA ChainsFound ==
  ASSUME IInv, AllIdle, NEW z \in Pages, page[z].kind = "zone"
  PROVE  /\ \A p \in ChainsOf(z) : /\ p \in Pages /\ page[p].kind = "group" /\ page[p].owner = z
                                   /\ page[p].previous # NULL => page[p].previous \in ChainsOf(z)
         /\ \A s \in GroupSizes : page[z].small_blocks[s] # NULL =>
              page[z].small_blocks[s] \in ChainsOf(z)
<1> DEFINE U == {NULL} \cup {p \in Pages : page[p].kind = "group" /\ page[p].owner = z}
<1>1. U \in SUBSET Links /\ LinksStayIn(U)
  <2>1. \A p \in Pages : page[p].kind = "group" => page[p].previous \in Links
    BY PageKinds DEF GroupPages, IInv
  <2>2. ASSUME NEW p \in U \ {NULL} PROVE page[p].previous \in U
    BY <2>1 DEF GroupsOK, IInv, Links
  <2> QED BY <2>2 DEF LinksStayIn, Links
<1>2. ASSUME NEW s \in GroupSizes PROVE page[z].small_blocks[s] \in U
  <2>1. Unwalked(z, s)
    BY DEF Unwalked, AllIdle, Destroying
  <2>2. page[z].small_blocks[s] \in Links
    BY PageKinds DEF ZonePages, IInv
  <2> QED BY <2>1, <2>2 DEF GroupsOK, IInv, Links
<1> HIDE DEF U
<1>3. ASSUME NEW s \in GroupSizes, NEW c, c = page[z].small_blocks[s]
      PROVE  /\ Chain(c) \subseteq U \ {NULL}
             /\ c # NULL => c \in Chain(c)
             /\ \A q \in Chain(c) : page[q].previous # NULL => page[q].previous \in Chain(c)
  BY <1>1, <1>2, <1>3, ChainClosed
<1> QED BY <1>3 DEF ChainsOf, U

LEMMA IndexesFound ==
  ASSUME IInv, AllIdle, NEW z \in Pages, page[z].kind = "zone"
  PROVE  /\ \A h \in HeadsOf(z) :
              /\ h \in Pages
              /\ EntriesOf(h) \subseteq Pages
              /\ \A e \in EntriesOf(h) : page[e].kind = "large" /\ page[e].owner = z
              /\ MoreOf(h) # NULL => MoreOf(h) \in Chain(page[z].overflow)
         /\ \A h \in Chain(page[z].overflow) : page[h].kind = "overflow" /\ page[h].owner = z
<1>1. PICK live \in SUBSET Pages : IndexesOK(live)
  BY DEF IInv
<1> DEFINE U == {NULL} \cup {p \in live : page[p].kind = "overflow" /\ page[p].owner = z}
<1>2. z \in live
  BY <1>1 DEF IndexesOK, AllIdle
<1>3. U \in SUBSET Links /\ LinksStayIn(U)
  <2>1. ASSUME NEW p \in U \ {NULL} PROVE page[p].previous \in U
    BY <1>1 DEF IndexesOK, MoreOf, OwnerOf
  <2> QED BY <2>1 DEF LinksStayIn, Links
<1>4. page[z].overflow \in U
  BY <1>1, <1>2 DEF IndexesOK, MoreOf, OwnerOf
<1> HIDE DEF U
<1>5. PICK c : c = page[z].overflow
  OBVIOUS
<1>6. /\ Chain(c) \subseteq U \ {NULL}
      /\ c # NULL => c \in Chain(c)
      /\ \A q \in Chain(c) : page[q].previous # NULL => page[q].previous \in Chain(c)
  BY <1>3, <1>4, <1>5, ChainClosed
<1>7. \A h \in Chain(c) : h \in live /\ page[h].kind = "overflow" /\ page[h].owner = z
  BY <1>6 DEF U
<1>8. \A h \in HeadsOf(z) : h \in live /\ OwnerOf(h) = z /\ (MoreOf(h) # NULL => MoreOf(h) \in Chain(c))
  BY <1>2, <1>5, <1>6, <1>7 DEF HeadsOf, OwnerOf, MoreOf
<1>9. \A h \in live : EntriesOf(h) \subseteq Pages
  BY <1>1, PageKinds DEF IndexesOK, EntriesOf, ZonePages, OverflowPages, Range, IInv
<1> QED BY <1>1, <1>5, <1>7, <1>8, <1>9 DEF IndexesOK

(* The pages of a block are its own.                                        *)
LEMMA RunsFound ==
  ASSUME IInv, NEW e \in Pages, page[e].kind = "large"
  PROVE  /\ e \in RunOf(e, page[e].element_size)
         /\ RunOf(e, page[e].element_size) \subseteq Pages
         /\ \A q \in RunOf(e, page[e].element_size) :
              q = e \/ (page[q].kind = "data" /\ page[q].head = e)
<1>1. e \in Nat /\ page[e].element_size \in Nat
  BY PageKinds, Sizes DEF LargePages, IInv
<1>2. e \in RunOf(e, page[e].element_size)
  BY <1>1, RunFits DEF RunOf
<1>3. \A q \in RunOf(e, page[e].element_size) : q # e => page[q] = DataPage(e)
  BY DEF RunsOK, IInv
<1>4. DataPage(e).kind = "data" /\ DataPage(e).head = e
  BY DEF DataPage
<1>5. RunOf(e, page[e].element_size) \subseteq Pages
  BY DEF RunsOK, IInv
<1> QED BY <1>2, <1>3, <1>4, <1>5
LEMMA PagesHaveOneOwner ==
  ASSUME IInv, AllIdle, NEW z \in Pages, page[z].kind = "zone", NEW p \in PagesOfZone(z)
  PROVE  \/ p = z
         \/ page[p].kind \in {"group", "overflow", "large"} /\ page[p].owner = z
         \/ page[p].kind = "data" /\ page[page[p].head].owner = z
<1>1. /\ p \in {z} \cup ChainsOf(z) \cup Chain(page[z].overflow)
                   \cup (UNION {RunsAt(h) : h \in HeadsOf(z)})
  BY WhatZonesFind, IndexesFound
<1>2. CASE p \in ChainsOf(z)
  BY <1>2, ChainsFound
<1>3. CASE p \in Chain(page[z].overflow)
  BY <1>3, IndexesFound
<1>4. CASE p \in UNION {RunsAt(h) : h \in HeadsOf(z)}
  <2>1. PICK h \in HeadsOf(z) : p \in RunsAt(h)
    BY <1>4
  <2>2. PICK e \in EntriesOf(h) : p \in RunOf(e, page[e].element_size)
    BY <2>1 DEF RunsAt
  <2>3. e \in Pages /\ page[e].kind = "large" /\ page[e].owner = z
    BY IndexesFound
  <2>4. p = e \/ (page[p].kind = "data" /\ page[p].head = e)
    BY <2>2, <2>3, RunsFound
  <2> QED BY <2>3, <2>4
<1> QED BY <1>1, <1>2, <1>3, <1>4

LEMMA AllPagesFound ==
  ASSUME IInv, Held, AllIdle, NEW p \in Pages, page[p].kind \notin {"free", "overflow"}
  PROVE  \E z \in ZonesAlive : p \in PagesOfZone(z)
<1> DEFINE T == {q \in Pages : \E z \in ZonesAlive : q \in PagesOfZone(z)}
<1>1. \A z \in ZonesAlive : /\ z \in Pages /\ page[z].kind = "zone"
                            /\ z \in PagesOfZone(z) /\ z \in HeadsOf(z)
  BY DEF ZonesAlive, PagesOfZone, HeadsOf
<1>2. \A z \in ZonesAlive :
        PagesOfZone(z) = {z} \cup ChainsOf(z) \cup Chain(page[z].overflow)
                             \cup (UNION {RunsAt(h) : h \in HeadsOf(z)})
  BY <1>1, WhatZonesFind, IndexesFound
<1>3. \A z \in ZonesAlive : \A h \in HeadsOf(z) : \A e \in EntriesOf(h) :
        /\ e \in Pages /\ page[e].kind = "large" /\ e \in RunOf(e, page[e].element_size)
        /\ RunOf(e, page[e].element_size) \subseteq PagesOfZone(z)
  <2> SUFFICES ASSUME NEW z \in ZonesAlive, NEW h \in HeadsOf(z), NEW e \in EntriesOf(h)
               PROVE  /\ e \in Pages /\ page[e].kind = "large"
                      /\ e \in RunOf(e, page[e].element_size)
                      /\ RunOf(e, page[e].element_size) \subseteq PagesOfZone(z)
    OBVIOUS
  <2>1. e \in Pages /\ page[e].kind = "large"
    BY <1>1, IndexesFound
  <2>2. RunOf(e, page[e].element_size) \subseteq RunsAt(h)
    BY DEF RunsAt
  <2> QED BY <1>2, <2>1, <2>2, RunsFound
<1>4. ASSUME NEW q \in T
      PROVE  /\ page[q].kind = "zone" => q \in ZonesAlive
             /\ page[q].kind = "group" => \E z \in ZonesAlive : q \in ChainsOf(z)
             /\ page[q].kind = "overflow" =>
                  \E z \in ZonesAlive : q \in Chain(page[z].overflow)
             /\ page[q].kind = "large" =>
                  \E z \in ZonesAlive : RunOf(q, page[q].element_size) \subseteq PagesOfZone(z)
  <2>1. PICK z \in ZonesAlive : q \in PagesOfZone(z)
    OBVIOUS
  <2>2. CASE q = z
    BY <1>1, <2>2
  <2>3. CASE q \in ChainsOf(z)
    BY <1>1, <2>3, ChainsFound
  <2>4. CASE q \in Chain(page[z].overflow)
    BY <1>1, <2>4, IndexesFound
  <2>5. CASE q \in UNION {RunsAt(h) : h \in HeadsOf(z)}
    <3>1. PICK h \in HeadsOf(z) : q \in RunsAt(h)
      BY <2>5
    <3>2. PICK e \in EntriesOf(h) : q \in RunOf(e, page[e].element_size)
      BY <3>1 DEF RunsAt
    <3>3. /\ e \in Pages /\ page[e].kind = "large"
          /\ RunOf(e, page[e].element_size) \subseteq PagesOfZone(z)
      BY <1>3
    <3>4. q = e \/ page[q].kind = "data"
      BY <3>2, <3>3, RunsFound
    <3> QED BY <3>3, <3>4
  <2> QED BY <1>2, <2>1, <2>2, <2>3, <2>4, <2>5
<1>5. HasGroups(T)
  <2>1. \A y \in Pages, s \in GroupSizes :
          page[y].kind = "zone" /\ Unwalked(y, s) /\ page[y].small_blocks[s] # NULL =>
            page[y].small_blocks[s] \in T
    <3> SUFFICES ASSUME NEW y \in Pages, NEW s \in GroupSizes, page[y].kind = "zone",
                        page[y].small_blocks[s] # NULL
                 PROVE  page[y].small_blocks[s] \in T
      OBVIOUS
    <3>1. y \in ZonesAlive
      BY DEF ZonesAlive
    <3>2. page[y].small_blocks[s] \in ChainsOf(y) /\ page[y].small_blocks[s] \in Pages
      BY ChainsFound
    <3> QED BY <1>2, <3>1, <3>2
  <2>2. \A q \in T : page[q].kind = "group" /\ page[q].previous # NULL => page[q].previous \in T
    <3> SUFFICES ASSUME NEW q \in T, page[q].kind = "group", page[q].previous # NULL
                 PROVE  page[q].previous \in T
      OBVIOUS
    <3>1. PICK z \in ZonesAlive : q \in ChainsOf(z)
      BY <1>4
    <3>2. page[q].previous \in ChainsOf(z) /\ page[q].previous \in Pages
      BY <1>1, <3>1, ChainsFound
    <3> QED BY <1>2, <3>2
  <2> HIDE DEF T
  <2> QED BY <2>1, <2>2 DEF HasGroups, AllIdle
<1>6. HasBlocks(T)
  <2>1. \A y \in Pages : Unindexed(y) => y \in T
    BY <1>1 DEF Unindexed, ZonesAlive
  <2>2. ASSUME NEW h \in T, Unindexed(h) \/ page[h].kind = "overflow"
        PROVE  EntriesOf(h) \subseteq T /\ (MoreOf(h) # NULL => MoreOf(h) \in T)
    <3>1. PICK z \in ZonesAlive : h \in HeadsOf(z)
      BY <1>1, <1>4, <2>2 DEF Unindexed, HeadsOf
    <3>2. EntriesOf(h) \subseteq T
      BY <1>3, <3>1
    <3>3. MoreOf(h) # NULL => MoreOf(h) \in Chain(page[z].overflow)
      BY <1>1, <3>1, IndexesFound
    <3>4. \A q \in Chain(page[z].overflow) : q \in HeadsOf(z) /\ q \in PagesOfZone(z)
      BY <1>2 DEF HeadsOf
    <3>5. \A q \in HeadsOf(z) : q \in Pages
      BY <1>1, IndexesFound
    <3> QED BY <3>2, <3>3, <3>4, <3>5
  <2> HIDE DEF T
  <2> QED BY <2>1, <2>2 DEF HasBlocks, AllIdle
<1>7. T \in SUBSET Pages
  OBVIOUS
<1>8. \A q \in Pages : page[q].kind \in {"group", "large"} => q \in T
  <2> HIDE DEF T
  <2> QED BY <1>5, <1>6, <1>7 DEF Held, GroupsHeld, BlocksHeld
<1>9. page[p].kind \in {"zone", "group", "large", "data"}
  <2>1. page[p] \in Contents
    BY PageKinds DEF IInv
  <2> QED BY <2>1 DEF Contents, FreePage, DataPages, ZonePages, GroupPages, OverflowPages,
                      LargePages
<1>10. CASE page[p].kind = "zone"
  BY <1>1, <1>10 DEF ZonesAlive
<1>11. CASE page[p].kind \in {"group", "large"}
  BY <1>8, <1>11
<1>12. CASE page[p].kind = "data"
  <2>1. PICK q \in Pages : page[q].kind = "large" /\ p \in RunOf(q, page[q].element_size)
    BY <1>12 DEF Held, DataHeld
  <2>2. q \in T
    BY <1>8, <2>1
  <2> HIDE DEF T
  <2> QED BY <1>4, <2>1, <2>2
<1> QED BY <1>9, <1>10, <1>11, <1>12

(* When no call is under way, every page in use but the overflow pages is   *)
(* one that a zone finds from its own page and will give back, and no page  *)
(* is found by two zones: what zone_destroy says of itself, "Release all of *)
(* its pages back to the VM".                                               *)
THEOREM NoPageIsLost == Spec => []PagesAccountedFor
<1>1. IInv /\ Held => PagesAccountedFor
  <2> SUFFICES ASSUME IInv, Held, AllIdle
               PROVE  /\ \A p \in Pages : page[p].kind \notin {"free", "overflow"} =>
                           \E z \in ZonesAlive : p \in PagesOfZone(z)
                      /\ \A y, z \in ZonesAlive : y # z => PagesOfZone(y) \cap PagesOfZone(z) = {}
    BY DEF PagesAccountedFor, AllIdle
  <2>1. \A p \in Pages : page[p].kind \notin {"free", "overflow"} =>
          \E z \in ZonesAlive : p \in PagesOfZone(z)
    BY AllPagesFound
  <2>2. ASSUME NEW y \in ZonesAlive, NEW z \in ZonesAlive, y # z,
               NEW p \in PagesOfZone(y), p \in PagesOfZone(z)
        PROVE  FALSE
    <3>1. /\ y \in Pages /\ page[y].kind = "zone" /\ z \in Pages /\ page[z].kind = "zone"
      BY DEF ZonesAlive
    <3>2. /\ \/ p = y
             \/ page[p].kind \in {"group", "overflow", "large"} /\ page[p].owner = y
             \/ page[p].kind = "data" /\ page[page[p].head].owner = y
          /\ \/ p = z
             \/ page[p].kind \in {"group", "overflow", "large"} /\ page[p].owner = z
             \/ page[p].kind = "data" /\ page[page[p].head].owner = z
      BY <2>2, <3>1, PagesHaveOneOwner
    <3> QED BY <2>2, <3>1, <3>2
  <2> QED BY <2>1, <2>2
<1> QED BY <1>1, AlwaysIInv, AlwaysHeld, PTL

-----------------------------------------------------------------------------
(* The zones and the collector side by side.                                *)
CP == INSTANCE Collector_proofs WITH pc <- at

(* MCMemory and the proofs each have an instance of the collector.          *)
LEMMA SameCollector ==
  /\ C!Init <=> CP!Init
  /\ C!Next => CP!Next
  /\ C!TypeOK <=> CP!TypeOK
  /\ C!SameGraph <=> CP!SameGraph
  /\ C!CopiesEachOnce <=> CP!CopiesEachOnce
<1>1. C!Init <=> CP!Init
  BY DEF C!Init, CP!Init, C!Heaps, CP!Heaps, C!ObjectsAt, CP!ObjectsAt, C!OlderThan, CP!OlderThan,
         C!Closure, CP!Closure, C!Buffer, CP!Buffer, C!Null, CP!Null, C!Number, CP!Number
<1>2. C!TypeOK <=> CP!TypeOK
  BY DEF C!TypeOK, CP!TypeOK
<1>3. C!CopiesEachOnce <=> CP!CopiesEachOnce
  BY DEF C!CopiesEachOnce, CP!CopiesEachOnce, C!Reach, CP!Reach, C!Slots, CP!Slots,
         C!Null, CP!Null, C!Cardinality, CP!Cardinality
<1>4. C!SameGraph <=> CP!SameGraph
  BY DEF C!SameGraph, CP!SameGraph, C!Reach, CP!Reach, C!Slots, CP!Slots, C!Null, CP!Null,
         C!InPlaceOf, CP!InPlaceOf, C!SameSlot, CP!SameSlot
<1>5. C!Next => CP!Next
  <2>1. \A v : C!ToBeCopied(v) <=> CP!ToBeCopied(v)
    BY DEF C!ToBeCopied, CP!ToBeCopied, C!Forwarded, CP!Forwarded, C!Null, CP!Null,
           C!Redirect, CP!Redirect
  <2>2. \A b : /\ C!SizeSlot(b) = CP!SizeSlot(b) /\ (C!IsBuffer(b) <=> CP!IsBuffer(b))
               /\ C!Clone(b) = CP!Clone(b) /\ C!EmptyCopy(b) = CP!EmptyCopy(b)
    BY DEF C!SizeSlot, CP!SizeSlot, C!IsBuffer, CP!IsBuffer, C!HeaderWords, CP!HeaderWords,
           C!Clone, CP!Clone, C!EmptyCopy, CP!EmptyCopy, C!Closure, CP!Closure,
           C!Number, CP!Number, C!Null, CP!Null
  <2>3. \A h, o, c : C!MakeForwarder(h, o, c) = CP!MakeForwarder(h, o, c)
    BY DEF C!MakeForwarder, CP!MakeForwarder, C!Redirect, CP!Redirect
  <2>4. C!PassBack => CP!PassBack
    BY <2>1 DEF C!PassBack, CP!PassBack, C!Return, CP!Return, C!Forwarded, CP!Forwarded,
                C!Null, CP!Null, C!Redirect, CP!Redirect
  <2>5. C!CopyBuffer => CP!CopyBuffer
    BY <2>1, <2>2, <2>3 DEF C!CopyBuffer, CP!CopyBuffer, C!Return, CP!Return
  <2>6. C!BeginClosure => CP!BeginClosure
    BY <2>1, <2>2 DEF C!BeginClosure, CP!BeginClosure
  <2>7. C!StoreSlot => CP!StoreSlot
    BY <2>3 DEF C!StoreSlot, CP!StoreSlot, C!Last, CP!Last, C!Front, CP!Front
  <2>8. C!DestroySource => CP!DestroySource
    BY DEF C!DestroySource, CP!DestroySource, C!Gone, CP!Gone, C!Closure, CP!Closure
  <2>9. C!Finished => CP!Finished
    BY DEF C!Finished, CP!Finished, C!vars, CP!vars
  <2> QED BY <2>4, <2>5, <2>6, <2>7, <2>8, <2>9 DEF C!Next, CP!Next
<1> QED BY <1>1, <1>2, <1>3, <1>4, <1>5

(* A behaviour is one of the zones, or one of the collector, throughout.    *)
Sides == kind \in {"zones", "collector"} /\ (kind = "collector" => CP!IInv)

LEMMA AlwaysSides == MemorySpec => []Sides
<1>1. MemoryInit => Sides
  BY SameCollector, CP!InitStep DEF MemoryInit, Sides
<1>2. Sides /\ [MemoryNext]_memoryVars => Sides'
  <2> SUFFICES ASSUME Sides, [MemoryNext]_memoryVars PROVE Sides'
    OBVIOUS
  <2>1. kind' = kind
    BY DEF MemoryNext, memoryVars
  <2>2. kind = "collector" => CP!IInv'
    <3> SUFFICES ASSUME kind = "collector" PROVE CP!IInv'
      OBVIOUS
    <3>1. CP!Next \/ UNCHANGED CP!vars
      BY SameCollector DEF MemoryNext, memoryVars, collectorVars, CP!vars
    <3> QED BY <3>1, CP!Step DEF Sides
  <2> QED BY <2>1, <2>2 DEF Sides
<1> QED BY <1>1, <1>2, PTL DEF MemorySpec

(* The zones are not disturbed by a collection beside them.                 *)
THEOREM MemoryIsZones == MemorySpec => Spec
<1>1. MemoryInit => Init
  BY DEF MemoryInit
<1>2. [MemoryNext]_memoryVars => [Next]_vars
  BY DEF MemoryNext, memoryVars
<1> QED BY <1>1, <1>2, PTL DEF MemorySpec, Spec

(* The fields of every page stay in their bounds, and what copy_object      *)
(* works with are addresses of the heap.                                    *)
THEOREM MemoryTypes == MemorySpec => []MemoryTypeOK
<1>1. Sides /\ TypeOK => MemoryTypeOK
  BY SameCollector, CP!IInvImplies DEF Sides, MemoryTypeOK
<1> QED BY <1>1, AlwaysSides, MemoryIsZones, TypeCorrect, PTL

(* collect_zone gives back the graph that the root led to: the objects      *)
(* outside the zone in their places, the others copied, what was shared     *)
(* still shared, and nothing that refers to the zone that is destroyed.     *)
THEOREM GraphSurvives == MemorySpec => []SameGraph
<1>1. Sides => SameGraph
  BY SameCollector, CP!IInvImplies DEF Sides, SameGraph
<1> QED BY <1>1, AlwaysSides, PTL

(* copy_object never copies an object that is not live, nor one twice,      *)
(* though it forwards a closure only when all its slots are copied.         *)
THEOREM CopiedOnce == MemorySpec => []CopiesEachOnce
<1>1. Sides => CopiesEachOnce
  BY SameCollector, CP!IInvImplies DEF Sides, CopiesEachOnce
<1> QED BY <1>1, AlwaysSides, PTL
=============================================================================
