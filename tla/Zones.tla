------------------------------- MODULE Zones -------------------------------
(* Allocation zones, runtime/memory/allocator.c.                            *)
(*                                                                          *)
(* A zone is the memory of one piece of work.  It hands out blocks that are *)
(* never freed one by one: zone_destroy gives all pages of the zone back.   *)
(* Small blocks share a page with blocks of their size; large ones have a   *)
(* run of pages of their own.  Any number of threads allocate in a zone at  *)
(* the same time; its lock serializes them.                                 *)
(*                                                                          *)
(* A zone_t is the address of the zone's first page, so zones, groups and   *)
(* large blocks are all named by page numbers here.  Memory is counted in   *)
(* words.  The headers have their real sizes, pages are shorter than        *)
(* PAGE_SIZE.                                                               *)
(*                                                                          *)
(* A definition that stands right before the one it varies, and is used     *)
(* nowhere, is a slip the code could have made; the properties catch it.    *)
EXTENDS Integers, Sequences, FiniteSets, FiniteSetsExt, Functions

CONSTANTS Threads,
          NumPages,     \* bound: the pages the VM has
          PageWords,    \* PAGE_SIZE, in words
          WordBytes,    \* sizeof(void*)
          RequestBytes, \* the sizes asked for, in bytes
          MaxZones      \* bound: the zones alive at a time

ASSUME PageAssumption == PageWords \in Nat /\ PageWords > 8 /\ PageWords % 2 = 0
ASSUME RequestAssumption == RequestBytes \subseteq Nat /\ WordBytes \in Nat \ {0}
ASSUME NumPagesAssumption == NumPages \in Nat

NULL == 0
NoThread == "nobody"
ASSUME ThreadsAssumption == NoThread \notin Threads
Pages == 1..NumPages

ZoneStruct == 4      \* sizeof(struct zone), in words
GroupStruct == 4     \* sizeof(struct group)
LargeStruct == 2     \* sizeof(struct large_block)

Midpoint == PageWords \div 2
Capacity == PageWords - GroupStruct
GroupSizes == 1..Midpoint
Threshold == Capacity \div 2

VARIABLES page,     \* what each page holds
          blocks,   \* the blocks handed out, of the zones still alive
          pc,       \* what each thread does next
          zone,     \* the zone it works in
          size,     \* the size zone_alloc rounded up; zone_destroy's counter
          cur       \* its local page pointer: group, block or overflow

locals == <<pc, zone, size, cur>>
vars == <<page, blocks, locals>>

-----------------------------------------------------------------------------
(* The contents of pages.  The second and later pages of a large block are  *)
(* data only.                                                               *)
FreePage == [kind |-> "free"]
DataPage(p) == [kind |-> "data", head |-> p]
ZonePage == [kind |-> "zone", lock |-> NoThread, large_blocks |-> << >>,
             overflow |-> NULL, small_blocks |-> [s \in GroupSizes |-> NULL]]
GroupPage(z, s, old) == [kind |-> "group", owner |-> z, element_size |-> s,
                         available |-> Capacity, previous |-> old]
OverflowPage(z, old) == [kind |-> "overflow", owner |-> z, available |-> Capacity,
                         previous |-> old, entries |-> << >>]
LargePageInAll(z, s) ==
    [kind |-> "large", owner |-> z, element_size |-> LargeStruct + s]
LargePage(z, s) == [kind |-> "large", owner |-> z, element_size |-> s]

ZonesAlive == {p \in Pages : page[p].kind = "zone"}
BeingDestroyed(z) ==
    \E t \in Threads : pc[t] \in {"groups", "index", "overflows"} /\ zone[t] = z
Busy(z) == \E t \in Threads : pc[t] # "idle" /\ zone[t] = z

(* The pages of a large block of s words: whole pages from its first one on.*)
RunLength(s) == (LargeStruct + s + PageWords - 1) \div PageWords
RunOf(p, s) == p..(p + RunLength(s) - 1)

(* page_alloc and multipage_alloc find free, zeroed pages.                  *)
FreeRuns(s) == {p \in Pages : /\ RunOf(p, s) \subseteq Pages
                              /\ \A q \in RunOf(p, s) : page[q] = FreePage}
FreeSingles == FreeRuns(1)

(* zone_alloc rounds the size up to the nearest word.                       *)
RoundUp(bytes) == (bytes + WordBytes - 1) \div WordBytes

Init == /\ page = [p \in Pages |-> FreePage]
        /\ blocks = {}
        /\ pc = [t \in Threads |-> "idle"]
        /\ zone = [t \in Threads |-> NULL]
        /\ size = [t \in Threads |-> 0]
        /\ cur = [t \in Threads |-> NULL]

Goto(t, label) == pc' = [pc EXCEPT ![t] = label]

(* The words of page q, from word "at" on, go to whoever asked.             *)
HandOut(t, q, at) ==
    blocks' = blocks \cup {[zone |-> zone[t], page |-> q, at |-> at, words |-> size[t]]}

-----------------------------------------------------------------------------
(* zone_create                                                              *)
Create(t) ==
    /\ pc[t] = "idle" /\ Cardinality(ZonesAlive) < MaxZones
    /\ \E p \in FreeSingles : page' = [page EXCEPT ![p] = ZonePage]
    /\ UNCHANGED <<blocks, locals>>

-----------------------------------------------------------------------------
(* zone_alloc.  Nobody calls it on a zone that is being destroyed.          *)
Call(t) ==
    /\ pc[t] = "idle"
    /\ \E z \in ZonesAlive, n \in RequestBytes :
         /\ n > 0
         /\ ~BeingDestroyed(z)
         /\ zone' = [zone EXCEPT ![t] = z]
         /\ size' = [size EXCEPT ![t] = RoundUp(n)]
    /\ Goto(t, "lock")
    /\ UNCHANGED <<page, blocks, cur>>

LockRegardless(t) ==
    /\ pc[t] = "lock"
    /\ page' = [page EXCEPT ![zone[t]].lock = t]
    /\ Goto(t, IF size[t] >= Threshold THEN "large" ELSE "find")
    /\ UNCHANGED <<blocks, zone, size, cur>>

Lock(t) ==
    /\ pc[t] = "lock"
    /\ page[zone[t]].lock = NoThread
    /\ page' = [page EXCEPT ![zone[t]].lock = t]
    /\ Goto(t, IF size[t] >= Threshold THEN "large" ELSE "find")
    /\ UNCHANGED <<blocks, zone, size, cur>>

(* small_alloc: the newest page of this size, if it still has room.         *)
Find(t) ==
    /\ pc[t] = "find"
    /\ LET group == page[zone[t]].small_blocks[size[t]]
       IN /\ cur' = [cur EXCEPT ![t] = group]
          /\ Goto(t, IF group = NULL \/ page[group].available < size[t]
                       THEN "grow" ELSE "bump")
    /\ UNCHANGED <<page, blocks, zone, size>>

GrowAfresh(t) ==
    /\ pc[t] = "grow"
    /\ \E p \in FreeSingles :
         /\ page' = [page EXCEPT ![p] = GroupPage(zone[t], size[t], NULL),
                                 ![zone[t]].small_blocks[size[t]] = p]
         /\ cur' = [cur EXCEPT ![t] = p]
    /\ Goto(t, "bump")
    /\ UNCHANGED <<blocks, zone, size>>

Grow(t) ==
    /\ pc[t] = "grow"
    /\ \E p \in FreeSingles :
         /\ page' = [page EXCEPT ![p] = GroupPage(zone[t], size[t], cur[t]),
                                 ![zone[t]].small_blocks[size[t]] = p]
         /\ cur' = [cur EXCEPT ![t] = p]
    /\ Goto(t, "bump")
    /\ UNCHANGED <<blocks, zone, size>>

(* Blocks are cut from the end of a page backwards.                         *)
Bump(t) ==
    /\ pc[t] = "bump"
    /\ LET left == page[cur[t]].available - size[t]
       IN /\ page' = [page EXCEPT ![cur[t]].available = left]
          /\ HandOut(t, cur[t], GroupStruct + left)
    /\ Goto(t, "unlock")
    /\ UNCHANGED <<zone, size, cur>>

(* large_alloc: fresh pages, whose first one is then entered in an index.   *)
Large(t) ==
    /\ pc[t] = "large"
    /\ \E p \in FreeRuns(size[t]) :
         /\ page' = [q \in Pages |->
              IF q = p THEN LargePage(zone[t], size[t])
              ELSE IF q \in RunOf(p, size[t]) THEN DataPage(p) ELSE page[q]]
         /\ cur' = [cur EXCEPT ![t] = p]
         /\ HandOut(t, p, LargeStruct)
    /\ Goto(t, "enter")
    /\ UNCHANGED <<zone, size>>

(* The index of the zone's own page grows from its middle down to the       *)
(* struct; what finds no room there goes to overflow pages.                 *)
RoomInIndexToo(z) == Midpoint - Len(page[z].large_blocks) >= ZoneStruct
RoomInIndex(z) == Midpoint - Len(page[z].large_blocks) >= ZoneStruct + 1

EnterIndex(t) ==
    /\ pc[t] = "enter" /\ RoomInIndex(zone[t])
    /\ page' = [page EXCEPT ![zone[t]].large_blocks = << cur[t] >> \o @]
    /\ Goto(t, "unlock")
    /\ UNCHANGED <<blocks, zone, size, cur>>

(* An overflow page is made when there is none, or none with room.          *)
EnterOverflow(t) ==
    /\ pc[t] = "enter" /\ ~RoomInIndex(zone[t])
    /\ LET group == page[zone[t]].overflow
           entered(g) == [g EXCEPT !.available = @ - 1, !.entries = << cur[t] >> \o @]
       IN IF group # NULL /\ page[group].available >= 1
            THEN page' = [page EXCEPT ![group] = entered(@)]
            ELSE \E p \in FreeSingles :
                   page' = [page EXCEPT ![p] = entered(OverflowPage(zone[t], group)),
                                        ![zone[t]].overflow = p]
    /\ Goto(t, "unlock")
    /\ UNCHANGED <<blocks, zone, size, cur>>

Unlock(t) ==
    /\ pc[t] = "unlock"
    /\ page' = [page EXCEPT ![zone[t]].lock = NoThread]
    /\ Goto(t, "idle")
    /\ zone' = [zone EXCEPT ![t] = NULL]
    /\ cur' = [cur EXCEPT ![t] = NULL]
    /\ size' = [size EXCEPT ![t] = 0]
    /\ UNCHANGED blocks

-----------------------------------------------------------------------------
(* zone_destroy, called when nobody uses the zone any more.                 *)
Destroy(t) ==
    /\ pc[t] = "idle"
    /\ \E z \in ZonesAlive :
         /\ ~Busy(z)
         /\ zone' = [zone EXCEPT ![t] = z]
         /\ blocks' = {b \in blocks : b.zone # z}
    /\ Goto(t, "groups")
    /\ UNCHANGED <<page, size, cur>>

(* free_group, for each size in turn that has groups.                       *)
FreeGroup(t) ==
    /\ pc[t] = "groups" /\ cur[t] # NULL
    /\ page' = [page EXCEPT ![cur[t]] = FreePage]
    /\ cur' = [cur EXCEPT ![t] = page[cur[t]].previous]
    /\ UNCHANGED <<blocks, pc, zone, size>>

NextSize(t) ==
    /\ pc[t] = "groups" /\ cur[t] = NULL
    /\ LET used == {s \in GroupSizes : /\ s > size[t]
                                      /\ page[zone[t]].small_blocks[s] # NULL}
       IN IF used = {}
            THEN Goto(t, "index") /\ UNCHANGED <<size, cur>>
            ELSE /\ size' = [size EXCEPT ![t] = Min(used)]
                 /\ cur' = [cur EXCEPT ![t] = page[zone[t]].small_blocks[Min(used)]]
                 /\ UNCHANGED pc
    /\ UNCHANGED <<page, blocks, zone>>

(* free_large_block, for every block an index names: its header knows how   *)
(* many pages it has.                                                       *)
PagesOfBlocks(index) ==
    UNION {RunOf(p, page[p].element_size) : p \in Range(index)}
Freed(S) == [q \in Pages |-> IF q \in S THEN FreePage ELSE page[q]]

FreeIndexed(t) ==
    /\ pc[t] = "index"
    /\ page' = Freed(PagesOfBlocks(page[zone[t]].large_blocks))
    /\ cur' = [cur EXCEPT ![t] = page[zone[t]].overflow]
    /\ Goto(t, "overflows")
    /\ UNCHANGED <<blocks, zone, size>>

(* free_overflow frees the blocks that an overflow page names.              *)
FreeOverflow(t) ==
    /\ pc[t] = "overflows" /\ cur[t] # NULL
    /\ page' = Freed(PagesOfBlocks(page[cur[t]].entries))
    /\ cur' = [cur EXCEPT ![t] = page[cur[t]].previous]
    /\ UNCHANGED <<blocks, pc, zone, size>>

Release(t) ==
    /\ pc[t] = "overflows" /\ cur[t] = NULL
    /\ page' = [page EXCEPT ![zone[t]] = FreePage]
    /\ Goto(t, "idle")
    /\ zone' = [zone EXCEPT ![t] = NULL]
    /\ size' = [size EXCEPT ![t] = 0]
    /\ UNCHANGED <<blocks, cur>>

-----------------------------------------------------------------------------
Allocate(t) == \/ Call(t) \/ Lock(t) \/ Find(t) \/ Grow(t) \/ Bump(t)
               \/ Large(t) \/ EnterIndex(t) \/ EnterOverflow(t) \/ Unlock(t)
Dispose(t) == \/ Destroy(t) \/ FreeGroup(t) \/ NextSize(t) \/ FreeIndexed(t)
              \/ FreeOverflow(t) \/ Release(t)

Next == \E t \in Threads : Create(t) \/ Allocate(t) \/ Dispose(t)
Spec == Init /\ [][Next]_vars

-----------------------------------------------------------------------------
(* The pages a chain of groups links, from its newest page on.              *)
Chain(p) ==
    LET older(S) == S \cup {page[q].previous : q \in S \ {NULL}}
        linked[n \in 0..NumPages] == IF n = 0 THEN {p} ELSE older(linked[n - 1])
    IN linked[NumPages] \ {NULL}

(* All pages zone z can find from its own page.                             *)
PagesOfZone(z) ==
    LET overflows == Chain(page[z].overflow)
    IN {z} \cup (UNION {Chain(page[z].small_blocks[s]) : s \in GroupSizes})
           \cup PagesOfBlocks(page[z].large_blocks)
           \cup overflows
           \cup (UNION {PagesOfBlocks(page[q].entries) : q \in overflows})

(* The address of a block.                                                  *)
Address(b) == b.page * PageWords + b.at
Apart(b, c) == \/ Address(b) + b.words <= Address(c)
               \/ Address(c) + c.words <= Address(b)

(* Types, and the fields of a page that the code bounds: what is left of a  *)
(* group, the two indexes that share a zone's page with its struct.         *)
TypeOK ==
    /\ \A p \in Pages :
         CASE page[p].kind = "free" -> page[p] = FreePage
           [] page[p].kind = "data" -> page[p].head \in Pages
           [] page[p].kind = "large" ->
                page[p].owner \in Pages /\ page[p].element_size \in Nat
           [] page[p].kind = "group" ->
                /\ page[p].owner \in Pages /\ page[p].element_size \in 1..(Threshold - 1)
                /\ page[p].available \in 0..Capacity /\ page[p].previous \in {NULL} \cup Pages
           [] page[p].kind = "overflow" ->
                /\ page[p].owner \in Pages /\ page[p].previous \in {NULL} \cup Pages
                /\ page[p].available \in 0..Capacity
                /\ Len(page[p].entries) = Capacity - page[p].available
           [] page[p].kind = "zone" ->
                /\ page[p].lock \in Threads \cup {NoThread}
                /\ Len(page[p].large_blocks) <= Midpoint - ZoneStruct
                /\ page[p].overflow \in {NULL} \cup Pages
                /\ page[p].small_blocks \in [GroupSizes -> {NULL} \cup Pages]
    /\ zone \in [Threads -> {NULL} \cup Pages]
    /\ size \in [Threads -> Nat]
    /\ cur \in [Threads -> {NULL} \cup Pages]

(* A block belongs to one caller: no two blocks share a word, and none lies *)
(* over the header of its page or beyond the page's end.  zone_alloc        *)
(* promises zeroed memory on the strength of this: pages start zeroed and   *)
(* "the allocator does not reuse allocated blocks".                         *)
BlocksDisjoint ==
    /\ \A b, c \in blocks : b # c => Apart(b, c)
    /\ \A b \in blocks :
         IF page[b.page].kind = "group"
           THEN b.at >= GroupStruct /\ b.at + b.words <= PageWords
           ELSE b.at >= LargeStruct

(* Every block lies in pages its zone owns, and the header of the page its  *)
(* address is in gives its zone and its size, which is how the collector    *)
(* finds both (copy_object masks the address).                              *)
HeadersDescribeBlocks ==
    \A b \in blocks :
        /\ page[b.zone].kind = "zone"
        /\ page[b.page].kind \in {"group", "large"}
        /\ page[b.page].owner = b.zone
        /\ page[b.page].element_size = b.words
        /\ page[b.page].kind = "large" =>
             \A q \in RunOf(b.page, b.words) \ {b.page} : page[q] = DataPage(b.page)

(* When no call is under way, every page in use belongs to one zone that    *)
(* can find it and will release it.  zone_destroy says of itself: "We are   *)
(* done with this zone. Release all of its pages back to the VM."  The      *)
(* exception is the overflow pages, which free_overflow walks and forgets.  *)
PagesAccountedFor ==
    (\A t \in Threads : pc[t] = "idle") =>
        /\ \A p \in Pages : page[p].kind \notin {"free", "overflow"} =>
             \E z \in ZonesAlive : p \in PagesOfZone(z)
        /\ \A y, z \in ZonesAlive : y # z => PagesOfZone(y) \cap PagesOfZone(z) = {}
=============================================================================
