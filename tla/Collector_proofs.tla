-------------------------- MODULE Collector_proofs --------------------------
(* Proofs about the collector (Collector), for heaps of any size.  The      *)
(* collector only works on graphs without cycles, and it says so nowhere:   *)
(* a call of copy_closure makes the forwarder when all slots are copied, so *)
(* an object under way would be copied again if its slots led back to it.   *)
(* The invariant spells out what rules that out: a call is on an older      *)
(* object than the call that made it.                                       *)
EXTENDS Collector, Closure_proofs, SequenceTheorems

Old == 1..Len(before)
New == (Len(before) + 1)..Len(heap)
Live == {o \in Reach(before, first) : before[o].zone = "src"}

Object == [zone : {"src", "dest", "elsewhere", "gone"},
           function : {"f", "buffer", "gone", Redirect}, slots : Seq(Int)]

(* What an object of a heap to be collected is: its slots name older        *)
(* objects, those of an object outside the source zone none, a buffer's     *)
(* neither, and a closure has no numbers in its slots.                      *)
OldObject(k) ==
    /\ before[k].zone \in {"src", "elsewhere"}
    /\ before[k].function # Redirect
    /\ Len(before[k].slots) >= 1
    /\ \A i \in DOMAIN before[k].slots : before[k].slots[i] < k
    /\ before[k].zone = "elsewhere" \/ IsBuffer(before[k]) =>
         \A i \in DOMAIN before[k].slots : before[k].slots[i] <= 0
    /\ ~IsBuffer(before[k]) =>
         \A i \in DOMAIN before[k].slots : before[k].slots[i] >= 0

OldHeap ==
    /\ before \in Seq(Object)
    /\ first \in Old
    /\ \A k \in Old : OldObject(k)

Forwarder(obj, target) == [obj EXCEPT !.function = Redirect, !.slots[1] = target]

(* An object of the old heap is as it was, or a forwarder to its copy.      *)
OldPart ==
    /\ heap \in Seq(Object)
    /\ Len(heap) >= Len(before)
    /\ \A k \in Old :
         \/ heap[k] = before[k]
         \/ /\ k \in Live
            /\ \E c \in New : heap[k] = Forwarder(before[k], c)

(* What stands for the word v now is w.                                     *)
MovedTo(v, w) ==
    IF v \in Old /\ before[v].zone = "src"
      THEN heap[v].function = Redirect /\ heap[v].slots[1] = w
      ELSE w = v

(* The first n slots of object k are copied to object c.                    *)
CopiedUpTo(n, k, c) ==
    \A i \in 1..n : MovedTo(before[k].slots[i], heap[c].slots[i])

(* Each copy is of one live object, which is finished or under way.         *)
CopyOf(k, c) ==
    /\ heap[c].zone = "dest"
    /\ heap[c].function = before[k].function
    /\ Len(heap[c].slots) = Len(before[k].slots)
Finish(k) == heap[k].function = Redirect
UnderWay(k) == \E i \in DOMAIN stack : stack[i].obj = k
Origins(g) ==
    /\ g \in [New -> Live]
    /\ \A c, d \in New : g[c] = g[d] => c = d
    /\ \A c \in New : CopyOf(g[c], c) /\ (Finish(g[c]) \/ UnderWay(g[c]))
    /\ \A k \in Old : Finish(k) => g[heap[k].slots[1]] = k
    /\ \A i \in DOMAIN stack : g[stack[i].out] = stack[i].obj

FinishedCopies ==
    \A k \in Old : Finish(k) =>
        CopiedUpTo(Len(before[k].slots), k, heap[k].slots[1])

(* The word a call of copy_closure, or collect_zone, asked copy_object for. *)
Asked(s) ==
    IF s = << >> THEN first ELSE before[s[Len(s)].obj].slots[s[Len(s)].slot]

(* The calls under way: each on the slot that the one before it is at.      *)
Call == [obj : Nat, out : Nat, slot : Nat]
CallOK(e) ==
    /\ e \in [obj : Live, out : New, slot : Nat]
    /\ heap[e.obj] = before[e.obj] /\ ~IsBuffer(before[e.obj])
    /\ e.slot \in 1..Len(before[e.obj].slots)
    /\ CopiedUpTo(e.slot - 1, e.obj, e.out)
Calls ==
    /\ stack \in Seq(Call)
    /\ \A i \in DOMAIN stack : CallOK(stack[i])
    /\ \A i, j \in DOMAIN stack : i < j => stack[j].obj < stack[i].obj

Nested ==
    \A i \in DOMAIN stack :
        stack[i].obj = IF i = 1 THEN first
                       ELSE before[stack[i - 1].obj].slots[stack[i - 1].slot]

Request ==
    /\ arg \in 0..Len(before) /\ ret \in 0..Len(heap)
    /\ root = first
    /\ pc \in {"enter", "store", "destroy"}
    /\ pc = "enter" => arg = Asked(stack)
    /\ pc = "store" => stack # << >>
    /\ pc = "destroy" => stack = << >>
    /\ pc \in {"store", "destroy"} => MovedTo(Asked(stack), ret)

Working ==
    /\ OldPart
    /\ \E g \in [New -> Live] : Origins(g)
    /\ FinishedCopies
    /\ Calls
    /\ Nested
    /\ Request

IInv == /\ OldHeap
        /\ IF pc = "done" THEN TypeOK /\ SameGraph /\ CopiesEachOnce ELSE Working

-----------------------------------------------------------------------------
(* What Reach computes.                                                     *)
Added(h, S) == S \cup UNION {Slots(h[o]) \cap (1..Len(h)) : o \in S}
Adding(h) == [S \in SUBSET (1..Len(h)) |-> Added(h, S)]
ClosedIn(h, S) == \A o \in S : Slots(h[o]) \cap (1..Len(h)) \subseteq S

LEMMA AddingTyped ==
  ASSUME NEW h
  PROVE  /\ Adding(h) \in [SUBSET (1..Len(h)) -> SUBSET (1..Len(h))]
         /\ \A S \in SUBSET (1..Len(h)) : S \subseteq Adding(h)[S] /\ Adding(h)[S] = Added(h, S)
BY DEF Adding, Added

LEMMA ReachSteps ==
  ASSUME NEW h, Len(h) \in Nat, NEW r \in 0..Len(h)
  PROVE  \E f : Steps(f, Len(h), {r} \ {Null}, Adding(h)) /\ Reach(h, r) = f[Len(h)]
<1> DEFINE L == Len(h)
           U == 1..Len(h)
           Unfolded(f) == f = [n \in 0..Len(h) |-> IF n = 0 THEN {r} \ {Null} ELSE Added(h, f[n - 1])]
<1>1. Adding(h) \in [SUBSET U -> SUBSET U] /\ {r} \ {Null} \in SUBSET U
  <2>1. {r} \ {Null} \in SUBSET U
    BY DEF Null
  <2> QED BY <2>1, AddingTyped
<1>2. PICK f \in [0..L -> SUBSET U] : Steps(f, L, {r} \ {Null}, Adding(h))
  BY <1>1, Iteration
<1>3. Unfolded(f)
  <2>1. \A n \in 0..L : f[n] = IF n = 0 THEN {r} \ {Null} ELSE Added(h, f[n - 1])
    <3> SUFFICES ASSUME NEW n \in 0..L
                 PROVE  f[n] = IF n = 0 THEN {r} \ {Null} ELSE Added(h, f[n - 1])
      OBVIOUS
    <3>1. CASE n = 0
      BY <1>2, <3>1 DEF Steps
    <3>2. CASE n # 0
      <4>1. n \in 1..L /\ n - 1 \in 0..L /\ f[n - 1] \in SUBSET U
        BY <1>2, <3>2
      <4>2. f[n] = Adding(h)[f[n - 1]]
        BY <1>2, <4>1 DEF Steps
      <4> QED BY <3>2, <4>1, <4>2 DEF Adding
    <3> QED BY <3>1, <3>2
  <2> QED BY <1>2, <2>1
<1> DEFINE found == CHOOSE g : Unfolded(g)
<1>4. Unfolded(found)
  <2> HIDE DEF Unfolded
  <2> QED BY <1>3
<1>5. Reach(h, r) = found[L]
  BY DEF Reach, Added
<1>6. found = [n \in 0..L |-> IF n = 0 THEN {r} \ {Null} ELSE Added(h, found[n - 1])]
  BY <1>4
<1> HIDE DEF found
<1>7. found[0] = {r} \ {Null} /\ \A n \in 1..L : found[n] = Added(h, found[n - 1])
  <2>1. found[0] = {r} \ {Null}
    BY <1>6
  <2>2. ASSUME NEW n \in 1..L PROVE found[n] = Added(h, found[n - 1])
    <3>1. n \in 0..L /\ n # 0
      OBVIOUS
    <3> QED BY <1>6, <3>1
  <2> QED BY <2>1, <2>2
<1>8. StepsWithin(U, found, L, {r} \ {Null}, Adding(h))
  BY <1>7 DEF Adding, StepsWithin
<1>9. Steps(found, L, {r} \ {Null}, Adding(h))
  BY <1>1, <1>8, StepsTyped
<1> QED BY <1>5, <1>9

LEMMA ReachClosed ==
  ASSUME NEW h, Len(h) \in Nat, NEW r \in 0..Len(h)
  PROVE  /\ Reach(h, r) \subseteq 1..Len(h)
         /\ r # Null => r \in Reach(h, r)
         /\ ClosedIn(h, Reach(h, r))
<1> DEFINE U == 1..Len(h)
           s == {r} \ {Null}
<1>1. PICK f : Steps(f, Len(h), s, Adding(h)) /\ Reach(h, r) = f[Len(h)]
  BY ReachSteps
<1>2. Adding(h) \in [SUBSET U -> SUBSET U] /\ s \in SUBSET U
  <2>1. s \in SUBSET U
    BY DEF Null
  <2> QED BY <2>1, AddingTyped
<1>3. \A S \in SUBSET U : S \subseteq Adding(h)[S] /\ Adding(h)[S] = Added(h, S)
  BY AddingTyped
<1>4. IsFiniteSet(U) /\ Cardinality(U) = Len(h)
  <2>1. PICK n \in Nat : n = Len(h)
    OBVIOUS
  <2>2. 1 \in Int /\ n \in Int
    OBVIOUS
  <2>3. IsFiniteSet(1..n) /\ Cardinality(1..n) = IF 1 > n THEN 0 ELSE n - 1 + 1
    BY <2>2, FS_Interval, Zenon
  <2> QED BY <2>1, <2>3
<1>5. Cardinality(s) \in Nat
  BY <1>2, <1>4, FS_Subset, FS_CardinalityType
<1>6. Cardinality(U) <= Len(h) + Cardinality(s)
  BY <1>4, <1>5
<1>7. Adding(h)[f[Len(h)]] = f[Len(h)] /\ s \subseteq f[Len(h)]
  BY <1>1, <1>2, <1>3, <1>4, <1>6, ClosureReached
<1>8. f[Len(h)] \in SUBSET U
  <2>1. WorksIn(U, Adding(h)) /\ s \in SUBSET U /\ Steps(f, Len(h), s, Adding(h))
    BY <1>1, <1>2 DEF WorksIn
  <2> HIDE DEF U, s
  <2> QED BY <2>1, StepsInside
<1>9. Added(h, Reach(h, r)) = Reach(h, r)
  BY <1>1, <1>3, <1>7, <1>8
<1>10. ClosedIn(h, Reach(h, r))
  BY <1>9 DEF Added, ClosedIn
<1> QED BY <1>1, <1>7, <1>8, <1>10 DEF U, s

LEMMA ReachLeast ==
  ASSUME NEW h, Len(h) \in Nat, NEW r \in 0..Len(h),
         NEW T \in SUBSET (1..Len(h)), r # Null => r \in T, ClosedIn(h, T)
  PROVE  Reach(h, r) \subseteq T
<1> DEFINE U == 1..Len(h)
           s == {r} \ {Null}
<1>1. PICK f : Steps(f, Len(h), s, Adding(h)) /\ Reach(h, r) = f[Len(h)]
  BY ReachSteps
<1>2. Adding(h) \in [SUBSET U -> SUBSET U] /\ s \in SUBSET U /\ s \subseteq T
  <2>1. s \in SUBSET U /\ s \subseteq T
    BY DEF Null
  <2> QED BY <2>1, AddingTyped
<1>3. StaysIn(T, Adding(h))
  <2> SUFFICES ASSUME NEW S \in SUBSET T PROVE Added(h, S) \subseteq T
    BY AddingTyped DEF StaysIn
  <2> QED BY DEF Added, ClosedIn
<1>4. T \in SUBSET U
  OBVIOUS
<1> HIDE DEF U, s
<1>5. f[Len(h)] \subseteq T
  BY <1>1, <1>2, <1>3, <1>4, ClosureLeast, Zenon
<1> QED BY <1>1, <1>5

-----------------------------------------------------------------------------
(* What the invariant says of one object of the old heap.                   *)
LEMMA OldObjects ==
  ASSUME OldHeap, NEW k \in Old
  PROVE  /\ before[k] \in Object /\ k \in Nat
         /\ before[k].slots \in Seq(Int) /\ DOMAIN before[k].slots = 1..Len(before[k].slots)
         /\ Len(before[k].slots) \in Nat /\ Len(before[k].slots) >= 1
         /\ before[k].zone \in {"src", "elsewhere"} /\ before[k].function # Redirect
<1>1. before[k] \in Object /\ k \in Nat
  BY DEF OldHeap, Old
<1>2. before[k].slots \in Seq(Int)
  BY <1>1 DEF Object
<1>3. OldObject(k)
  BY DEF OldHeap
<1> QED BY <1>1, <1>2, <1>3 DEF OldObject

LEMMA MadeForwarder ==
  ASSUME OldHeap, NEW k \in Old, NEW n \in Nat
  PROVE  LET f == Forwarder(before[k], n)
         IN  /\ f \in Object /\ f.function = Redirect /\ f.slots[1] = n
             /\ f.zone = before[k].zone /\ Len(f.slots) = Len(before[k].slots)
<1>1. before[k] \in Object /\ before[k].slots \in Seq(Int) /\ Len(before[k].slots) >= 1
  BY OldObjects
<1>2. PICK f : f = Forwarder(before[k], n)
  OBVIOUS
<1>3. f = [zone |-> before[k].zone, function |-> Redirect,
           slots |-> [before[k].slots EXCEPT ![1] = n]]
  BY <1>1, <1>2 DEF Forwarder, Object
<1>4. [before[k].slots EXCEPT ![1] = n] \in Seq(Int)
      /\ Len([before[k].slots EXCEPT ![1] = n]) = Len(before[k].slots)
      /\ [before[k].slots EXCEPT ![1] = n][1] = n
  BY <1>1
<1>5. f \in Object
  BY <1>1, <1>3, <1>4 DEF Object
<1>6. f.zone = before[k].zone /\ f.function = Redirect /\ f.slots[1] = n
      /\ Len(f.slots) = Len(before[k].slots)
  BY <1>3, <1>4
<1> QED BY <1>2, <1>5, <1>6

LEMMA Kinds ==
  ASSUME OldHeap, OldPart, NEW k \in Old
  PROVE  /\ heap[k] \in Object
         /\ heap[k].zone = before[k].zone
         /\ heap[k].slots \in Seq(Int) /\ Len(heap[k].slots) = Len(before[k].slots)
         /\ Finish(k) => /\ k \in Live /\ heap[k].slots[1] \in New
                         /\ heap[k] = Forwarder(before[k], heap[k].slots[1])
         /\ ~Finish(k) => heap[k] = before[k]
<1>1. before[k] \in Object /\ before[k].slots \in Seq(Int) /\ before[k].function # Redirect
  BY OldObjects
<1>2. CASE heap[k] = before[k]
  BY <1>1, <1>2 DEF Finish
<1>3. CASE k \in Live /\ \E c \in New : heap[k] = Forwarder(before[k], c)
  <2>1. PICK c \in New : heap[k] = Forwarder(before[k], c)
    BY <1>3
  <2>2. c \in Nat
    BY DEF New, OldHeap
  <2>3. /\ heap[k] \in Object /\ heap[k].function = Redirect /\ heap[k].slots[1] = c
        /\ heap[k].zone = before[k].zone /\ Len(heap[k].slots) = Len(before[k].slots)
    BY <2>1, <2>2, MadeForwarder
  <2>4. heap[k].slots \in Seq(Int)
    BY <2>3 DEF Object
  <2> QED BY <1>3, <2>1, <2>3, <2>4 DEF Finish
<1> QED BY <1>2, <1>3 DEF OldPart

(* What stays of a copied word when nothing that was finished changes.      *)
Keeps ==
    /\ before' = before /\ first' = first /\ root' = root
    /\ \A k \in Old : Finish(k) => heap'[k] = heap[k]

LEMMA SameLive ==
  ASSUME before' = before, first' = first
  PROVE  Live' = Live /\ Old' = Old
<1>1. Reach(before, first)' = Reach(before, first)
  BY DEF Reach, Slots
<1> QED BY <1>1 DEF Live, Old

LEMMA Kept ==
  ASSUME Keeps, NEW v, NEW w, MovedTo(v, w)
  PROVE  MovedTo(v, w)'
BY DEF Keeps, MovedTo, Finish, Old

(* A slot of a closure to be copied leads to an older object, also live.    *)
LEMMA SlotOf ==
  ASSUME OldHeap, NEW k \in Live, k \in Old, ~IsBuffer(before[k]),
         NEW i \in 1..Len(before[k].slots)
  PROVE  /\ before[k].slots[i] \in 0..Len(before) /\ before[k].slots[i] < k
         /\ before[k].slots[i] \in Old => before[k].slots[i] \in Reach(before, first)
<1>1. OldObject(k) /\ first \in 0..Len(before) /\ Len(before) \in Nat /\ k \in Nat
      /\ k <= Len(before)
  BY DEF OldHeap, Old
<1>2. before[k].slots \in Seq(Int) /\ DOMAIN before[k].slots = 1..Len(before[k].slots)
  BY OldObjects
<1>3. PICK v \in Int : v = before[k].slots[i]
  BY <1>2
<1>4. v >= 0 /\ v < k
  BY <1>1, <1>2, <1>3 DEF OldObject
<1>5. ClosedIn(before, Reach(before, first)) /\ k \in Reach(before, first)
  BY <1>1, ReachClosed DEF Live
<1>6. v \in Slots(before[k])
  BY <1>2, <1>3 DEF Slots
<1> QED BY <1>1, <1>3, <1>4, <1>5, <1>6 DEF ClosedIn, Old

LEMMA LiveOld ==
  ASSUME OldHeap
  PROVE  /\ Live \subseteq Old /\ Old \subseteq Nat /\ Len(before) \in Nat
         /\ first \in 0..Len(before) /\ first \in Reach(before, first)
         /\ Reach(before, first) \subseteq Old
<1>1. Len(before) \in Nat /\ first \in 0..Len(before) /\ first # Null /\ Old \subseteq Nat
  BY DEF OldHeap, Old, Null
<1>2. Reach(before, first) \subseteq Old /\ first \in Reach(before, first)
  BY <1>1, ReachClosed DEF Old
<1> QED BY <1>1, <1>2 DEF Live

(* The object asked for is older than all that are being copied.            *)
LEMMA AskedOlder ==
  ASSUME OldHeap, Calls
  PROVE  /\ Asked(stack) \in 0..Len(before)
         /\ Asked(stack) \in Old => Asked(stack) \in Reach(before, first)
         /\ \A i \in DOMAIN stack : Asked(stack) < stack[i].obj
<1>1. CASE stack = << >>
  BY <1>1, LiveOld DEF Asked
<1>2. CASE stack # << >>
  <2>1. PICK n : n = Len(stack)
    OBVIOUS
  <2>2. n \in DOMAIN stack /\ n \in Nat /\ DOMAIN stack = 1..n
    BY <1>2, <2>1 DEF Calls
  <2>3. PICK e : e = stack[n]
    OBVIOUS
  <2>4. CallOK(e)
    BY <2>2, <2>3 DEF Calls
  <2>5. e.obj \in Live /\ e.obj \in Old /\ ~IsBuffer(before[e.obj])
        /\ e.slot \in 1..Len(before[e.obj].slots)
    BY <2>4, LiveOld DEF CallOK
  <2>6. Asked(stack) = before[e.obj].slots[e.slot]
    BY <1>2, <2>1, <2>3 DEF Asked
  <2>7. ASSUME NEW i \in DOMAIN stack PROVE e.obj <= stack[i].obj
    <3>1. i = n \/ i < n
      BY <2>2
    <3>2. CASE i = n
      BY <2>3, <2>5, <3>2, LiveOld
    <3>3. CASE i < n
      <4>1. stack[n].obj < stack[i].obj
        BY <2>2, <3>3 DEF Calls
      <4>2. stack[i].obj \in Live /\ stack[n].obj \in Live
        BY <2>2 DEF Calls, CallOK
      <4> QED BY <2>3, <4>1, <4>2, LiveOld
    <3> QED BY <3>1, <3>2, <3>3
  <2>8. \A i \in DOMAIN stack : stack[i].obj \in Nat
    BY LiveOld DEF Calls, CallOK
  <2>9. Asked(stack) \in 0..Len(before) /\ Asked(stack) < e.obj
        /\ (Asked(stack) \in Old => Asked(stack) \in Reach(before, first))
    BY <2>5, <2>6, SlotOf
  <2>10. e.obj \in Nat
    BY <2>5, LiveOld
  <2> QED BY <2>7, <2>8, <2>9, <2>10, LiveOld
<1> QED BY <1>1, <1>2

(* Where a call is on an object, the object is not finished.                *)
LEMMA NotFinished ==
  ASSUME OldHeap, Calls, NEW i \in DOMAIN stack
  PROVE  stack[i].obj \in Old /\ ~Finish(stack[i].obj)
<1>1. stack[i].obj \in Old /\ heap[stack[i].obj] = before[stack[i].obj]
  BY LiveOld DEF Calls, CallOK
<1> QED BY <1>1, OldObjects DEF Finish

(* copy_object has something to copy just when the object asked for is a    *)
(* live one that is neither finished nor under way.                         *)
LEMMA Fresh ==
  ASSUME OldHeap, OldPart, Calls, arg = Asked(stack), ToBeCopied(arg)
  PROVE  arg \in Live /\ arg \in Old /\ ~Finish(arg) /\ ~UnderWay(arg) /\ heap[arg] = before[arg]
<1>1. arg \in Old /\ arg \in Reach(before, first)
  BY AskedOlder, LiveOld DEF ToBeCopied, Null, Old
<1>2. heap[arg].zone = "src" /\ ~Finish(arg)
  BY <1>1 DEF ToBeCopied, Forwarded, Finish
<1>3. arg \in Live
  BY <1>1, <1>2, Kinds DEF Live
<1>4. \A i \in DOMAIN stack : stack[i].obj # arg
  BY <1>1, AskedOlder, LiveOld
<1> QED BY <1>1, <1>2, <1>3, <1>4, Kinds DEF UnderWay

LEMMA MovedInRange ==
  ASSUME OldHeap, OldPart, NEW v \in 0..Len(before), NEW w, MovedTo(v, w)
  PROVE  w \in 0..Len(heap)
<1>1. Len(heap) \in Nat /\ Len(heap) >= Len(before) /\ Len(before) \in Nat
  BY LiveOld DEF OldPart
<1>2. CASE v \in Old /\ before[v].zone = "src"
  BY <1>1, <1>2, Kinds DEF MovedTo, Finish, New
<1>3. CASE ~(v \in Old /\ before[v].zone = "src")
  BY <1>1, <1>3 DEF MovedTo
<1> QED BY <1>2, <1>3

LEMMA PassBackStep ==
  ASSUME OldHeap, Working, PassBack PROVE Working'
<1> USE DEF Working
<1>1. /\ heap' = heap /\ before' = before /\ first' = first /\ root' = root
      /\ stack' = stack /\ arg' = arg
      /\ pc = "enter" /\ ~ToBeCopied(arg)
      /\ pc' = IF stack = << >> THEN "destroy" ELSE "store"
      /\ ret' = IF arg = Null THEN Null
                ELSE IF Forwarded(arg) THEN heap[arg].slots[1] ELSE arg
  BY DEF PassBack, Return
<1>2. Live' = Live /\ Old' = Old /\ New' = New
  BY <1>1, SameLive DEF New
<1>3. Keeps
  BY <1>1 DEF Keeps
<1>4. OldPart'
  BY <1>1, <1>2 DEF OldPart
<1>5. (\E g \in [New -> Live] : Origins(g))'
  <2>1. PICK g \in [New -> Live] : Origins(g)
    OBVIOUS
  <2>2. Origins(g)'
    BY <1>1, <1>2, <2>1 DEF Origins, CopyOf, Finish, UnderWay
  <2> QED BY <1>2, <2>2
<1>6. FinishedCopies' /\ Calls' /\ Nested'
  BY <1>1, <1>2 DEF Nested, FinishedCopies, Calls, CallOK, CopiedUpTo, MovedTo, Finish
<1>7. Asked(stack)' = Asked(stack) /\ arg = Asked(stack) /\ arg \in 0..Len(before)
  BY <1>1 DEF Asked, Request
<1>8. MovedTo(arg, ret')
  <2>1. CASE arg = Null
    BY <1>1, <2>1 DEF MovedTo, Null, Old
  <2>2. CASE arg # Null
    <3>1. arg \in Old
      BY <1>7, <2>2, LiveOld DEF Old, Null
    <3>2. CASE Forwarded(arg)
      BY <1>1, <2>2, <3>1, <3>2, Kinds DEF Forwarded, MovedTo
    <3>3. CASE ~Forwarded(arg)
      <4>1. before[arg].zone # "src"
        BY <1>1, <2>2, <3>1, <3>3, Kinds DEF ToBeCopied
      <4> QED BY <1>1, <2>2, <3>3, <4>1 DEF MovedTo
    <3> QED BY <3>2, <3>3
  <2> QED BY <2>1, <2>2
<1>9. ret' \in 0..Len(heap)
  <2>1. PICK w : w = ret'
    OBVIOUS
  <2> QED BY <1>7, <1>8, <2>1, MovedInRange
<1>10. Request'
  <2>1. MovedTo(Asked(stack), ret)'
    BY <1>1, <1>7, <1>8 DEF MovedTo, Old
  <2>2. pc' \in {"destroy", "store"} /\ (pc' = "store" => stack' # << >>)
        /\ (pc' = "destroy" => stack' = << >>)
    BY <1>1
  <2>3. arg' \in 0..Len(before') /\ ret' \in 0..Len(heap') /\ root' = first'
    BY <1>1, <1>7, <1>9 DEF Request
  <2> QED BY <2>1, <2>2, <2>3 DEF Request
<1> QED BY <1>4, <1>5, <1>6, <1>10

(* The heap when object k has got the copy n, and is finished or under way. *)
CopyMade(k, n) ==
    /\ Keeps
    /\ n = Len(heap) + 1 /\ heap' \in Seq(Object) /\ Len(heap') = n
    /\ \A o \in 1..Len(heap) : o # k => heap'[o] = heap[o]
    /\ CopyOf(k, n)'
    /\ \/ heap'[k] = heap[k] /\ stack' = Append(stack, [obj |-> k, out |-> n, slot |-> 1])
       \/ heap'[k] = Forwarder(before[k], n) /\ stack' = stack

LEMMA NewAndOld ==
  ASSUME OldHeap, OldPart
  PROVE  /\ Len(heap) \in Nat /\ New \subseteq 1..Len(heap)
         /\ Old \subseteq 1..Len(heap)
         /\ \A c \in New : c \notin Old
         /\ Len(heap) + 1 \notin New /\ Len(heap) + 1 \notin Old
BY LiveOld DEF OldPart, New, Old

LEMMA PushedCall ==
  ASSUME NEW S, NEW s \in Seq(S), NEW e
  PROVE  /\ Len(Append(s, e)) = Len(s) + 1 /\ Len(s) \in Nat
         /\ DOMAIN Append(s, e) = DOMAIN s \cup {Len(s) + 1}
         /\ DOMAIN s = 1..Len(s)
         /\ \A i \in DOMAIN s : Append(s, e)[i] = s[i]
         /\ Append(s, e)[Len(s) + 1] = e
OBVIOUS

LEMMA CopyHasOrigin ==
  ASSUME OldHeap, Working, NEW k \in Live, ~Finish(k), ~UnderWay(k), NEW n, CopyMade(k, n)
  PROVE  (\E g \in [New -> Live] : Origins(g))'
<1> USE DEF Working
<1>1. PICK g \in [New -> Live] : Origins(g)
  OBVIOUS
<1>2. n \in Nat /\ k \in Old
  BY NewAndOld, LiveOld DEF CopyMade
<1>3. Live' = Live /\ Old' = Old /\ before' = before
  BY SameLive DEF CopyMade, Keeps
<1>4. New' = New \cup {n} /\ n \notin New
  BY <1>2, <1>3, LiveOld DEF CopyMade, New, OldPart
<1>5. PICK h \in [New' -> Live'] : h[n] = k /\ \A c \in New : h[c] = g[c]
  <2> DEFINE f == [c \in New' |-> IF c = n THEN k ELSE g[c]]
  <2>1. f \in [New' -> Live'] /\ f[n] = k /\ \A c \in New : f[c] = g[c]
    BY <1>3, <1>4
  <2> QED BY <2>1
<1>6. \A c \in New : g[c] # k
  BY <1>1 DEF Origins
<1>7. \A c, d \in New' : h[c] = h[d] => c = d
  BY <1>1, <1>4, <1>5, <1>6 DEF Origins
<1>8. \A o \in Old : o # k => heap'[o] = heap[o] /\ (Finish(o)' <=> Finish(o))
  BY NewAndOld DEF CopyMade, Finish
<1>9. \A c \in New : heap'[c] = heap[c] /\ c # k
  BY <1>2, NewAndOld DEF CopyMade
<1>10. \A o : UnderWay(o) => UnderWay(o)'
  <2>1. CASE stack' = stack
    BY <2>1 DEF UnderWay
  <2>2. CASE stack' = Append(stack, [obj |-> k, out |-> n, slot |-> 1])
    BY <2>2, PushedCall DEF UnderWay, Calls
  <2> QED BY <2>1, <2>2 DEF CopyMade
<1>11. Finish(k)' \/ UnderWay(k)'
  <2>1. CASE stack' = Append(stack, [obj |-> k, out |-> n, slot |-> 1])
    BY <2>1, PushedCall DEF UnderWay, Calls
  <2>2. CASE heap'[k] = Forwarder(before[k], n)
    BY <1>2, <2>2, MadeForwarder DEF Finish
  <2> QED BY <2>1, <2>2 DEF CopyMade
<1>12. ASSUME NEW c \in New' PROVE CopyOf(h[c], c)' /\ (Finish(h[c])' \/ UnderWay(h[c])')
  <2>1. CASE c = n
    BY <1>5, <1>11, <2>1 DEF CopyMade
  <2>2. CASE c \in New
    <3>1. PICK o \in Live : o = g[c]
      BY <2>2
    <3>2. o \in Old /\ o # k /\ CopyOf(o, c) /\ (Finish(o) \/ UnderWay(o))
      BY <1>1, <1>6, <2>2, <3>1, LiveOld DEF Origins
    <3>3. CopyOf(o, c)'
      BY <1>3, <1>9, <2>2, <3>2 DEF CopyOf
    <3>4. h[c] = o
      BY <1>5, <2>2, <3>1
    <3> QED BY <1>8, <1>10, <3>2, <3>3, <3>4
  <2> QED BY <1>4, <2>1, <2>2
<1>13. ASSUME NEW o \in Old', Finish(o)' PROVE h[heap'[o].slots[1]] = o
  <2>1. CASE o = k
    <3>1. heap'[k] = Forwarder(before[k], n)
      BY <2>1, <1>13 DEF CopyMade, Finish
    <3> QED BY <1>2, <1>5, <2>1, <3>1, MadeForwarder
  <2>2. CASE o # k
    <3>1. o \in Old /\ heap'[o] = heap[o] /\ Finish(o)
      BY <1>3, <1>8, <1>13, <2>2
    <3>2. heap[o].slots[1] \in New /\ g[heap[o].slots[1]] = o
      BY <1>1, <3>1, Kinds DEF Origins
    <3> QED BY <1>5, <3>1, <3>2
  <2> QED BY <2>1, <2>2
<1>14. ASSUME NEW i \in DOMAIN stack' PROVE h[stack'[i].out] = stack'[i].obj
  <2>1. \A j \in DOMAIN stack : stack[j].out \in New /\ g[stack[j].out] = stack[j].obj
    BY <1>1 DEF Origins, Calls, CallOK
  <2>2. CASE stack' = stack
    BY <1>5, <2>1, <2>2
  <2>3. CASE stack' = Append(stack, [obj |-> k, out |-> n, slot |-> 1])
    <3>1. stack \in Seq(Call)
      BY DEF Calls
    <3>2. \/ i \in DOMAIN stack /\ stack'[i] = stack[i]
          \/ stack'[i] = [obj |-> k, out |-> n, slot |-> 1]
      BY <2>3, <3>1, PushedCall
    <3> QED BY <1>5, <2>1, <3>2
  <2> QED BY <2>2, <2>3 DEF CopyMade
<1>15. Origins(h)'
  BY <1>5, <1>7, <1>12, <1>13, <1>14 DEF Origins
<1> QED BY <1>5, <1>15

LEMMA KeptCopied ==
  ASSUME Keeps, NEW m, NEW o, NEW c, CopiedUpTo(m, o, c), heap'[c] = heap[c]
  PROVE  CopiedUpTo(m, o, c)'
<1> SUFFICES ASSUME NEW i \in 1..m
             PROVE  MovedTo(before[o].slots[i], heap[c].slots[i])'
  BY DEF CopiedUpTo
<1>1. PICK v, w : v = before[o].slots[i] /\ w = heap[c].slots[i]
  OBVIOUS
<1>2. MovedTo(v, w)'
  BY <1>1, Kept DEF CopiedUpTo
<1>3. v = before'[o].slots[i] /\ w = heap'[c].slots[i]
  BY <1>1 DEF Keeps
<1> QED BY <1>2, <1>3

(* What was there is still right when object k gets the copy n.             *)
LEMMA CopyMadeKeeps ==
  ASSUME OldHeap, Working, NEW k \in Live, ~Finish(k), ~UnderWay(k), NEW n, CopyMade(k, n)
  PROVE  /\ OldPart' /\ Live' = Live /\ Old' = Old /\ n \in New' /\ New \subseteq New'
         /\ \A o \in Old : Finish(o) =>
              Finish(o)' /\ CopiedUpTo(Len(before[o].slots), o, heap[o].slots[1])'
         /\ \A o \in Old : Finish(o)' /\ o # k => Finish(o)
         /\ \A i \in DOMAIN stack : CallOK(stack[i])'
<1> USE DEF Working
<1>1. n \in Nat /\ k \in Old /\ n = Len(heap) + 1
  BY NewAndOld, LiveOld DEF CopyMade
<1>2. Live' = Live /\ Old' = Old /\ before' = before /\ Keeps
  BY SameLive DEF CopyMade, Keeps
<1>3. New' = New \cup {n} /\ n \notin New
  BY <1>1, <1>2, LiveOld DEF CopyMade, New, OldPart
<1>4. \A o \in Old : o # k => heap'[o] = heap[o] /\ (Finish(o)' <=> Finish(o))
  BY NewAndOld DEF CopyMade, Finish
<1>5. \A c \in New : heap'[c] = heap[c]
  BY <1>1, NewAndOld DEF CopyMade
<1>6. OldPart'
  <2>1. heap' \in Seq(Object) /\ Len(heap') >= Len(before')
    BY <1>1, <1>2, LiveOld DEF CopyMade, OldPart
  <2>2. ASSUME NEW o \in Old
        PROVE  \/ heap'[o] = before[o]
               \/ (o \in Live /\ \E c \in New' : heap'[o] = Forwarder(before[o], c))
    <3>1. CASE o = k
      BY <1>3, <3>1, Kinds DEF CopyMade
    <3>2. CASE o # k
      BY <1>3, <1>4, <3>2 DEF OldPart
    <3> QED BY <3>1, <3>2
  <2>3. \A o, c : Forwarder(before[o], c)' = Forwarder(before[o], c)
    BY <1>2 DEF Forwarder
  <2> QED BY <1>2, <2>1, <2>2, <2>3 DEF OldPart
<1>7. ASSUME NEW o \in Old, Finish(o)
      PROVE  Finish(o)' /\ CopiedUpTo(Len(before[o].slots), o, heap[o].slots[1])'
  <2>1. o # k
    BY <1>7
  <2>2. PICK c \in New, m \in Nat : c = heap[o].slots[1] /\ m = Len(before[o].slots)
    BY <1>7, Kinds, OldObjects
  <2>3. CopiedUpTo(m, o, c)
    BY <1>7, <2>2 DEF FinishedCopies
  <2>4. CopiedUpTo(m, o, c)'
    BY <1>2, <1>5, <2>3, KeptCopied
  <2>5. heap'[o] = heap[o]
    BY <1>4, <2>1
  <2> QED BY <1>2, <1>4, <1>7, <2>1, <2>2, <2>4, <2>5
<1>8. ASSUME NEW i \in DOMAIN stack PROVE CallOK(stack[i])'
  <2>1. PICK e : e = stack[i]
    OBVIOUS
  <2>2. CallOK(e) /\ e.obj \in Old /\ e.out \in New /\ e.obj # k
    BY <2>1, LiveOld DEF Calls, CallOK, UnderWay
  <2>3. CopiedUpTo(e.slot - 1, e.obj, e.out)'
    BY <1>2, <1>5, <2>2, KeptCopied DEF CallOK
  <2>4. CallOK(e)'
    BY <1>2, <1>3, <1>4, <2>2, <2>3 DEF CallOK
  <2>5. stack'[i] = stack[i]
    <3>1. CASE stack' = stack
      BY <3>1
    <3>2. CASE stack' = Append(stack, [obj |-> k, out |-> n, slot |-> 1])
      BY <3>2, PushedCall DEF Calls
    <3> QED BY <3>1, <3>2 DEF CopyMade
  <2> QED BY <2>1, <2>4, <2>5
<1> QED BY <1>2, <1>3, <1>4, <1>6, <1>7, <1>8

-----------------------------------------------------------------------------
(* The copy of a buffer is its slots, word by word: the size is in its      *)
(* first slot.                                                              *)
LEMMA CloneOfBuffer ==
  ASSUME OldHeap, NEW k \in Old, IsBuffer(before[k])
  PROVE  Clone(before[k]) = [zone |-> "dest", function |-> before[k].function,
                             slots |-> before[k].slots]
<1>1. PICK s \in Seq(Int) : s = before[k].slots
  BY OldObjects
<1>2. Len(s) \in Nat /\ Len(s) >= 1 /\ DOMAIN s = 1..Len(s)
  BY <1>1, OldObjects
<1>3. s[1] <= 0
  BY <1>1, <1>2, OldObjects DEF OldHeap, OldObject
<1>4. Number(SizeSlot(before[k])) = s[1]
  BY <1>1, <1>2, <1>3 DEF Number, SizeSlot
<1>5. SubSeq(s, 2, Len(s)) \in Seq(Int) /\ Len(SubSeq(s, 2, Len(s))) = Len(s) - 1
      /\ \A i \in 1..(Len(s) - 1) : SubSeq(s, 2, Len(s))[i] = s[i + 1]
  BY <1>1, <1>2, SubSeqProperties
<1>6. << s[1] >> \o SubSeq(s, 2, Len(s)) = s
  BY <1>1, <1>2, <1>5
<1> QED BY <1>1, <1>4, <1>6 DEF Clone, Closure

LEMMA BufferCopyMade ==
  ASSUME OldHeap, Working, CopyBuffer, NEW k \in Live, k = arg, heap[k] = before[k],
         ~Finish(k), NEW n, n = Len(heap) + 1
  PROVE  /\ CopyMade(k, n) /\ stack' = stack /\ heap'[k] = Forwarder(before[k], n)
         /\ heap'[n].slots = before[k].slots
         /\ \A i \in 1..Len(before[k].slots) :
              before[k].slots[i] \notin Old /\ before[k].slots[i] = heap'[n].slots[i]
<1> USE DEF Working
<1>1. k \in Old /\ n \in Nat /\ k \in 1..Len(heap) /\ k # n
  BY LiveOld, NewAndOld
<1>2. IsBuffer(before[k])
  BY DEF CopyBuffer
<1>3. PICK copy : copy = Clone(before[k])
  OBVIOUS
<1>4. copy = [zone |-> "dest", function |-> before[k].function, slots |-> before[k].slots]
  BY <1>1, <1>2, <1>3, CloneOfBuffer
<1>5. copy \in Object
  BY <1>1, <1>4, OldObjects DEF Object
<1>6. PICK h \in Seq(Object) : h = Append(heap, copy)
  <2>1. heap \in Seq(Object)
    BY DEF OldPart
  <2> QED BY <1>5, <2>1, AppendProperties
<1>7. Len(h) = n /\ h[n] = copy /\ (\A o \in 1..Len(heap) : h[o] = heap[o])
  BY <1>1, <1>6 DEF OldPart
<1>8. heap' = MakeForwarder(h, k, n)
  BY <1>3, <1>6 DEF CopyBuffer
<1>9. heap' = [h EXCEPT ![k] = Forwarder(before[k], n)]
  BY <1>1, <1>7, <1>8 DEF MakeForwarder, Forwarder
<1>10. Forwarder(before[k], n) \in Object
  BY <1>1, MadeForwarder
<1>11. /\ heap' \in Seq(Object) /\ Len(heap') = n
       /\ heap'[k] = Forwarder(before[k], n) /\ heap'[n] = copy
       /\ \A o \in 1..Len(heap) : o # k => heap'[o] = heap[o]
  BY <1>1, <1>7, <1>9, <1>10
<1>12. before' = before /\ first' = first /\ root' = root /\ stack' = stack
  BY DEF CopyBuffer
<1>13. \A o \in Old : Finish(o) => heap'[o] = heap[o]
  BY <1>11, NewAndOld
<1>14. CopyOf(k, n)'
  BY <1>4, <1>11, <1>12 DEF CopyOf
<1>15. CopyMade(k, n)
  BY <1>11, <1>12, <1>13, <1>14 DEF CopyMade, Keeps
<1>16. \A i \in 1..Len(before[k].slots) : before[k].slots[i] <= 0
  BY <1>1, <1>2, OldObjects DEF OldHeap, OldObject
<1> QED BY <1>4, <1>11, <1>12, <1>15, <1>16 DEF Old

LEMMA CopyBufferStep ==
  ASSUME OldHeap, Working, CopyBuffer PROVE Working'
<1> USE DEF Working
<1>1. /\ pc = "enter" /\ ToBeCopied(arg) /\ arg = Asked(stack) /\ arg' = arg
      /\ arg \in 0..Len(before)
      /\ ret' = Len(heap) + 1 /\ pc' = IF stack = << >> THEN "destroy" ELSE "store"
  BY DEF CopyBuffer, Request, Return
<1>2. PICK k, n : k = arg /\ n = Len(heap) + 1
  OBVIOUS
<1>3. k \in Live /\ k \in Old /\ ~Finish(k) /\ ~UnderWay(k) /\ heap[k] = before[k]
  BY <1>1, <1>2, Fresh
<1>4. /\ CopyMade(k, n) /\ stack' = stack /\ heap'[k] = Forwarder(before[k], n)
      /\ \A i \in 1..Len(before[k].slots) :
           before[k].slots[i] \notin Old /\ before[k].slots[i] = heap'[n].slots[i]
  BY <1>2, <1>3, BufferCopyMade
<1>5. /\ OldPart' /\ Live' = Live /\ Old' = Old /\ n \in New' /\ New \subseteq New'
      /\ \A o \in Old : Finish(o) =>
           Finish(o)' /\ CopiedUpTo(Len(before[o].slots), o, heap[o].slots[1])'
      /\ \A o \in Old : Finish(o)' /\ o # k => Finish(o)
      /\ \A i \in DOMAIN stack : CallOK(stack[i])'
  BY <1>3, <1>4, CopyMadeKeeps
<1>6. (\E g \in [New -> Live] : Origins(g))'
  BY <1>3, <1>4, CopyHasOrigin
<1>7. before' = before /\ root' = root /\ first' = first /\ n \in Nat
  BY <1>2, <1>4, NewAndOld DEF CopyMade, Keeps
<1>8. Finish(k)' /\ heap'[k].slots[1] = n
  <2>1. Forwarder(before[k], n).function = Redirect /\ Forwarder(before[k], n).slots[1] = n
    BY <1>3, <1>7, MadeForwarder
  <2>2. heap'[k] = Forwarder(before[k], n)
    BY <1>4
  <2> QED BY <2>1, <2>2 DEF Finish
<1>9. FinishedCopies'
  <2> SUFFICES ASSUME NEW o \in Old, Finish(o)'
               PROVE  CopiedUpTo(Len(before[o].slots), o, heap[o].slots[1])'
    BY <1>5 DEF FinishedCopies
  <2>1. CASE o # k
    <3>1. Finish(o) /\ heap'[o] = heap[o]
      BY <1>4, <1>5, <2>1 DEF CopyMade, Keeps
    <3> QED BY <1>5, <3>1
  <2>2. CASE o = k
    <3>1. CopiedUpTo(Len(before[k].slots), k, n)'
      BY <1>4, <1>7 DEF CopiedUpTo, MovedTo, Old
    <3> QED BY <1>7, <1>8, <2>2, <3>1
  <2> QED BY <2>1, <2>2
<1>10. Calls'
  <2>1. stack' = stack /\ stack \in Seq(Call)
    BY <1>4 DEF Calls
  <2>2. stack' \in Seq(Call)
    BY <2>1
  <2>3. \A i \in DOMAIN stack' : CallOK(stack[i])'
    BY <1>5, <2>1
  <2>4. \A i, j \in DOMAIN stack' : i < j => stack'[j].obj < stack'[i].obj
    BY <2>1 DEF Calls
  <2> QED BY <2>2, <2>3, <2>4 DEF Calls, Call
<1>12. Nested'
  BY <1>4, <1>7 DEF Nested
<1>11. Request'
  <2>1. Asked(stack)' = k
    BY <1>1, <1>2, <1>4, <1>7 DEF Asked
  <2>2. MovedTo(k, n)'
    BY <1>3, <1>5, <1>8 DEF MovedTo, Finish, Live
  <2>3. Len(heap') = n /\ ret' = n
    BY <1>1, <1>2, <1>4 DEF CopyMade
  <2>4. arg' \in 0..Len(before') /\ root' = first'
    BY <1>1, <1>7 DEF Request
  <2>5. MovedTo(Asked(stack), ret)'
    BY <2>1, <2>2, <2>3
  <2> QED BY <1>1, <1>4, <1>7, <2>3, <2>4, <2>5 DEF Request
<1> QED BY <1>5, <1>6, <1>9, <1>10, <1>11, <1>12

LEMMA BeginStep ==
  ASSUME OldHeap, Working, BeginClosure PROVE Working'
<1> USE DEF Working
<1>1. /\ pc = "enter" /\ pc' = pc /\ ToBeCopied(arg) /\ arg = Asked(stack) /\ ret' = ret
      /\ ret \in 0..Len(heap) /\ arg' = heap[arg].slots[1] /\ ~IsBuffer(heap[arg])
      /\ before' = before /\ first' = first /\ root' = root /\ root = first
  BY DEF BeginClosure, Request
<1>2. PICK k, n : k = arg /\ n = Len(heap) + 1
  OBVIOUS
<1>3. k \in Live /\ k \in Old /\ ~Finish(k) /\ ~UnderWay(k) /\ heap[k] = before[k]
  BY <1>1, <1>2, Fresh
<1>4. PICK m \in Nat : m = Len(before[k].slots) /\ m >= 1
  BY <1>3, OldObjects
<1>5. PICK e : e = [obj |-> k, out |-> n, slot |-> 1]
  OBVIOUS
<1>6. CopyMade(k, n) /\ stack' = Append(stack, e)
  <2>1. PICK copy : copy = EmptyCopy(heap[k])
    OBVIOUS
  <2>2. copy = [zone |-> "dest", function |-> before[k].function,
                slots |-> [i \in 1..m |-> Null]]
    BY <1>3, <1>4, <2>1, OldObjects DEF EmptyCopy, Closure
  <2>3. [i \in 1..m |-> Null] \in Seq(Int) /\ Len([i \in 1..m |-> Null]) = m
    BY DEF Null
  <2>4. copy \in Object
    BY <1>3, <2>2, <2>3, OldObjects DEF Object
  <2>5. heap \in Seq(Object) /\ n \in Nat /\ k \in 1..Len(heap)
    BY <1>2, <1>3, NewAndOld DEF OldPart
  <2>6. heap' = Append(heap, copy) /\ stack' = Append(stack, e)
    BY <1>2, <1>5, <2>1 DEF BeginClosure
  <2>7. /\ heap' \in Seq(Object) /\ Len(heap') = n /\ heap'[n] = copy
        /\ \A o \in 1..Len(heap) : heap'[o] = heap[o]
    BY <1>2, <2>4, <2>5, <2>6, AppendProperties
  <2>8. CopyOf(k, n)'
    BY <1>1, <1>4, <2>2, <2>3, <2>7 DEF CopyOf
  <2>9. Keeps
    BY <1>1, <2>7, NewAndOld DEF Keeps
  <2> QED BY <1>2, <1>5, <2>5, <2>6, <2>7, <2>8, <2>9 DEF CopyMade
<1>7. /\ OldPart' /\ Live' = Live /\ Old' = Old /\ n \in New' /\ New \subseteq New'
      /\ \A o \in Old : Finish(o) =>
           Finish(o)' /\ CopiedUpTo(Len(before[o].slots), o, heap[o].slots[1])'
      /\ \A o \in Old : Finish(o)' /\ o # k => Finish(o)
      /\ \A i \in DOMAIN stack : CallOK(stack[i])'
  BY <1>3, <1>6, CopyMadeKeeps
<1>8. (\E g \in [New -> Live] : Origins(g))'
  BY <1>3, <1>6, CopyHasOrigin
<1>9. heap'[k] = heap[k] /\ n \in Nat /\ ~Finish(k)' /\ Len(heap') = n
  <2>1. n \in Nat /\ Len(heap') = n
    BY <1>2, <1>6, NewAndOld DEF CopyMade
  <2>2. heap'[k] = heap[k]
    BY <1>2, <1>3, NewAndOld, AppendProperties DEF BeginClosure, OldPart
  <2> QED BY <1>3, <2>1, <2>2 DEF Finish
<1>10. FinishedCopies'
  <2> SUFFICES ASSUME NEW o \in Old, Finish(o)'
               PROVE  CopiedUpTo(Len(before[o].slots), o, heap[o].slots[1])'
    BY <1>7 DEF FinishedCopies
  <2>1. o # k
    BY <1>9
  <2>2. Finish(o) /\ heap'[o] = heap[o]
    BY <1>6, <1>7, <2>1 DEF CopyMade, Keeps
  <2> QED BY <1>7, <2>2
<1>11. k \in Nat /\ \A i \in DOMAIN stack : k < stack[i].obj
  BY <1>1, <1>2, <1>3, AskedOlder, LiveOld
<1>12. Calls'
  <2>1. stack \in Seq(Call) /\ e \in Call
    BY <1>5, <1>9, <1>11 DEF Calls, Call
  <2>2. /\ stack' \in Seq(Call) /\ Len(stack) \in Nat
        /\ DOMAIN stack = 1..Len(stack) /\ DOMAIN stack' = DOMAIN stack \cup {Len(stack) + 1}
        /\ stack'[Len(stack) + 1] = e /\ \A i \in DOMAIN stack : stack'[i] = stack[i]
    BY <1>6, <2>1, AppendProperties
  <2>3. CallOK(e)'
    <3>1. CopiedUpTo(e.slot - 1, e.obj, e.out)'
      BY <1>5 DEF CopiedUpTo
    <3> QED BY <1>1, <1>2, <1>3, <1>4, <1>5, <1>7, <1>9, <3>1 DEF CallOK, IsBuffer, SizeSlot
  <2>4. ASSUME NEW i \in DOMAIN stack' PROVE CallOK(stack[i])'
    <3>1. CASE i \in DOMAIN stack
      BY <1>7, <3>1
    <3>2. CASE i = Len(stack) + 1
      <4>1. stack'[i] = e
        BY <2>2, <3>2
      <4> QED BY <2>3, <4>1
    <3> QED BY <2>2, <3>1, <3>2
  <2>5. \A i, j \in DOMAIN stack' : i < j => stack'[j].obj < stack'[i].obj
    <3> SUFFICES ASSUME NEW i \in DOMAIN stack', NEW j \in DOMAIN stack', i < j
                 PROVE  stack'[j].obj < stack'[i].obj
      OBVIOUS
    <3>1. i \in DOMAIN stack
      BY <2>2
    <3> QED BY <1>5, <1>11, <2>2, <3>1 DEF Calls
  <2> QED BY <2>2, <2>4, <2>5 DEF Calls, Call
<1>14. Nested'
  <2>1. PICK l \in Nat : l = Len(stack)
    BY DEF Calls
  <2>2. /\ DOMAIN stack = 1..l /\ DOMAIN stack' = 1..(l + 1)
        /\ stack'[l + 1] = e /\ \A i \in DOMAIN stack : stack'[i] = stack[i]
    BY <1>6, <2>1, PushedCall DEF Calls
  <2> SUFFICES ASSUME NEW i \in DOMAIN stack'
               PROVE  stack'[i].obj =
                        IF i = 1 THEN first
                        ELSE before[stack'[i - 1].obj].slots[stack'[i - 1].slot]
    BY <1>1 DEF Nested
  <2>3. CASE i \in DOMAIN stack
    <3>1. i # 1 => i - 1 \in DOMAIN stack
      BY <2>2, <2>3
    <3> QED BY <2>2, <2>3, <3>1 DEF Nested
  <2>4. CASE i = l + 1
    <3>1. stack'[i].obj = Asked(stack)
      BY <1>1, <1>2, <1>5, <2>2, <2>4
    <3>2. i = 1 <=> stack = << >>
      BY <2>1, <2>4 DEF Calls
    <3>3. i # 1 => i - 1 = l /\ l \in DOMAIN stack /\ stack'[l] = stack[l]
      BY <2>1, <2>2, <2>4
    <3> QED BY <2>1, <3>1, <3>2, <3>3 DEF Asked
  <2> QED BY <2>2, <2>3, <2>4
<1>13. Request'
  <2>1. Asked(stack)' = before[k].slots[1]
    <3>1. stack' # << >> /\ stack'[Len(stack')] = e
      BY <1>6, PushedCall DEF Calls
    <3>2. e.obj = k /\ e.slot = 1
      BY <1>5
    <3>3. Asked(stack)' = before'[e.obj].slots[e.slot]
      BY <3>1 DEF Asked
    <3> QED BY <1>1, <3>2, <3>3
  <2>2. arg' = before[k].slots[1] /\ arg' \in 0..Len(before)
    BY <1>1, <1>2, <1>3, <1>4, SlotOf
  <2>3. ret' \in 0..Len(heap')
    BY <1>1, <1>2, <1>9, NewAndOld
  <2> QED BY <1>1, <2>1, <2>2, <2>3 DEF Request
<1> QED BY <1>7, <1>8, <1>10, <1>12, <1>13, <1>14

-----------------------------------------------------------------------------
(* The call that copy_object returns to.                                    *)
TopCall(e) ==
    /\ e = Last(stack) /\ e = stack[Len(stack)] /\ e \in Call /\ CallOK(e)
    /\ Len(stack) \in Nat \ {0} /\ DOMAIN stack = 1..Len(stack)
    /\ e.obj \in Old /\ ~Finish(e.obj) /\ heap[e.obj] = before[e.obj]
    /\ e.out \in New /\ CopyOf(e.obj, e.out)
    /\ MovedTo(before[e.obj].slots[e.slot], ret) /\ ret \in Int
    /\ \A j \in 1..(Len(stack) - 1) :
         CallOK(stack[j]) /\ stack[j].out # e.out /\ stack[j].obj # e.obj
    /\ \A o \in Old : Finish(o) => heap[o].slots[1] # e.out

LEMMA TopCallIs ==
  ASSUME OldHeap, Working, pc = "store"
  PROVE  \E e : TopCall(e)
<1> USE DEF Working
<1>1. PICK q \in Nat : q = Len(stack)
  BY DEF Calls
<1>2. q # 0 /\ DOMAIN stack = 1..q /\ q \in DOMAIN stack
  BY <1>1 DEF Calls, Request
<1>3. PICK e \in Call : e = stack[q] /\ e = Last(stack)
  BY <1>1, <1>2 DEF Calls, Last
<1>4. CallOK(e) /\ e.obj \in Live /\ e.out \in New
  <2>1. CallOK(e)
    BY <1>2, <1>3 DEF Calls
  <2> QED BY <2>1 DEF CallOK
<1>5. e.obj \in Old /\ ~Finish(e.obj) /\ heap[e.obj] = before[e.obj]
  BY <1>2, <1>3, <1>4, NotFinished DEF CallOK
<1>6. PICK g \in [New -> Live] : Origins(g)
  OBVIOUS
<1>7. \A j \in DOMAIN stack : g[stack[j].out] = stack[j].obj
  BY <1>6 DEF Origins
<1>8. g[e.out] = e.obj /\ CopyOf(e.obj, e.out)
  BY <1>2, <1>3, <1>4, <1>6, <1>7 DEF Origins
<1>9. MovedTo(before[e.obj].slots[e.slot], ret) /\ ret \in Int
  BY <1>1, <1>2, <1>3, NewAndOld DEF Request, Asked
<1>10. ASSUME NEW j \in 1..(q - 1)
       PROVE  CallOK(stack[j]) /\ stack[j].out # e.out /\ stack[j].obj # e.obj
  <2>1. j \in DOMAIN stack /\ j < q
    BY <1>1, <1>2
  <2>2. stack[q].obj < stack[j].obj /\ stack[j] \in Call
    BY <1>2, <2>1 DEF Calls
  <2>3. stack[j].obj # e.obj
    BY <1>3, <2>2 DEF Call
  <2> QED BY <1>7, <1>8, <2>1, <2>3 DEF Calls
<1>11. \A o \in Old : Finish(o) => heap[o].slots[1] # e.out
  BY <1>5, <1>6, <1>8 DEF Origins
<1> QED BY <1>1, <1>2, <1>3, <1>4, <1>5, <1>8, <1>9, <1>10, <1>11 DEF TopCall

(* The heap when the slot that call e is at is filled in, and the object of *)
(* the call is finished or not.                                             *)
StoreMade(e) ==
    /\ Keeps /\ heap' \in Seq(Object) /\ Len(heap') = Len(heap)
    /\ \A o \in 1..Len(heap) : o # e.obj /\ o # e.out => heap'[o] = heap[o]
    /\ CopyOf(e.obj, e.out)'
    /\ heap'[e.out].slots[e.slot] = ret
    /\ \A j \in 1..(e.slot - 1) : heap'[e.out].slots[j] = heap[e.out].slots[j]
    /\ heap'[e.obj] = heap[e.obj] \/ heap'[e.obj] = Forwarder(before[e.obj], e.out)

Stored(e) == [heap EXCEPT ![e.out].slots[e.slot] = ret]

LEMMA StoredIs ==
  ASSUME OldHeap, Working, NEW e, TopCall(e)
  PROVE  /\ Stored(e) \in Seq(Object) /\ Len(Stored(e)) = Len(heap)
         /\ \A o \in 1..Len(heap) : o # e.out => Stored(e)[o] = heap[o]
         /\ Stored(e)[e.out].zone = "dest"
         /\ Stored(e)[e.out].function = before[e.obj].function
         /\ Len(Stored(e)[e.out].slots) = Len(before[e.obj].slots)
         /\ Stored(e)[e.out].slots[e.slot] = ret
         /\ \A j \in 1..(e.slot - 1) : Stored(e)[e.out].slots[j] = heap[e.out].slots[j]
<1> USE DEF Working
<1>1. heap \in Seq(Object) /\ e.out \in 1..Len(heap)
  BY NewAndOld DEF OldPart, TopCall
<1>2. PICK b \in Object : b = heap[e.out]
  BY <1>1
<1>3. PICK s \in Seq(Int) : s = b.slots
  BY DEF Object
<1>4. e.slot \in 1..Len(s) /\ ret \in Int
      /\ b.zone = "dest" /\ b.function = before[e.obj].function
      /\ Len(s) = Len(before[e.obj].slots)
  BY <1>2, <1>3 DEF TopCall, CallOK, CopyOf
<1>5. PICK i \in 1..Len(s) : i = e.slot
  BY <1>4
<1>6. PICK t \in Seq(Int) :
        /\ t = [b.slots EXCEPT ![i] = ret] /\ Len(t) = Len(s) /\ t[i] = ret
        /\ \A j \in 1..(i - 1) : t[j] = s[j]
  <2>1. PICK t : t = [s EXCEPT ![i] = ret]
    OBVIOUS
  <2>2. t \in Seq(Int) /\ Len(t) = Len(s) /\ t[i] = ret /\ \A j \in 1..(i - 1) : t[j] = s[j]
    BY <1>4, <2>1
  <2> QED BY <1>3, <2>1, <2>2
<1>7. PICK d \in Object : d = [zone |-> b.zone, function |-> b.function, slots |-> t]
  BY <1>6 DEF Object
<1>8. Stored(e) = [heap EXCEPT ![e.out] = d]
  <2>1. PICK x : x = [b EXCEPT !.slots[i] = ret]
    OBVIOUS
  <2>2. x = [zone |-> b.zone, function |-> b.function, slots |-> [b.slots EXCEPT ![i] = ret]]
    BY <2>1 DEF Object
  <2>3. x = d
    BY <1>6, <1>7, <2>2
  <2> QED BY <1>1, <1>2, <1>5, <2>1, <2>3 DEF Stored
<1>9. Stored(e) \in Seq(Object) /\ Len(Stored(e)) = Len(heap) /\ Stored(e)[e.out] = d
      /\ \A o \in 1..Len(heap) : o # e.out => Stored(e)[o] = heap[o]
  BY <1>1, <1>8
<1> QED BY <1>2, <1>3, <1>4, <1>5, <1>6, <1>7, <1>9

LEMMA StoreMadeKeeps ==
  ASSUME OldHeap, Working, NEW e, TopCall(e), StoreMade(e)
  PROVE  /\ OldPart' /\ Live' = Live /\ Old' = Old /\ New' = New
         /\ CopiedUpTo(e.slot, e.obj, e.out)'
         /\ \A o \in Old : Finish(o) => heap'[o] = heap[o] /\ Finish(o)'
         /\ \A o \in Old : Finish(o)' => Finish(o) \/ o = e.obj
         /\ \A o \in Old : Finish(o) =>
              CopiedUpTo(Len(before[o].slots), o, heap[o].slots[1])'
         /\ \A j \in 1..(Len(stack) - 1) : \A c : c = stack[j] => CallOK(c)'
         /\ \A o \in Live : \A c \in New : c # e.out /\ CopyOf(o, c) => CopyOf(o, c)'
<1> USE DEF Working
<1>1. Live' = Live /\ Old' = Old /\ before' = before /\ Keeps
  BY SameLive DEF StoreMade, Keeps
<1>2. New' = New
  BY <1>1 DEF StoreMade, New
<1>3. /\ e.obj \in Old /\ e.out \in New /\ e.obj \in Live /\ ~Finish(e.obj)
      /\ e.slot \in 1..Len(before[e.obj].slots) /\ Len(before[e.obj].slots) \in Nat
      /\ heap[e.obj] = before[e.obj]
  BY OldObjects DEF TopCall, CallOK
<1>4. \A o \in Old : o # e.obj => heap'[o] = heap[o]
  BY <1>3, NewAndOld DEF StoreMade
<1>5. \A c \in New : c # e.out => heap'[c] = heap[c]
  BY <1>3, NewAndOld DEF StoreMade
<1>6. OldPart'
  <2>1. heap' \in Seq(Object) /\ Len(heap') >= Len(before')
    BY <1>1 DEF StoreMade, OldPart
  <2>2. ASSUME NEW o \in Old
        PROVE  \/ heap'[o] = before[o]
               \/ (o \in Live /\ \E c \in New' : heap'[o] = Forwarder(before[o], c))
    <3>1. CASE o = e.obj
      BY <1>2, <1>3, <3>1 DEF StoreMade
    <3>2. CASE o # e.obj
      BY <1>2, <1>4, <3>2 DEF OldPart
    <3> QED BY <3>1, <3>2
  <2>3. \A o, c : Forwarder(before[o], c)' = Forwarder(before[o], c)
    BY <1>1 DEF Forwarder
  <2> QED BY <1>1, <2>1, <2>2, <2>3 DEF OldPart
<1>7. \A o \in Old : Finish(o) => heap'[o] = heap[o] /\ Finish(o)'
  BY <1>1 DEF Keeps, Finish
<1>8. \A o \in Old : Finish(o)' => Finish(o) \/ o = e.obj
  BY <1>4 DEF Finish
<1>9. CopiedUpTo(e.slot, e.obj, e.out)'
  <2>1. PICK k, c, i : k = e.obj /\ c = e.out /\ i = e.slot
    OBVIOUS
  <2>2. i \in Nat /\ i \in 1..i /\ \A j \in 1..i : j = i \/ j \in 1..(i - 1)
    BY <1>3, <2>1
  <2> SUFFICES ASSUME NEW j \in 1..i
               PROVE  MovedTo(before[k].slots[j], heap[c].slots[j])'
    BY <2>1 DEF CopiedUpTo
  <2>3. PICK v, w : v = before[k].slots[j] /\ w = heap'[c].slots[j]
    OBVIOUS
  <2>4. MovedTo(v, w)
    <3>1. CASE j = i
      BY <2>1, <2>3, <3>1 DEF TopCall, StoreMade
    <3>2. CASE j \in 1..(i - 1)
      <4>1. w = heap[c].slots[j]
        BY <2>1, <2>3, <3>2 DEF StoreMade
      <4> QED BY <2>1, <2>3, <3>2, <4>1 DEF TopCall, CallOK, CopiedUpTo
    <3> QED BY <2>2, <3>1, <3>2
  <2>5. MovedTo(v, w)'
    BY <1>1, <2>4, Kept
  <2> QED BY <1>1, <2>3, <2>5
<1>10. ASSUME NEW o \in Old, Finish(o)
       PROVE  CopiedUpTo(Len(before[o].slots), o, heap[o].slots[1])'
  <2>1. PICK c \in New, m \in Nat : c = heap[o].slots[1] /\ m = Len(before[o].slots)
    BY <1>10, Kinds, OldObjects
  <2>2. c # e.out
    BY <1>10, <2>1 DEF TopCall
  <2>3. CopiedUpTo(m, o, c)'
    BY <1>1, <1>5, <1>10, <2>1, <2>2, KeptCopied DEF FinishedCopies
  <2> QED BY <1>1, <1>7, <1>10, <2>1, <2>3
<1>11. ASSUME NEW j \in 1..(Len(stack) - 1), NEW d, d = stack[j] PROVE CallOK(d)'
  <2>1. CallOK(d) /\ d.out # e.out /\ d.obj # e.obj
    BY <1>11 DEF TopCall
  <2>2. d.obj \in Old /\ d.out \in New
    BY <2>1, LiveOld DEF CallOK
  <2>3. CopiedUpTo(d.slot - 1, d.obj, d.out)'
    BY <1>1, <1>5, <2>1, <2>2, KeptCopied DEF CallOK
  <2> QED BY <1>1, <1>2, <1>4, <2>1, <2>2, <2>3 DEF CallOK
<1>12. ASSUME NEW o \in Live, NEW c \in New, c # e.out, CopyOf(o, c) PROVE CopyOf(o, c)'
  BY <1>1, <1>5, <1>12 DEF CopyOf
<1> QED BY <1>1, <1>2, <1>6, <1>7, <1>8, <1>9, <1>10, <1>11, <1>12

LEMMA StoreOrigins ==
  ASSUME OldHeap, Working, NEW e, TopCall(e), StoreMade(e),
         \A i \in DOMAIN stack' : \E j \in DOMAIN stack :
           stack'[i].out = stack[j].out /\ stack'[i].obj = stack[j].obj,
         \A j \in DOMAIN stack :
           \/ \E i \in DOMAIN stack' : stack'[i].obj = stack[j].obj
           \/ stack[j].obj = e.obj /\ heap'[e.obj] = Forwarder(before[e.obj], e.out)
  PROVE  (\E g \in [New -> Live] : Origins(g))'
<1> USE DEF Working
<1>1. PICK g \in [New -> Live] : Origins(g)
  OBVIOUS
<1>2. /\ Live' = Live /\ Old' = Old /\ New' = New /\ before' = before
      /\ \A o \in Old : Finish(o) => heap'[o] = heap[o] /\ Finish(o)'
      /\ \A o \in Old : Finish(o)' => Finish(o) \/ o = e.obj
      /\ \A o \in Live : \A c \in New : c # e.out /\ CopyOf(o, c) => CopyOf(o, c)'
  BY StoreMadeKeeps DEF StoreMade, Keeps
<1>3. e.obj \in Old /\ e.out \in New /\ ~Finish(e.obj) /\ g[e.out] = e.obj /\ e.out \in Nat
  <2>1. Len(stack) \in DOMAIN stack /\ stack[Len(stack)] = e
    BY DEF TopCall
  <2>2. g[e.out] = e.obj
    BY <1>1, <2>1 DEF Origins
  <2> QED BY <2>2 DEF TopCall, Call
<1>4. PICK k, c : k = e.obj /\ c = e.out
  OBVIOUS
<1>5. heap'[k] = Forwarder(before[k], c) => Finish(k)' /\ heap'[k].slots[1] = c
  <2>1. Forwarder(before[k], c).function = Redirect /\ Forwarder(before[k], c).slots[1] = c
    BY <1>3, <1>4, MadeForwarder
  <2> QED BY <2>1 DEF Finish
<1>6. Finish(k)' => heap'[k].slots[1] = c
  <2>1. heap'[k] = heap[k] => ~Finish(k)'
    BY <1>3, <1>4 DEF Finish
  <2> QED BY <1>4, <1>5, <2>1 DEF StoreMade
<1>7. ASSUME NEW d \in New PROVE CopyOf(g[d], d)' /\ (Finish(g[d])' \/ UnderWay(g[d])')
  <2>1. PICK o \in Live : o = g[d]
    BY <1>1
  <2>2. CopyOf(o, d) /\ (Finish(o) \/ UnderWay(o)) /\ o \in Old
    BY <1>1, <2>1, LiveOld DEF Origins
  <2>3. CopyOf(o, d)'
    <3>1. CASE d = c
      <4>1. CopyOf(k, c)'
        BY <1>4 DEF StoreMade
      <4> QED BY <1>3, <1>4, <2>1, <3>1, <4>1
    <3>2. CASE d # c
      BY <1>2, <1>4, <2>2, <3>2
    <3> QED BY <3>1, <3>2
  <2>4. UnderWay(o) => UnderWay(o)' \/ Finish(o)'
    BY <1>4, <1>5 DEF UnderWay
  <2> QED BY <1>2, <2>1, <2>2, <2>3, <2>4
<1>8. ASSUME NEW o \in Old, Finish(o)' PROVE g[heap'[o].slots[1]] = o
  <2>1. CASE o = k
    BY <1>3, <1>4, <1>6, <1>8, <2>1
  <2>2. CASE o # k
    BY <1>1, <1>2, <1>4, <1>8, <2>2 DEF Origins
  <2> QED BY <2>1, <2>2
<1>9. \A i \in DOMAIN stack' : g[stack'[i].out] = stack'[i].obj
  BY <1>1 DEF Origins
<1>10. \A d1, d2 \in New : g[d1] = g[d2] => d1 = d2
  BY <1>1 DEF Origins
<1>11. Origins(g)'
  BY <1>2, <1>7, <1>8, <1>9, <1>10 DEF Origins
<1> QED BY <1>2, <1>11

(* The top call goes on with its next slot.                                 *)
LEMMA NextSlotStep ==
  ASSUME OldHeap, Working, StoreSlot, NEW e, TopCall(e),
         e.slot < Len(heap[e.obj].slots)
  PROVE  Working'
<1> USE DEF Working
<1>1. PICK k, c, i, q : k = e.obj /\ c = e.out /\ i = e.slot /\ q = Len(stack)
  OBVIOUS
<1>2. /\ k \in Old /\ k \in Live /\ heap[k] = before[k] /\ ~Finish(k) /\ ~IsBuffer(before[k])
      /\ c \in New /\ i \in Nat /\ i + 1 \in 1..Len(before[k].slots) /\ q \in Nat \ {0}
  BY <1>1, OldObjects DEF TopCall, CallOK, Call
<1>3. PICK d : d = [e EXCEPT !.slot = @ + 1]
  OBVIOUS
<1>4. /\ heap' = Stored(e) /\ stack' = Front(stack) \o << d >>
      /\ arg' = heap[k].slots[i + 1] /\ pc' = "enter" /\ ret' = ret
      /\ before' = before /\ root' = root /\ first' = first /\ root = first
  BY <1>1, <1>3 DEF StoreSlot, TopCall, Stored, Request
<1>5. d \in Call /\ d = [obj |-> k, out |-> c, slot |-> i + 1]
  BY <1>1, <1>2, <1>3 DEF TopCall, Call
<1>6. /\ stack' \in Seq(Call) /\ Len(stack') = q /\ DOMAIN stack' = 1..q /\ DOMAIN stack = 1..q
      /\ stack'[q] = d /\ \A j \in 1..(q - 1) : stack'[j] = stack[j]
  <2>1. stack \in Seq(Call) /\ DOMAIN stack = 1..q
    BY <1>1 DEF TopCall, Calls
  <2>2. /\ Front(stack) \in Seq(Call) /\ Len(Front(stack)) = q - 1
        /\ \A j \in 1..(q - 1) : Front(stack)[j] = stack[j]
    BY <1>1, <1>2, <2>1 DEF Front
  <2>3. PICK f \in Seq(Call) : f = Front(stack)
    BY <2>2
  <2> QED BY <1>2, <1>4, <1>5, <2>1, <2>2, <2>3
<1>7. StoreMade(e)
  <2>1. /\ Stored(e) \in Seq(Object) /\ Len(Stored(e)) = Len(heap)
        /\ \A o \in 1..Len(heap) : o # c => Stored(e)[o] = heap[o]
        /\ Stored(e)[c].zone = "dest"
        /\ Stored(e)[c].function = before[k].function
        /\ Len(Stored(e)[c].slots) = Len(before[k].slots)
        /\ Stored(e)[c].slots[i] = ret
        /\ \A j \in 1..(i - 1) : Stored(e)[c].slots[j] = heap[c].slots[j]
    BY <1>1, StoredIs
  <2>2. k \in 1..Len(heap) /\ k # c
    BY <1>2, NewAndOld
  <2>3. \A o \in Old : Finish(o) => heap'[o] = heap[o]
    BY <1>2, <1>4, <2>1, NewAndOld
  <2>4. Keeps
    BY <1>4, <2>3 DEF Keeps
  <2>5. CopyOf(k, c)'
    BY <1>4, <2>1 DEF CopyOf
  <2> QED BY <1>1, <1>4, <2>1, <2>2, <2>4, <2>5 DEF StoreMade
<1>8. (\E g \in [New -> Live] : Origins(g))'
  <2>1. stack[q].out = c /\ stack[q].obj = k /\ q \in 1..q
    BY <1>1, <1>2 DEF TopCall
  <2>2. \A j \in 1..q : stack'[j].out = stack[j].out /\ stack'[j].obj = stack[j].obj
    BY <1>2, <1>5, <1>6, <2>1
  <2> QED BY <1>6, <1>7, <2>2, StoreOrigins
<1>9. /\ OldPart' /\ Live' = Live /\ Old' = Old /\ New' = New
      /\ CopiedUpTo(i, k, c)'
      /\ \A o \in Old : Finish(o) => heap'[o] = heap[o]
      /\ \A o \in Old : Finish(o)' => Finish(o) \/ o = k
      /\ \A o \in Old : Finish(o) =>
           CopiedUpTo(Len(before[o].slots), o, heap[o].slots[1])'
      /\ \A j \in 1..(q - 1) : \A x : x = stack[j] => CallOK(x)'
  BY <1>1, <1>7, StoreMadeKeeps
<1>10. heap'[k] = heap[k] /\ ~Finish(k)'
  <2>1. k \in 1..Len(heap) /\ k # c
    BY <1>2, NewAndOld
  <2>2. heap'[k] = heap[k]
    BY <1>1, <1>4, <2>1, StoredIs
  <2> QED BY <1>2, <2>2 DEF Finish
<1>11. FinishedCopies'
  <2> SUFFICES ASSUME NEW o \in Old, Finish(o)'
               PROVE  CopiedUpTo(Len(before[o].slots), o, heap[o].slots[1])'
    BY <1>9 DEF FinishedCopies
  <2>1. Finish(o) /\ heap'[o] = heap[o]
    BY <1>9, <1>10
  <2> QED BY <1>9, <2>1
<1>12. Calls'
  <2>1. CallOK(d)'
    <3>1. CopiedUpTo(d.slot - 1, d.obj, d.out)'
      BY <1>2, <1>5, <1>9
    <3>2. d \in [obj : Live, out : New, slot : Nat]
      BY <1>2, <1>5
    <3> QED BY <1>2, <1>4, <1>5, <1>9, <1>10, <3>1, <3>2 DEF CallOK, IsBuffer, SizeSlot
  <2>2. ASSUME NEW j \in DOMAIN stack' PROVE CallOK(stack[j])'
    <3>1. CASE j \in 1..(q - 1)
      <4>1. PICK x : x = stack[j]
        OBVIOUS
      <4>2. CallOK(x)' /\ stack'[j] = x
        BY <1>6, <1>9, <3>1, <4>1
      <4> QED BY <4>2
    <3>2. CASE j = q
      BY <1>6, <2>1, <3>2
    <3> QED BY <1>2, <1>6, <3>1, <3>2
  <2>3. \A a, b \in DOMAIN stack' : a < b => stack'[b].obj < stack'[a].obj
    <3>1. \A j \in 1..q : stack'[j].obj = stack[j].obj
      BY <1>1, <1>2, <1>5, <1>6 DEF TopCall
    <3> QED BY <1>6, <3>1 DEF Calls
  <2> QED BY <1>6, <2>2, <2>3 DEF Calls, Call
<1>13. Nested'
  <2> SUFFICES ASSUME NEW j \in 1..q
               PROVE  stack'[j].obj =
                        IF j = 1 THEN first
                        ELSE before[stack'[j - 1].obj].slots[stack'[j - 1].slot]
    BY <1>4, <1>6 DEF Nested
  <2>1. stack'[j].obj = stack[j].obj
    BY <1>1, <1>2, <1>5, <1>6 DEF TopCall
  <2>2. j # 1 => j - 1 \in 1..(q - 1) /\ stack'[j - 1] = stack[j - 1]
    BY <1>2, <1>6
  <2> QED BY <1>6, <2>1, <2>2 DEF Nested
<1>14. Request'
  <2>1. stack' # << >> /\ Len(stack') = q /\ stack'[q] = d
    BY <1>2, <1>6
  <2>2. Asked(stack)' = before[k].slots[i + 1]
    BY <1>4, <1>5, <2>1 DEF Asked
  <2>3. before[k].slots[i + 1] \in 0..Len(before)
    BY <1>2, SlotOf
  <2>4. Len(heap') = Len(heap) /\ ret \in 0..Len(heap)
    BY <1>7 DEF StoreMade, Request
  <2> QED BY <1>2, <1>4, <2>1, <2>2, <2>3, <2>4 DEF Request
<1> QED BY <1>8, <1>9, <1>11, <1>12, <1>13, <1>14

(* The top call has filled in its last slot: it makes the forwarder and     *)
(* returns the copy to the call that asked for the object.                  *)
LEMMA LastSlotStep ==
  ASSUME OldHeap, Working, StoreSlot, NEW e, TopCall(e),
         ~(e.slot < Len(heap[e.obj].slots))
  PROVE  Working'
<1> USE DEF Working
<1>1. PICK k, c, i, q : k = e.obj /\ c = e.out /\ i = e.slot /\ q = Len(stack)
  OBVIOUS
<1>2. /\ k \in Old /\ k \in Live /\ heap[k] = before[k] /\ ~Finish(k)
      /\ c \in New /\ c \in Nat /\ i = Len(before[k].slots) /\ q \in Nat \ {0}
  BY <1>1, OldObjects DEF TopCall, CallOK, Call
<1>3. /\ heap' = MakeForwarder(Stored(e), k, c) /\ stack' = Front(stack)
      /\ ret' = c /\ pc' = IF q = 1 THEN "destroy" ELSE "store" 
      /\ arg' = arg
      /\ before' = before /\ root' = root /\ first' = first /\ root = first
  BY <1>1 DEF StoreSlot, TopCall, Stored, Request
<1>4. /\ stack' \in Seq(Call) /\ Len(stack') = q - 1 /\ DOMAIN stack' = 1..(q - 1)
      /\ DOMAIN stack = 1..q /\ \A j \in 1..(q - 1) : stack'[j] = stack[j]
  <2>1. stack \in Seq(Call) /\ DOMAIN stack = 1..q
    BY <1>1 DEF TopCall, Calls
  <2> QED BY <1>1, <1>2, <1>3, <2>1 DEF Front
<1>5. /\ heap' \in Seq(Object) /\ Len(heap') = Len(heap)
      /\ heap'[k] = Forwarder(before[k], c)
      /\ \A o \in 1..Len(heap) : o # k => heap'[o] = Stored(e)[o]
  <2>1. PICK h \in Seq(Object) : h = Stored(e)
    BY StoredIs
  <2>2. k \in 1..Len(heap) /\ k # c
    BY <1>2, NewAndOld
  <2>3. Len(h) = Len(heap) /\ h[k] = before[k] /\ DOMAIN h = 1..Len(h)
    BY <1>1, <1>2, <2>1, <2>2, StoredIs
  <2>4. heap' = [h EXCEPT ![k] = Forwarder(before[k], c)]
    BY <1>3, <2>1, <2>2, <2>3 DEF MakeForwarder, Forwarder
  <2>5. Forwarder(before[k], c) \in Object
    BY <1>2, MadeForwarder
  <2> QED BY <2>1, <2>2, <2>3, <2>4, <2>5
<1>6. StoreMade(e)
  <2>1. /\ \A o \in 1..Len(heap) : o # c => Stored(e)[o] = heap[o]
        /\ Stored(e)[c].zone = "dest"
        /\ Stored(e)[c].function = before[k].function
        /\ Len(Stored(e)[c].slots) = Len(before[k].slots)
        /\ Stored(e)[c].slots[i] = ret
        /\ \A j \in 1..(i - 1) : Stored(e)[c].slots[j] = heap[c].slots[j]
    BY <1>1, StoredIs
  <2>2. c \in 1..Len(heap) /\ k # c
    BY <1>2, NewAndOld
  <2>3. heap'[c] = Stored(e)[c]
    BY <1>5, <2>2
  <2>4. \A o \in Old : Finish(o) => heap'[o] = heap[o]
    BY <1>2, <1>5, <2>1, NewAndOld
  <2>5. Keeps
    BY <1>3, <2>4 DEF Keeps
  <2>6. CopyOf(k, c)'
    BY <1>3, <2>1, <2>3 DEF CopyOf
  <2>7. \A o \in 1..Len(heap) : o # k /\ o # c => heap'[o] = heap[o]
    BY <1>5, <2>1
  <2> QED BY <1>1, <1>5, <2>1, <2>3, <2>5, <2>6, <2>7 DEF StoreMade
<1>7. (\E g \in [New -> Live] : Origins(g))'
  <2>1. stack[q].obj = k
    BY <1>1 DEF TopCall
  <2>2. \A j \in DOMAIN stack' : j \in DOMAIN stack /\ stack'[j] = stack[j]
    BY <1>2, <1>4
  <2>3. \A j \in DOMAIN stack : (j \in DOMAIN stack' /\ stack'[j] = stack[j]) \/ j = q
    BY <1>2, <1>4
  <2> QED BY <1>1, <1>5, <1>6, <2>1, <2>2, <2>3, StoreOrigins
<1>8. /\ OldPart' /\ Live' = Live /\ Old' = Old /\ New' = New
      /\ CopiedUpTo(i, k, c)'
      /\ \A o \in Old : Finish(o) => heap'[o] = heap[o]
      /\ \A o \in Old : Finish(o)' => Finish(o) \/ o = k
      /\ \A o \in Old : Finish(o) =>
           CopiedUpTo(Len(before[o].slots), o, heap[o].slots[1])'
      /\ \A j \in 1..(q - 1) : \A x : x = stack[j] => CallOK(x)'
  BY <1>1, <1>6, StoreMadeKeeps
<1>9. Finish(k)' /\ heap'[k].slots[1] = c
  <2>1. Forwarder(before[k], c).function = Redirect /\ Forwarder(before[k], c).slots[1] = c
    BY <1>2, MadeForwarder
  <2> QED BY <1>5, <2>1 DEF Finish
<1>10. FinishedCopies'
  <2> SUFFICES ASSUME NEW o \in Old, Finish(o)'
               PROVE  CopiedUpTo(Len(before[o].slots), o, heap[o].slots[1])'
    BY <1>8 DEF FinishedCopies
  <2>1. CASE o = k
    BY <1>2, <1>3, <1>8, <1>9, <2>1
  <2>2. CASE o # k
    <3>1. Finish(o) /\ heap'[o] = heap[o]
      BY <1>8, <2>2
    <3> QED BY <1>8, <3>1
  <2> QED BY <2>1, <2>2
<1>11. Calls'
  <2>1. ASSUME NEW j \in DOMAIN stack' PROVE CallOK(stack[j])'
    <3>1. PICK x : x = stack[j]
      OBVIOUS
    <3>2. CallOK(x)' /\ stack'[j] = x
      BY <1>4, <1>8, <3>1
    <3> QED BY <3>2
  <2>2. \A a, b \in DOMAIN stack' : a < b => stack'[b].obj < stack'[a].obj
    BY <1>2, <1>4 DEF Calls
  <2> QED BY <1>4, <2>1, <2>2 DEF Calls, Call
<1>12. Nested'
  <2> SUFFICES ASSUME NEW j \in 1..(q - 1)
               PROVE  stack'[j].obj =
                        IF j = 1 THEN first
                        ELSE before[stack'[j - 1].obj].slots[stack'[j - 1].slot]
    BY <1>3, <1>4 DEF Nested
  <2>1. j # 1 => j - 1 \in 1..(q - 1)
    BY <1>2
  <2>2. j \in 1..q
    BY <1>2
  <2> QED BY <1>4, <2>1, <2>2 DEF Nested
<1>13. Asked(stack)' = k
  <2>1. stack[q].obj = k /\ q \in 1..q
    BY <1>1, <1>2 DEF TopCall
  <2>2. CASE q = 1
    <3>1. stack' = << >>
      BY <1>4, <2>2
    <3>2. first = k
      BY <1>4, <2>1, <2>2 DEF Nested
    <3> QED BY <1>3, <3>1, <3>2 DEF Asked
  <2>3. CASE q # 1
    <3>1. stack' # << >> /\ Len(stack') = q - 1 /\ stack'[q - 1] = stack[q - 1]
      BY <1>2, <1>4, <2>3
    <3>2. before[stack[q - 1].obj].slots[stack[q - 1].slot] = k
      BY <1>4, <2>1, <2>3 DEF Nested
    <3> QED BY <1>3, <3>1, <3>2 DEF Asked
  <2> QED BY <2>2, <2>3
<1>14. Request'
  <2>1. MovedTo(k, c)'
    BY <1>2, <1>3, <1>8, <1>9 DEF MovedTo, Finish, Live
  <2>2. arg' \in 0..Len(before') /\ ret' \in 0..Len(heap')
    BY <1>2, <1>3, <1>5, NewAndOld DEF Request
  <2>3. pc' \in {"store", "destroy"} /\ (pc' = "store" => stack' # << >>)
        /\ (pc' = "destroy" => stack' = << >>)
    BY <1>2, <1>3, <1>4
  <2>4. MovedTo(Asked(stack), ret)'
    BY <1>3, <1>13, <2>1
  <2> QED BY <1>3, <2>2, <2>3, <2>4 DEF Request
<1> QED BY <1>7, <1>8, <1>10, <1>11, <1>12, <1>14

LEMMA StoreSlotStep ==
  ASSUME OldHeap, Working, StoreSlot PROVE Working'
<1>1. pc = "store"
  BY DEF StoreSlot
<1>2. PICK e : TopCall(e)
  BY <1>1, TopCallIs
<1>3. CASE e.slot < Len(heap[e.obj].slots)
  BY <1>2, <1>3, NextSlotStep
<1>4. CASE ~(e.slot < Len(heap[e.obj].slots))
  BY <1>2, <1>4, LastSlotStep
<1> QED BY <1>3, <1>4

-----------------------------------------------------------------------------
(* What the invariant says of types and of the work done.                   *)
LEMMA WorkingCounts ==
  ASSUME OldHeap, Working PROVE CopiesEachOnce
<1> USE DEF Working
<1>1. PICK a \in Nat, b \in Nat : a = Len(before) /\ b = Len(heap) /\ a <= b
  BY LiveOld, NewAndOld DEF OldPart
<1>2. IsFiniteSet(Live) /\ Cardinality(Live) \in Nat
  <2>1. IsFiniteSet(Old)
    <3>1. 1 \in Int /\ a \in Int /\ Old = 1..a
      BY <1>1 DEF Old
    <3> QED BY <3>1, FS_Interval, Zenon
  <2> QED BY <2>1, LiveOld, FS_Subset, FS_CardinalityType
<1>3. IsFiniteSet(New) /\ Cardinality(New) = b - a
  <2>1. a + 1 \in Int /\ b \in Int /\ New = (a + 1)..b
    BY <1>1 DEF New
  <2>2. IsFiniteSet(New) /\ Cardinality(New) = IF a + 1 > b THEN 0 ELSE b - (a + 1) + 1
    BY <2>1, FS_Interval, Zenon
  <2> QED BY <1>1, <2>2
<1>4. PICK g \in [New -> Live] : \A c, d \in New : g[c] = g[d] => c = d
  BY DEF Origins
<1>5. ~(Cardinality(Live) < Cardinality(New))
  <2> SUFFICES ASSUME Cardinality(Live) < Cardinality(New) PROVE FALSE
    OBVIOUS
  <2>1. \E c, d \in New : c # d /\ g[c] = g[d]
    BY <1>2, <1>3, <1>4, FS_PigeonHole
  <2> QED BY <1>4, <2>1
<1>6. b <= a + Cardinality(Live)
  BY <1>1, <1>2, <1>3, <1>5
<1> QED BY <1>1, <1>6 DEF CopiesEachOnce, Live

LEMMA WorkingTypes ==
  ASSUME OldHeap, Working PROVE TypeOK
<1> USE DEF Working
<1>1. \A o \in DOMAIN heap : heap[o].zone \in {"src", "dest", "elsewhere", "gone"}
  <2> SUFFICES ASSUME NEW o \in DOMAIN heap
               PROVE  heap[o].zone \in {"src", "dest", "elsewhere", "gone"}
    OBVIOUS
  <2>1. heap[o] \in Object
    BY DEF OldPart
  <2> QED BY <2>1 DEF Object
<1>2. root \in 0..Len(heap) /\ arg \in 0..Len(heap) /\ ret \in 0..Len(heap)
      /\ pc \in {"enter", "store", "destroy", "done"}
  BY LiveOld, NewAndOld DEF OldPart, Request
<1>3. ASSUME NEW i \in DOMAIN stack
      PROVE  heap[stack[i].out].zone = "dest" /\ stack[i].slot \in 1..Len(heap[stack[i].obj].slots)
  <2>1. CallOK(stack[i]) /\ stack[i].out \in New
    BY DEF Calls, CallOK
  <2>2. heap[stack[i].out].zone = "dest"
    BY <2>1 DEF Origins, CopyOf
  <2> QED BY <2>1, <2>2 DEF CallOK
<1> QED BY <1>1, <1>2, <1>3 DEF TypeOK

-----------------------------------------------------------------------------
(* When the root is copied, so is all that it leads to.                     *)
LEMMA AllFinished ==
  ASSUME OldHeap, Working, MovedTo(first, ret), NEW o \in Reach(before, first)
  PROVE  before[o].zone = "elsewhere" \/ Finish(o)
<1> USE DEF Working
<1> DEFINE T == {k \in Old : before[k].zone = "elsewhere" \/ Finish(k)}
<1>1. first \in T
  BY OldObjects DEF OldHeap, MovedTo, Finish
<1>2. ClosedIn(before, T)
  <2> SUFFICES ASSUME NEW k \in T, NEW v \in Slots(before[k]) \cap (1..Len(before)) PROVE v \in T
    BY DEF ClosedIn
  <2>1. k \in Old /\ v \in Old
    BY DEF Old
  <2>2. PICK i \in 1..Len(before[k].slots) : v = before[k].slots[i]
    BY <2>1, OldObjects DEF Slots
  <2>3. Finish(k)
    BY <2>1, <2>2, OldObjects DEF OldHeap, OldObject
  <2>4. PICK w : MovedTo(v, w)
    BY <2>1, <2>2, <2>3 DEF FinishedCopies, CopiedUpTo
  <2> QED BY <2>1, <2>4, OldObjects DEF MovedTo, Finish
<1>3. T \in SUBSET (1..Len(before)) /\ Len(before) \in Nat /\ first \in 0..Len(before)
  BY LiveOld DEF Old
<1> HIDE DEF T
<1>4. Reach(before, first) \subseteq T
  BY <1>1, <1>2, <1>3, ReachLeast
<1> QED BY <1>4 DEF T

(* Where an object that the root led to is when all is copied.              *)
NowAt(o) == IF before[o].zone = "elsewhere" THEN o ELSE heap[o].slots[1]

LEMMA WhereItIs ==
  ASSUME OldHeap, Working, MovedTo(first, ret), NEW o \in Reach(before, first)
  PROVE  /\ o \in Old
         /\ before[o].zone = "elsewhere" =>
              NowAt(o) \in Old /\ heap[o] = before[o] /\ \A i \in 1..Len(before[o].slots) :
                before[o].slots[i] \notin Old
         /\ before[o].zone # "elsewhere" =>
              NowAt(o) \in New /\ CopyOf(o, NowAt(o)) /\ \A i \in 1..Len(before[o].slots) :
                LET v == before[o].slots[i]
                IN  heap[NowAt(o)].slots[i] =
                      IF v \in Reach(before, first) THEN NowAt(v) ELSE v
<1> USE DEF Working
<1>1. o \in Old
  BY LiveOld
<1>2. ASSUME before[o].zone = "elsewhere"
      PROVE  NowAt(o) \in Old /\ heap[o] = before[o] /\ \A i \in 1..Len(before[o].slots) :
               before[o].slots[i] \notin Old
  <2>1. heap[o] = before[o]
    BY <1>1, <1>2 DEF OldPart, Live
  <2>2. \A i \in 1..Len(before[o].slots) : before[o].slots[i] <= 0
    BY <1>1, <1>2, OldObjects DEF OldHeap, OldObject
  <2> QED BY <1>1, <1>2, <2>1, <2>2 DEF NowAt, Old
<1>3. ASSUME before[o].zone # "elsewhere"
      PROVE  NowAt(o) \in New /\ CopyOf(o, NowAt(o)) /\ \A i \in 1..Len(before[o].slots) :
               LET v == before[o].slots[i]
               IN  heap[NowAt(o)].slots[i] =
                     IF v \in Reach(before, first) THEN NowAt(v) ELSE v
  <2>1. PICK c : c = NowAt(o)
    OBVIOUS
  <2>2. Finish(o) /\ c = heap[o].slots[1] /\ c \in New
    BY <1>1, <1>3, <2>1, AllFinished, Kinds DEF NowAt
  <2>3. CopyOf(o, c)
    BY <1>1, <2>2 DEF Origins
  <2>4. ASSUME NEW i \in 1..Len(before[o].slots), NEW v, v = before[o].slots[i]
        PROVE  heap[c].slots[i] = IF v \in Reach(before, first) THEN NowAt(v) ELSE v
    <3>1. PICK w : w = heap[c].slots[i] /\ MovedTo(v, w)
      BY <1>1, <2>2, <2>4 DEF FinishedCopies, CopiedUpTo
    <3>2. CASE v \in Reach(before, first)
      <4>1. v \in Old /\ before[v].zone \in {"src", "elsewhere"}
        BY <3>2, LiveOld, OldObjects
      <4> QED BY <3>1, <3>2, <4>1 DEF MovedTo, NowAt
    <3>3. CASE v \notin Reach(before, first)
      <4>1. v \notin Old
        <5>1. ClosedIn(before, Reach(before, first))
          BY LiveOld, ReachClosed
        <5>2. v \in Slots(before[o])
          BY <1>1, <2>4, OldObjects DEF Slots
        <5> QED BY <3>3, <5>1, <5>2 DEF ClosedIn, Old
      <4> QED BY <3>1, <3>3, <4>1 DEF MovedTo
    <3> QED BY <3>2, <3>3
  <2> QED BY <2>1, <2>2, <2>3, <2>4
<1> QED BY <1>1, <1>2, <1>3

LEMMA DestroyStep ==
  ASSUME OldHeap, Working, DestroySource PROVE TypeOK' /\ SameGraph' /\ CopiesEachOnce'
<1>1. /\ pc = "destroy" /\ pc' = "done" /\ root' = ret /\ stack = << >>
      /\ before' = before /\ first' = first /\ stack' = stack /\ arg' = arg /\ ret' = ret
      /\ heap' = [o \in DOMAIN heap |-> IF heap[o].zone = "src" THEN Gone ELSE heap[o]]
  BY DEF DestroySource, Working, Request
<1>2. MovedTo(first, ret) /\ ret \in 0..Len(heap) /\ arg \in 0..Len(heap)
      /\ Len(heap) \in Nat /\ DOMAIN heap = 1..Len(heap)
  BY <1>1, LiveOld, NewAndOld DEF Working, Request, Asked, OldPart
<1>3. PICK n \in Nat : n = Len(heap)
  BY <1>2
<1>4. Len(heap') = n /\ DOMAIN heap' = 1..n
      /\ \A o \in 1..n : heap'[o] = IF heap[o].zone = "src" THEN Gone ELSE heap[o]
  BY <1>1, <1>2, <1>3
<1>5. PICK old : old = Reach(before, first)
  OBVIOUS
<1>6. Reach(before, first)' = old /\ Live' = Live /\ Old' = Old
  <2>1. Reach(before, first)' = old
    BY <1>1, <1>5 DEF Reach, Slots
  <2> QED BY <1>1, <2>1, SameLive
<1>7. first \in old /\ old \subseteq Old
  BY <1>5, LiveOld
<1>8. \A o \in Old : heap'[o] = heap[o] \/ heap[o].zone = "src"
  BY <1>3, <1>4, NewAndOld DEF Working
<1>9. \A o \in old :
        /\ before[o].zone = "elsewhere" => heap'[NowAt(o)] = before[o] /\ NowAt(o) = o
        /\ before[o].zone # "elsewhere" => heap'[NowAt(o)] = heap[NowAt(o)]
  <2> SUFFICES ASSUME NEW o \in old
               PROVE  /\ before[o].zone = "elsewhere" =>
                           heap'[NowAt(o)] = before[o] /\ NowAt(o) = o
                      /\ before[o].zone # "elsewhere" => heap'[NowAt(o)] = heap[NowAt(o)]
    OBVIOUS
  <2>1. CASE before[o].zone = "elsewhere"
    BY <1>2, <1>5, <1>7, <1>8, <2>1, WhereItIs DEF NowAt
  <2>2. CASE before[o].zone # "elsewhere"
    BY <1>2, <1>3, <1>4, <1>5, <2>2, WhereItIs, NewAndOld DEF CopyOf, Working
  <2> QED BY <2>1, <2>2
<1>10. ret = NowAt(first)
  BY <1>2, <1>7, OldObjects DEF MovedTo, NowAt
<1>11. PICK new : new = Reach(heap, root)'
  OBVIOUS
<1>12. /\ new \subseteq 1..n /\ ret \in new
       /\ \A k \in new : Slots(heap'[k]) \cap (1..n) \subseteq new
  <2>1. PICK h, r : h = heap' /\ r = ret
    OBVIOUS
  <2>2. new = Reach(h, r)
    BY <1>1, <1>11, <2>1 DEF Reach, Slots
  <2>3. Len(h) = n /\ r \in 0..Len(h) /\ r # Null
    <3>1. ret # Null
      <4>1. NowAt(first) \in Old \cup New
        BY <1>2, <1>5, <1>7, WhereItIs
      <4> QED BY <1>10, <4>1, LiveOld DEF Old, New, Null
    <3> QED BY <1>2, <1>3, <1>4, <2>1, <3>1
  <2>4. new \subseteq 1..Len(h) /\ r \in new /\ ClosedIn(h, new)
    BY <2>2, <2>3, ReachClosed
  <2> QED BY <2>1, <2>3, <2>4 DEF ClosedIn
<1>13. \A o \in old : NowAt(o) \in new
  <2> DEFINE T == {o \in old : NowAt(o) \in new}
  <2>1. first \in T
    BY <1>7, <1>10, <1>12
  <2>2. ClosedIn(before, T)
    <3> SUFFICES ASSUME NEW o \in T, NEW v \in Slots(before[o]) \cap (1..Len(before))
                 PROVE  v \in T
      BY DEF ClosedIn
    <3>1. PICK i \in 1..Len(before[o].slots) : v = before[o].slots[i]
      BY <1>7, OldObjects DEF Slots
    <3>2. v \in Old /\ v \in old
      <4>1. ClosedIn(before, old)
        BY <1>5, LiveOld, ReachClosed
      <4> QED BY <4>1 DEF ClosedIn, Old
    <3>3. before[o].zone # "elsewhere"
      BY <1>2, <1>5, <3>1, <3>2, WhereItIs
    <3>4. heap[NowAt(o)].slots[i] = NowAt(v) /\ CopyOf(o, NowAt(o))
      BY <1>2, <1>5, <3>1, <3>2, <3>3, WhereItIs
    <3>5. NowAt(v) \in Old \cup New
      BY <1>2, <1>5, <3>2, OldObjects, WhereItIs
    <3>6. NowAt(v) \in 1..n
      BY <1>3, <3>5, NewAndOld DEF Working
    <3>7. heap'[NowAt(o)].slots[i] = NowAt(v) /\ i \in DOMAIN heap'[NowAt(o)].slots
      <4>1. heap'[NowAt(o)] = heap[NowAt(o)] /\ NowAt(o) \in New
        BY <1>2, <1>5, <1>9, <3>3, WhereItIs
      <4>2. heap[NowAt(o)] \in Object
        BY <4>1, NewAndOld DEF Working, OldPart
      <4>3. DOMAIN heap[NowAt(o)].slots = 1..Len(before[o].slots)
        BY <3>4, <4>2 DEF Object, CopyOf
      <4> QED BY <3>4, <4>1, <4>3
    <3>8. NowAt(v) \in Slots(heap'[NowAt(o)])
      BY <3>7 DEF Slots
    <3> QED BY <1>12, <3>2, <3>6, <3>8
  <2>3. T \in SUBSET (1..Len(before)) /\ Len(before) \in Nat /\ first \in 0..Len(before)
    BY <1>7, LiveOld DEF Old
  <2> HIDE DEF T
  <2>4. old \subseteq T
    BY <1>5, <2>1, <2>2, <2>3, ReachLeast
  <2> QED BY <2>4 DEF T
<1>14. \A o, p \in old : NowAt(o) = NowAt(p) => o = p
  <2>1. PICK g \in [New -> Live] : Origins(g)
    BY DEF Working
  <2>2. \A o \in old : before[o].zone # "elsewhere" => g[NowAt(o)] = o /\ NowAt(o) \in New
    <3> SUFFICES ASSUME NEW o \in old, before[o].zone # "elsewhere"
                 PROVE  g[NowAt(o)] = o /\ NowAt(o) \in New
      OBVIOUS
    <3>1. Finish(o) /\ NowAt(o) = heap[o].slots[1] /\ o \in Old
      BY <1>2, <1>5, <1>7, AllFinished DEF NowAt
    <3> QED BY <1>2, <1>5, <2>1, <3>1, WhereItIs DEF Origins
  <2>3. \A o \in old : before[o].zone = "elsewhere" => NowAt(o) = o /\ NowAt(o) \notin New
    BY <1>7, NewAndOld DEF NowAt, Working
  <2> QED BY <2>2, <2>3
<1>15. PICK f \in [old -> new] : \A o \in old : f[o] = NowAt(o)
  <2> DEFINE f == [o \in old |-> NowAt(o)]
  <2>1. f \in [old -> new] /\ \A o \in old : f[o] = NowAt(o)
    BY <1>13
  <2> QED BY <2>1
<1>16. ASSUME NEW o \in old PROVE InPlaceOf(f, o)'
  <2>1. CASE before[o].zone = "elsewhere"
    <3>1. f[o] = o /\ heap'[o] = before'[o] /\ before'[o].zone = "elsewhere"
      BY <1>1, <1>9, <1>15, <2>1
    <3> QED BY <3>1 DEF InPlaceOf
  <2>2. CASE before[o].zone # "elsewhere"
    <3>1. PICK c : c = NowAt(o)
      OBVIOUS
    <3>2. f[o] = c /\ heap'[c] = heap[c] /\ CopyOf(o, c)
      BY <1>2, <1>5, <1>9, <1>15, <2>2, <3>1, WhereItIs
    <3>3. \A i \in DOMAIN before[o].slots :
            SameSlot(f, before[o].slots[i], heap[c].slots[i])
      <4> SUFFICES ASSUME NEW i \in DOMAIN before[o].slots
                   PROVE  SameSlot(f, before[o].slots[i], heap[c].slots[i])
        OBVIOUS
      <4>1. i \in 1..Len(before[o].slots)
        BY <1>7, OldObjects
      <4>2. PICK v : v = before[o].slots[i]
        OBVIOUS
      <4>3. heap[c].slots[i] = IF v \in old THEN NowAt(v) ELSE v
        BY <1>2, <1>5, <2>2, <3>1, <4>1, <4>2, WhereItIs
      <4>4. v \in DOMAIN f <=> v \in old
        BY <1>15
      <4> QED BY <1>15, <4>2, <4>3, <4>4 DEF SameSlot
    <3>4. /\ before'[o].zone # "elsewhere" /\ heap'[f[o]].zone = "dest"
          /\ heap'[f[o]].function = before'[o].function
          /\ Len(heap'[f[o]].slots) = Len(before'[o].slots)
          /\ \A i \in DOMAIN before'[o].slots :
               SameSlot(f, before'[o].slots[i], heap'[f[o]].slots[i])
      BY <1>1, <2>2, <3>2, <3>3 DEF CopyOf
    <3> QED BY <3>4 DEF InPlaceOf
  <2> QED BY <2>1, <2>2
<1>17. SameGraph'
  <2>1. \A o, p \in old : f[o] = f[p] => o = p
    BY <1>14, <1>15
  <2>2. f[first'] = root'
    BY <1>1, <1>7, <1>10, <1>15
  <2>3. \A o \in old : InPlaceOf(f, o)'
    BY <1>16
  <2> QED BY <1>6, <1>11, <1>15, <2>1, <2>2, <2>3 DEF SameGraph
<1>18. TypeOK'
  <2>1. \A o \in DOMAIN heap' : heap'[o].zone \in {"src", "dest", "elsewhere", "gone"}
    <3>1. Gone.zone = "gone"
      BY DEF Gone, Closure
    <3>2. \A o \in DOMAIN heap : heap[o].zone \in {"src", "dest", "elsewhere", "gone"}
      BY WorkingTypes DEF TypeOK
    <3> QED BY <1>1, <3>1, <3>2
  <2>2. root' \in 0..Len(heap') /\ arg' \in 0..Len(heap') /\ ret' \in 0..Len(heap')
    BY <1>1, <1>2, <1>3, <1>4
  <2>3. DOMAIN stack' = {}
    BY <1>1
  <2> QED BY <1>1, <2>1, <2>2, <2>3 DEF TypeOK
<1>19. CopiesEachOnce'
  BY <1>1, <1>3, <1>4, <1>6, WorkingCounts DEF CopiesEachOnce, Live
<1> QED BY <1>17, <1>18, <1>19

-----------------------------------------------------------------------------
(* The heaps collect_zone is called with.                                   *)
LEMMA InitialObject ==
  ASSUME NEW k \in Nat \ {0}, NEW b \in ObjectsAt(k)
  PROVE  /\ b \in Object /\ b.zone \in {"src", "elsewhere"} /\ b.function # Redirect
         /\ Len(b.slots) >= 1 /\ DOMAIN b.slots = 1..Len(b.slots)
         /\ \A i \in DOMAIN b.slots : b.slots[i] < k
         /\ b.zone = "elsewhere" \/ IsBuffer(b) => \A i \in DOMAIN b.slots : b.slots[i] <= 0
         /\ ~IsBuffer(b) => \A i \in DOMAIN b.slots : b.slots[i] >= 0
<1>1. CASE b = Closure("elsewhere", "f", << Null >>)
  <2>1. b = [zone |-> "elsewhere", function |-> "f", slots |-> << 0 >>]
    BY <1>1 DEF Closure, Null
  <2>2. << 0 >> \in Seq(Int) /\ Len(<< 0 >>) = 1
    OBVIOUS
  <2>3. b \in Object
    BY <2>1, <2>2 DEF Object
  <2>4. IsBuffer(b)
    BY <2>1 DEF IsBuffer, SizeSlot, HeaderWords
  <2> QED BY <2>1, <2>2, <2>3, <2>4 DEF Redirect
<1>2. CASE b = Buffer("src", 1)
  <2>1. PICK t \in Seq(Int) : t = [i \in 1..1 |-> -i] /\ Len(t) = 1 /\ t[1] = -1
    <3> DEFINE t == [i \in 1..1 |-> -i]
    <3>1. DOMAIN t = 1..1 /\ t[1] = -1 /\ t \in [1..1 -> Int]
      OBVIOUS
    <3>2. t \in Seq(Int) /\ Len(t) = 1
      BY <3>1
    <3> QED BY <3>1, <3>2
  <2>2. PICK m \in Int : m = -1
    OBVIOUS
  <2>3. << m >> \in Seq(Int) /\ Len(<< m >>) = 1 /\ << m >>[1] = m
    OBVIOUS
  <2>4. PICK s : s = << m >> \o t
    OBVIOUS
  <2>5. s \in Seq(Int) /\ Len(s) = 2 /\ s[1] = m /\ s[2] = m /\ DOMAIN s = 1..2
    <3>1. s \in Seq(Int) /\ Len(s) = 2
          /\ \A i \in 1..2 : s[i] = IF i <= 1 THEN << m >>[i] ELSE t[i - 1]
      BY <2>1, <2>3, <2>4, ConcatProperties
    <3>2. 1 \in 1..2 /\ 2 \in 1..2 /\ 2 - 1 = 1
      OBVIOUS
    <3>3. s[1] = m
      BY <2>3, <3>1, <3>2
    <3>4. s[2] = m
      BY <2>1, <2>2, <3>1, <3>2
    <3> QED BY <3>1, <3>3, <3>4
  <2>6. b = [zone |-> "src", function |-> "buffer", slots |-> s]
    BY <1>2, <2>1, <2>2, <2>4 DEF Buffer, Number
  <2>7. b \in Object
    BY <2>5, <2>6 DEF Object
  <2>8. SizeSlot(b) = 1
    BY <2>2, <2>5, <2>6 DEF SizeSlot
  <2>9. b.zone = "src" /\ b.function = "buffer" /\ b.slots = s
    BY <2>6
  <2>10. IsBuffer(b)
    <3>1. Len(b.slots) = 2
      BY <2>5, <2>9
    <3> QED BY <2>8, <3>1 DEF IsBuffer, HeaderWords
  <2>11. Len(b.slots) >= 1 /\ DOMAIN b.slots = 1..Len(b.slots)
         /\ \A i \in DOMAIN b.slots : b.slots[i] < k /\ b.slots[i] <= 0
    <3>1. \A i \in DOMAIN s : s[i] = m
      BY <2>5
    <3>2. m < k /\ m <= 0
      BY <2>2
    <3>3. Len(s) >= 1 /\ DOMAIN s = 1..Len(s)
      BY <2>5
    <3> QED BY <2>9, <3>1, <3>2, <3>3
  <2> QED BY <2>7, <2>9, <2>10, <2>11 DEF Redirect
<1>3. CASE b \in {Closure("src", "f", s) : s \in UNION {[1..n -> OlderThan(k)] : n \in 1..MaxSlots}}
  <2>1. PICK n \in 1..MaxSlots : \E s \in [1..n -> OlderThan(k)] : b = Closure("src", "f", s)
    BY <1>3
  <2>8. PICK s \in [1..n -> OlderThan(k)] : b = Closure("src", "f", s)
    BY <2>1
  <2>2. n \in Nat /\ n >= 1
    OBVIOUS
  <2>3. \A i \in 1..n : s[i] \in Int /\ 0 <= s[i] /\ s[i] < k
    BY DEF OlderThan, Null
  <2>4. s \in Seq(Int) /\ Len(s) = n /\ DOMAIN s = 1..n
    BY <2>2, <2>3
  <2>5. b = [zone |-> "src", function |-> "f", slots |-> s]
    BY <2>8 DEF Closure
  <2>6. b \in Object
    BY <2>4, <2>5 DEF Object
  <2>7. IsBuffer(b) => n = 1 /\ s[1] = 0
    BY <2>2, <2>3, <2>4, <2>5 DEF IsBuffer, SizeSlot, HeaderWords
  <2> QED BY <2>2, <2>3, <2>4, <2>5, <2>6, <2>7 DEF Redirect
<1> QED BY <1>1, <1>2, <1>3 DEF ObjectsAt

LEMMA InitStep ==
  Init => IInv
<1> SUFFICES ASSUME Init PROVE IInv
  OBVIOUS
<1>1. /\ heap \in Heaps /\ before = heap /\ root = Len(heap) /\ first = root
      /\ stack = << >> /\ arg = root /\ ret = 0 /\ pc = "enter"
  BY DEF Init, Null
<1>2. PICK n \in Nat : /\ n >= 1 /\ before \in Seq(Object) /\ Len(before) = n
                       /\ DOMAIN before = 1..n /\ \A k \in 1..n : before[k] \in ObjectsAt(k)
  <2>1. PICK n \in 1..MaxObjects :
          /\ before \in [1..n -> UNION {ObjectsAt(k) : k \in 1..n}]
          /\ \A k \in 1..n : before[k] \in ObjectsAt(k)
    BY <1>1 DEF Heaps
  <2>2. n \in Nat /\ n >= 1
    OBVIOUS
  <2>3. \A k \in 1..n : before[k] \in Object
    BY <2>1, <2>2, InitialObject
  <2>4. before \in Seq(Object) /\ Len(before) = n /\ DOMAIN before = 1..n
    <3>1. before \in [1..n -> Object]
      BY <2>1, <2>3
    <3> QED BY <2>2, <3>1
  <2> QED BY <2>1, <2>2, <2>4
<1>3. OldHeap
  <2>1. \A k \in Old : OldObject(k)
    BY <1>2, InitialObject DEF OldObject, Old
  <2> QED BY <1>1, <1>2, <2>1 DEF OldHeap, Old
<1>4. New = {} /\ \A k \in Old : ~Finish(k)
  BY <1>1, <1>2, <1>3, OldObjects DEF New, Finish
<1>5. OldPart
  BY <1>1, <1>2 DEF OldPart
<1>6. \E g \in [New -> Live] : Origins(g)
  <2>1. PICK g \in [New -> Live] : DOMAIN g = {}
    <3> DEFINE g == [c \in New |-> first]
    <3>1. g \in [New -> Live] /\ DOMAIN g = {}
      BY <1>4
    <3> QED BY <3>1
  <2>2. DOMAIN stack = {}
    BY <1>1
  <2> QED BY <1>4, <2>1, <2>2 DEF Origins
<1>7. FinishedCopies /\ Calls /\ Nested
  BY <1>1, <1>4 DEF FinishedCopies, Calls, Nested
<1>8. Request
  BY <1>1, <1>2 DEF Request, Asked
<1> QED BY <1>1, <1>3, <1>5, <1>6, <1>7, <1>8 DEF IInv, Working

LEMMA Step ==
  IInv /\ [Next]_vars => IInv'
<1> SUFFICES ASSUME IInv, [Next]_vars PROVE IInv'
  OBVIOUS
<1>1. OldHeap'
  <2>1. before' = before /\ first' = first
    BY DEF Next, vars, PassBack, CopyBuffer, BeginClosure, StoreSlot, DestroySource, Finished
  <2>2. OldHeap
    BY DEF IInv
  <2> QED BY <2>1, <2>2 DEF OldHeap, Old, OldObject
<1>2. CASE pc # "done" /\ Next /\ ~Finished
  <2>1. OldHeap /\ Working
    BY <1>2 DEF IInv
  <2>2. CASE PassBack
    BY <1>1, <2>1, <2>2, PassBackStep DEF IInv, Working, Request
  <2>3. CASE CopyBuffer
    BY <1>1, <2>1, <2>3, CopyBufferStep DEF IInv, Working, Request
  <2>4. CASE BeginClosure
    BY <1>1, <2>1, <2>4, BeginStep DEF IInv, Working, Request
  <2>5. CASE StoreSlot
    BY <1>1, <2>1, <2>5, StoreSlotStep DEF IInv, Working, Request
  <2>6. CASE DestroySource
    BY <1>1, <2>1, <2>6, DestroyStep DEF IInv, DestroySource
  <2> QED BY <1>2, <2>2, <2>3, <2>4, <2>5, <2>6 DEF Next
<1>3. CASE pc = "done" \/ Finished \/ UNCHANGED vars
  <2>1. UNCHANGED vars
    BY <1>3 DEF Next, PassBack, CopyBuffer, BeginClosure, StoreSlot, DestroySource, Finished
  <2>2. Live' = Live /\ Old' = Old /\ New' = New
    BY <2>1, SameLive DEF vars, New
  <2>3. ASSUME Working PROVE Working'
    <3>1. OldPart' /\ FinishedCopies' /\ Calls' /\ Nested' /\ Request'
      <4>1. OldPart' /\ Nested'
        BY <2>1, <2>2, <2>3 DEF vars, Working, OldPart, Nested
      <4>2. FinishedCopies' /\ Calls'
        BY <2>1, <2>2, <2>3 DEF vars, Working, FinishedCopies, Calls, CallOK, CopiedUpTo, MovedTo,
                                Finish
      <4>3. Request'
        BY <2>1, <2>3 DEF vars, Working, Request, Asked, MovedTo, Old
      <4> QED BY <4>1, <4>2, <4>3
    <3>2. (\E g \in [New -> Live] : Origins(g))'
      <4>1. PICK g \in [New -> Live] : Origins(g)
        BY <2>3 DEF Working
      <4>2. Origins(g)'
        BY <2>1, <2>2, <4>1 DEF vars, Origins, CopyOf, Finish, UnderWay
      <4> QED BY <2>2, <4>2
    <3> QED BY <3>1, <3>2 DEF Working
  <2>4. TypeOK => TypeOK'
    BY <2>1 DEF vars, TypeOK
  <2>5. SameGraph => SameGraph'
    <3>1. Reach(before, first)' = Reach(before, first) /\ Reach(heap, root)' = Reach(heap, root)
      BY <2>1 DEF vars, Reach, Slots
    <3>2. \A f, o : InPlaceOf(f, o)' <=> InPlaceOf(f, o)
      BY <2>1 DEF vars, InPlaceOf
    <3> QED BY <2>1, <3>1, <3>2 DEF vars, SameGraph
  <2>6. CopiesEachOnce => CopiesEachOnce'
    BY <2>1, <2>2 DEF vars, CopiesEachOnce, Live
  <2>7. pc' = pc
    BY <2>1 DEF vars
  <2> QED BY <1>1, <2>3, <2>4, <2>5, <2>6, <2>7 DEF IInv
<1> QED BY <1>2, <1>3

LEMMA IInvImplies ==
  IInv => TypeOK /\ SameGraph /\ CopiesEachOnce
<1> SUFFICES ASSUME IInv PROVE TypeOK /\ SameGraph /\ CopiesEachOnce
  OBVIOUS
<1>1. CASE pc = "done"
  BY <1>1 DEF IInv
<1>2. CASE pc # "done"
  BY <1>2, WorkingTypes, WorkingCounts DEF IInv, SameGraph
<1> QED BY <1>1, <1>2

(* What copy_object works with are addresses of the heap.                   *)
THEOREM CollectorTypes == Spec => []TypeOK
BY InitStep, Step, IInvImplies, PTL DEF Spec

(* collect_zone gives back the graph that the root led to: the objects      *)
(* outside the zone in their places, the others copied, what was shared     *)
(* still shared, and nothing that refers to the zone that is destroyed.     *)
THEOREM GraphIsTheSame == Spec => []SameGraph
BY InitStep, Step, IInvImplies, PTL DEF Spec

(* copy_object never copies an object that is not live, nor one twice,      *)
(* though it forwards a closure only when all its slots are copied.         *)
THEOREM EachCopiedOnce == Spec => []CopiesEachOnce
BY InitStep, Step, IInvImplies, PTL DEF Spec
=============================================================================
