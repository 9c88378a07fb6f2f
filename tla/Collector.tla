----------------------------- MODULE Collector -----------------------------
(* The mark-copy collector, runtime/memory/collector.c.                     *)
(*                                                                          *)
(* collect_zone copies what its root can reach in the source zone to the    *)
(* destination zone and destroys the source zone.  A copied object is       *)
(* turned into a forwarder: its function becomes a flag and its first slot  *)
(* the address of the copy, so that objects that share a slot go on sharing *)
(* it.  copy_object recurses; its C stack is a variable here.               *)
(*                                                                          *)
(* A definition that stands right before the one it varies, and is used     *)
(* nowhere, is a slip the code could have made; the properties catch it.    *)
EXTENDS Integers, Sequences, FiniteSets, SequencesExt

CONSTANTS MaxObjects,  \* bound: the objects there are when it starts
          MaxSlots     \* bound: the slots of a closure

Null == 0
Redirect == "COLLECTOR_REDIRECT_FLAG"
HeaderWords == 2     \* sizeof(struct buffer): the function and the size

VARIABLES heap,    \* the objects, by address
          before,  \* the heap as it was when collect_zone was called
          root,    \* the root object, then its copy
          first,   \* the root as it was
          stack,   \* the calls of copy_closure under way, innermost last
          arg,     \* the object copy_object is called with
          ret,     \* what it returned
          pc

vars == <<heap, before, root, first, stack, arg, ret, pc>>

-----------------------------------------------------------------------------
(* An object is its zone, its function and its slots, one word each.  A     *)
(* buffer's first slot is its size, in words, and the others its data; a    *)
(* number n in them is written -n, which tells it from an address.  The     *)
(* null address and the number zero are the same word.                      *)
Number(n) == -n
Closure(z, f, slots) == [zone |-> z, function |-> f, slots |-> slots]
Buffer(z, n) ==
    [zone |-> z, function |-> "buffer",
     slots |-> << Number(n) >> \o [i \in 1..n |-> Number(i)]]

(* Objects are immutable, so each one refers to older objects only, and     *)
(* what lies outside the source zone does not refer to what is inside.      *)
OlderThan(k) == {Null} \cup 1..(k - 1)
ObjectsAt(k) ==
    {Closure("elsewhere", "f", << Null >>), Buffer("src", 1)}
      \cup {Closure("src", "f", s) : s \in UNION {[1..n -> OlderThan(k)] : n \in 1..MaxSlots}}
Heaps == UNION {{h \in [1..n -> UNION {ObjectsAt(k) : k \in 1..n}] :
                     \A k \in 1..n : h[k] \in ObjectsAt(k)} : n \in 1..MaxObjects}

Init == /\ heap \in Heaps
        /\ before = heap
        /\ root = Len(heap)
        /\ first = root
        /\ stack = << >>
        /\ arg = root
        /\ ret = Null
        /\ pc = "enter"

(* copy_object gives back what it was called with, or an earlier copy, or   *)
(* makes a copy.                                                            *)
Return(v) ==
    /\ ret' = v
    /\ pc' = IF stack = << >> THEN "destroy" ELSE "store"

(* is_buffer looks whether the first slot, taken as a buffer's size, agrees *)
(* with the size in the page header.  A closure whose only slot is null     *)
(* looks like an empty buffer too.                                          *)
SizeSlot(obj) ==
    IF obj.slots[1] <= 0 THEN -obj.slots[1]
    ELSE Len(obj.slots)   \* an address: no size that fits
IsBuffer(obj) == HeaderWords + SizeSlot(obj) = 1 + Len(obj.slots)

Forwarded(v) == heap[v].zone = "src" /\ heap[v].function = Redirect
ToBeCopied(v) ==
    IF v = Null THEN FALSE ELSE heap[v].zone = "src" /\ ~Forwarded(v)

PassBack ==
    /\ pc = "enter"
    /\ ~ToBeCopied(arg)
    /\ Return(IF arg = Null THEN Null
              ELSE IF Forwarded(arg) THEN heap[arg].slots[1] ELSE arg)
    /\ UNCHANGED <<heap, before, root, first, stack, arg>>

(* copy_buffer copies the function, the size and the bytes.                 *)
MakeForwarder(h, obj, target) ==
    [h EXCEPT ![obj].function = Redirect, ![obj].slots[1] = target]

Clone(obj) ==
    Closure("dest", obj.function,
            << Number(SizeSlot(obj)) >> \o SubSeq(obj.slots, 2, Len(obj.slots)))

CopyBufferOnly ==
    /\ pc = "enter"
    /\ ToBeCopied(arg) /\ IsBuffer(heap[arg])
    /\ heap' = Append(heap, Clone(heap[arg]))
    /\ Return(Len(heap) + 1)
    /\ UNCHANGED <<before, root, first, stack, arg>>

CopyBuffer ==
    /\ pc = "enter"
    /\ ToBeCopied(arg) /\ IsBuffer(heap[arg])
    /\ LET copy == Len(heap) + 1
       IN /\ heap' = MakeForwarder(Append(heap, Clone(heap[arg])), arg, copy)
          /\ Return(copy)
    /\ UNCHANGED <<before, root, first, stack, arg>>

EmptyCopy(obj) ==
    Closure("dest", obj.function, [i \in DOMAIN obj.slots |-> Null])

(* copy_closure allocates the copy and then copies the slots in turn.  The  *)
(* forwarder is made only when all of them are done.                        *)
BeginForwarding ==
    /\ pc = "enter"
    /\ ToBeCopied(arg) /\ ~IsBuffer(heap[arg])
    /\ heap' = MakeForwarder(Append(heap, EmptyCopy(heap[arg])), arg, Len(heap) + 1)
    /\ stack' = Append(stack, [obj |-> arg, out |-> Len(heap) + 1, slot |-> 1])
    /\ arg' = heap'[arg].slots[1]
    /\ UNCHANGED <<before, root, first, ret, pc>>

BeginClosure ==
    /\ pc = "enter"
    /\ ToBeCopied(arg) /\ ~IsBuffer(heap[arg])
    /\ heap' = Append(heap, EmptyCopy(heap[arg]))
    /\ stack' = Append(stack, [obj |-> arg, out |-> Len(heap) + 1, slot |-> 1])
    /\ arg' = heap[arg].slots[1]
    /\ UNCHANGED <<before, root, first, ret, pc>>

StoreSlot ==
    /\ pc = "store"
    /\ LET call == Last(stack)
           stored == [heap EXCEPT ![call.out].slots[call.slot] = ret]
       IN IF call.slot < Len(heap[call.obj].slots)
            THEN /\ heap' = stored
                 /\ stack' = Front(stack) \o << [call EXCEPT !.slot = @ + 1] >>
                 /\ arg' = heap[call.obj].slots[call.slot + 1]
                 /\ pc' = "enter"
                 /\ UNCHANGED ret
            ELSE /\ heap' = MakeForwarder(stored, call.obj, call.out)
                 /\ stack' = Front(stack)
                 /\ ret' = call.out
                 /\ pc' = IF Len(stack) = 1 THEN "destroy" ELSE "store"
                 /\ UNCHANGED arg
    /\ UNCHANGED <<before, root, first>>

(* zone_destroy(src): its objects are gone.                                 *)
Gone == Closure("gone", "gone", << >>)

DestroySource ==
    /\ pc = "destroy"
    /\ root' = ret
    /\ heap' = [o \in DOMAIN heap |-> IF heap[o].zone = "src" THEN Gone ELSE heap[o]]
    /\ pc' = "done"
    /\ UNCHANGED <<before, first, stack, arg, ret>>

Finished == pc = "done" /\ UNCHANGED vars

Next == PassBack \/ CopyBuffer \/ BeginClosure \/ StoreSlot \/ DestroySource \/ Finished
Spec == Init /\ [][Next]_vars

-----------------------------------------------------------------------------
TypeOK ==
    /\ \A o \in DOMAIN heap : heap[o].zone \in {"src", "dest", "elsewhere", "gone"}
    /\ root \in 0..Len(heap) /\ arg \in 0..Len(heap) /\ ret \in 0..Len(heap)
    /\ \A i \in DOMAIN stack : /\ heap[stack[i].out].zone = "dest"
                               /\ stack[i].slot \in 1..Len(heap[stack[i].obj].slots)
    /\ pc \in {"enter", "store", "destroy", "done"}

(* The objects r leads to in heap h.                                        *)
Slots(obj) == {obj.slots[i] : i \in DOMAIN obj.slots}
Reach(h, r) ==
    LET older(S) == S \cup UNION {Slots(h[o]) \cap (1..Len(h)) : o \in S}
        found[n \in 0..Len(h)] ==
          IF n = 0 THEN {r} \ {Null} ELSE older(found[n - 1])
    IN found[Len(h)]

(* f sends each object r led to before to the object in its place now.      *)
SameSlot(f, old, new) == IF old \in DOMAIN f THEN new = f[old] ELSE new = old
InPlaceOf(f, o) ==
    IF before[o].zone = "elsewhere"
      THEN f[o] = o /\ heap[o] = before[o]
      ELSE /\ heap[f[o]].zone = "dest"
           /\ heap[f[o]].function = before[o].function
           /\ Len(heap[f[o]].slots) = Len(before[o].slots)
           /\ \A i \in DOMAIN before[o].slots :
                SameSlot(f, before[o].slots[i], heap[f[o]].slots[i])

(* collect_zone promises "the copied root object, now that it lives in the  *)
(* dest zone".  The graph below it has to be the graph that was: objects    *)
(* outside the zone in their place, every other one copied, two slots that  *)
(* shared an object still sharing one, and nothing that refers to the pages *)
(* that are given back.                                                     *)
SameGraph ==
    pc = "done" =>
        LET old == Reach(before, first)
            new == Reach(heap, root)
        IN \E f \in [old -> new] :
             /\ \A o, p \in old : f[o] = f[p] => o = p
             /\ \A o \in old : InPlaceOf(f, o)
             /\ f[first] = root

(* "in time it is O(n) on the number of objects in the source zone": each   *)
(* object the root leads to is copied once, the others not at all.          *)
CopiesEachOnce ==
    LET live == {o \in Reach(before, first) : before[o].zone = "src"}
    IN Len(heap) <= Len(before) + Cardinality(live)
=============================================================================
