------------------------------ MODULE MCMemory ------------------------------
(* Finite instances of the zones and of the collector for TLC, side by      *)
(* side: a behaviour is the history of a VM's pages, or one collection.     *)
EXTENDS Zones, TLC

CONSTANTS main, worker,          \* the threads
          MaxObjects, MaxSlots   \* see Collector

VARIABLES kind,   \* what the behaviour is of
          heap, before, root, first, stack, arg, ret, at   \* see Collector

C == INSTANCE Collector WITH pc <- at

collectorVars == <<heap, before, root, first, stack, arg, ret, at>>
memoryVars == <<vars, kind, collectorVars>>

\* Nothing to collect.
Nothing == << C!Closure("elsewhere", "f", << C!Null >>) >>
NoCollection ==
    /\ heap = Nothing /\ before = Nothing
    /\ root = C!Null /\ first = C!Null /\ arg = C!Null /\ ret = C!Null
    /\ stack = << >> /\ at = "done"

MemoryInit == \/ kind = "zones" /\ Init /\ NoCollection
              \/ kind = "collector" /\ C!Init /\ Init

MemoryNext ==
    \/ kind = "zones" /\ Next /\ UNCHANGED <<kind, collectorVars>>
    \/ kind = "collector" /\ C!Next /\ UNCHANGED <<kind, vars>>

MemorySpec == MemoryInit /\ [][MemoryNext]_memoryVars

(* Threads are interchangeable.                                             *)
ThreadSymmetry == Permutations(Threads)

-----------------------------------------------------------------------------
(* Types of the variables of either, with the bounds on the header fields   *)
(* of a page (allocator.c) and on the slot of a call of copy_closure.       *)
MemoryTypeOK == TypeOK /\ (kind = "collector" => C!TypeOK)

(* collect_zone's answer is the "object, now that it lives in the dest zone" *)
(* (collector.c:169), and leads to the graph the root led to.               *)
SameGraph == kind = "collector" => C!SameGraph

(* "in time it is O(n) on the number of objects" (collector.c:22): every    *)
(* object the root leads to is copied once.                                 *)
CopiesEachOnce == kind = "collector" => C!CopiesEachOnce
=============================================================================
