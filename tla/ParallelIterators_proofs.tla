---------------------- MODULE ParallelIterators_proofs ----------------------
(* For any number of workers, loops and sequences: the variables of the     *)
(* parallel loop engine keep to their types, no wrapper is flattened by two *)
(* threads, a worker that finds a task can start on it, a task is never     *)
(* written over, and a wrapper keeps the answers it has.  A loop has one    *)
(* wrapper for each iterator, linked in order, with the answers of that     *)
(* iterator, made in its loop's zone; no wrapper is lost, and the loop is   *)
(* told what a plain one would be.  The last part is about ProgramZones.    *)
EXTENDS ProgramZones, SequenceTheorems, TLAPS

(* Inside queue_iterator, before the wrapper has found a worker.            *)
Offering == {"look", "trylock", "recheck", "setzone", "settask", "unlock"}
Holding == {"recheck", "setzone", "settask", "assigned", "unlock"}
LoopLabels == {"between", "start", "body", "read"}
MasterLabels == LoopLabels \cup {"check", "walk", "progress", "advance"}
WorkerLabels == {"idle", "clearzone", "cleartask"}

(* Each thread runs its own part of the code.                               *)
RolesOK == /\ pc[Main] \notin WorkerLabels
           /\ \A w \in Workers : pc[w] \notin MasterLabels

(* What the place a thread has reached says of its own variables.           *)
PlaceOK ==
    \A t \in Threads :
        /\ pc[t] \in Holding \cup {"trylock"} => idx[t] \in Workers
        /\ pc[t] \in QueueingLabels \cup {"start"} => fresh[t] \in References
        /\ pc[t] = "link" => fresh[t] # NULL
        /\ pc[t] \notin QueueingLabels \cup {"start", "link"}
             => fresh[t] = NULL
        /\ pc[t] = "fetch" => arg[t] # NULL

(* A thread that flattens a wrapper has one that still needs it.            *)
FlatteningOK ==
    \A t \in Threads :
        Flattening(t) => arg[t] \in References /\ heap[arg[t]].wrapped # NULL

MasterPlaceOK ==
    /\ pc[Main] = "progress" => arg[Main] # NULL
    /\ pc[Main] = "advance" => arg[Main] \in References
    /\ pc[Main] \in {"between", "start"} => iter = NULL
    /\ pc[Main] \notin {"between", "start"} \cup QueueingLabels => iter # NULL
    /\ pc[Main] # "between" => loop # 0

(* The lock keeps other threads from the task variable of an idle worker.   *)
LockOK ==
    \A t \in Threads :
        /\ pc[t] \in Holding => lock[idx[t]] = t
        /\ pc[t] \in {"setzone", "settask"} => task[idx[t]] = NULL
        /\ pc[t] = "settask" => zone[idx[t]] # NULL

(* A worker's progress follows its task.                                    *)
WorkerOK ==
    \A w \in Workers :
        /\ pc[w] # "idle" => task[w] # NULL
        /\ pc[w] \notin WorkerLabels => arg[w] = task[w]
        /\ task[w] # NULL /\ pc[w] # "cleartask" => zone[w] # NULL
        /\ task[w] # NULL /\ pc[w] = "idle" => heap[task[w]].wrapped # NULL

(* A wrapper that is being made is known to its maker, and once assigned to *)
(* a worker, and to nobody else.                                            *)
FreshIsPrivate ==
    \A t \in Threads :
        fresh[t] \in References =>
            /\ \A u \in Threads : u # t => fresh[u] # fresh[t]
            /\ \A v \in References : heap[v].next # fresh[t]
            /\ iter # fresh[t] /\ held # fresh[t] /\ arg[Main] # fresh[t]
            /\ pc[t] \in Offering =>
                 /\ heap[fresh[t]].wrapped # NULL
                 /\ \A w \in Workers : task[w] # fresh[t]

(* No two workers have the same task.                                       *)
TasksDiffer ==
    \A v, w \in Workers : v # w /\ task[v] # NULL => task[v] # task[w]

(* What the master has looked at, and what it has decided to flatten, is no *)
(* worker's task: nobody can assign it any more, since it is linked.        *)
MasterAlone ==
    /\ pc[Main] = "progress" =>
         \A w \in Workers : w < idx[Main] => task[w] # arg[Main]
    /\ pc[Main] = "fetch" \/ Flattening(Main) =>
         \A w \in Workers : task[w] # arg[Main]

(* A wrapper gets its answers in order, so a finished one has a successor   *)
(* unless it is the terminator.                                             *)
AnswersInOrder ==
    /\ \A t \in Threads :
         Flattening(t) =>
            /\ pc[t] \in {"wrap", "link", "current"} \cup QueueingLabels
                 => heap[arg[t]].valid # False
            /\ pc[t] = "current" => heap[arg[t]].next # NULL
            /\ pc[t] = "clear" => \/ heap[arg[t]].valid = False
                                  \/ heap[arg[t]].next # NULL
    /\ \A w \in References :
         heap[w].wrapped = NULL => \/ heap[w].valid = False
                                   \/ heap[w].next # NULL

(* The loop asks for the element and the successor of valid iterators only, *)
(* so it goes round with an iterator in its hands.                          *)
LoopOK ==
    /\ want \in {"current", "next"} \/ todo \cap {"current", "next"} # {}
         => /\ iter # NULL
            /\ heap[iter].wrapped = NULL
            /\ heap[iter].valid = True
    /\ iter # NULL /\ "next" \notin todo /\ "is_valid" \notin todo
       /\ want \notin {"is_valid", "next"}
         => held # NULL
    /\ pc[Main] = "read" => heap[iter].wrapped = NULL
    /\ held = Thrown => failed
    /\ pc[Main] = "body" => want = "none"
    /\ iter = NULL => todo = {} /\ want = "none"

IInv == /\ TypeOK /\ RolesOK /\ PlaceOK /\ FlatteningOK /\ MasterPlaceOK
        /\ LockOK /\ WorkerOK /\ FreshIsPrivate /\ TasksDiffer
        /\ MasterAlone /\ AnswersInOrder /\ LoopOK
-----------------------------------------------------------------------------
USE NumWorkersAssumption
USE DEF NumWorkersAssumption, NULL, Thrown, True, False, NoThread, Main, Workers,
        Threads

(* The heap is a sequence of wrappers.                                      *)
LEMMA HeapShape ==
  ASSUME TypeOK
  PROVE  /\ Len(heap) \in Nat
         /\ References \subseteq Nat \ {NULL}
         /\ \A w \in References : heap[w] \in Wrapper
<1>1. heap \in Seq(Wrapper)
  BY DEF TypeOK, HeapType
<1>2. Len(heap) \in Nat
  BY <1>1, LenProperties
<1>3. \A w \in References : heap[w] \in Wrapper
  BY <1>1, ElementOfSeq DEF References
<1> QED BY <1>2, <1>3 DEF References

(* Writing a slot keeps it one.                                             *)
LEMMA SlotStored ==
  ASSUME TypeOK, NEW w \in References, NEW r \in Wrapper,
         heap' = [heap EXCEPT ![w] = r]
  PROVE  /\ References' = References
         /\ Wrapper' = Wrapper
         /\ heap' \in Seq(Wrapper)
         /\ \A v \in References : heap'[v] = IF v = w THEN r ELSE heap[v]
<1>1. heap \in Seq(Wrapper) /\ w \in 1..Len(heap)
  BY DEF TypeOK, HeapType, References
<1>2. /\ heap' \in Seq(Wrapper)
      /\ Len(heap') = Len(heap)
      /\ \A v \in 1..Len(heap) : heap'[v] = IF v = w THEN r ELSE heap[v]
  BY <1>1, ExceptSeq
<1>3. References' = References
  BY <1>2 DEF References
<1>4. Wrapper' = Wrapper
  BY <1>3 DEF Wrapper
<1> QED BY <1>2, <1>3, <1>4 DEF References

(* Allocating a wrapper makes one new reference.                            *)
LEMMA WrapperAllocated ==
  ASSUME TypeOK, NEW r \in Wrapper, heap' = Append(heap, r)
  PROVE  /\ References' = References \cup {Len(heap) + 1}
         /\ Len(heap) + 1 \notin References
         /\ Len(heap) + 1 \notin {NULL, Thrown}
         /\ heap' \in Seq(Wrapper')
         /\ heap'[Len(heap) + 1] = r
         /\ \A v \in References : heap'[v] = heap[v]
<1>1. heap \in Seq(Wrapper) /\ Len(heap) \in Nat
  BY HeapShape DEF TypeOK, HeapType
<1>2. /\ heap' \in Seq(Wrapper)
      /\ Len(heap') = Len(heap) + 1
      /\ \A v \in 1..Len(heap) : heap'[v] = heap[v]
      /\ heap'[Len(heap) + 1] = r
  BY <1>1, AppendProperties
<1>3. References' = References \cup {Len(heap) + 1}
  BY <1>1, <1>2 DEF References
<1>4. Wrapper \subseteq Wrapper'
  BY <1>3 DEF Wrapper
<1>5. heap' \in Seq(Wrapper')
  BY <1>2, <1>4, SeqMonotonic
<1> QED BY <1>1, <1>2, <1>3, <1>5 DEF References

LEMMA HeapUntouched ==
  ASSUME heap' = heap
  PROVE  References' = References /\ Wrapper' = Wrapper
<1>1. References' = References
  BY DEF References
<1> QED BY <1>1 DEF Wrapper

(* A thread inside process_iterator has a wrapper that needs it.            *)
LEMMA InHand ==
  ASSUME IInv, NEW t \in Threads,
         pc[t] \in {"valid", "wrap", "link", "current", "clear"}
  PROVE  /\ Flattening(t) /\ arg[t] \in References
         /\ heap[arg[t]].wrapped # NULL
<1>1. t = Main => iter # NULL
  BY DEF IInv, MasterPlaceOK, QueueingLabels
<1>2. Flattening(t)
  BY <1>1 DEF Flattening
<1> QED BY <1>2 DEF IInv, FlatteningOK

(* The invariant is strong enough.                                          *)
LEMMA Exclusive == IInv => FlattenedByOne
<1> SUFFICES ASSUME IInv, NEW t \in Threads, NEW u \in Threads, t # u,
                    Flattening(t), Flattening(u)
             PROVE  arg[t] # arg[u]
  BY DEF FlattenedByOne
<1>1. \A w \in Workers : Flattening(w) => task[w] # NULL /\ arg[w] = task[w]
  BY DEF IInv, WorkerOK, WorkerLabels, Flattening, QueueingLabels
<1>2. CASE t \in Workers /\ u \in Workers
  BY <1>1, <1>2 DEF IInv, TasksDiffer
<1>3. CASE t = Main \/ u = Main
  BY <1>1, <1>3 DEF IInv, MasterAlone
<1> QED BY <1>2, <1>3

LEMMA NextIndex ==
  \A k \in Workers : k \in 1..(NumWorkers + 1) /\ k + 1 \in 1..(NumWorkers + 1)
OBVIOUS

(* Init establishes the invariant.                                          *)
LEMMA InitIInv == Init => IInv
<1> SUFFICES ASSUME Init PROVE IInv
  OBVIOUS
<1>1. HeapType
  BY EmptySeq DEF Init, HeapType
<1>2. ThreadTypes /\ WorkerTypes
  BY MaxLoopsAssumption
     DEF Init, ThreadTypes, WorkerTypes, Labels, MaxLoopsAssumption
<1>3. LoopTypes
  <2>1. program \in [1..MaxLoops -> Sources] /\ loop \in 0..MaxLoops
    BY MaxLoopsAssumption DEF Init, MaxLoopsAssumption
  <2>2. reply \in (Methods \cup {"none"}) \X (Nat \cup {Thrown})
    BY DEF Init
  <2> QED BY <2>1, <2>2 DEF Init, LoopTypes
<1>4. RolesOK /\ PlaceOK /\ FlatteningOK /\ MasterPlaceOK
  BY DEF Init, RolesOK, PlaceOK, FlatteningOK, MasterPlaceOK, QueueingLabels,
         Holding, MasterLabels, LoopLabels, WorkerLabels, Flattening
<1>5. LockOK /\ WorkerOK /\ FreshIsPrivate /\ TasksDiffer
  BY DEF Init, LockOK, WorkerOK, FreshIsPrivate, TasksDiffer, Holding,
         References
<1>6. MasterAlone /\ LoopOK
  BY DEF Init, MasterAlone, LoopOK, Flattening, QueueingLabels
<1>7. AnswersInOrder
  BY DEF Init, AnswersInOrder, Flattening, References, QueueingLabels
<1> QED BY <1>1, <1>2, <1>3, <1>4, <1>5, <1>6, <1>7 DEF IInv, TypeOK

(* process_iterator picks up its wrapper.                                   *)
LEMMA FetchStep == ASSUME IInv, NEW t \in Threads, Fetch(t) PROVE IInv'
<1> USE DEF IInv, TypeOK, Fetch, loopVars, workerVars, Return, Goto
<1>1. References' = References /\ Wrapper' = Wrapper
  BY HeapUntouched
<1>2. HeapType'
  BY <1>1 DEF HeapType
<1>3. ThreadTypes'
  <2>1. arg[t] \in References \cup {Thrown}
    BY DEF ThreadTypes, PlaceOK
  <2>2. source' \in [Threads -> Nat]
    BY <2>1, HeapShape DEF ThreadTypes, Wrapper
  <2> QED BY <1>1, <2>2 DEF ThreadTypes, Labels
<1>4. WorkerTypes'
  BY <1>1 DEF WorkerTypes
<1>5. LoopTypes'
  BY <1>1 DEF LoopTypes
<1>6. RolesOK'
  BY <1>1 DEF ThreadTypes, RolesOK, MasterLabels, LoopLabels, WorkerLabels
<1>7. PlaceOK'
  BY <1>1, HeapShape DEF ThreadTypes, PlaceOK, Holding, QueueingLabels
<1>8. FlatteningOK'
  BY <1>1 DEF ThreadTypes, PlaceOK, FlatteningOK, Flattening,
     QueueingLabels
<1>9. MasterPlaceOK'
  BY <1>1 DEF ThreadTypes, MasterPlaceOK, QueueingLabels
<1>10. LockOK'
  BY <1>1 DEF ThreadTypes, LockOK, Holding
<1>11. WorkerOK'
  BY <1>1 DEF ThreadTypes, WorkerOK, WorkerLabels
<1>12. FreshIsPrivate'
  BY <1>1 DEF ThreadTypes, FreshIsPrivate, Offering
<1>13. TasksDiffer'
  BY <1>1 DEF TasksDiffer
<1>14. MasterAlone'
  BY <1>1 DEF ThreadTypes, MasterAlone, Flattening, QueueingLabels
<1>15. AnswersInOrder'
  BY <1>1 DEF ThreadTypes, AnswersInOrder, Flattening, QueueingLabels
<1>16. LoopOK'
  BY <1>1 DEF ThreadTypes, LoopTypes, LoopOK, MasterPlaceOK,
     QueueingLabels
<1> QED BY <1>2, <1>3, <1>4, <1>5, <1>6, <1>7, <1>8, <1>9, <1>10, <1>11, <1>12,
   <1>13, <1>14, <1>15, <1>16

(* worker_main finds a task.                                                *)
LEMMA TakeTaskStep == ASSUME IInv, NEW w \in Workers, TakeTask(w) PROVE IInv'
<1> USE DEF IInv, TypeOK, TakeTask, loopVars, workerVars, Goto
<1>1. References' = References /\ Wrapper' = Wrapper
  BY HeapUntouched
<1>2. HeapType'
  BY <1>1 DEF HeapType
<1>3. ThreadTypes'
  BY <1>1 DEF ThreadTypes, WorkerTypes, Labels
<1>4. WorkerTypes'
  BY <1>1 DEF WorkerTypes
<1>5. LoopTypes'
  BY <1>1 DEF LoopTypes
<1>6. RolesOK'
  BY <1>1 DEF ThreadTypes, RolesOK, MasterLabels, LoopLabels, WorkerLabels
<1>7. PlaceOK'
  BY <1>1, HeapShape DEF ThreadTypes, PlaceOK, Holding, QueueingLabels
<1>8. FlatteningOK'
  BY <1>1 DEF ThreadTypes, FlatteningOK, Flattening, QueueingLabels
<1>9. MasterPlaceOK'
  BY <1>1 DEF ThreadTypes, MasterPlaceOK, QueueingLabels
<1>10. LockOK'
  BY <1>1 DEF ThreadTypes, LockOK, Holding
<1>11. WorkerOK'
  BY <1>1 DEF ThreadTypes, WorkerOK, WorkerLabels
<1>12. FreshIsPrivate'
  BY <1>1 DEF ThreadTypes, FreshIsPrivate, Offering
<1>13. TasksDiffer'
  BY <1>1 DEF TasksDiffer
<1>14. MasterAlone'
  BY <1>1 DEF ThreadTypes, MasterAlone, Flattening, QueueingLabels
<1>15. AnswersInOrder'
  BY <1>1 DEF ThreadTypes, AnswersInOrder, Flattening, QueueingLabels
<1>16. LoopOK'
  BY <1>1 DEF ThreadTypes, LoopTypes, LoopOK, MasterPlaceOK,
     QueueingLabels
<1> QED BY <1>2, <1>3, <1>4, <1>5, <1>6, <1>7, <1>8, <1>9, <1>10, <1>11, <1>12,
   <1>13, <1>14, <1>15, <1>16

(* queue_iterator looks at a worker, or is at the end of its loop.          *)
LEMMA LookStep == ASSUME IInv, NEW t \in Threads, Look(t) PROVE IInv'
<1> USE DEF IInv, TypeOK, workerVars, loopVars
<1>1. References' = References /\ Wrapper' = Wrapper
  BY HeapUntouched DEF Look, loopVars, workerVars, Goto, NextWorker
<1>2. /\ pc[t] = "look"
      /\ \/ /\ pc' = [pc EXCEPT ![t] = "start"] /\ idx' = idx
            /\ t = Main /\ iter = NULL
         \/ /\ pc' = [pc EXCEPT ![t] = "link"] /\ idx' = idx
            /\ t # Main \/ iter # NULL
         \/ /\ pc' = [pc EXCEPT ![t] = "look"]
            /\ idx' = [idx EXCEPT ![t] = idx[t] + 1]
            /\ idx[t] \in Workers
         \/ /\ pc' = [pc EXCEPT ![t] = "trylock"] /\ idx' = idx
            /\ idx[t] \in Workers
  BY DEF Look, Goto, NextWorker, AfterQueueing
<1>3. UNCHANGED <<heap, arg, source, fresh, workerVars, loopVars>>
  BY DEF Look, Goto, NextWorker, AfterQueueing
<1>4. HeapType'
  BY <1>1, <1>2, <1>3 DEF HeapType
<1>5. ThreadTypes'
  <2>1. idx' \in [Threads -> 1..(NumWorkers + 1)]
    BY <1>2, NextIndex DEF ThreadTypes
  <2>2. pc' \in [Threads -> Labels]
    BY <1>2 DEF ThreadTypes, Labels
  <2> QED BY <1>1, <1>3, <2>1, <2>2 DEF ThreadTypes
<1>6. WorkerTypes'
  BY <1>1, <1>2, <1>3 DEF WorkerTypes
<1>7. LoopTypes'
  BY <1>1, <1>2, <1>3 DEF LoopTypes
<1>8. RolesOK'
  BY <1>2 DEF ThreadTypes, RolesOK, MasterLabels, LoopLabels, WorkerLabels
<1>9. PlaceOK'
  BY <1>1, <1>2, <1>3, HeapShape DEF ThreadTypes, PlaceOK, Holding,
     QueueingLabels
<1>10. FlatteningOK'
  BY <1>1, <1>2, <1>3 DEF ThreadTypes, FlatteningOK, Flattening,
     QueueingLabels
<1>11. MasterPlaceOK'
  BY <1>1, <1>2, <1>3 DEF ThreadTypes, MasterPlaceOK, QueueingLabels
<1>12. LockOK'
  BY <1>1, <1>2, <1>3 DEF ThreadTypes, LockOK, Holding
<1>13. WorkerOK'
  BY <1>1, <1>2, <1>3 DEF ThreadTypes, WorkerOK, WorkerLabels
<1>14. FreshIsPrivate'
  BY <1>1, <1>2, <1>3 DEF ThreadTypes, FreshIsPrivate, Offering
<1>15. TasksDiffer'
  BY <1>1, <1>2, <1>3 DEF TasksDiffer
<1>16. MasterAlone'
  BY <1>1, <1>2, <1>3 DEF ThreadTypes, MasterAlone, Flattening,
     QueueingLabels
<1>17. AnswersInOrder'
  BY <1>1, <1>2, <1>3 DEF ThreadTypes, AnswersInOrder, Flattening,
     QueueingLabels
<1>18. LoopOK'
  BY <1>1, <1>2, <1>3 DEF ThreadTypes, LoopTypes, LoopOK, MasterPlaceOK,
     QueueingLabels
<1> QED BY <1>4, <1>5, <1>6, <1>7, <1>8, <1>9, <1>10, <1>11, <1>12, <1>13, <1>14,
   <1>15, <1>16, <1>17, <1>18

(* trylock: take the lock, or go on to the next worker.                     *)
LEMMA TryLockStep == ASSUME IInv, NEW t \in Threads, TryLock(t) PROVE IInv'
<1> USE DEF IInv, TypeOK, workerVars, loopVars
<1>1. References' = References /\ Wrapper' = Wrapper
  BY HeapUntouched DEF TryLock, loopVars, Goto, NextWorker
<1>2. /\ pc[t] = "trylock"
      /\ \/ /\ pc' = [pc EXCEPT ![t] = "recheck"] /\ idx' = idx
            /\ lock[idx[t]] = NoThread
            /\ lock' = [lock EXCEPT ![idx[t]] = t]
         \/ /\ pc' = [pc EXCEPT ![t] = "look"]
            /\ idx' = [idx EXCEPT ![t] = idx[t] + 1]
            /\ lock' = lock
      /\ idx[t] \in Workers
  BY DEF TryLock, loopVars, Goto, NextWorker, PlaceOK, Holding
<1>3. UNCHANGED <<heap, arg, source, fresh, task, zone, loopVars>>
  BY DEF TryLock, loopVars, Goto, NextWorker, PlaceOK, Holding
<1>4. HeapType'
  BY <1>1, <1>2, <1>3 DEF HeapType
<1>5. ThreadTypes'
  <2>1. idx' \in [Threads -> 1..(NumWorkers + 1)]
    BY <1>2, NextIndex DEF ThreadTypes
  <2>2. pc' \in [Threads -> Labels]
    BY <1>2 DEF ThreadTypes, Labels
  <2> QED BY <1>1, <1>3, <2>1, <2>2 DEF ThreadTypes
<1>6. WorkerTypes'
  BY <1>1, <1>2, <1>3 DEF WorkerTypes
<1>7. LoopTypes'
  BY <1>1, <1>2, <1>3 DEF LoopTypes
<1>8. RolesOK'
  BY <1>2 DEF ThreadTypes, RolesOK, MasterLabels, LoopLabels, WorkerLabels
<1>9. PlaceOK'
  BY <1>1, <1>2, <1>3, HeapShape DEF ThreadTypes, PlaceOK, Holding,
     QueueingLabels
<1>10. FlatteningOK'
  BY <1>1, <1>2, <1>3 DEF ThreadTypes, FlatteningOK, Flattening,
     QueueingLabels
<1>11. MasterPlaceOK'
  BY <1>1, <1>2, <1>3 DEF ThreadTypes, MasterPlaceOK, QueueingLabels
<1>12. LockOK'
  <2> SUFFICES ASSUME NEW u \in Threads
               PROVE  LockOK!(u)'
    BY DEF LockOK
  <2>1. CASE u = t
    BY <1>2, <1>3, <2>1 DEF ThreadTypes, WorkerTypes, PlaceOK, LockOK, Holding
  <2>2. CASE u # t
    <3>1. pc'[u] = pc[u] /\ idx'[u] = idx[u]
      BY <1>2, <2>2 DEF ThreadTypes
    <3>2. pc[u] \in Holding => idx[u] \in Workers /\ lock[idx[u]] = u
      BY DEF PlaceOK, LockOK
    <3>3. pc[u] \in Holding => lock'[idx[u]] = u
      BY <1>2, <2>2, <3>2 DEF WorkerTypes, LockOK, Holding
    <3> QED BY <1>3, <3>1, <3>3 DEF LockOK, Holding
  <2> QED BY <2>1, <2>2
<1>13. WorkerOK'
  BY <1>1, <1>2, <1>3 DEF ThreadTypes, WorkerOK, WorkerLabels
<1>14. FreshIsPrivate'
  BY <1>1, <1>2, <1>3 DEF ThreadTypes, FreshIsPrivate, Offering
<1>15. TasksDiffer'
  BY <1>1, <1>2, <1>3 DEF TasksDiffer
<1>16. MasterAlone'
  BY <1>1, <1>2, <1>3 DEF ThreadTypes, MasterAlone, Flattening,
     QueueingLabels
<1>17. AnswersInOrder'
  BY <1>1, <1>2, <1>3 DEF ThreadTypes, AnswersInOrder, Flattening,
     QueueingLabels
<1>18. LoopOK'
  BY <1>1, <1>2, <1>3 DEF ThreadTypes, LoopTypes, LoopOK, MasterPlaceOK,
     QueueingLabels
<1> QED BY <1>4, <1>5, <1>6, <1>7, <1>8, <1>9, <1>10, <1>11, <1>12, <1>13, <1>14,
   <1>15, <1>16, <1>17, <1>18

(* recheck under the lock.                                                  *)
LEMMA RecheckStep == ASSUME IInv, NEW t \in Threads, Recheck(t) PROVE IInv'
<1> USE DEF IInv, TypeOK, Recheck, loopVars, workerVars, Goto
<1>1. References' = References /\ Wrapper' = Wrapper
  BY HeapUntouched
<1>2. HeapType'
  BY <1>1 DEF HeapType
<1>3. ThreadTypes'
  BY <1>1 DEF ThreadTypes, Labels
<1>4. WorkerTypes'
  BY <1>1 DEF WorkerTypes
<1>5. LoopTypes'
  BY <1>1 DEF LoopTypes
<1>6. RolesOK'
  BY <1>1 DEF ThreadTypes, RolesOK, MasterLabels, LoopLabels, WorkerLabels
<1>7. PlaceOK'
  BY <1>1, HeapShape DEF ThreadTypes, PlaceOK, Holding, QueueingLabels
<1>8. FlatteningOK'
  BY <1>1 DEF ThreadTypes, FlatteningOK, Flattening, QueueingLabels
<1>9. MasterPlaceOK'
  BY <1>1 DEF ThreadTypes, MasterPlaceOK, QueueingLabels
<1>10. LockOK'
  BY <1>1 DEF ThreadTypes, LockOK, Holding
<1>11. WorkerOK'
  BY <1>1 DEF ThreadTypes, WorkerOK, WorkerLabels
<1>12. FreshIsPrivate'
  BY <1>1 DEF ThreadTypes, FreshIsPrivate, Offering
<1>13. TasksDiffer'
  BY <1>1 DEF TasksDiffer
<1>14. MasterAlone'
  BY <1>1 DEF ThreadTypes, MasterAlone, Flattening, QueueingLabels
<1>15. AnswersInOrder'
  BY <1>1 DEF ThreadTypes, AnswersInOrder, Flattening, QueueingLabels
<1>16. LoopOK'
  BY <1>1 DEF ThreadTypes, LoopTypes, LoopOK, MasterPlaceOK,
     QueueingLabels
<1> QED BY <1>2, <1>3, <1>4, <1>5, <1>6, <1>7, <1>8, <1>9, <1>10, <1>11, <1>12,
   <1>13, <1>14, <1>15, <1>16

(* The zone goes first.                                                     *)
LEMMA SetZoneStep == ASSUME IInv, NEW t \in Threads, SetZone(t) PROVE IInv'
<1> USE DEF IInv, TypeOK, SetZone, loopVars, Goto
<1>1. References' = References /\ Wrapper' = Wrapper
  BY HeapUntouched
<1>2. HeapType'
  BY <1>1 DEF HeapType
<1>3. ThreadTypes'
  BY <1>1 DEF ThreadTypes, Labels
<1>4. WorkerTypes'
  BY <1>1 DEF WorkerTypes, LoopTypes, PlaceOK, Holding, ZoneOf
<1>5. LoopTypes'
  BY <1>1 DEF LoopTypes
<1>6. RolesOK'
  BY <1>1 DEF ThreadTypes, RolesOK, MasterLabels, LoopLabels, WorkerLabels
<1>7. PlaceOK'
  BY <1>1, HeapShape DEF ThreadTypes, PlaceOK, Holding, QueueingLabels
<1>8. FlatteningOK'
  BY <1>1 DEF ThreadTypes, FlatteningOK, Flattening, QueueingLabels
<1>9. MasterPlaceOK'
  BY <1>1 DEF ThreadTypes, MasterPlaceOK, QueueingLabels
<1>10. LockOK'
  BY <1>1 DEF ThreadTypes, WorkerTypes, PlaceOK, LockOK, Holding, ZoneOf,
     WorkerOK, MasterPlaceOK, WorkerLabels
<1>11. WorkerOK'
  BY <1>1 DEF ThreadTypes, WorkerTypes, WorkerOK, WorkerLabels, LockOK
<1>12. FreshIsPrivate'
  BY <1>1 DEF ThreadTypes, FreshIsPrivate, Offering
<1>13. TasksDiffer'
  BY <1>1 DEF TasksDiffer
<1>14. MasterAlone'
  BY <1>1 DEF ThreadTypes, MasterAlone, Flattening, QueueingLabels
<1>15. AnswersInOrder'
  BY <1>1 DEF ThreadTypes, AnswersInOrder, Flattening, QueueingLabels
<1>16. LoopOK'
  BY <1>1 DEF ThreadTypes, LoopTypes, LoopOK, MasterPlaceOK,
     QueueingLabels
<1> QED BY <1>2, <1>3, <1>4, <1>5, <1>6, <1>7, <1>8, <1>9, <1>10, <1>11, <1>12,
   <1>13, <1>14, <1>15, <1>16

(* The task goes last.                                                      *)
LEMMA SetTaskStep == ASSUME IInv, NEW t \in Threads, SetTask(t) PROVE IInv'
<1> USE DEF IInv, TypeOK, SetTask, loopVars, Goto
<1>1. References' = References /\ Wrapper' = Wrapper
  BY HeapUntouched
<1>2. HeapType'
  BY <1>1 DEF HeapType
<1>3. ThreadTypes'
  BY <1>1 DEF ThreadTypes, Labels
<1>4. WorkerTypes'
  BY <1>1 DEF ThreadTypes, WorkerTypes, PlaceOK, QueueingLabels
<1>5. LoopTypes'
  BY <1>1 DEF LoopTypes
<1>6. RolesOK'
  BY <1>1 DEF ThreadTypes, RolesOK, MasterLabels, LoopLabels, WorkerLabels
<1>7. PlaceOK'
  BY <1>1, HeapShape DEF ThreadTypes, PlaceOK, Holding, QueueingLabels
<1>8. FlatteningOK'
  BY <1>1 DEF ThreadTypes, FlatteningOK, Flattening, QueueingLabels
<1>9. MasterPlaceOK'
  BY <1>1 DEF ThreadTypes, MasterPlaceOK, QueueingLabels
<1>10. LockOK'
  BY <1>1 DEF ThreadTypes, WorkerTypes, PlaceOK, LockOK, Holding
<1>11. WorkerOK'
  <2>1. /\ fresh[t] \in References /\ heap[fresh[t]].wrapped # NULL
        /\ idx[t] \in Workers /\ task[idx[t]] = NULL /\ zone[idx[t]] # NULL
    BY DEF PlaceOK, FreshIsPrivate, LockOK, QueueingLabels, Offering, Holding
  <2>2. pc[idx[t]] = "idle" /\ t # idx[t]
    BY <2>1 DEF WorkerOK
  <2> QED BY <2>1, <2>2, HeapShape DEF ThreadTypes, WorkerTypes, WorkerOK,
       WorkerLabels
<1>12. FreshIsPrivate'
  BY <1>1 DEF ThreadTypes, WorkerTypes, FreshIsPrivate, Offering, PlaceOK,
     QueueingLabels, Holding
<1>13. TasksDiffer'
  BY <1>1, HeapShape DEF ThreadTypes, WorkerTypes, TasksDiffer,
     FreshIsPrivate, Offering, PlaceOK, QueueingLabels, Holding
<1>14. MasterAlone'
  BY <1>1, HeapShape DEF ThreadTypes, WorkerTypes, MasterAlone,
     Flattening, QueueingLabels, FreshIsPrivate, PlaceOK
<1>15. AnswersInOrder'
  BY <1>1 DEF ThreadTypes, AnswersInOrder, Flattening, QueueingLabels
<1>16. LoopOK'
  BY <1>1 DEF ThreadTypes, LoopTypes, LoopOK, MasterPlaceOK,
     QueueingLabels
<1> QED BY <1>2, <1>3, <1>4, <1>5, <1>6, <1>7, <1>8, <1>9, <1>10, <1>11, <1>12,
   <1>13, <1>14, <1>15, <1>16

(* The lock is released.                                                    *)
LEMMA UnlockStep == ASSUME IInv, NEW t \in Threads, Unlock(t) PROVE IInv'
<1> USE DEF IInv, TypeOK, workerVars, loopVars
<1>1. References' = References /\ Wrapper' = Wrapper
  BY HeapUntouched DEF Unlock, loopVars, Goto, NextWorker
<1>2. /\ pc[t] \in {"unlock", "assigned"}
      /\ lock' = [lock EXCEPT ![idx[t]] = NoThread]
      /\ \/ /\ pc' = [pc EXCEPT ![t] = "start"] /\ idx' = idx
            /\ t = Main /\ iter = NULL
         \/ /\ pc' = [pc EXCEPT ![t] = "link"] /\ idx' = idx
            /\ t # Main \/ iter # NULL
         \/ /\ pc' = [pc EXCEPT ![t] = "look"] /\ pc[t] = "unlock"
            /\ idx' = [idx EXCEPT ![t] = idx[t] + 1]
      /\ idx[t] \in Workers
  BY DEF Unlock, Goto, NextWorker, AfterQueueing, PlaceOK, Holding
<1>3. UNCHANGED <<heap, arg, source, fresh, task, zone, loopVars>>
  BY DEF Unlock, Goto, NextWorker, AfterQueueing, PlaceOK, Holding
<1>4. HeapType'
  BY <1>1, <1>2, <1>3 DEF HeapType
<1>5. ThreadTypes'
  <2>1. idx' \in [Threads -> 1..(NumWorkers + 1)]
    BY <1>2, NextIndex DEF ThreadTypes
  <2>2. pc' \in [Threads -> Labels]
    BY <1>2 DEF ThreadTypes, Labels
  <2> QED BY <1>1, <1>3, <2>1, <2>2 DEF ThreadTypes
<1>6. WorkerTypes'
  BY <1>1, <1>2, <1>3 DEF WorkerTypes
<1>7. LoopTypes'
  BY <1>1, <1>2, <1>3 DEF LoopTypes
<1>8. RolesOK'
  BY <1>2 DEF ThreadTypes, RolesOK, MasterLabels, LoopLabels, WorkerLabels
<1>9. PlaceOK'
  BY <1>1, <1>2, <1>3, HeapShape DEF ThreadTypes, PlaceOK, Holding,
     QueueingLabels
<1>10. FlatteningOK'
  BY <1>1, <1>2, <1>3 DEF ThreadTypes, FlatteningOK, Flattening,
     QueueingLabels
<1>11. MasterPlaceOK'
  BY <1>1, <1>2, <1>3 DEF ThreadTypes, MasterPlaceOK, QueueingLabels
<1>12. LockOK'
  <2> SUFFICES ASSUME NEW u \in Threads
               PROVE  LockOK!(u)'
    BY DEF LockOK
  <2>1. CASE u = t
    BY <1>2, <1>3, <2>1 DEF ThreadTypes, WorkerTypes, PlaceOK, LockOK, Holding
  <2>2. CASE u # t
    <3>1. pc'[u] = pc[u] /\ idx'[u] = idx[u]
      BY <1>2, <2>2 DEF ThreadTypes
    <3>2. pc[u] \in Holding => idx[u] \in Workers /\ lock[idx[u]] = u
      BY DEF PlaceOK, LockOK
    <3>3. pc[u] \in Holding => lock'[idx[u]] = u
      BY <1>2, <2>2, <3>2 DEF WorkerTypes, LockOK, Holding
    <3> QED BY <1>3, <3>1, <3>3 DEF LockOK, Holding
  <2> QED BY <2>1, <2>2
<1>13. WorkerOK'
  BY <1>1, <1>2, <1>3 DEF ThreadTypes, WorkerOK, WorkerLabels
<1>14. FreshIsPrivate'
  BY <1>1, <1>2, <1>3 DEF ThreadTypes, FreshIsPrivate, Offering
<1>15. TasksDiffer'
  BY <1>1, <1>2, <1>3 DEF TasksDiffer
<1>16. MasterAlone'
  BY <1>1, <1>2, <1>3 DEF ThreadTypes, MasterAlone, Flattening,
     QueueingLabels
<1>17. AnswersInOrder'
  BY <1>1, <1>2, <1>3 DEF ThreadTypes, AnswersInOrder, Flattening,
     QueueingLabels
<1>18. LoopOK'
  BY <1>1, <1>2, <1>3 DEF ThreadTypes, LoopTypes, LoopOK, MasterPlaceOK,
     QueueingLabels
<1> QED BY <1>4, <1>5, <1>6, <1>7, <1>8, <1>9, <1>10, <1>11, <1>12, <1>13, <1>14,
   <1>15, <1>16, <1>17, <1>18

(* The worker clears its zone.                                              *)
LEMMA ClearZoneStep == ASSUME IInv, NEW w \in Workers, ClearZone(w) PROVE IInv'
<1> USE DEF IInv, TypeOK, ClearZone, loopVars, Goto
<1>1. References' = References /\ Wrapper' = Wrapper
  BY HeapUntouched
<1>2. HeapType'
  BY <1>1 DEF HeapType
<1>3. ThreadTypes'
  BY <1>1 DEF ThreadTypes, Labels
<1>4. WorkerTypes'
  BY <1>1, MaxLoopsAssumption DEF WorkerTypes, MaxLoopsAssumption
<1>5. LoopTypes'
  BY <1>1 DEF LoopTypes
<1>6. RolesOK'
  BY <1>1 DEF ThreadTypes, RolesOK, MasterLabels, LoopLabels, WorkerLabels
<1>7. PlaceOK'
  BY <1>1, HeapShape DEF ThreadTypes, PlaceOK, Holding, QueueingLabels
<1>8. FlatteningOK'
  BY <1>1 DEF ThreadTypes, FlatteningOK, Flattening, QueueingLabels
<1>9. MasterPlaceOK'
  BY <1>1 DEF ThreadTypes, MasterPlaceOK, QueueingLabels
<1>10. LockOK'
  BY <1>1 DEF ThreadTypes, WorkerTypes, PlaceOK, LockOK, Holding, WorkerOK
<1>11. WorkerOK'
  BY <1>1 DEF ThreadTypes, WorkerOK, WorkerLabels
<1>12. FreshIsPrivate'
  BY <1>1 DEF ThreadTypes, FreshIsPrivate, Offering
<1>13. TasksDiffer'
  BY <1>1 DEF TasksDiffer
<1>14. MasterAlone'
  BY <1>1 DEF ThreadTypes, MasterAlone, Flattening, QueueingLabels
<1>15. AnswersInOrder'
  BY <1>1 DEF ThreadTypes, AnswersInOrder, Flattening, QueueingLabels
<1>16. LoopOK'
  BY <1>1 DEF ThreadTypes, LoopTypes, LoopOK, MasterPlaceOK,
     QueueingLabels
<1> QED BY <1>2, <1>3, <1>4, <1>5, <1>6, <1>7, <1>8, <1>9, <1>10, <1>11, <1>12,
   <1>13, <1>14, <1>15, <1>16

(* The worker clears its task.                                              *)
LEMMA ClearTaskStep == ASSUME IInv, NEW w \in Workers, ClearTask(w) PROVE IInv'
<1> USE DEF IInv, TypeOK, ClearTask, loopVars, Goto
<1>1. References' = References /\ Wrapper' = Wrapper
  BY HeapUntouched
<1>2. HeapType'
  BY <1>1 DEF HeapType
<1>3. ThreadTypes'
  BY <1>1 DEF ThreadTypes, Labels
<1>4. WorkerTypes'
  BY <1>1 DEF WorkerTypes
<1>5. LoopTypes'
  BY <1>1 DEF LoopTypes
<1>6. RolesOK'
  BY <1>1 DEF ThreadTypes, RolesOK, MasterLabels, LoopLabels, WorkerLabels
<1>7. PlaceOK'
  BY <1>1, HeapShape DEF ThreadTypes, PlaceOK, Holding, QueueingLabels
<1>8. FlatteningOK'
  BY <1>1 DEF ThreadTypes, FlatteningOK, Flattening, QueueingLabels
<1>9. MasterPlaceOK'
  BY <1>1 DEF ThreadTypes, MasterPlaceOK, QueueingLabels
<1>10. LockOK'
  BY <1>1 DEF ThreadTypes, WorkerTypes, PlaceOK, LockOK, Holding, WorkerOK
<1>11. WorkerOK'
  BY <1>1 DEF ThreadTypes, WorkerTypes, WorkerOK, WorkerLabels
<1>12. FreshIsPrivate'
  BY <1>1, HeapShape DEF ThreadTypes, WorkerTypes, FreshIsPrivate,
     Offering
<1>13. TasksDiffer'
  BY <1>1 DEF TasksDiffer
<1>14. MasterAlone'
  BY <1>1, HeapShape DEF ThreadTypes, WorkerTypes, MasterAlone,
     Flattening, QueueingLabels, FlatteningOK, MasterPlaceOK, PlaceOK
<1>15. AnswersInOrder'
  BY <1>1 DEF ThreadTypes, AnswersInOrder, Flattening, QueueingLabels
<1>16. LoopOK'
  BY <1>1 DEF ThreadTypes, LoopTypes, LoopOK, MasterPlaceOK,
     QueueingLabels
<1> QED BY <1>2, <1>3, <1>4, <1>5, <1>6, <1>7, <1>8, <1>9, <1>10, <1>11, <1>12,
   <1>13, <1>14, <1>15, <1>16

(* is_valid is memoized.                                                    *)
LEMMA StoreValidStep == ASSUME IInv, NEW t \in Threads, StoreValid(t) PROVE IInv'
<1> USE DEF IInv, TypeOK, workerVars, loopVars
<1>1. Flattening(t) /\ arg[t] \in References /\ heap[arg[t]].wrapped # NULL
  BY InHand DEF StoreValid
<1>2. PICK flag \in {True, False, Thrown} :
        /\ flag = IsValid(SequenceOf(arg[t]), source[t])
        /\ heap' = [heap EXCEPT ![arg[t]].valid = flag]
        /\ pc' = [pc EXCEPT ![t] = IF flag # False THEN "wrap" ELSE "clear"]
  BY DEF StoreValid, IsValid, BoolFromBoolean, Goto
<1>3. /\ References' = References /\ Wrapper' = Wrapper
      /\ heap' \in Seq(Wrapper)
      /\ \A v \in References : v # arg[t] => heap'[v] = heap[v]
      /\ heap'[arg[t]].wrapped = heap[arg[t]].wrapped
      /\ heap'[arg[t]].current = heap[arg[t]].current
      /\ heap'[arg[t]].next = heap[arg[t]].next
      /\ heap'[arg[t]].valid = flag
  <2>1. [heap[arg[t]] EXCEPT !.valid = flag] \in Wrapper
    BY <1>1, <1>2, HeapShape DEF Wrapper
  <2>2. heap' = [heap EXCEPT ![arg[t]] =
                   [heap[arg[t]] EXCEPT !.valid = flag]]
    BY <1>2 DEF StoreValid
  <2>3. heap[arg[t]] \in Wrapper
    BY <1>1, HeapShape
  <2>4. /\ References' = References /\ Wrapper' = Wrapper
        /\ heap' \in Seq(Wrapper)
        /\ \A v \in References :
             heap'[v] = IF v = arg[t] THEN [heap[arg[t]] EXCEPT !.valid = flag]
                                      ELSE heap[v]
    BY <1>1, <2>1, <2>2, SlotStored
  <2> QED BY <1>1, <2>3, <2>4 DEF Wrapper
<1>4. /\ pc[t] = "valid"
      /\ pc' = [pc EXCEPT ![t] = IF flag # False THEN "wrap" ELSE "clear"]
      /\ UNCHANGED <<arg, source, fresh, idx, workerVars, loopVars>>
  BY <1>2 DEF StoreValid
<1>5. \A v \in References : /\ heap'[v].wrapped = heap[v].wrapped
        /\ heap'[v].current = heap[v].current
        /\ heap'[v].next = heap[v].next
  BY <1>1, <1>3
<1>6. HeapType'
  BY <1>1, <1>3, <1>4, <1>5 DEF HeapType
<1>7. ThreadTypes'
  BY <1>1, <1>3, <1>4, <1>5 DEF ThreadTypes, Labels
<1>8. WorkerTypes'
  BY <1>1, <1>3, <1>4, <1>5 DEF WorkerTypes
<1>9. LoopTypes'
  BY <1>1, <1>3, <1>4, <1>5 DEF LoopTypes
<1>10. RolesOK'
  BY <1>1, <1>3, <1>4, <1>5 DEF ThreadTypes, RolesOK, MasterLabels,
     LoopLabels, WorkerLabels
<1>11. PlaceOK'
  BY <1>1, <1>3, <1>4, <1>5, HeapShape DEF ThreadTypes, PlaceOK, Holding,
     QueueingLabels
<1>12. FlatteningOK'
  BY <1>1, <1>3, <1>4, <1>5, Exclusive DEF ThreadTypes, FlatteningOK,
     Flattening, QueueingLabels, FlattenedByOne
<1>13. MasterPlaceOK'
  BY <1>1, <1>3, <1>4, <1>5 DEF ThreadTypes, MasterPlaceOK, QueueingLabels
<1>14. LockOK'
  BY <1>1, <1>3, <1>4, <1>5 DEF ThreadTypes, LockOK, Holding
<1>15. WorkerOK'
  BY <1>1, <1>3, <1>4, <1>5, HeapShape DEF ThreadTypes, WorkerTypes,
     WorkerOK, WorkerLabels
<1>16. FreshIsPrivate'
  <2>1. /\ References' = References
        /\ UNCHANGED <<fresh, arg, task, iter, held>>
        /\ \A u \in Threads : pc'[u] \in Offering => pc'[u] = pc[u]
    BY <1>3, <1>4 DEF ThreadTypes, Offering
  <2> QED BY <1>5, <2>1 DEF FreshIsPrivate
<1>17. TasksDiffer'
  BY <1>1, <1>3, <1>4, <1>5 DEF TasksDiffer
<1>18. MasterAlone'
  BY <1>1, <1>3, <1>4, <1>5 DEF ThreadTypes, MasterAlone, Flattening,
     QueueingLabels
<1>19. AnswersInOrder'
  <2>1. ASSUME NEW u \in Threads, u # t
        PROVE  AnswersInOrder!1!(u)'
    <3>1. Flattening(u)' => Flattening(u) /\ arg[u] # arg[t] /\ arg[u] \in References
      BY <1>1, <1>4, <2>1, Exclusive
         DEF Flattening, FlattenedByOne, ThreadTypes, FlatteningOK
    <3> QED BY <1>3, <1>4, <2>1, <3>1 DEF AnswersInOrder, ThreadTypes
  <2>2. AnswersInOrder!1!(t)'
    BY <1>1, <1>2, <1>3, <1>4 DEF AnswersInOrder, ThreadTypes, QueueingLabels
  <2>3. AnswersInOrder!2'
    BY <1>1, <1>3, <1>5 DEF AnswersInOrder
  <2> QED BY <2>1, <2>2, <2>3 DEF AnswersInOrder
<1>20. LoopOK'
  BY <1>1, <1>3, <1>4, <1>5, HeapShape DEF ThreadTypes, LoopTypes, LoopOK,
     MasterPlaceOK, QueueingLabels
<1> QED BY <1>6, <1>7, <1>8, <1>9, <1>10, <1>11, <1>12, <1>13, <1>14, <1>15, <1>16,
   <1>17, <1>18, <1>19, <1>20

(* source.current is memoized.                                              *)
LEMMA StoreCurrentStep == ASSUME IInv, NEW t \in Threads, StoreCurrent(t) PROVE IInv'
<1> USE DEF IInv, TypeOK, workerVars, loopVars
<1>1. Flattening(t) /\ arg[t] \in References /\ heap[arg[t]].wrapped # NULL
  BY InHand DEF StoreCurrent
<1>2. PICK val \in Nat \cup {Thrown} :
        heap' = [heap EXCEPT ![arg[t]].current = val]
  BY DEF StoreCurrent, ThreadTypes, Current
<1>3. /\ References' = References /\ Wrapper' = Wrapper
      /\ heap' \in Seq(Wrapper)
      /\ \A v \in References : v # arg[t] => heap'[v] = heap[v]
      /\ heap'[arg[t]].wrapped = heap[arg[t]].wrapped
      /\ heap'[arg[t]].valid = heap[arg[t]].valid
      /\ heap'[arg[t]].next = heap[arg[t]].next
      /\ heap'[arg[t]].current = val
  <2>1. [heap[arg[t]] EXCEPT !.current = val] \in Wrapper
    BY <1>1, <1>2, HeapShape DEF Wrapper
  <2>2. heap' = [heap EXCEPT ![arg[t]] =
                   [heap[arg[t]] EXCEPT !.current = val]]
    BY <1>2 DEF StoreCurrent
  <2>3. heap[arg[t]] \in Wrapper
    BY <1>1, HeapShape
  <2>4. /\ References' = References /\ Wrapper' = Wrapper
        /\ heap' \in Seq(Wrapper)
        /\ \A v \in References :
             heap'[v] = IF v = arg[t] THEN [heap[arg[t]] EXCEPT !.current = val]
                                      ELSE heap[v]
    BY <1>1, <2>1, <2>2, SlotStored
  <2> QED BY <1>1, <2>3, <2>4 DEF Wrapper
<1>4. /\ pc[t] = "current"
      /\ pc' = [pc EXCEPT ![t] = "clear"]
      /\ UNCHANGED <<arg, source, fresh, idx, workerVars, loopVars>>
  BY DEF StoreCurrent, Goto
<1>5. \A v \in References : /\ heap'[v].wrapped = heap[v].wrapped
        /\ heap'[v].valid = heap[v].valid
        /\ heap'[v].next = heap[v].next
  BY <1>1, <1>3
<1>6. HeapType'
  BY <1>1, <1>3, <1>4, <1>5 DEF HeapType
<1>7. ThreadTypes'
  BY <1>1, <1>3, <1>4, <1>5 DEF ThreadTypes, Labels
<1>8. WorkerTypes'
  BY <1>1, <1>3, <1>4, <1>5 DEF WorkerTypes
<1>9. LoopTypes'
  BY <1>1, <1>3, <1>4, <1>5 DEF LoopTypes
<1>10. RolesOK'
  BY <1>1, <1>3, <1>4, <1>5 DEF ThreadTypes, RolesOK, MasterLabels,
     LoopLabels, WorkerLabels
<1>11. PlaceOK'
  BY <1>1, <1>3, <1>4, <1>5, HeapShape DEF ThreadTypes, PlaceOK, Holding,
     QueueingLabels
<1>12. FlatteningOK'
  BY <1>1, <1>3, <1>4, <1>5, Exclusive DEF ThreadTypes, FlatteningOK,
     Flattening, QueueingLabels, FlattenedByOne
<1>13. MasterPlaceOK'
  BY <1>1, <1>3, <1>4, <1>5 DEF ThreadTypes, MasterPlaceOK, QueueingLabels
<1>14. LockOK'
  BY <1>1, <1>3, <1>4, <1>5 DEF ThreadTypes, LockOK, Holding
<1>15. WorkerOK'
  BY <1>1, <1>3, <1>4, <1>5, HeapShape DEF ThreadTypes, WorkerTypes,
     WorkerOK, WorkerLabels
<1>16. FreshIsPrivate'
  <2>1. /\ References' = References
        /\ UNCHANGED <<fresh, arg, task, iter, held>>
        /\ \A u \in Threads : pc'[u] \in Offering => pc'[u] = pc[u]
    BY <1>3, <1>4 DEF ThreadTypes, Offering
  <2> QED BY <1>5, <2>1 DEF FreshIsPrivate
<1>17. TasksDiffer'
  BY <1>1, <1>3, <1>4, <1>5 DEF TasksDiffer
<1>18. MasterAlone'
  BY <1>1, <1>3, <1>4, <1>5 DEF ThreadTypes, MasterAlone, Flattening,
     QueueingLabels
<1>19. AnswersInOrder'
  <2>1. ASSUME NEW u \in Threads, u # t
        PROVE  AnswersInOrder!1!(u)'
    <3>1. Flattening(u)' => Flattening(u) /\ arg[u] # arg[t] /\ arg[u] \in References
      BY <1>1, <1>4, <2>1, Exclusive
         DEF Flattening, FlattenedByOne, ThreadTypes, FlatteningOK
    <3> QED BY <1>3, <1>4, <2>1, <3>1 DEF AnswersInOrder, ThreadTypes
  <2>2. AnswersInOrder!1!(t)'
    BY <1>1, <1>2, <1>3, <1>4 DEF AnswersInOrder, ThreadTypes, QueueingLabels
  <2>3. AnswersInOrder!2'
    BY <1>1, <1>3, <1>5 DEF AnswersInOrder
  <2> QED BY <2>1, <2>2, <2>3 DEF AnswersInOrder
<1>20. LoopOK'
  BY <1>1, <1>3, <1>4, <1>5, HeapShape DEF ThreadTypes, LoopTypes, LoopOK,
     MasterPlaceOK, QueueingLabels
<1> QED BY <1>6, <1>7, <1>8, <1>9, <1>10, <1>11, <1>12, <1>13, <1>14, <1>15, <1>16,
   <1>17, <1>18, <1>19, <1>20

(* The source is dropped: the wrapper is complete.                          *)
LEMMA ClearWrappedStep == ASSUME IInv, NEW t \in Threads, ClearWrapped(t) PROVE IInv'
<1> USE DEF IInv, TypeOK, workerVars, loopVars
<1>1. Flattening(t) /\ arg[t] \in References /\ heap[arg[t]].wrapped # NULL
  BY InHand DEF ClearWrapped
<1>2. arg[t] # NULL
  BY <1>1, HeapShape
<1>3. /\ References' = References /\ Wrapper' = Wrapper
      /\ heap' \in Seq(Wrapper)
      /\ \A v \in References : v # arg[t] => heap'[v] = heap[v]
      /\ heap'[arg[t]].valid = heap[arg[t]].valid
      /\ heap'[arg[t]].current = heap[arg[t]].current
      /\ heap'[arg[t]].next = heap[arg[t]].next
      /\ heap'[arg[t]].wrapped = NULL
  <2>1. [heap[arg[t]] EXCEPT !.wrapped = NULL] \in Wrapper
    BY <1>1, <1>2, HeapShape DEF Wrapper
  <2>2. heap' = [heap EXCEPT ![arg[t]] =
                   [heap[arg[t]] EXCEPT !.wrapped = NULL]]
    BY DEF ClearWrapped
  <2>3. heap[arg[t]] \in Wrapper
    BY <1>1, HeapShape
  <2>4. /\ References' = References /\ Wrapper' = Wrapper
        /\ heap' \in Seq(Wrapper)
        /\ \A v \in References :
             heap'[v] = IF v = arg[t] THEN [heap[arg[t]] EXCEPT !.wrapped = NULL]
                                      ELSE heap[v]
    BY <1>1, <2>1, <2>2, SlotStored
  <2> QED BY <1>1, <2>3, <2>4 DEF Wrapper
<1>4. /\ pc[t] = "clear"
      /\ pc' = [pc EXCEPT ![t] = IF t = Main THEN "check" ELSE "clearzone"]
      /\ source' = [source EXCEPT ![t] = NULL]
      /\ UNCHANGED <<arg, fresh, idx, workerVars, loopVars>>
  BY DEF ClearWrapped, Return, Goto
<1>5. \A v \in References : /\ heap'[v].valid = heap[v].valid
        /\ heap'[v].current = heap[v].current
        /\ heap'[v].next = heap[v].next
  BY <1>1, <1>3
<1>6. HeapType'
  BY <1>1, <1>3, <1>4, <1>5 DEF HeapType
<1>7. ThreadTypes'
  BY <1>1, <1>3, <1>4, <1>5 DEF ThreadTypes, Labels
<1>8. WorkerTypes'
  BY <1>1, <1>3, <1>4, <1>5 DEF WorkerTypes
<1>9. LoopTypes'
  BY <1>1, <1>3, <1>4, <1>5 DEF LoopTypes
<1>10. RolesOK'
  BY <1>1, <1>3, <1>4, <1>5 DEF ThreadTypes, RolesOK, MasterLabels,
     LoopLabels, WorkerLabels
<1>11. PlaceOK'
  <2>1. fresh[t] = NULL
    BY <1>4 DEF PlaceOK, QueueingLabels
  <2>2. /\ pc'[t] \in {"check", "clearzone"}
        /\ \A u \in Threads : u # t => pc'[u] = pc[u]
    BY <1>4 DEF ThreadTypes
  <2> QED BY <1>3, <1>4, <2>1, <2>2 DEF PlaceOK, Holding, QueueingLabels
<1>12. FlatteningOK'
  <2> SUFFICES ASSUME NEW u \in Threads, Flattening(u)'
               PROVE  (arg[u] \in References /\ heap[arg[u]].wrapped # NULL)'
    BY DEF FlatteningOK
  <2>1. u # t /\ Flattening(u)
    BY <1>4 DEF ThreadTypes, Flattening, QueueingLabels
  <2> QED BY <1>1, <1>3, <1>4, <2>1, Exclusive DEF FlattenedByOne, FlatteningOK
<1>13. MasterPlaceOK'
  BY <1>1, <1>3, <1>4, <1>5 DEF ThreadTypes, MasterPlaceOK, QueueingLabels
<1>14. LockOK'
  BY <1>1, <1>3, <1>4, <1>5 DEF ThreadTypes, LockOK, Holding
<1>15. WorkerOK'
  <2>1. \A w \in Workers :
          task[w] # NULL /\ pc'[w] = "idle" => task[w] # arg[t]
    BY <1>1, <1>4 DEF ThreadTypes, WorkerOK, WorkerLabels, TasksDiffer, MasterAlone
  <2>2. \A w \in Workers : task[w] # NULL => task[w] \in References
    BY DEF WorkerTypes
  <2> QED BY <1>3, <1>4, <2>1, <2>2 DEF ThreadTypes, WorkerOK, WorkerLabels
<1>16. FreshIsPrivate'
  <2>1. /\ References' = References
        /\ UNCHANGED <<fresh, arg, task, iter, held>>
        /\ \A u \in Threads : pc'[u] \in Offering => pc'[u] = pc[u]
    BY <1>3, <1>4 DEF ThreadTypes, Offering
  <2>2. t \in Workers => arg[t] = task[t]
    BY <1>4 DEF WorkerOK, WorkerLabels
  <2>3. \A u \in Threads :
          fresh[u] \in References /\ pc[u] \in Offering => fresh[u] # arg[t]
    BY <2>2 DEF FreshIsPrivate
  <2> QED BY <1>3, <1>5, <2>1, <2>3 DEF FreshIsPrivate
<1>17. TasksDiffer'
  BY <1>1, <1>3, <1>4, <1>5 DEF TasksDiffer
<1>18. MasterAlone'
  BY <1>1, <1>3, <1>4, <1>5 DEF ThreadTypes, MasterAlone, Flattening,
     QueueingLabels
<1>19. AnswersInOrder'
  <2>1. ASSUME NEW u \in Threads, u # t
        PROVE  AnswersInOrder!1!(u)'
    <3>1. Flattening(u)' => Flattening(u) /\ arg[u] # arg[t] /\ arg[u] \in References
      BY <1>1, <1>4, <2>1, Exclusive
         DEF Flattening, FlattenedByOne, ThreadTypes, FlatteningOK
    <3> QED BY <1>3, <1>4, <2>1, <3>1 DEF AnswersInOrder, ThreadTypes
  <2>2. ~Flattening(t)'
    BY <1>4 DEF ThreadTypes, Flattening, QueueingLabels
  <2>3. AnswersInOrder!2'
    BY <1>1, <1>3, <1>4, <1>5 DEF AnswersInOrder
  <2> QED BY <2>1, <2>2, <2>3 DEF AnswersInOrder
<1>20. LoopOK'
  BY <1>1, <1>3, <1>4, <1>5, HeapShape DEF ThreadTypes, LoopTypes, LoopOK,
     MasterPlaceOK, QueueingLabels
<1> QED BY <1>6, <1>7, <1>8, <1>9, <1>10, <1>11, <1>12, <1>13, <1>14, <1>15, <1>16,
   <1>17, <1>18, <1>19, <1>20

(* The next wrapper is linked.                                              *)
LEMMA LinkNextStep == ASSUME IInv, NEW t \in Threads, LinkNext(t) PROVE IInv'
<1> USE DEF IInv, TypeOK, workerVars, loopVars
<1>1. Flattening(t) /\ arg[t] \in References /\ heap[arg[t]].wrapped # NULL
  BY InHand DEF LinkNext
<1>2. fresh[t] \in References \cup {Thrown} /\ fresh[t] # NULL
  BY HeapShape DEF LinkNext, ThreadTypes, PlaceOK
<1>3. /\ References' = References /\ Wrapper' = Wrapper
      /\ heap' \in Seq(Wrapper)
      /\ \A v \in References : v # arg[t] => heap'[v] = heap[v]
      /\ heap'[arg[t]].wrapped = heap[arg[t]].wrapped
      /\ heap'[arg[t]].valid = heap[arg[t]].valid
      /\ heap'[arg[t]].current = heap[arg[t]].current
      /\ heap'[arg[t]].next = fresh[t]
  <2>1. [heap[arg[t]] EXCEPT !.next = fresh[t]] \in Wrapper
    BY <1>1, <1>2, HeapShape DEF Wrapper
  <2>2. heap' = [heap EXCEPT ![arg[t]] =
                   [heap[arg[t]] EXCEPT !.next = fresh[t]]]
    BY DEF LinkNext
  <2>3. heap[arg[t]] \in Wrapper
    BY <1>1, HeapShape
  <2>4. /\ References' = References /\ Wrapper' = Wrapper
        /\ heap' \in Seq(Wrapper)
        /\ \A v \in References :
             heap'[v] = IF v = arg[t] THEN [heap[arg[t]] EXCEPT !.next = fresh[t]]
                                      ELSE heap[v]
    BY <1>1, <2>1, <2>2, SlotStored
  <2> QED BY <1>1, <2>3, <2>4 DEF Wrapper
<1>4. /\ pc[t] = "link"
      /\ pc' = [pc EXCEPT ![t] = "current"]
      /\ fresh' = [fresh EXCEPT ![t] = NULL]
      /\ UNCHANGED <<arg, source, idx, workerVars, loopVars>>
  BY DEF LinkNext, Goto
<1>5. \A v \in References : /\ heap'[v].wrapped = heap[v].wrapped
        /\ heap'[v].valid = heap[v].valid
        /\ heap'[v].current = heap[v].current
  BY <1>1, <1>3
<1>6. HeapType'
  BY <1>1, <1>3, <1>4, <1>5 DEF HeapType
<1>7. ThreadTypes'
  BY <1>1, <1>3, <1>4, <1>5 DEF ThreadTypes, Labels
<1>8. WorkerTypes'
  BY <1>1, <1>3, <1>4, <1>5 DEF WorkerTypes
<1>9. LoopTypes'
  BY <1>1, <1>3, <1>4, <1>5 DEF LoopTypes
<1>10. RolesOK'
  BY <1>1, <1>3, <1>4, <1>5 DEF ThreadTypes, RolesOK, MasterLabels,
     LoopLabels, WorkerLabels
<1>11. PlaceOK'
  BY <1>3, <1>4 DEF ThreadTypes, PlaceOK, Holding, QueueingLabels
<1>12. FlatteningOK'
  BY <1>1, <1>3, <1>4, <1>5, Exclusive DEF ThreadTypes, FlatteningOK,
     Flattening, QueueingLabels, FlattenedByOne
<1>13. MasterPlaceOK'
  BY <1>1, <1>3, <1>4, <1>5 DEF ThreadTypes, MasterPlaceOK, QueueingLabels
<1>14. LockOK'
  BY <1>1, <1>3, <1>4, <1>5 DEF ThreadTypes, LockOK, Holding
<1>15. WorkerOK'
  BY <1>1, <1>3, <1>4, <1>5, HeapShape DEF ThreadTypes, WorkerTypes,
     WorkerOK, WorkerLabels
<1>16. FreshIsPrivate'
  <2>1. /\ References' = References
        /\ UNCHANGED <<arg, task, iter, held>>
        /\ \A u \in Threads : u # t => fresh'[u] = fresh[u] /\ pc'[u] = pc[u]
        /\ fresh'[t] = NULL
    BY <1>3, <1>4 DEF ThreadTypes
  <2>2. \A u \in Threads : u # t /\ fresh[u] \in References =>
          \A v \in References : heap'[v].next # fresh[u]
    BY <1>1, <1>3 DEF FreshIsPrivate
  <2> QED BY <1>5, <2>1, <2>2, HeapShape DEF FreshIsPrivate
<1>17. TasksDiffer'
  BY <1>1, <1>3, <1>4, <1>5 DEF TasksDiffer
<1>18. MasterAlone'
  BY <1>1, <1>3, <1>4, <1>5 DEF ThreadTypes, MasterAlone, Flattening,
     QueueingLabels
<1>19. AnswersInOrder'
  <2>1. ASSUME NEW u \in Threads, u # t
        PROVE  AnswersInOrder!1!(u)'
    <3>1. Flattening(u)' => Flattening(u) /\ arg[u] # arg[t] /\ arg[u] \in References
      BY <1>1, <1>4, <2>1, Exclusive
         DEF Flattening, FlattenedByOne, ThreadTypes, FlatteningOK
    <3> QED BY <1>3, <1>4, <2>1, <3>1 DEF AnswersInOrder, ThreadTypes
  <2>2. AnswersInOrder!1!(t)'
    BY <1>1, <1>2, <1>3, <1>4 DEF AnswersInOrder, ThreadTypes, QueueingLabels
  <2>3. AnswersInOrder!2'
    BY <1>1, <1>3, <1>5 DEF AnswersInOrder
  <2> QED BY <2>1, <2>2, <2>3 DEF AnswersInOrder
<1>20. LoopOK'
  BY <1>1, <1>3, <1>4, <1>5, HeapShape DEF ThreadTypes, LoopTypes, LoopOK,
     MasterPlaceOK, QueueingLabels
<1> QED BY <1>6, <1>7, <1>8, <1>9, <1>10, <1>11, <1>12, <1>13, <1>14, <1>15, <1>16,
   <1>17, <1>18, <1>19, <1>20

(* The successor is an exception, which needs no wrapper.                   *)
LEMMA WrapThrownStep ==
  ASSUME IInv, NEW t \in Threads, pc[t] = "wrap",
         fresh' = [fresh EXCEPT ![t] = Thrown],
         pc' = [pc EXCEPT ![t] = "link"],
         UNCHANGED <<heap, arg, source, idx, workerVars, loopVars>>
  PROVE  IInv'
<1> USE DEF IInv, TypeOK, workerVars, loopVars
<1>1. References' = References /\ Wrapper' = Wrapper
  BY HeapUntouched
<1>2. HeapType'
  BY <1>1 DEF HeapType
<1>3. ThreadTypes'
  BY <1>1 DEF ThreadTypes, Labels
<1>4. WorkerTypes'
  BY <1>1 DEF WorkerTypes
<1>5. LoopTypes'
  BY <1>1 DEF LoopTypes
<1>6. RolesOK'
  BY <1>1 DEF ThreadTypes, RolesOK, MasterLabels, LoopLabels, WorkerLabels
<1>7. PlaceOK'
  BY <1>1, HeapShape DEF ThreadTypes, PlaceOK, Holding, QueueingLabels
<1>8. FlatteningOK'
  BY <1>1 DEF ThreadTypes, FlatteningOK, Flattening, QueueingLabels
<1>9. MasterPlaceOK'
  BY <1>1 DEF ThreadTypes, MasterPlaceOK, QueueingLabels
<1>10. LockOK'
  BY <1>1 DEF ThreadTypes, LockOK, Holding
<1>11. WorkerOK'
  BY <1>1 DEF ThreadTypes, WorkerOK, WorkerLabels
<1>12. FreshIsPrivate'
  <2>1. /\ \A u \in Threads : u # t => fresh'[u] = fresh[u] /\ pc'[u] = pc[u]
        /\ fresh'[t] = Thrown
    BY DEF ThreadTypes
  <2> QED BY <1>1, <2>1, HeapShape DEF FreshIsPrivate
<1>13. TasksDiffer'
  BY <1>1 DEF TasksDiffer
<1>14. MasterAlone'
  BY <1>1 DEF ThreadTypes, MasterAlone, Flattening, QueueingLabels
<1>15. AnswersInOrder'
  BY <1>1 DEF ThreadTypes, AnswersInOrder, Flattening, QueueingLabels
<1>16. LoopOK'
  BY <1>1 DEF ThreadTypes, LoopTypes, LoopOK, MasterPlaceOK,
     QueueingLabels
<1> QED BY <1>2, <1>3, <1>4, <1>5, <1>6, <1>7, <1>8, <1>9, <1>10, <1>11, <1>12,
   <1>13, <1>14, <1>15, <1>16

(* A wrapper is allocated: by process_iterator for the next iterator, or by *)
(* parseq_iterate for the first of a loop.                                  *)
LEMMA AllocateStep ==
  ASSUME IInv, NEW t \in Threads, NEW r \in Wrapper,
         r.wrapped # NULL, r.next = NULL,
         heap' = Append(heap, r),
         NEW n, n = Len(heap) + 1,
         fresh' = [fresh EXCEPT ![t] = n],
         idx' = [idx EXCEPT ![t] = 1],
         pc' = [pc EXCEPT ![t] = "look"],
         \/ pc[t] = "wrap" /\ loop' = loop
         \/ pc[t] = "between" /\ loop < MaxLoops /\ loop' = loop + 1,
         UNCHANGED <<arg, source, workerVars,
                     program, iter, want, todo, held, failed, reply>>
  PROVE  IInv'
<1> USE DEF IInv, TypeOK, workerVars, loopVars
<1>1. /\ References' = References \cup {n}
      /\ n \notin References /\ n \notin {NULL, Thrown}
      /\ heap' \in Seq(Wrapper')
      /\ heap'[n] = r
      /\ \A v \in References : heap'[v] = heap[v]
  BY WrapperAllocated
<1>2. HeapType'
  BY <1>1 DEF HeapType
<1>3. ThreadTypes'
  <2>1. idx' \in [Threads -> 1..(NumWorkers + 1)]
    BY DEF ThreadTypes
  <2>2. pc' \in [Threads -> Labels]
    BY DEF ThreadTypes, Labels
  <2> QED BY <1>1, <2>1, <2>2 DEF ThreadTypes
<1>4. WorkerTypes'
  BY <1>1 DEF WorkerTypes
<1>5. LoopTypes'
  BY <1>1, MaxLoopsAssumption DEF LoopTypes, MaxLoopsAssumption
<1>6. RolesOK'
  BY <1>1 DEF ThreadTypes, RolesOK, MasterLabels, LoopLabels, WorkerLabels
<1>7. PlaceOK'
  BY <1>1, HeapShape DEF ThreadTypes, PlaceOK, Holding, QueueingLabels
<1>8. FlatteningOK'
  <2>0. Flattening(t)' => Flattening(t)
    BY InHand DEF ThreadTypes, Flattening, RolesOK, MasterLabels, LoopLabels,
                  MasterPlaceOK
  <2>1. \A u \in Threads : Flattening(u)' => Flattening(u)
    BY <2>0 DEF ThreadTypes, Flattening
  <2> QED BY <1>1, <2>1 DEF FlatteningOK
<1>9. MasterPlaceOK'
  BY <1>1, MaxLoopsAssumption DEF ThreadTypes, MasterPlaceOK, LoopTypes,
     QueueingLabels, MaxLoopsAssumption
<1>10. LockOK'
  BY <1>1 DEF ThreadTypes, LockOK, Holding
<1>11. WorkerOK'
  <2>1. \A w \in Workers : task[w] # NULL => heap'[task[w]] = heap[task[w]]
    BY <1>1 DEF WorkerTypes
  <2> QED BY <2>1 DEF ThreadTypes, WorkerOK, WorkerLabels
<1>12. FreshIsPrivate'
  <2>1. /\ fresh'[t] = n /\ pc'[t] = "look"
        /\ \A u \in Threads : u # t => fresh'[u] = fresh[u] /\ pc'[u] = pc[u]
    BY DEF ThreadTypes
  <2>2. \A v \in References' : heap'[v].next # n
    <3>1. \A v \in References : heap[v].next \in References \cup {NULL, Thrown}
      BY HeapShape DEF Wrapper
    <3> QED BY <1>1, <3>1
  <2>3. \A u \in Threads : fresh[u] # n
    BY <1>1 DEF ThreadTypes
  <2>4. iter' # n /\ held' # n /\ arg'[Main] # n
    BY <1>1 DEF ThreadTypes, LoopTypes
  <2>5. \A w \in Workers : task'[w] # n
    BY <1>1 DEF WorkerTypes
  <2>6. ASSUME NEW u \in Threads, fresh'[u] \in References', u # t
        PROVE  /\ \A x \in Threads : x # u => fresh'[x] # fresh'[u]
               /\ \A v \in References' : heap'[v].next # fresh'[u]
               /\ iter' # fresh'[u] /\ held' # fresh'[u] /\ arg'[Main] # fresh'[u]
               /\ pc'[u] \in Offering =>
                    /\ heap'[fresh'[u]].wrapped # NULL
                    /\ \A w \in Workers : task'[w] # fresh'[u]
    <3>1. fresh'[u] = fresh[u] /\ fresh[u] \in References /\ pc'[u] = pc[u]
      BY <1>1, <2>1, <2>3, <2>6
    <3>2. \A x \in Threads : x # u => fresh'[x] # fresh'[u]
      BY <2>1, <2>3, <3>1 DEF FreshIsPrivate
    <3>3. \A v \in References' : heap'[v].next # fresh'[u]
      <4>1. \A v \in References : heap[v].next # fresh[u]
        BY <3>1 DEF FreshIsPrivate
      <4>2. r.next # fresh[u]
        BY <3>1, HeapShape
      <4> QED BY <1>1, <3>1, <4>1, <4>2
    <3>4. heap'[fresh[u]] = heap[fresh[u]]
      BY <1>1, <3>1
    <3>5. iter' # fresh'[u] /\ held' # fresh'[u] /\ arg'[Main] # fresh'[u]
      BY <3>1 DEF FreshIsPrivate
    <3>6. pc'[u] \in Offering =>
            heap'[fresh'[u]].wrapped # NULL /\ \A w \in Workers : task'[w] # fresh'[u]
      BY <3>1, <3>4 DEF FreshIsPrivate
    <3> QED BY <3>2, <3>3, <3>5, <3>6
  <2>7. /\ \A x \in Threads : x # t => fresh'[x] # fresh'[t]
        /\ heap'[n].wrapped # NULL
    BY <1>1, <2>1, <2>3
  <2> SUFFICES ASSUME NEW u \in Threads, fresh'[u] \in References'
               PROVE  FreshIsPrivate!(u)!2'
    BY DEF FreshIsPrivate
  <2>8. CASE u = t
    <3>1. /\ \A x \in Threads : x # u => fresh'[x] # fresh'[u]
          /\ heap'[fresh'[u]].wrapped # NULL
      BY <2>1, <2>7, <2>8
    <3>2. /\ \A v \in References' : heap'[v].next # fresh'[u]
          /\ iter' # fresh'[u] /\ held' # fresh'[u] /\ arg'[Main] # fresh'[u]
          /\ \A w \in Workers : task'[w] # fresh'[u]
      BY <2>1, <2>2, <2>4, <2>5, <2>8
    <3> QED BY <3>1, <3>2
  <2>9. CASE u # t
    BY <2>6, <2>9
  <2> QED BY <2>8, <2>9
<1>13. TasksDiffer'
  BY <1>1 DEF TasksDiffer
<1>14. MasterAlone'
  BY <1>1 DEF ThreadTypes, MasterAlone, Flattening, QueueingLabels,
     MasterPlaceOK
<1>15. AnswersInOrder'
  <2>0. Flattening(t)' => Flattening(t)
    BY InHand DEF ThreadTypes, Flattening, RolesOK, MasterLabels, LoopLabels,
                  MasterPlaceOK
  <2>1. \A u \in Threads : Flattening(u)' => Flattening(u)
    BY <2>0 DEF ThreadTypes, Flattening
  <2>2. ASSUME NEW u \in Threads, Flattening(u)'
        PROVE  AnswersInOrder!1!(u)!2'
    <3>1. Flattening(u) /\ arg'[u] = arg[u] /\ heap'[arg[u]] = heap[arg[u]]
      BY <1>1, <2>1, <2>2 DEF FlatteningOK
    <3>2. pc'[u] = pc[u] \/ (u = t /\ pc[u] = "wrap" /\ pc'[u] = "look")
      BY <3>1 DEF ThreadTypes, Flattening, QueueingLabels
    <3> QED BY <3>1, <3>2 DEF AnswersInOrder, QueueingLabels
  <2>3. AnswersInOrder!2'
    BY <1>1 DEF AnswersInOrder
  <2> QED BY <2>2, <2>3 DEF AnswersInOrder
<1>16. LoopOK'
  BY <1>1, HeapShape DEF ThreadTypes, LoopTypes, LoopOK, MasterPlaceOK,
     QueueingLabels
<1> QED BY <1>2, <1>3, <1>4, <1>5, <1>6, <1>7, <1>8, <1>9, <1>10, <1>11, <1>12,
   <1>13, <1>14, <1>15, <1>16

(* source.next, wrapped unless it is an exception.                          *)
LEMMA WrapNextStep == ASSUME IInv, NEW t \in Threads, WrapNext(t) PROVE IInv'
<1> DEFINE p == Successor(SequenceOf(arg[t]), source[t])
           r == NewWrapper(heap[arg[t]].seq, p)
<1>1. arg[t] \in References /\ heap[arg[t]] \in Wrapper
  BY InHand, HeapShape DEF WrapNext, IInv
<1>2. CASE p = Thrown
  BY <1>2, WrapThrownStep DEF WrapNext, NeedsWrapper, Goto
<1>3. CASE p # Thrown
  <2>1. p \in Nat \ {NULL}
    BY <1>3 DEF Successor, IInv, TypeOK, ThreadTypes
  <2>2. r \in Wrapper /\ r.wrapped # NULL /\ r.next = NULL
    BY <1>1, <2>1 DEF NewWrapper, Wrapper
  <2> QED BY <1>3, <2>2, AllocateStep DEF WrapNext, NeedsWrapper, Goto, loopVars
<1> QED BY <1>2, <1>3

(* master_do_work: is the iterator ready?                                   *)
LEMMA CheckStep == ASSUME IInv, Check PROVE IInv'
<1> USE DEF IInv, TypeOK, Check, loopVars, workerVars, Goto
<1>1. References' = References /\ Wrapper' = Wrapper
  BY HeapUntouched
<1>2. HeapType'
  BY <1>1 DEF HeapType
<1>3. ThreadTypes'
  BY <1>1 DEF ThreadTypes, LoopTypes, Labels
<1>4. WorkerTypes'
  BY <1>1 DEF WorkerTypes
<1>5. LoopTypes'
  BY <1>1 DEF LoopTypes
<1>6. RolesOK'
  BY <1>1 DEF ThreadTypes, RolesOK, MasterLabels, LoopLabels, WorkerLabels
<1>7. PlaceOK'
  <2>1. /\ pc'[Main] \in {"read", "walk"}
        /\ \A t \in Threads : t # Main => pc'[t] = pc[t] /\ arg'[t] = arg[t]
    BY DEF ThreadTypes
  <2>2. fresh[Main] = NULL
    BY DEF PlaceOK, QueueingLabels
  <2> QED BY <1>1, <2>1, <2>2 DEF PlaceOK, Holding, QueueingLabels
<1>8. FlatteningOK'
  BY <1>1 DEF ThreadTypes, FlatteningOK, Flattening, QueueingLabels
<1>9. MasterPlaceOK'
  BY <1>1 DEF ThreadTypes, MasterPlaceOK, QueueingLabels
<1>10. LockOK'
  BY <1>1 DEF ThreadTypes, LockOK, Holding
<1>11. WorkerOK'
  BY <1>1 DEF ThreadTypes, WorkerOK, WorkerLabels
<1>12. FreshIsPrivate'
  <2>1. /\ \A t \in Threads : pc'[t] \in Offering => pc'[t] = pc[t]
        /\ arg'[Main] \in {NULL, iter}
    BY DEF ThreadTypes, Offering
  <2> SUFFICES ASSUME NEW t \in Threads, fresh[t] \in References
               PROVE  FreshIsPrivate!(t)!2'
    BY <1>1 DEF FreshIsPrivate
  <2>2. arg'[Main] # fresh[t]
    BY <2>1, HeapShape DEF FreshIsPrivate
  <2> QED BY <1>1, <2>1, <2>2 DEF FreshIsPrivate
<1>13. TasksDiffer'
  BY <1>1 DEF TasksDiffer
<1>14. MasterAlone'
  BY <1>1 DEF ThreadTypes, MasterAlone, Flattening, QueueingLabels
<1>15. AnswersInOrder'
  BY <1>1 DEF ThreadTypes, AnswersInOrder, Flattening, QueueingLabels
<1>16. LoopOK'
  BY <1>1 DEF ThreadTypes, LoopTypes, LoopOK, MasterPlaceOK,
     QueueingLabels, IsWorkFinished
<1> QED BY <1>2, <1>3, <1>4, <1>5, <1>6, <1>7, <1>8, <1>9, <1>10, <1>11, <1>12,
   <1>13, <1>14, <1>15, <1>16

(* master_do_work: what is at this place of the chain?                      *)
LEMMA WalkStep == ASSUME IInv, Walk PROVE IInv'
<1> USE DEF IInv, TypeOK, Walk, loopVars, workerVars, Goto
<1>1. References' = References /\ Wrapper' = Wrapper
  BY HeapUntouched
<1>2. HeapType'
  BY <1>1 DEF HeapType
<1>3. ThreadTypes'
  BY <1>1 DEF ThreadTypes, Labels
<1>4. WorkerTypes'
  BY <1>1 DEF WorkerTypes
<1>5. LoopTypes'
  BY <1>1 DEF LoopTypes
<1>6. RolesOK'
  BY <1>1 DEF ThreadTypes, RolesOK, MasterLabels, LoopLabels, WorkerLabels
<1>7. PlaceOK'
  BY <1>1, HeapShape DEF ThreadTypes, PlaceOK, Holding, QueueingLabels
<1>8. FlatteningOK'
  BY <1>1 DEF ThreadTypes, FlatteningOK, Flattening, QueueingLabels
<1>9. MasterPlaceOK'
  BY <1>1, HeapShape DEF ThreadTypes, MasterPlaceOK, QueueingLabels,
     IsWorkFinished
<1>10. LockOK'
  BY <1>1 DEF ThreadTypes, LockOK, Holding
<1>11. WorkerOK'
  BY <1>1 DEF ThreadTypes, WorkerOK, WorkerLabels
<1>12. FreshIsPrivate'
  BY <1>1 DEF ThreadTypes, FreshIsPrivate, Offering
<1>13. TasksDiffer'
  BY <1>1 DEF TasksDiffer
<1>14. MasterAlone'
  BY <1>1 DEF ThreadTypes, MasterAlone, Flattening, QueueingLabels
<1>15. AnswersInOrder'
  BY <1>1 DEF ThreadTypes, AnswersInOrder, Flattening, QueueingLabels
<1>16. LoopOK'
  BY <1>1 DEF ThreadTypes, LoopTypes, LoopOK, MasterPlaceOK,
     QueueingLabels
<1> QED BY <1>2, <1>3, <1>4, <1>5, <1>6, <1>7, <1>8, <1>9, <1>10, <1>11, <1>12,
   <1>13, <1>14, <1>15, <1>16

(* is_work_in_progress.                                                     *)
LEMMA ProgressStep == ASSUME IInv, Progress PROVE IInv'
<1> USE DEF IInv, TypeOK, Progress, loopVars, workerVars, Goto
<1>1. References' = References /\ Wrapper' = Wrapper
  BY HeapUntouched
<1>2. HeapType'
  BY <1>1 DEF HeapType
<1>3. ThreadTypes'
  BY <1>1, NextIndex DEF ThreadTypes, Labels
<1>4. WorkerTypes'
  BY <1>1 DEF WorkerTypes
<1>5. LoopTypes'
  BY <1>1 DEF LoopTypes
<1>6. RolesOK'
  BY <1>1 DEF ThreadTypes, RolesOK, MasterLabels, LoopLabels, WorkerLabels
<1>7. PlaceOK'
  BY <1>1, HeapShape DEF ThreadTypes, PlaceOK, Holding, QueueingLabels,
     MasterPlaceOK
<1>8. FlatteningOK'
  BY <1>1 DEF ThreadTypes, FlatteningOK, Flattening, QueueingLabels
<1>9. MasterPlaceOK'
  <2>1. /\ pc'[Main] \in {"progress", "advance", "fetch"} /\ pc[Main] = "progress"
        /\ UNCHANGED <<arg, iter, loop>>
    BY DEF ThreadTypes
  <2>2. pc'[Main] = "advance" => arg[Main] \in References
    BY DEF ThreadTypes, WorkerTypes, MasterPlaceOK
  <2> QED BY <1>1, <2>1, <2>2 DEF MasterPlaceOK, QueueingLabels
<1>10. LockOK'
  BY <1>1 DEF ThreadTypes, LockOK, Holding
<1>11. WorkerOK'
  BY <1>1 DEF ThreadTypes, WorkerOK, WorkerLabels
<1>12. FreshIsPrivate'
  BY <1>1 DEF ThreadTypes, FreshIsPrivate, Offering
<1>13. TasksDiffer'
  BY <1>1 DEF TasksDiffer
<1>14. MasterAlone'
  BY <1>1 DEF ThreadTypes, MasterAlone, Flattening, QueueingLabels
<1>15. AnswersInOrder'
  BY <1>1 DEF ThreadTypes, AnswersInOrder, Flattening, QueueingLabels
<1>16. LoopOK'
  BY <1>1 DEF ThreadTypes, LoopTypes, LoopOK, MasterPlaceOK,
     QueueingLabels
<1> QED BY <1>2, <1>3, <1>4, <1>5, <1>6, <1>7, <1>8, <1>9, <1>10, <1>11, <1>12,
   <1>13, <1>14, <1>15, <1>16

(* Down the chain.                                                          *)
LEMMA AdvanceStep == ASSUME IInv, Advance PROVE IInv'
<1> USE DEF IInv, TypeOK, Advance, loopVars, workerVars, Goto
<1>1. References' = References /\ Wrapper' = Wrapper
  BY HeapUntouched
<1>2. HeapType'
  BY <1>1 DEF HeapType
<1>3. ThreadTypes'
  BY <1>1, HeapShape DEF ThreadTypes, MasterPlaceOK, Labels, Wrapper
<1>4. WorkerTypes'
  BY <1>1 DEF WorkerTypes
<1>5. LoopTypes'
  BY <1>1 DEF LoopTypes
<1>6. RolesOK'
  BY <1>1 DEF ThreadTypes, RolesOK, MasterLabels, LoopLabels, WorkerLabels
<1>7. PlaceOK'
  BY <1>1, HeapShape DEF ThreadTypes, PlaceOK, Holding, QueueingLabels
<1>8. FlatteningOK'
  BY <1>1 DEF ThreadTypes, FlatteningOK, Flattening, QueueingLabels
<1>9. MasterPlaceOK'
  BY <1>1 DEF ThreadTypes, MasterPlaceOK, QueueingLabels
<1>10. LockOK'
  BY <1>1 DEF ThreadTypes, LockOK, Holding
<1>11. WorkerOK'
  BY <1>1 DEF ThreadTypes, WorkerOK, WorkerLabels
<1>12. FreshIsPrivate'
  BY <1>1 DEF ThreadTypes, FreshIsPrivate, Offering, MasterPlaceOK
<1>13. TasksDiffer'
  BY <1>1 DEF TasksDiffer
<1>14. MasterAlone'
  BY <1>1 DEF ThreadTypes, MasterAlone, Flattening, QueueingLabels
<1>15. AnswersInOrder'
  BY <1>1 DEF ThreadTypes, AnswersInOrder, Flattening, QueueingLabels
<1>16. LoopOK'
  BY <1>1 DEF ThreadTypes, LoopTypes, LoopOK, MasterPlaceOK,
     QueueingLabels
<1> QED BY <1>2, <1>3, <1>4, <1>5, <1>6, <1>7, <1>8, <1>9, <1>10, <1>11, <1>12,
   <1>13, <1>14, <1>15, <1>16

(* parseq_iterate returns the first wrapper, and the loop starts with it.   *)
LEMMA StartLoopStep == ASSUME IInv, StartLoop PROVE IInv'
<1> USE DEF IInv, TypeOK, StartLoop, workerVars, Goto
<1>1. References' = References /\ Wrapper' = Wrapper
  BY HeapUntouched
<1>2. HeapType'
  BY <1>1 DEF HeapType
<1>3. ThreadTypes'
  BY <1>1 DEF ThreadTypes, Labels
<1>4. WorkerTypes'
  BY <1>1 DEF WorkerTypes
<1>5. LoopTypes'
  BY <1>1 DEF LoopTypes, Methods, PlaceOK
<1>6. RolesOK'
  BY <1>1 DEF ThreadTypes, RolesOK, MasterLabels, LoopLabels, WorkerLabels
<1>7. PlaceOK'
  BY <1>1, HeapShape DEF ThreadTypes, PlaceOK, Holding, QueueingLabels
<1>8. FlatteningOK'
  BY <1>1 DEF ThreadTypes, FlatteningOK, Flattening, QueueingLabels
<1>9. MasterPlaceOK'
  BY <1>1, HeapShape DEF ThreadTypes, MasterPlaceOK, QueueingLabels,
     PlaceOK
<1>10. LockOK'
  BY <1>1 DEF ThreadTypes, LockOK, Holding
<1>11. WorkerOK'
  BY <1>1 DEF ThreadTypes, WorkerOK, WorkerLabels
<1>12. FreshIsPrivate'
  <2>1. /\ fresh'[Main] = NULL /\ iter' = fresh[Main]
        /\ \A t \in Threads : t # Main => fresh'[t] = fresh[t] /\ pc'[t] = pc[t]
    BY DEF ThreadTypes
  <2>2. \A t \in Threads : t # Main /\ fresh[t] \in References => fresh[t] # fresh[Main]
    BY DEF FreshIsPrivate
  <2> QED BY <1>1, <2>1, <2>2, HeapShape DEF FreshIsPrivate
<1>13. TasksDiffer'
  BY <1>1 DEF TasksDiffer
<1>14. MasterAlone'
  BY <1>1 DEF ThreadTypes, MasterAlone, Flattening, QueueingLabels
<1>15. AnswersInOrder'
  BY <1>1 DEF ThreadTypes, AnswersInOrder, Flattening, QueueingLabels
<1>16. LoopOK'
  BY <1>1, HeapShape DEF ThreadTypes, LoopTypes, LoopOK, PlaceOK,
     MasterPlaceOK, QueueingLabels
<1> QED BY <1>2, <1>3, <1>4, <1>5, <1>6, <1>7, <1>8, <1>9, <1>10, <1>11, <1>12,
   <1>13, <1>14, <1>15, <1>16

(* The loop calls a method of its iterator.                                 *)
LEMMA CallStep == ASSUME IInv, Call PROVE IInv'
<1> USE DEF IInv, TypeOK, Call, workerVars, Goto
<1>1. References' = References /\ Wrapper' = Wrapper
  BY HeapUntouched
<1>2. HeapType'
  BY <1>1 DEF HeapType
<1>3. ThreadTypes'
  BY <1>1 DEF ThreadTypes, Labels
<1>4. WorkerTypes'
  BY <1>1 DEF WorkerTypes
<1>5. LoopTypes'
  BY <1>1 DEF LoopTypes, Methods
<1>6. RolesOK'
  BY <1>1 DEF ThreadTypes, RolesOK, MasterLabels, LoopLabels, WorkerLabels
<1>7. PlaceOK'
  BY <1>1, HeapShape DEF ThreadTypes, PlaceOK, Holding, QueueingLabels
<1>8. FlatteningOK'
  BY <1>1 DEF ThreadTypes, FlatteningOK, Flattening, QueueingLabels
<1>9. MasterPlaceOK'
  BY <1>1 DEF ThreadTypes, MasterPlaceOK, QueueingLabels
<1>10. LockOK'
  BY <1>1 DEF ThreadTypes, LockOK, Holding
<1>11. WorkerOK'
  BY <1>1 DEF ThreadTypes, WorkerOK, WorkerLabels
<1>12. FreshIsPrivate'
  BY <1>1 DEF ThreadTypes, FreshIsPrivate, Offering
<1>13. TasksDiffer'
  BY <1>1 DEF TasksDiffer
<1>14. MasterAlone'
  BY <1>1 DEF ThreadTypes, MasterAlone, Flattening, QueueingLabels
<1>15. AnswersInOrder'
  BY <1>1 DEF ThreadTypes, AnswersInOrder, Flattening, QueueingLabels
<1>16. LoopOK'
  BY <1>1 DEF ThreadTypes, LoopTypes, Methods, LoopOK, MasterPlaceOK,
     QueueingLabels
<1> QED BY <1>2, <1>3, <1>4, <1>5, <1>6, <1>7, <1>8, <1>9, <1>10, <1>11, <1>12,
   <1>13, <1>14, <1>15, <1>16

(* The loop learns whether its iterator is valid.                           *)
LEMMA ReadValidStep == ASSUME IInv, ReadValid PROVE IInv'
<1> USE DEF IInv, TypeOK, ReadValid, workerVars, Goto, EndLoop
<1>1. References' = References /\ Wrapper' = Wrapper
  BY HeapUntouched
<1>2. HeapType'
  BY <1>1 DEF HeapType
<1>3. ThreadTypes'
  BY <1>1 DEF ThreadTypes, Labels
<1>4. WorkerTypes'
  BY <1>1 DEF WorkerTypes
<1>5. LoopTypes'
  <2>1. heap[iter] \in Wrapper
    BY HeapShape DEF MasterPlaceOK, LoopTypes, QueueingLabels
  <2>2. reply' \in (Methods \cup {"none"}) \X (Nat \cup {Thrown})
    BY <2>1 DEF Wrapper, Methods
  <2> QED BY <1>1, <2>1, <2>2 DEF LoopTypes, Methods, Wrapper
<1>6. RolesOK'
  BY <1>1 DEF ThreadTypes, RolesOK, MasterLabels, LoopLabels, WorkerLabels
<1>7. PlaceOK'
  BY <1>1, HeapShape DEF ThreadTypes, PlaceOK, Holding, QueueingLabels
<1>8. FlatteningOK'
  BY <1>1 DEF ThreadTypes, FlatteningOK, Flattening, QueueingLabels
<1>9. MasterPlaceOK'
  BY <1>1 DEF ThreadTypes, MasterPlaceOK, QueueingLabels
<1>10. LockOK'
  BY <1>1 DEF ThreadTypes, LockOK, Holding
<1>11. WorkerOK'
  BY <1>1 DEF ThreadTypes, WorkerOK, WorkerLabels
<1>12. FreshIsPrivate'
  BY <1>1, HeapShape DEF ThreadTypes, FreshIsPrivate, Offering
<1>13. TasksDiffer'
  BY <1>1 DEF TasksDiffer
<1>14. MasterAlone'
  BY <1>1 DEF ThreadTypes, MasterAlone, Flattening, QueueingLabels
<1>15. AnswersInOrder'
  BY <1>1 DEF ThreadTypes, AnswersInOrder, Flattening, QueueingLabels
<1>16. LoopOK'
  BY <1>1 DEF ThreadTypes, LoopTypes, Methods, LoopOK, MasterPlaceOK,
     QueueingLabels
<1> QED BY <1>2, <1>3, <1>4, <1>5, <1>6, <1>7, <1>8, <1>9, <1>10, <1>11, <1>12,
   <1>13, <1>14, <1>15, <1>16

(* The loop gets the element.                                               *)
LEMMA ReadCurrentStep == ASSUME IInv, ReadCurrent PROVE IInv'
<1> USE DEF IInv, TypeOK, ReadCurrent, workerVars, Goto
<1>1. References' = References /\ Wrapper' = Wrapper
  BY HeapUntouched
<1>2. HeapType'
  BY <1>1 DEF HeapType
<1>3. ThreadTypes'
  BY <1>1 DEF ThreadTypes, Labels
<1>4. WorkerTypes'
  BY <1>1 DEF WorkerTypes
<1>5. LoopTypes'
  <2>1. heap[iter] \in Wrapper
    BY HeapShape DEF MasterPlaceOK, LoopTypes, QueueingLabels
  <2>2. reply' \in (Methods \cup {"none"}) \X (Nat \cup {Thrown})
    BY <2>1 DEF Wrapper, Methods
  <2> QED BY <1>1, <2>1, <2>2 DEF LoopTypes, Methods, Wrapper
<1>6. RolesOK'
  BY <1>1 DEF ThreadTypes, RolesOK, MasterLabels, LoopLabels, WorkerLabels
<1>7. PlaceOK'
  BY <1>1, HeapShape DEF ThreadTypes, PlaceOK, Holding, QueueingLabels
<1>8. FlatteningOK'
  BY <1>1 DEF ThreadTypes, FlatteningOK, Flattening, QueueingLabels
<1>9. MasterPlaceOK'
  BY <1>1 DEF ThreadTypes, MasterPlaceOK, QueueingLabels
<1>10. LockOK'
  BY <1>1 DEF ThreadTypes, LockOK, Holding
<1>11. WorkerOK'
  BY <1>1 DEF ThreadTypes, WorkerOK, WorkerLabels
<1>12. FreshIsPrivate'
  BY <1>1, HeapShape DEF ThreadTypes, FreshIsPrivate, Offering
<1>13. TasksDiffer'
  BY <1>1 DEF TasksDiffer
<1>14. MasterAlone'
  BY <1>1 DEF ThreadTypes, MasterAlone, Flattening, QueueingLabels
<1>15. AnswersInOrder'
  BY <1>1 DEF ThreadTypes, AnswersInOrder, Flattening, QueueingLabels
<1>16. LoopOK'
  BY <1>1 DEF ThreadTypes, LoopTypes, Methods, LoopOK, MasterPlaceOK,
     QueueingLabels
<1> QED BY <1>2, <1>3, <1>4, <1>5, <1>6, <1>7, <1>8, <1>9, <1>10, <1>11, <1>12,
   <1>13, <1>14, <1>15, <1>16

(* The loop gets the next iterator.                                         *)
LEMMA ReadNextStep == ASSUME IInv, ReadNext PROVE IInv'
<1> USE DEF IInv, TypeOK, ReadNext, workerVars, Goto
<1>1. References' = References /\ Wrapper' = Wrapper
  BY HeapUntouched
<1>2. HeapType'
  BY <1>1 DEF HeapType
<1>3. ThreadTypes'
  BY <1>1 DEF ThreadTypes, Labels
<1>4. WorkerTypes'
  BY <1>1 DEF WorkerTypes
<1>5. LoopTypes'
  <2>1. iter \in References /\ heap[iter] \in Wrapper
    BY HeapShape DEF MasterPlaceOK, LoopTypes, QueueingLabels
  <2>2. (IF heap[iter].next \in DOMAIN heap THEN heap[heap[iter].next].pos
                                          ELSE heap[iter].next)
           \in Nat \cup {Thrown}
    <3>1. DOMAIN heap = References
      BY DEF References, HeapType
    <3> QED BY <2>1, <3>1, HeapShape DEF Wrapper
  <2>3. reply' \in (Methods \cup {"none"}) \X (Nat \cup {Thrown})
    BY <2>2 DEF Methods
  <2> QED BY <1>1, <2>1, <2>3 DEF LoopTypes, Methods, Wrapper
<1>6. RolesOK'
  BY <1>1 DEF ThreadTypes, RolesOK, MasterLabels, LoopLabels, WorkerLabels
<1>7. PlaceOK'
  BY <1>1, HeapShape DEF ThreadTypes, PlaceOK, Holding, QueueingLabels
<1>8. FlatteningOK'
  BY <1>1 DEF ThreadTypes, FlatteningOK, Flattening, QueueingLabels
<1>9. MasterPlaceOK'
  BY <1>1 DEF ThreadTypes, MasterPlaceOK, QueueingLabels
<1>10. LockOK'
  BY <1>1 DEF ThreadTypes, LockOK, Holding
<1>11. WorkerOK'
  BY <1>1 DEF ThreadTypes, WorkerOK, WorkerLabels
<1>12. FreshIsPrivate'
  <2>1. iter \in References /\ heap[iter] \in Wrapper
    BY HeapShape DEF MasterPlaceOK, LoopTypes, QueueingLabels
  <2>2. \A t \in Threads : fresh[t] \in References => held' # fresh[t]
    BY <2>1 DEF FreshIsPrivate
  <2> QED BY <1>1, <2>2 DEF ThreadTypes, FreshIsPrivate, Offering
<1>13. TasksDiffer'
  BY <1>1 DEF TasksDiffer
<1>14. MasterAlone'
  BY <1>1 DEF ThreadTypes, MasterAlone, Flattening, QueueingLabels
<1>15. AnswersInOrder'
  BY <1>1 DEF ThreadTypes, AnswersInOrder, Flattening, QueueingLabels
<1>16. LoopOK'
  <2>1. iter \in References /\ heap[iter] \in Wrapper
    BY HeapShape DEF MasterPlaceOK, LoopTypes, QueueingLabels
  <2>2. heap[iter].next # NULL
    BY <2>1 DEF LoopOK, AnswersInOrder
  <2> QED BY <2>1, <2>2 DEF ThreadTypes, LoopTypes, LoopOK, MasterPlaceOK
<1> QED BY <1>2, <1>3, <1>4, <1>5, <1>6, <1>7, <1>8, <1>9, <1>10, <1>11, <1>12,
   <1>13, <1>14, <1>15, <1>16

(* The loop goes round.                                                     *)
LEMMA ContinueStep == ASSUME IInv, Continue PROVE IInv'
<1> USE DEF IInv, TypeOK, Continue, workerVars, Goto, threadVars
<1>1. References' = References /\ Wrapper' = Wrapper
  BY HeapUntouched
<1>2. HeapType'
  BY <1>1 DEF HeapType
<1>3. ThreadTypes'
  BY <1>1 DEF ThreadTypes, Labels
<1>4. WorkerTypes'
  BY <1>1 DEF WorkerTypes
<1>5. LoopTypes'
  <2>1. held \in References
    BY DEF LoopOK, LoopTypes, MasterPlaceOK, QueueingLabels
  <2> QED BY <1>1, <2>1 DEF LoopTypes, Methods
<1>6. RolesOK'
  BY <1>1 DEF ThreadTypes, RolesOK, MasterLabels, LoopLabels, WorkerLabels
<1>7. PlaceOK'
  BY <1>1, HeapShape DEF ThreadTypes, PlaceOK, Holding, QueueingLabels
<1>8. FlatteningOK'
  BY <1>1 DEF ThreadTypes, FlatteningOK, Flattening, QueueingLabels
<1>9. MasterPlaceOK'
  <2>1. held \in References
    BY DEF LoopOK, LoopTypes, MasterPlaceOK, QueueingLabels
  <2> QED BY <1>1, <2>1, HeapShape DEF MasterPlaceOK
<1>10. LockOK'
  BY <1>1 DEF ThreadTypes, LockOK, Holding
<1>11. WorkerOK'
  BY <1>1 DEF ThreadTypes, WorkerOK, WorkerLabels
<1>12. FreshIsPrivate'
  <2>1. \A t \in Threads : fresh[t] \in References =>
          iter' # fresh[t] /\ held' # fresh[t]
    BY HeapShape DEF FreshIsPrivate
  <2> QED BY <1>1, <2>1 DEF FreshIsPrivate
<1>13. TasksDiffer'
  BY <1>1 DEF TasksDiffer
<1>14. MasterAlone'
  BY <1>1 DEF ThreadTypes, MasterAlone, Flattening, QueueingLabels
<1>15. AnswersInOrder'
  BY <1>1 DEF ThreadTypes, AnswersInOrder, Flattening, QueueingLabels
<1>16. LoopOK'
  BY <1>1 DEF ThreadTypes, LoopTypes, Methods, LoopOK, MasterPlaceOK,
     QueueingLabels
<1> QED BY <1>2, <1>3, <1>4, <1>5, <1>6, <1>7, <1>8, <1>9, <1>10, <1>11, <1>12,
   <1>13, <1>14, <1>15, <1>16

(* The loop is left.                                                        *)
LEMMA LeaveLoopStep == ASSUME IInv, LeaveLoop PROVE IInv'
<1> USE DEF IInv, TypeOK, LeaveLoop, workerVars, Goto, EndLoop
<1>1. References' = References /\ Wrapper' = Wrapper
  BY HeapUntouched
<1>2. HeapType'
  BY <1>1 DEF HeapType
<1>3. ThreadTypes'
  BY <1>1 DEF ThreadTypes, Labels
<1>4. WorkerTypes'
  BY <1>1 DEF WorkerTypes
<1>5. LoopTypes'
  BY <1>1 DEF LoopTypes
<1>6. RolesOK'
  BY <1>1 DEF ThreadTypes, RolesOK, MasterLabels, LoopLabels, WorkerLabels
<1>7. PlaceOK'
  BY <1>1, HeapShape DEF ThreadTypes, PlaceOK, Holding, QueueingLabels
<1>8. FlatteningOK'
  BY <1>1 DEF ThreadTypes, FlatteningOK, Flattening, QueueingLabels
<1>9. MasterPlaceOK'
  BY <1>1 DEF ThreadTypes, MasterPlaceOK, QueueingLabels
<1>10. LockOK'
  BY <1>1 DEF ThreadTypes, LockOK, Holding
<1>11. WorkerOK'
  BY <1>1 DEF ThreadTypes, WorkerOK, WorkerLabels
<1>12. FreshIsPrivate'
  BY <1>1, HeapShape DEF ThreadTypes, FreshIsPrivate, Offering
<1>13. TasksDiffer'
  BY <1>1 DEF TasksDiffer
<1>14. MasterAlone'
  BY <1>1 DEF ThreadTypes, MasterAlone, Flattening, QueueingLabels
<1>15. AnswersInOrder'
  BY <1>1 DEF ThreadTypes, AnswersInOrder, Flattening, QueueingLabels
<1>16. LoopOK'
  BY <1>1 DEF ThreadTypes, LoopTypes, Methods, LoopOK, MasterPlaceOK,
     QueueingLabels
<1> QED BY <1>2, <1>3, <1>4, <1>5, <1>6, <1>7, <1>8, <1>9, <1>10, <1>11, <1>12,
   <1>13, <1>14, <1>15, <1>16

(* A loop begins.                                                           *)
LEMMA BeginLoopStep == ASSUME IInv, BeginLoop PROVE IInv'
<1> DEFINE r == NewWrapper(loop', 1)
<1>1. loop \in 0..MaxLoops /\ MaxLoops \in Nat
  BY MaxLoopsAssumption DEF IInv, TypeOK, LoopTypes, MaxLoopsAssumption
<1>2. CASE program[loop'] = << >>
  <2>1. loop' \in 0..MaxLoops /\ loop' = loop + 1
    BY <1>1 DEF BeginLoop
  <2>2. UNCHANGED <<heap, threadVars, workerVars,
                    program, iter, want, todo, held, failed, reply>>
    BY <1>2 DEF BeginLoop, threadVars
  <2>3. References' = References /\ Wrapper' = Wrapper
    BY <2>2, HeapUntouched
  <2>4. TypeOK'
    BY <2>1, <2>2, <2>3 DEF IInv, TypeOK, HeapType, ThreadTypes, WorkerTypes,
       LoopTypes, threadVars, workerVars
  <2>5. /\ RolesOK' /\ PlaceOK' /\ FlatteningOK' /\ LockOK' /\ WorkerOK'
        /\ FreshIsPrivate' /\ TasksDiffer' /\ MasterAlone'
        /\ AnswersInOrder' /\ LoopOK'
    BY <2>2, <2>3 DEF IInv, RolesOK, PlaceOK, FlatteningOK, Flattening, LockOK,
       WorkerOK, FreshIsPrivate, TasksDiffer, MasterAlone, AnswersInOrder,
       LoopOK, threadVars, workerVars
  <2>6. MasterPlaceOK'
    BY <1>1, <2>1, <2>2, <2>3 DEF IInv, MasterPlaceOK, threadVars
  <2> QED BY <2>4, <2>5, <2>6 DEF IInv
<1>3. CASE program[loop'] # << >>
  <2>1. loop' = loop + 1 /\ loop' \in Nat
    BY <1>1 DEF BeginLoop
  <2>2. r \in Wrapper /\ r.wrapped # NULL /\ r.next = NULL
    BY <2>1 DEF NewWrapper, Wrapper
  <2> QED BY <1>3, <2>1, <2>2, AllocateStep DEF BeginLoop, Goto
<1> QED BY <1>2, <1>3

LEMMA UnchangedStep == ASSUME IInv, UNCHANGED vars PROVE IInv'
<1> USE DEF vars, threadVars, workerVars, loopVars
<1>1. References' = References /\ Wrapper' = Wrapper
  BY HeapUntouched
<1>2. TypeOK'
  BY <1>1 DEF IInv, TypeOK, HeapType, ThreadTypes, WorkerTypes, LoopTypes
<1>3. /\ RolesOK' /\ PlaceOK' /\ FlatteningOK' /\ LockOK' /\ WorkerOK'
      /\ FreshIsPrivate' /\ TasksDiffer' /\ MasterAlone'
      /\ AnswersInOrder' /\ LoopOK' /\ MasterPlaceOK'
  BY <1>1 DEF IInv, RolesOK, PlaceOK, FlatteningOK, Flattening, LockOK,
     WorkerOK, FreshIsPrivate, TasksDiffer, MasterAlone, AnswersInOrder,
     LoopOK, MasterPlaceOK
<1> QED BY <1>2, <1>3 DEF IInv

(* Every step of the program preserves the invariant.                       *)
LEMMA ProcessIteratorStep ==
  ASSUME IInv, NEW t \in Threads, ProcessIterator(t) PROVE IInv'
BY FetchStep, StoreValidStep, WrapNextStep, LinkNextStep, StoreCurrentStep,
   ClearWrappedStep, LookStep, TryLockStep, RecheckStep, SetZoneStep,
   SetTaskStep, UnlockStep DEF ProcessIterator, QueueIterator

LEMMA NextIInv == IInv /\ [Next]_vars => IInv'
<1> SUFFICES ASSUME IInv, [Next]_vars PROVE IInv'
  OBVIOUS
<1>1. CASE Loop
  BY <1>1, BeginLoopStep, StartLoopStep, CallStep, ReadValidStep,
     ReadCurrentStep, ReadNextStep, ContinueStep, LeaveLoopStep DEF Loop
<1>2. CASE MasterDoWork
  BY <1>2, CheckStep, WalkStep, ProgressStep, AdvanceStep DEF MasterDoWork
<1>3. CASE \E t \in Threads : ProcessIterator(t)
  BY <1>3, ProcessIteratorStep
<1>4. ASSUME NEW w \in Workers, WorkerMain(w)
      PROVE  IInv'
  <2>1. w \in Threads
    OBVIOUS
  <2> QED BY <1>3, <1>4, <2>1, TakeTaskStep, ClearZoneStep, ClearTaskStep
          DEF WorkerMain
<1>5. CASE UNCHANGED vars
  BY <1>5, UnchangedStep
<1> QED BY <1>1, <1>2, <1>3, <1>4, <1>5 DEF Next, MainThread

(* The inductive invariant holds of every reachable state, for any number of*)
(* workers (two at least), any set of sequences and any number of loops.    *)
THEOREM Invariance == Spec => []IInv
BY InitIInv, NextIInv, PTL DEF Spec

(* Type correctness: in particular every reference that a thread, a         *)
(* worker_t or a wrapper of parallel.c holds is to a wrapper that exists.   *)
THEOREM TypeCorrect == Spec => []TypeOK
<1>1. IInv => TypeOK
  BY DEF IInv
<1> QED BY <1>1, Invariance, PTL

(* parallel.c never has two threads flatten one wrapper at a time.          *)
THEOREM MutualExclusion == Spec => []FlattenedByOne
BY Exclusive, Invariance, PTL

(* The asserts worker_main makes of a task it finds hold.                   *)
THEOREM TasksAreReady == Spec => []TaskReady
<1>1. IInv => TaskReady
  BY HeapShape DEF IInv, TypeOK, WorkerTypes, WorkerOK, TaskReady,
     IsWorkFinished
<1> QED BY <1>1, Invariance, PTL

-----------------------------------------------------------------------------
(* What a step of the parallel loop engine may never do, for any number of  *)
(* workers, loops and sequences: the action properties of ParallelIterators *)
(* from the inductive invariant.                                            *)
(* Only queue_iterator's last store and worker_main's last one write the    *)
(* task of a worker.                                                        *)
LEMMA TaskWriters ==
  ASSUME Next, task' # task
  PROVE  \/ \E t \in Threads : SetTask(t)
         \/ \E w \in Workers : ClearTask(w)
<1> USE DEF vars, threadVars, workerVars, loopVars
<1>1. Loop => task' = task
  BY DEF Loop, BeginLoop, StartLoop, Call, ReadValid, ReadCurrent, ReadNext,
         Continue, LeaveLoop
<1>2. MasterDoWork => task' = task
  BY DEF MasterDoWork, Check, Walk, Progress, Advance
<1>3. ASSUME NEW t \in Threads, ProcessIterator(t), ~ SetTask(t)
      PROVE  task' = task
  BY <1>3 DEF ProcessIterator, Fetch, StoreValid, WrapNext, LinkNext, StoreCurrent,
              ClearWrapped, QueueIterator, Look, TryLock, Recheck, SetZone, Unlock
<1>4. ASSUME NEW w \in Workers, WorkerMain(w),
             \A t \in Threads : ~ SetTask(t), ~ ClearTask(w)
      PROVE  task' = task
  <2>1. w \in Threads
    OBVIOUS
  <2>2. ProcessIterator(w) => task' = task
    BY <1>3, <1>4, <2>1
  <2> QED BY <1>4, <2>2 DEF WorkerMain, TakeTask, ClearZone
<1> QED BY <1>1, <1>2, <1>3, <1>4 DEF Next, MainThread

LEMMA TaskStored ==
  ASSUME IInv, NEW t \in Threads, SetTask(t), NEW w \in Workers, task'[w] # task[w]
  PROVE  HandsOver(w)
<1>1. idx[t] = w
  BY DEF SetTask, IInv, TypeOK, WorkerTypes
<1>2. task[w] = NULL /\ lock[w] = t
  BY <1>1 DEF SetTask, IInv, LockOK, Holding
<1>3. pc[w] = "idle"
  BY <1>2 DEF IInv, WorkerOK
<1> QED BY <1>2, <1>3 DEF HandsOver

LEMMA TaskPutAway ==
  ASSUME IInv, NEW v \in Workers, ClearTask(v), NEW w \in Workers, task'[w] # task[w]
  PROVE  HandsOver(w)
<1>1. v = w /\ task'[w] = NULL
  BY DEF ClearTask, IInv, TypeOK, WorkerTypes
<1>2. pc[w] = "cleartask" /\ task[w] # NULL
  BY <1>1 DEF ClearTask
<1> QED BY <1>1, <1>2 DEF HandsOver

(* queue_iterator never takes a task from a worker that has one, and a      *)
(* worker's task changes under the lock or in its own hands, although       *)
(* worker_main never locks.                                                 *)
THEOREM TasksHandedOver == Spec => TasksNotOverwritten
<1>1. ASSUME IInv, Next, NEW w \in Workers, task'[w] # task[w]
      PROVE  HandsOver(w)
  <2>1. task' # task
    BY <1>1
  <2> QED BY <1>1, <2>1, TaskWriters, TaskStored, TaskPutAway
<1>2. IInv /\ [Next]_vars => [\A w \in Workers : task'[w] # task[w] => HandsOver(w)]_vars
  BY <1>1
<1> QED BY <1>2, Invariance, PTL DEF Spec, TasksNotOverwritten

-----------------------------------------------------------------------------
(* A wrapper is written by the one thread that flattens it, one slot after  *)
(* the other, so what a store overwrites is a slot that is still empty.     *)
NextToCome == {"valid", "wrap", "link"} \cup QueueingLabels

Untouched(w) == heap[w].valid = NULL /\ heap[w].current = NULL /\ heap[w].next = NULL

InNobodysHands(w) == \A t \in Threads : Flattening(t) => arg[t] # w

SlotsToCome(t) ==
    /\ pc[t] = "valid" => heap[arg[t]].valid = NULL
    /\ pc[t] \in NextToCome => heap[arg[t]].next = NULL
    /\ pc[t] \in NextToCome \cup {"current"} => heap[arg[t]].current = NULL

SlotsOK ==
    /\ \A w \in References :
         heap[w].wrapped # NULL /\ InNobodysHands(w) => Untouched(w)
    /\ \A t \in Threads : Flattening(t) => SlotsToCome(t)

(* Steps that neither write a wrapper nor go on to the next slot.           *)
Quiet ==
    /\ heap' = heap
    /\ \A t \in Threads :
         /\ Flattening(t)' <=> Flattening(t)
         /\ Flattening(t) =>
              /\ arg'[t] = arg[t]
              /\ pc'[t] = "valid" => pc[t] = "valid"
              /\ pc'[t] \in NextToCome => pc[t] \in NextToCome
              /\ pc'[t] = "current" => pc[t] = "current"

LEMMA QuietStep == ASSUME SlotsOK, Quiet PROVE SlotsOK'
<1>1. References' = References
  BY HeapUntouched DEF Quiet
<1>2. \A w \in References : InNobodysHands(w)' => InNobodysHands(w)
  BY DEF Quiet, InNobodysHands
<1>3. \A t \in Threads : Flattening(t)' => SlotsToCome(t)'
  BY DEF Quiet, SlotsOK, SlotsToCome
<1> QED BY <1>1, <1>2, <1>3 DEF Quiet, SlotsOK, Untouched

(* queue_iterator writes the workers' table only.                           *)
LEMMA QueueingIsQuiet ==
  ASSUME IInv, NEW t \in Threads, QueueIterator(t)
  PROVE  Quiet
<1>1. pc \in [Threads -> Labels]
  BY DEF IInv, TypeOK, ThreadTypes
<1>2. /\ UNCHANGED <<heap, arg, iter>>
      /\ pc[t] \in QueueingLabels
      /\ \E l \in QueueingLabels \cup {AfterQueueing(t)} : pc' = [pc EXCEPT ![t] = l]
  <2> USE DEF Goto, NextWorker, QueueingLabels, workerVars, loopVars
  <2>1. Look(t) \/ TryLock(t) \/ Recheck(t) \/ SetZone(t) \/ SetTask(t) \/ Unlock(t)
    BY DEF QueueIterator
  <2>2. CASE Look(t)
    BY <2>2 DEF Look
  <2>3. CASE TryLock(t)
    BY <2>3 DEF TryLock
  <2>4. CASE Recheck(t)
    BY <2>4 DEF Recheck
  <2>5. CASE SetZone(t) \/ SetTask(t)
    BY <2>5 DEF SetZone, SetTask
  <2>6. CASE Unlock(t)
    BY <2>6 DEF Unlock
  <2> QED BY <2>1, <2>2, <2>3, <2>4, <2>5, <2>6
<1>3. AfterQueueing(t) = IF iter = NULL /\ t = Main THEN "start" ELSE "link"
  BY DEF AfterQueueing
<1>4. \A u \in Threads : u # t => pc'[u] = pc[u]
  BY <1>1, <1>2
<1>5. pc'[t] \in QueueingLabels \cup {AfterQueueing(t)}
  BY <1>1, <1>2
<1> QED BY <1>2, <1>3, <1>4, <1>5 DEF Quiet, Flattening, NextToCome, QueueingLabels

(* The master's reading and waiting, except for the start of a loop, which  *)
(* allocates.                                                               *)
LEMMA LoopIsQuiet ==
  ASSUME IInv, Loop, ~ BeginLoop
  PROVE  Quiet
<1>1. pc \in [Threads -> Labels]
  BY DEF IInv, TypeOK, ThreadTypes
<1>2. /\ heap' = heap /\ arg' = arg
      /\ pc[Main] \in LoopLabels
      /\ pc'[Main] \in LoopLabels \cup {"check"}
      /\ \A u \in Threads : u # Main => pc'[u] = pc[u]
  <2> USE <1>1 DEF Goto, EndLoop, threadVars, LoopLabels
  <2>1. CASE StartLoop
    BY <2>1 DEF StartLoop
  <2>2. CASE Call
    BY <2>2 DEF Call
  <2>3. CASE ReadValid
    BY <2>3 DEF ReadValid
  <2>4. CASE ReadCurrent \/ ReadNext
    BY <2>4 DEF ReadCurrent, ReadNext
  <2>5. CASE Continue
    BY <2>5 DEF Continue
  <2>6. CASE LeaveLoop
    BY <2>6 DEF LeaveLoop
  <2> QED BY <2>1, <2>2, <2>3, <2>4, <2>5, <2>6 DEF Loop
<1> QED BY <1>2 DEF Quiet, Flattening, LoopLabels, QueueingLabels, NextToCome

LEMMA WaitingIsQuiet ==
  ASSUME IInv, MasterDoWork
  PROVE  Quiet
<1>1. pc \in [Threads -> Labels] /\ arg \in [Threads -> References \cup {NULL, Thrown}]
  BY DEF IInv, TypeOK, ThreadTypes
<1>2. /\ heap' = heap /\ iter' = iter
      /\ pc[Main] \in {"check", "walk", "progress", "advance"}
      /\ pc'[Main] \in {"check", "walk", "progress", "advance", "read", "fetch"}
      /\ \A u \in Threads : u # Main => pc'[u] = pc[u] /\ arg'[u] = arg[u]
  <2> USE <1>1 DEF Goto, loopVars
  <2>1. CASE Check
    BY <2>1 DEF Check
  <2>2. CASE Walk
    BY <2>2 DEF Walk
  <2>3. CASE Progress
    BY <2>3 DEF Progress
  <2>4. CASE Advance
    BY <2>4 DEF Advance
  <2> QED BY <2>1, <2>2, <2>3, <2>4 DEF MasterDoWork
<1> QED BY <1>2 DEF Quiet, Flattening, QueueingLabels, NextToCome

LEMMA TakingIsQuiet ==
  ASSUME IInv, NEW w \in Workers, TakeTask(w) \/ ClearZone(w) \/ ClearTask(w)
  PROVE  Quiet
<1>1. pc \in [Threads -> Labels] /\ arg \in [Threads -> References \cup {NULL, Thrown}]
  BY DEF IInv, TypeOK, ThreadTypes
<1>2. /\ heap' = heap /\ iter' = iter
      /\ pc[w] \in WorkerLabels /\ pc'[w] \in WorkerLabels \cup {"fetch"}
      /\ \A u \in Threads : u # w => pc'[u] = pc[u] /\ arg'[u] = arg[u]
  BY <1>1 DEF TakeTask, ClearZone, ClearTask, Goto, loopVars, WorkerLabels
<1> QED BY <1>2 DEF Quiet, Flattening, QueueingLabels, NextToCome, WorkerLabels

(* A wrapper that is fetched has nobody else working at it.                 *)
LEMMA FetchKeepsSlots ==
  ASSUME IInv, SlotsOK, NEW t \in Threads, Fetch(t)
  PROVE  SlotsOK'
<1>1. pc \in [Threads -> Labels]
  BY DEF IInv, TypeOK, ThreadTypes
<1>2. /\ UNCHANGED <<heap, arg, iter>> /\ References' = References
      /\ pc[t] = "fetch" /\ ~ Flattening(t)
      /\ \A u \in Threads : u # t => pc'[u] = pc[u]
  BY <1>1, HeapUntouched DEF Fetch, Return, Goto, loopVars, Flattening, QueueingLabels
<1>3. CASE pc'[t] # "valid"
  <2>1. pc'[t] \in {"check", "clearzone"}
    BY <1>1, <1>3 DEF Fetch, Return, Goto
  <2>2. Quiet
    BY <1>2, <2>1 DEF Quiet, Flattening, QueueingLabels, NextToCome
  <2> QED BY <2>2, QuietStep
<1>4. CASE pc'[t] = "valid"
  <2>1. arg[t] \in References /\ heap[arg[t]].wrapped # NULL
    BY <1>1, <1>2, <1>4 DEF Fetch, Return, Goto, IInv, PlaceOK, TypeOK, ThreadTypes
  <2>2. Flattening(t)' /\ \A u \in Threads : u # t => Flattening(u)' = Flattening(u)
    BY <1>2, <1>4, InHand DEF Flattening, IInv, MasterPlaceOK, QueueingLabels
  <2>3. \A w \in Workers : Flattening(w) => task[w] # NULL /\ arg[w] = task[w]
    BY DEF IInv, WorkerOK, WorkerLabels, Flattening, QueueingLabels
  <2>4. InNobodysHands(arg[t])
    <3>1. CASE t = Main
      BY <1>2, <2>3, <3>1 DEF InNobodysHands, IInv, MasterAlone
    <3>2. CASE t \in Workers
      <4>1. task[t] # NULL /\ arg[t] = task[t]
        BY <1>2, <3>2 DEF IInv, WorkerOK, WorkerLabels
      <4> QED BY <1>2, <2>3, <3>2, <4>1 DEF InNobodysHands, IInv, MasterAlone, TasksDiffer
    <3> QED BY <3>1, <3>2
  <2>5. SlotsToCome(t)'
    BY <1>2, <1>4, <2>1, <2>4 DEF SlotsOK, Untouched, SlotsToCome
  <2>6. \A u \in Threads : u # t /\ Flattening(u) => SlotsToCome(u)'
    BY <1>2 DEF SlotsOK, SlotsToCome
  <2>7. \A w \in References : InNobodysHands(w)' => InNobodysHands(w)
    BY <1>2, <2>2 DEF InNobodysHands
  <2> QED BY <1>2, <2>2, <2>5, <2>6, <2>7 DEF SlotsOK, Untouched
<1> QED BY <1>3, <1>4

(* A store into the wrapper a thread has in hand: the others do not hold it.*)
LEMMA OthersHoldOthers ==
  ASSUME IInv, NEW t \in Threads, Flattening(t)
  PROVE  \A u \in Threads : u # t /\ Flattening(u) => arg[u] # arg[t]
BY Exclusive DEF FlattenedByOne

LEMMA StoreKeepsSlots ==
  ASSUME IInv, HeapType', SlotsOK, NEW t \in Threads,
         StoreValid(t) \/ LinkNext(t) \/ StoreCurrent(t) \/ ClearWrapped(t)
  PROVE  SlotsOK'
<1>1. /\ pc \in [Threads -> Labels] /\ heap \in Seq(Wrapper)
      /\ \A w \in References : heap[w] \in Wrapper
  BY HeapShape DEF IInv, TypeOK, ThreadTypes, HeapType
<1>2. /\ pc[t] \in {"valid", "link", "current", "clear"}
      /\ Flattening(t) /\ arg[t] \in References
  BY InHand DEF StoreValid, LinkNext, StoreCurrent, ClearWrapped
<1>3. /\ UNCHANGED <<arg, iter>>
      /\ \A u \in Threads : u # t => pc'[u] = pc[u]
  BY <1>1 DEF StoreValid, LinkNext, StoreCurrent, ClearWrapped, Return, Goto, loopVars
<1>4. \E r : heap' = [heap EXCEPT ![arg[t]] = r]
  BY DEF StoreValid, LinkNext, StoreCurrent, ClearWrapped
<1>5. /\ References' = References
      /\ \A w \in References : w # arg[t] => heap'[w] = heap[w]
  <2>1. DOMAIN heap' = DOMAIN heap
    BY <1>4
  <2>2. DOMAIN heap = 1..Len(heap) /\ DOMAIN heap' = 1..Len(heap')
    BY <1>1, LenProperties DEF HeapType
  <2> QED BY <1>4, <2>1, <2>2 DEF References
<1>6. \A u \in Threads : u # t =>
         /\ Flattening(u)' <=> Flattening(u)
         /\ Flattening(u) => SlotsToCome(u)'
  <2>1. \A u \in Threads : Flattening(u) => arg[u] \in References
    BY DEF IInv, FlatteningOK
  <2>2. \A u \in Threads : u # t => (Flattening(u)' <=> Flattening(u))
    BY <1>3 DEF Flattening
  <2>3. \A u \in Threads : u # t /\ Flattening(u) => SlotsToCome(u)'
    BY <1>2, <1>3, <1>5, <2>1, OthersHoldOthers DEF SlotsOK, SlotsToCome
  <2> QED BY <2>2, <2>3
<1>7. CASE pc[t] = "clear"
  <2>1. ClearWrapped(t)
    BY <1>7 DEF StoreValid, LinkNext, StoreCurrent
  <2>2. pc'[t] \in {"check", "clearzone"} /\ heap'[arg[t]].wrapped = NULL
    BY <1>1, <1>2, <2>1 DEF ClearWrapped, Return, Goto, Wrapper, References
  <2>3. ~ Flattening(t)'
    BY <2>2 DEF Flattening, QueueingLabels
  <2>4. \A w \in References : w # arg[t] /\ InNobodysHands(w)' => InNobodysHands(w)
    BY <1>3, <1>6 DEF InNobodysHands
  <2> QED BY <1>5, <1>6, <2>2, <2>3, <2>4 DEF SlotsOK, Untouched
<1>8. CASE pc[t] # "clear"
  <2>1. Flattening(t)'
    BY <1>1, <1>2, <1>3, <1>8
       DEF StoreValid, LinkNext, StoreCurrent, ClearWrapped, Goto, Flattening
  <2>2. SlotsToCome(t)'
    <3>1. SlotsToCome(t) /\ heap[arg[t]] \in Wrapper
      BY <1>1, <1>2 DEF SlotsOK
    <3>2. CASE StoreValid(t)
      BY <1>1, <1>2, <1>3, <3>1, <3>2
         DEF StoreValid, Goto, SlotsToCome, NextToCome, QueueingLabels, Wrapper, References
    <3>3. CASE LinkNext(t)
      BY <1>1, <1>2, <1>3, <3>1, <3>3
         DEF LinkNext, Goto, SlotsToCome, NextToCome, QueueingLabels, Wrapper, References
    <3>4. CASE StoreCurrent(t)
      BY <1>1, <1>2, <1>3, <3>4
         DEF StoreCurrent, Goto, SlotsToCome, NextToCome, QueueingLabels
    <3> QED BY <1>8, <3>2, <3>3, <3>4 DEF ClearWrapped
  <2>3. \A w \in References : InNobodysHands(w)' => w # arg[t] /\ InNobodysHands(w)
    BY <1>3, <1>6, <2>1 DEF InNobodysHands
  <2> QED BY <1>5, <1>6, <2>1, <2>2, <2>3 DEF SlotsOK, Untouched
<1> QED BY <1>7, <1>8

LEMMA NewUntouched ==
  ASSUME NEW n, NEW l, NEW p, heap'[n] = NewWrapper(l, p)
  PROVE  Untouched(n)'
BY DEF Untouched, NewWrapper

(* A new wrapper has no answers, and an exception takes the place of one.   *)
LEMMA NewKeepsSlots ==
  ASSUME IInv, SlotsOK, HeapType', NEW t \in Threads,
         NEW l, NEW p, heap' = Append(heap, NewWrapper(l, p)),
         pc' = [pc EXCEPT ![t] = "look"], UNCHANGED <<arg, iter>>,
         pc[t] = "wrap" \/ (t = Main /\ pc[t] = "between")
  PROVE  SlotsOK'
<1>1. /\ pc \in [Threads -> Labels] /\ heap \in Seq(Wrapper) /\ Len(heap) \in Nat
  BY HeapShape DEF IInv, TypeOK, ThreadTypes, HeapType
<1>2. /\ References' = References \cup {Len(heap) + 1}
      /\ heap'[Len(heap) + 1] = NewWrapper(l, p)
      /\ \A w \in References : heap'[w] = heap[w]
  <2> DEFINE r == NewWrapper(l, p)
  <2>1. heap \in Seq(Wrapper \cup {r}) /\ r \in Wrapper \cup {r}
    BY <1>1, SeqMonotonic
  <2> HIDE DEF r
  <2>2. /\ Len(heap') = Len(heap) + 1 /\ heap'[Len(heap) + 1] = r
        /\ \A w \in 1..Len(heap) : heap'[w] = heap[w]
    BY <2>1, AppendProperties DEF r
  <2>3. References' = References \cup {Len(heap) + 1}
    BY <1>1, <2>2 DEF References
  <2> QED BY <2>2, <2>3 DEF r, References
<1>3. \A u \in Threads : /\ u # t => pc'[u] = pc[u]
                         /\ pc'[t] = "look"
                         /\ Flattening(u)' <=> Flattening(u)
  <2>1. pc'[t] = "look" /\ \A u \in Threads : u # t => pc'[u] = pc[u]
    BY <1>1
  <2>2. pc[Main] = "between" => iter = NULL
    BY DEF IInv, MasterPlaceOK
  <2>3. pc[t] = "wrap" => Flattening(t)
    BY InHand
  <2>4. Flattening(t)' <=> Flattening(t)
    BY <2>1, <2>2, <2>3 DEF Flattening, QueueingLabels
  <2> QED BY <2>1, <2>4 DEF Flattening
<1>4. \A u \in Threads : Flattening(u) => arg[u] \in References
  BY DEF IInv, FlatteningOK
<1>5. \A u \in Threads : Flattening(u) => SlotsToCome(u)'
  <2>1. \A u \in Threads : u # t /\ Flattening(u) => SlotsToCome(u)'
    BY <1>2, <1>3, <1>4 DEF SlotsOK, SlotsToCome
  <2>2. Flattening(t) => SlotsToCome(t)'
    BY <1>2, <1>3, <1>4
       DEF SlotsOK, SlotsToCome, NextToCome, QueueingLabels, IInv, MasterPlaceOK, Flattening
  <2> QED BY <2>1, <2>2
<1>6. PICK n : n = Len(heap) + 1
  OBVIOUS
<1>7. Untouched(n)' /\ \A w \in References : Untouched(w) => Untouched(w)'
  <2>1. heap'[n] = NewWrapper(l, p)
    BY <1>2, <1>6
  <2>2. Untouched(n)'
    BY <2>1, NewUntouched
  <2>3. \A w \in References : heap'[w] = heap[w]
    BY <1>2
  <2>4. \A w \in References : Untouched(w) => Untouched(w)'
    BY <2>3 DEF Untouched
  <2> QED BY <2>2, <2>4
<1>8. \A w \in References : InNobodysHands(w)' => InNobodysHands(w)
  BY <1>3 DEF InNobodysHands
<1> QED BY <1>2, <1>3, <1>5, <1>6, <1>7, <1>8 DEF SlotsOK

LEMMA WrapKeepsSlots ==
  ASSUME IInv, SlotsOK, HeapType', NEW t \in Threads, WrapNext(t)
  PROVE  SlotsOK'
<1>1. CASE heap' = heap
  <2>1. pc \in [Threads -> Labels] /\ heap \in Seq(Wrapper)
    BY DEF IInv, TypeOK, ThreadTypes, HeapType
  <2>2. pc[t] = "wrap" /\ pc' = [pc EXCEPT ![t] = "link"] /\ UNCHANGED <<arg, iter>>
    BY <1>1, <2>1 DEF WrapNext, Goto, loopVars
  <2>3. Quiet
    BY <1>1, <2>1, <2>2 DEF Quiet, Flattening, QueueingLabels, NextToCome
  <2> QED BY <2>3, QuietStep
<1>2. CASE heap' # heap
  <2>1. PICK p : /\ heap' = Append(heap, NewWrapper(heap[arg[t]].seq, p))
                 /\ pc' = [pc EXCEPT ![t] = "look"]
    BY <1>2 DEF WrapNext, Goto
  <2>2. pc[t] = "wrap" /\ UNCHANGED <<arg, iter>>
    BY DEF WrapNext, loopVars
  <2> QED BY <2>1, <2>2, NewKeepsSlots
<1> QED BY <1>1, <1>2

LEMMA BeginKeepsSlots ==
  ASSUME IInv, SlotsOK, HeapType', BeginLoop
  PROVE  SlotsOK'
<1>1. pc[Main] = "between" /\ UNCHANGED <<arg, iter>>
  BY DEF BeginLoop
<1>2. CASE program[loop'] = << >>
  <2>1. Quiet
    BY <1>1, <1>2 DEF BeginLoop, Quiet, Flattening
  <2> QED BY <2>1, QuietStep
<1>3. CASE program[loop'] # << >>
  <2>1. heap' = Append(heap, NewWrapper(loop', 1)) /\ pc' = [pc EXCEPT ![Main] = "look"]
    BY <1>3 DEF BeginLoop, Goto
  <2> QED BY <1>1, <2>1, NewKeepsSlots
<1> QED BY <1>2, <1>3

(* Every step of the program preserves the order of the slots.              *)
LEMMA NextSlots == IInv /\ IInv' /\ SlotsOK /\ [Next]_vars => SlotsOK'
<1> SUFFICES ASSUME IInv, HeapType', SlotsOK, [Next]_vars PROVE SlotsOK'
  BY DEF IInv, TypeOK
<1>1. CASE Loop
  BY <1>1, LoopIsQuiet, QuietStep, BeginKeepsSlots
<1>2. CASE MasterDoWork
  BY <1>2, WaitingIsQuiet, QuietStep
<1>3. ASSUME NEW t \in Threads, ProcessIterator(t)
      PROVE  SlotsOK'
  BY <1>3, FetchKeepsSlots, StoreKeepsSlots, WrapKeepsSlots, QueueingIsQuiet, QuietStep
     DEF ProcessIterator
<1>4. ASSUME NEW w \in Workers, WorkerMain(w)
      PROVE  SlotsOK'
  BY <1>3, <1>4, TakingIsQuiet, QuietStep DEF WorkerMain
<1>5. CASE UNCHANGED vars
  <2>1. Quiet
    BY <1>5 DEF vars, threadVars, loopVars, Quiet, Flattening
  <2> QED BY <2>1, QuietStep
<1> QED BY <1>1, <1>2, <1>3, <1>4, <1>5 DEF Next, MainThread

LEMMA InitSlots == Init => SlotsOK
BY DEF Init, SlotsOK, References, Flattening, QueueingLabels

(* A wrapper's slots are filled in the order of process_iterator, by the    *)
(* thread that has it in hand; until somebody has, it has no answers.       *)
THEOREM SlotsInvariance == Spec => []SlotsOK
BY InitSlots, NextSlots, Invariance, PTL DEF Spec

-----------------------------------------------------------------------------
(* A slot that has an answer keeps it.                                      *)
LEMMA HeapKept ==
  ASSUME Quiet
  PROVE  \A w \in References : Kept(w)
BY DEF Quiet, Kept

LEMMA StoredKept ==
  ASSUME IInv, HeapType', SlotsOK, NEW t \in Threads,
         StoreValid(t) \/ LinkNext(t) \/ StoreCurrent(t) \/ ClearWrapped(t)
  PROVE  \A w \in References : Kept(w)
<1>1. heap \in Seq(Wrapper) /\ \A w \in References : heap[w] \in Wrapper
  BY HeapShape DEF IInv, TypeOK, HeapType
<1>2. /\ Flattening(t) /\ arg[t] \in References /\ heap[arg[t]].wrapped # NULL
  BY InHand DEF StoreValid, LinkNext, StoreCurrent, ClearWrapped
<1>3. SlotsToCome(t)
  BY <1>2 DEF SlotsOK
<1>4. \A w \in References : w # arg[t] => heap'[w] = heap[w]
  BY <1>1 DEF StoreValid, LinkNext, StoreCurrent, ClearWrapped, References
<1>5. Kept(arg[t])
  <2>1. CASE StoreValid(t)
    BY <1>1, <1>2, <1>3, <2>1 DEF StoreValid, SlotsToCome, Kept, Wrapper, References
  <2>2. CASE LinkNext(t)
    BY <1>1, <1>2, <1>3, <2>2
       DEF LinkNext, SlotsToCome, NextToCome, Kept, Wrapper, References
  <2>3. CASE StoreCurrent(t)
    BY <1>1, <1>2, <1>3, <2>3 DEF StoreCurrent, SlotsToCome, Kept, Wrapper, References
  <2>4. CASE ClearWrapped(t)
    BY <1>1, <1>2, <2>4 DEF ClearWrapped, Kept, Wrapper, References
  <2> QED BY <2>1, <2>2, <2>3, <2>4
<1> QED BY <1>4, <1>5 DEF Kept

LEMMA AllocatedKept ==
  ASSUME IInv, NEW r, heap' = Append(heap, r)
  PROVE  \A w \in References : Kept(w)
<1>1. heap \in Seq(Wrapper \cup {r}) /\ r \in Wrapper \cup {r}
  BY SeqMonotonic DEF IInv, TypeOK, HeapType
<1>2. \A w \in 1..Len(heap) : heap'[w] = heap[w]
  BY <1>1, AppendProperties
<1> QED BY <1>2 DEF Kept, References

(* "It still works like an immutable object": an answer that a reader may   *)
(* have seen in a wrapper is never written again, by whatever thread, and a *)
(* wrapper that is finished never changes.                                  *)
THEOREM AnswersAreKept == Spec => AnswersStay
<1>1. ASSUME IInv, HeapType', SlotsOK, Next
      PROVE  \A w \in References : Kept(w)
  <2>1. CASE Loop
    <3>1. CASE BeginLoop /\ heap' # heap
      <4>1. heap' = Append(heap, NewWrapper(loop', 1))
        BY <3>1 DEF BeginLoop
      <4> QED BY <1>1, <4>1, AllocatedKept
    <3>2. CASE BeginLoop /\ heap' = heap
      BY <3>2 DEF Kept
    <3> QED BY <1>1, <2>1, <3>1, <3>2, LoopIsQuiet, HeapKept
  <2>2. CASE MasterDoWork
    BY <1>1, <2>2, WaitingIsQuiet, HeapKept
  <2>3. ASSUME NEW t \in Threads, ProcessIterator(t)
        PROVE  \A w \in References : Kept(w)
    <3>1. CASE WrapNext(t) /\ heap' # heap
      <4>1. PICK p : heap' = Append(heap, NewWrapper(heap[arg[t]].seq, p))
        BY <3>1 DEF WrapNext
      <4> QED BY <1>1, <4>1, AllocatedKept
    <3>2. CASE heap' = heap
      BY <3>2 DEF Kept
    <3>3. CASE Fetch(t) \/ QueueIterator(t)
      BY <1>1, <3>2, <3>3, QueueingIsQuiet DEF Fetch, Quiet
    <3> QED BY <1>1, <2>3, <3>1, <3>2, <3>3, StoredKept DEF ProcessIterator
  <2>4. ASSUME NEW v \in Workers, WorkerMain(v)
        PROVE  \A w \in References : Kept(w)
    BY <1>1, <2>3, <2>4, TakingIsQuiet, HeapKept DEF WorkerMain
  <2>5. CASE UNCHANGED vars
    BY <2>5 DEF vars, Kept
  <2> QED BY <1>1, <2>1, <2>2, <2>3, <2>4, <2>5 DEF Next, MainThread
<1>2. IInv /\ IInv' /\ SlotsOK /\ [Next]_vars => [\A w \in References : Kept(w)]_vars
  BY <1>1 DEF IInv, TypeOK
<1> QED BY <1>2, Invariance, SlotsInvariance, PTL DEF Spec, AnswersStay

HIDE DEF True, False

-----------------------------------------------------------------------------
(* What the wrappers of a loop are, for any number of workers, loops and    *)
(* sequences: one for each iterator, linked in order, with the answers of   *)
(* that iterator, and made in the zone of the loop they belong to.          *)
(* What may stand in the next slot of a wrapper.                            *)
Follows(r, w) ==
    IF Successor(SequenceOf(w), heap[w].pos) = Thrown THEN r = Thrown
    ELSE /\ r \in References
         /\ heap[r].seq = heap[w].seq /\ heap[r].pos = heap[w].pos + 1

PlacesOK ==
    \A w \in References :
        /\ heap[w].seq \in 1..loop
        /\ heap[w].pos \in Nat \ {NULL}
        /\ heap[w].wrapped \in {NULL, heap[w].pos}

(* A slot that has an answer has the right one.                             *)
AnswersOK ==
    \A w \in References :
        /\ heap[w].valid # NULL => heap[w].valid = IsValid(SequenceOf(w), heap[w].pos)
        /\ heap[w].current # NULL =>
             heap[w].current = Current(SequenceOf(w), heap[w].pos)
        /\ heap[w].next # NULL => Follows(heap[w].next, w)
        /\ heap[w].wrapped = NULL =>
             heap[w].valid # NULL /\ (heap[w].valid = False \/ heap[w].current # NULL)

(* What a thread has in hand while it flattens a wrapper.                   *)
InHandOK(t) ==
    /\ source[t] = heap[arg[t]].pos
    /\ fresh[t] # NULL => Follows(fresh[t], arg[t])
    /\ pc[t] # "valid" => heap[arg[t]].valid # NULL
    /\ pc[t] = "clear" => heap[arg[t]].valid = False \/ heap[arg[t]].current # NULL
HandsOK == \A t \in Threads : Flattening(t) => InHandOK(t)

(* A wrapper is known by the one before it, or by the thread that flattens  *)
(* that one.                                                                *)
MadeBy(u, v) == \E t \in Threads : Flattening(t) /\ arg[t] = u /\ fresh[t] = v
Before(u, v) == heap[u].seq = heap[v].seq /\ heap[u].pos + 1 = heap[v].pos
OnChain ==
    \A v \in References :
        heap[v].pos # 1 =>
            \E u \in References : Before(u, v) /\ (heap[u].next = v \/ MadeBy(u, v))

ChainOK == PlacesOK /\ AnswersOK /\ HandsOK /\ OnChain /\ OneWrapperPerIterator

-----------------------------------------------------------------------------
(* Steps that write no wrapper and take none into anybody's hands.          *)
Calm ==
    /\ heap' = heap /\ program' = program /\ loop' \in Nat /\ loop \leq loop'
    /\ \A t \in Threads :
         /\ Flattening(t)' <=> Flattening(t)
         /\ Flattening(t) =>
              /\ arg'[t] = arg[t] /\ source'[t] = source[t] /\ fresh'[t] = fresh[t]
              /\ \/ pc'[t] = pc[t]
                 \/ pc[t] \in QueueingLabels /\ pc'[t] \in QueueingLabels \cup {"link"}

LEMMA CalmStep == ASSUME IInv, ChainOK, Calm PROVE ChainOK'
<1>1. References' = References /\ heap' = heap /\ loop \in Nat /\ loop' \in Nat /\ loop \leq loop'
  BY HeapUntouched, MaxLoopsAssumption DEF Calm, IInv, TypeOK, LoopTypes, MaxLoopsAssumption
<1>2. \A w : SequenceOf(w)' = SequenceOf(w)
  BY DEF Calm, SequenceOf
<1>3. \A r, w : Follows(r, w)' <=> Follows(r, w)
  BY <1>1, <1>2 DEF Follows
<1>4. PlacesOK'
  BY <1>1 DEF ChainOK, PlacesOK
<1>5. AnswersOK'
  BY <1>1, <1>2, <1>3 DEF ChainOK, AnswersOK
<1>6. HandsOK'
  BY <1>1, <1>3 DEF ChainOK, HandsOK, InHandOK, Calm, QueueingLabels
<1>7. OnChain'
  <2>1. \A u, v : MadeBy(u, v) => MadeBy(u, v)'
    BY DEF MadeBy, Calm
  <2> QED BY <1>1, <2>1 DEF ChainOK, OnChain, Before
<1>8. OneWrapperPerIterator'
  BY <1>1 DEF ChainOK, OneWrapperPerIterator
<1> QED BY <1>4, <1>5, <1>6, <1>7, <1>8 DEF ChainOK

LEMMA LoopNumber == ASSUME IInv PROVE loop \in Nat /\ loop \in Int /\ loop \leq loop
BY MaxLoopsAssumption DEF IInv, TypeOK, LoopTypes, MaxLoopsAssumption

LEMMA QueueingIsCalm == ASSUME IInv, NEW t \in Threads, QueueIterator(t) PROVE Calm
<1>1. pc \in [Threads -> Labels]
  BY DEF IInv, TypeOK, ThreadTypes
<1>2. /\ UNCHANGED <<heap, arg, source, fresh, iter, program, loop>>
      /\ pc[t] \in QueueingLabels
      /\ \E l \in QueueingLabels \cup {AfterQueueing(t)} : pc' = [pc EXCEPT ![t] = l]
  <2> USE DEF Goto, NextWorker, QueueingLabels, workerVars, loopVars
  <2>1. Look(t) \/ TryLock(t) \/ Recheck(t) \/ SetZone(t) \/ SetTask(t) \/ Unlock(t)
    BY DEF QueueIterator
  <2>2. CASE Look(t)
    BY <2>2 DEF Look
  <2>3. CASE TryLock(t)
    BY <2>3 DEF TryLock
  <2>4. CASE Recheck(t)
    BY <2>4 DEF Recheck
  <2>5. CASE SetZone(t) \/ SetTask(t)
    BY <2>5 DEF SetZone, SetTask
  <2>6. CASE Unlock(t)
    BY <2>6 DEF Unlock
  <2> QED BY <2>1, <2>2, <2>3, <2>4, <2>5, <2>6
<1>3. AfterQueueing(t) = IF iter = NULL /\ t = Main THEN "start" ELSE "link"
  BY DEF AfterQueueing
<1>4. \A u \in Threads : u # t => pc'[u] = pc[u]
  BY <1>1, <1>2
<1>5. pc'[t] \in QueueingLabels \cup {AfterQueueing(t)}
  BY <1>1, <1>2
<1>6. \A u \in Threads :
        /\ Flattening(u)' <=> Flattening(u)
        /\ Flattening(u) =>
             \/ pc'[u] = pc[u]
             \/ pc[u] \in QueueingLabels /\ pc'[u] \in QueueingLabels \cup {"link"}
  BY <1>2, <1>3, <1>4, <1>5 DEF Flattening, QueueingLabels
<1> QED BY <1>2, <1>6, LoopNumber DEF Calm

LEMMA LoopIsCalm ==
  ASSUME IInv, Loop, BeginLoop => program[loop'] = << >>
  PROVE  Calm
<1>1. pc \in [Threads -> Labels] /\ fresh \in [Threads -> References \cup {NULL, Thrown}]
  BY DEF IInv, TypeOK, ThreadTypes
<1>2. /\ UNCHANGED <<heap, arg, source, program>> /\ loop' \in {loop, loop + 1}
      /\ pc[Main] \in LoopLabels
      /\ pc'[Main] \in LoopLabels \cup {"check"}
      /\ \A u \in Threads : u # Main => pc'[u] = pc[u] /\ fresh'[u] = fresh[u]
  <2> USE <1>1 DEF Goto, EndLoop, threadVars, LoopLabels
  <2>1. CASE StartLoop
    BY <2>1 DEF StartLoop
  <2>2. CASE Call
    BY <2>2 DEF Call
  <2>3. CASE ReadValid
    BY <2>3 DEF ReadValid
  <2>4. CASE ReadCurrent \/ ReadNext
    BY <2>4 DEF ReadCurrent, ReadNext
  <2>5. CASE Continue
    BY <2>5 DEF Continue
  <2>6. CASE LeaveLoop
    BY <2>6 DEF LeaveLoop
  <2>7. CASE BeginLoop
    BY <2>7 DEF BeginLoop
  <2> QED BY <2>1, <2>2, <2>3, <2>4, <2>5, <2>6, <2>7 DEF Loop
<1>3. \A u \in Threads : Flattening(u) \/ Flattening(u)' => u # Main
  BY <1>2 DEF Flattening, LoopLabels, QueueingLabels
<1>4. \A u \in Threads : u # Main => (Flattening(u)' <=> Flattening(u))
  BY <1>2 DEF Flattening
<1> QED BY <1>2, <1>3, <1>4, LoopNumber DEF Calm

LEMMA WaitingIsCalm == ASSUME IInv, MasterDoWork PROVE Calm
<1>1. pc \in [Threads -> Labels] /\ arg \in [Threads -> References \cup {NULL, Thrown}]
  BY DEF IInv, TypeOK, ThreadTypes
<1>2. /\ UNCHANGED <<heap, iter, source, fresh, program, loop>>
      /\ pc[Main] \in {"check", "walk", "progress", "advance"}
      /\ pc'[Main] \in {"check", "walk", "progress", "advance", "read", "fetch"}
      /\ \A u \in Threads : u # Main => pc'[u] = pc[u] /\ arg'[u] = arg[u]
  <2> USE <1>1 DEF Goto, loopVars
  <2>1. CASE Check
    BY <2>1 DEF Check
  <2>2. CASE Walk
    BY <2>2 DEF Walk
  <2>3. CASE Progress
    BY <2>3 DEF Progress
  <2>4. CASE Advance
    BY <2>4 DEF Advance
  <2> QED BY <2>1, <2>2, <2>3, <2>4 DEF MasterDoWork
<1> QED BY <1>2, LoopNumber DEF Calm, Flattening, QueueingLabels

LEMMA TakingIsCalm ==
  ASSUME IInv, NEW w \in Workers, TakeTask(w) \/ ClearZone(w) \/ ClearTask(w)
  PROVE  Calm
<1>1. pc \in [Threads -> Labels] /\ arg \in [Threads -> References \cup {NULL, Thrown}]
  BY DEF IInv, TypeOK, ThreadTypes
<1>2. /\ UNCHANGED <<heap, iter, source, fresh, program, loop>>
      /\ pc[w] \in WorkerLabels /\ pc'[w] \in WorkerLabels \cup {"fetch"}
      /\ \A u \in Threads : u # w => pc'[u] = pc[u] /\ arg'[u] = arg[u]
  BY <1>1 DEF TakeTask, ClearZone, ClearTask, Goto, loopVars, WorkerLabels
<1> QED BY <1>2, LoopNumber DEF Calm, Flattening, QueueingLabels, WorkerLabels


(* process_iterator takes the iterator it was made for from a wrapper.      *)
LEMMA FetchKeepsChain ==
  ASSUME IInv, ChainOK, NEW t \in Threads, Fetch(t)
  PROVE  ChainOK'
<1>1. /\ pc \in [Threads -> Labels] /\ source \in [Threads -> Nat]
      /\ \A w \in References : heap[w] \in Wrapper
  BY HeapShape DEF IInv, TypeOK, ThreadTypes
<1>2. /\ UNCHANGED <<heap, arg, fresh, iter, program, loop>> /\ References' = References
      /\ pc[t] = "fetch" /\ ~ Flattening(t)
      /\ \A u \in Threads : u # t => pc'[u] = pc[u] /\ source'[u] = source[u]
  BY <1>1, HeapUntouched DEF Fetch, Return, Goto, loopVars, Flattening, QueueingLabels
<1>3. \A u \in Threads : u # t => (Flattening(u)' <=> Flattening(u))
  BY <1>2 DEF Flattening
<1>4. CASE pc'[t] # "valid"
  <2>1. pc'[t] \in {"check", "clearzone"}
    BY <1>1, <1>4 DEF Fetch, Return, Goto
  <2>2. ~ Flattening(t)'
    BY <2>1 DEF Flattening, QueueingLabels
  <2>3. Calm
    BY <1>2, <1>3, <2>2, LoopNumber DEF Calm
  <2> QED BY <2>3, CalmStep
<1>5. CASE pc'[t] = "valid"
  <2>1. /\ arg[t] \in References
        /\ source'[t] = heap[arg[t]].wrapped /\ heap[arg[t]].wrapped # NULL
    BY <1>1, <1>2, <1>5 DEF Fetch, Return, Goto, IInv, PlaceOK, TypeOK, ThreadTypes
  <2>2. source'[t] = heap[arg[t]].pos /\ fresh[t] = NULL
    BY <1>2, <2>1 DEF ChainOK, PlacesOK, IInv, PlaceOK, QueueingLabels
  <2>3. /\ \A w : SequenceOf(w)' = SequenceOf(w)
        /\ \A r, w : Follows(r, w)' <=> Follows(r, w)
    BY <1>2 DEF SequenceOf, Follows
  <2>4. InHandOK(t)'
    BY <1>2, <1>5, <2>2 DEF InHandOK
  <2>5. \A u \in Threads : u # t /\ Flattening(u) => InHandOK(u)'
    BY <1>2, <2>3 DEF ChainOK, HandsOK, InHandOK
  <2>6. HandsOK'
    BY <1>3, <2>4, <2>5 DEF HandsOK
  <2>7. \A u, v : MadeBy(u, v) => MadeBy(u, v)'
    BY <1>2, <1>3 DEF MadeBy
  <2>8. OnChain'
    BY <1>2, <2>7 DEF ChainOK, OnChain, Before
  <2>9. PlacesOK' /\ AnswersOK' /\ OneWrapperPerIterator'
    BY <1>2, <2>3 DEF ChainOK, PlacesOK, AnswersOK, OneWrapperPerIterator
  <2> QED BY <2>6, <2>8, <2>9 DEF ChainOK
<1> QED BY <1>4, <1>5

(* What an iterator answers is never what an empty slot holds.              *)
LEMMA AnswersAreNotNull ==
  \A s : \A p \in Nat \ {NULL} : IsValid(s, p) # NULL /\ Current(s, p) # NULL
BY DEF IsValid, Current, True, False

(* A store into one of the slots of the wrapper a thread has in hand.       *)
LEMMA StoreKeepsChain ==
  ASSUME IInv, HeapType', SlotsOK, ChainOK, NEW t \in Threads,
         StoreValid(t) \/ LinkNext(t) \/ StoreCurrent(t) \/ ClearWrapped(t)
  PROVE  ChainOK'
<1> DEFINE a == arg[t]
<1>1. /\ pc \in [Threads -> Labels] /\ heap \in Seq(Wrapper)
      /\ fresh \in [Threads -> References \cup {NULL, Thrown}]
      /\ \A w \in References : heap[w] \in Wrapper
  BY HeapShape DEF IInv, TypeOK, ThreadTypes, HeapType
<1>2. /\ pc[t] \in {"valid", "link", "current", "clear"}
      /\ Flattening(t) /\ a \in References /\ heap[a].wrapped # NULL
  BY InHand DEF StoreValid, LinkNext, StoreCurrent, ClearWrapped
<1>3. /\ UNCHANGED <<arg, iter, program, loop>>
      /\ \A u \in Threads : u # t =>
           /\ pc'[u] = pc[u] /\ fresh'[u] = fresh[u] /\ source'[u] = source[u]
           /\ Flattening(u)' <=> Flattening(u)
  <2>1. UNCHANGED <<arg, iter, program, loop>>
    BY DEF StoreValid, LinkNext, StoreCurrent, ClearWrapped, loopVars
  <2>2. source \in [Threads -> Nat]
    BY DEF IInv, TypeOK, ThreadTypes
  <2>3. \A u \in Threads : u # t =>
           pc'[u] = pc[u] /\ fresh'[u] = fresh[u] /\ source'[u] = source[u]
    BY <1>1, <2>2 DEF StoreValid, LinkNext, StoreCurrent, ClearWrapped, Return, Goto
  <2> QED BY <2>1, <2>3 DEF Flattening
<1>4. \E r : heap' = [heap EXCEPT ![a] = r]
  BY DEF StoreValid, LinkNext, StoreCurrent, ClearWrapped
<1>5. /\ References' = References
      /\ \A w \in References : w # a => heap'[w] = heap[w]
  <2>1. DOMAIN heap' = DOMAIN heap
    BY <1>4
  <2>2. DOMAIN heap = 1..Len(heap) /\ DOMAIN heap' = 1..Len(heap')
    BY <1>1, LenProperties DEF HeapType
  <2> QED BY <1>4, <2>1, <2>2 DEF References
<1>6. /\ InHandOK(t) /\ SlotsToCome(t)
      /\ source[t] = heap[a].pos /\ heap[a].pos \in Nat \ {NULL}
      /\ heap[a].wrapped = heap[a].pos
  BY <1>2 DEF ChainOK, HandsOK, InHandOK, PlacesOK, SlotsOK
<1>7. heap[a] \in Wrapper /\ heap' \in [1..Len(heap) -> Wrapper \cup {heap'[a]}]
  <2>1. DOMAIN heap = 1..Len(heap) /\ \A w \in 1..Len(heap) : heap[w] \in Wrapper
    BY <1>1, LenProperties DEF References
  <2> QED BY <1>1, <1>2, <1>4, <2>1
<1>8. \/ /\ StoreValid(t)
         /\ heap'[a] = [heap[a] EXCEPT !.valid = IsValid(SequenceOf(a), source[t])]
         /\ fresh' = fresh /\ source' = source
         /\ pc'[t] = IF BoolFromBoolean(IsValid(SequenceOf(a), source[t]))
                       THEN "wrap" ELSE "clear"
      \/ /\ LinkNext(t)
         /\ heap'[a] = [heap[a] EXCEPT !.next = fresh[t]]
         /\ fresh'[t] = NULL /\ source' = source /\ pc'[t] = "current"
      \/ /\ StoreCurrent(t)
         /\ heap'[a] = [heap[a] EXCEPT !.current = Current(SequenceOf(a), source[t])]
         /\ fresh' = fresh /\ source' = source /\ pc'[t] = "clear"
      \/ /\ ClearWrapped(t)
         /\ heap'[a] = [heap[a] EXCEPT !.wrapped = NULL]
         /\ fresh' = fresh /\ pc'[t] \in {"check", "clearzone"}
  <2>1. DOMAIN heap = 1..Len(heap) /\ a \in DOMAIN heap
    BY <1>1, <1>2, LenProperties DEF References
  <2>2. CASE StoreValid(t)
    BY <1>1, <2>1, <2>2 DEF StoreValid, Goto
  <2>3. CASE LinkNext(t)
    BY <1>1, <2>1, <2>3 DEF LinkNext, Goto
  <2>4. CASE StoreCurrent(t)
    BY <1>1, <2>1, <2>4 DEF StoreCurrent, Goto
  <2>5. CASE ClearWrapped(t)
    BY <1>1, <2>1, <2>5 DEF ClearWrapped, Return, Goto
  <2> QED BY <2>2, <2>3, <2>4, <2>5
<1>9. \A w \in References : heap'[w].seq = heap[w].seq /\ heap'[w].pos = heap[w].pos
  BY <1>5, <1>7, <1>8 DEF Wrapper
<1>10. \A w \in References : /\ SequenceOf(w)' = SequenceOf(w)
                             /\ \A r : Follows(r, w)' <=> Follows(r, w)
  BY <1>3, <1>5, <1>9 DEF SequenceOf, Follows
<1>11. PlacesOK'
  <2>1. heap'[a].wrapped \in {NULL, heap[a].wrapped}
    BY <1>7, <1>8 DEF Wrapper
  <2> QED BY <1>3, <1>5, <1>9, <2>1 DEF ChainOK, PlacesOK
<1>12. ASSUME StoreValid(t)
       PROVE  heap'[a].valid = IsValid(SequenceOf(a), heap[a].pos) /\ heap'[a].valid # NULL
  <2>1. heap'[a].valid = IsValid(SequenceOf(a), heap[a].pos)
    BY <1>6, <1>7, <1>8, <1>12
       DEF Wrapper, StoreValid, LinkNext, StoreCurrent, ClearWrapped
  <2> QED BY <1>6, <2>1, AnswersAreNotNull
<1>13. ASSUME StoreCurrent(t)
       PROVE  /\ heap'[a].current = Current(SequenceOf(a), heap[a].pos)
              /\ heap'[a].current # NULL
  <2>1. heap'[a].current = Current(SequenceOf(a), heap[a].pos)
    BY <1>6, <1>7, <1>8, <1>13
       DEF Wrapper, StoreValid, LinkNext, StoreCurrent, ClearWrapped
  <2> QED BY <1>6, <2>1, AnswersAreNotNull
<1>14. ASSUME NEW f \in {"wrapped", "valid", "current", "next"}
       PROVE  \/ heap'[a][f] = heap[a][f]
              \/ f = "valid" /\ StoreValid(t)
              \/ f = "next" /\ LinkNext(t) /\ heap'[a].next = fresh[t]
              \/ f = "current" /\ StoreCurrent(t)
              \/ f = "wrapped" /\ ClearWrapped(t) /\ heap'[a].wrapped = NULL
  BY <1>7, <1>8 DEF Wrapper
<1>15. /\ heap'[a].valid # heap[a].valid => StoreValid(t)
       /\ heap'[a].current # heap[a].current => StoreCurrent(t)
       /\ heap'[a].next # heap[a].next => LinkNext(t) /\ heap'[a].next = fresh[t]
       /\ heap'[a].wrapped # heap[a].wrapped => ClearWrapped(t)
  BY <1>14
<1>16. AnswersOK'
  <2>1. /\ heap'[a].valid # NULL => heap'[a].valid = IsValid(SequenceOf(a), heap[a].pos)
        /\ heap'[a].current # NULL => heap'[a].current = Current(SequenceOf(a), heap[a].pos)
    BY <1>2, <1>12, <1>13, <1>15 DEF ChainOK, AnswersOK
  <2>2. heap'[a].next # NULL => Follows(heap'[a].next, a)
    BY <1>2, <1>6, <1>15 DEF ChainOK, AnswersOK, InHandOK
  <2>3. heap'[a].wrapped = NULL =>
          heap'[a].valid # NULL /\ (heap'[a].valid = False \/ heap'[a].current # NULL)
    <3>1. ASSUME heap'[a].wrapped = NULL
          PROVE  ClearWrapped(t) /\ pc[t] = "clear"
      BY <1>2, <1>15, <3>1 DEF ClearWrapped
    <3>2. ASSUME ClearWrapped(t), pc[t] = "clear"
          PROVE  heap'[a].valid = heap[a].valid /\ heap'[a].current = heap[a].current
      BY <1>15, <3>2 DEF StoreValid, StoreCurrent
    <3>3. pc[t] = "clear" =>
            heap[a].valid # NULL /\ (heap[a].valid = False \/ heap[a].current # NULL)
      BY <1>6 DEF InHandOK
    <3> QED BY <3>1, <3>2, <3>3
  <2>4. \A w \in References : w # a =>
          /\ heap'[w].valid # NULL => heap'[w].valid = IsValid(SequenceOf(w), heap[w].pos)
          /\ heap'[w].current # NULL => heap'[w].current = Current(SequenceOf(w), heap[w].pos)
          /\ heap'[w].next # NULL => Follows(heap'[w].next, w)
          /\ heap'[w].wrapped = NULL =>
               heap'[w].valid # NULL /\ (heap'[w].valid = False \/ heap'[w].current # NULL)
    BY <1>5 DEF ChainOK, AnswersOK
  <2> HIDE DEF a
  <2> QED BY <1>5, <1>9, <1>10, <2>1, <2>2, <2>3, <2>4 DEF AnswersOK
<1>17. HandsOK'
  <2>1. \A u \in Threads : u # t /\ Flattening(u) => InHandOK(u)'
    <3> SUFFICES ASSUME NEW u \in Threads, u # t, Flattening(u)
                 PROVE  InHandOK(u)'
      OBVIOUS
    <3>1. arg[u] \in References /\ arg[u] # a
      BY <1>2, OthersHoldOthers DEF IInv, FlatteningOK
    <3>2. InHandOK(u)
      BY DEF ChainOK, HandsOK
    <3> QED BY <1>3, <1>5, <1>9, <1>10, <3>1, <3>2 DEF InHandOK
  <2>2. Flattening(t)' => InHandOK(t)'
    <3>1. CASE StoreValid(t)
      <4>1. /\ pc'[t] \in {"wrap", "clear"} /\ fresh'[t] = fresh[t] /\ source' = source
            /\ pc'[t] = "clear" => heap'[a].valid = False
        BY <1>6, <1>8, <1>12, <3>1
           DEF BoolFromBoolean, StoreValid, LinkNext, StoreCurrent, ClearWrapped
      <4> QED BY <1>2, <1>3, <1>6, <1>9, <1>10, <1>12, <3>1, <4>1 DEF InHandOK
    <3>2. CASE LinkNext(t)
      <4>1. pc[t] = "link" /\ pc'[t] = "current" /\ fresh'[t] = NULL /\ source' = source
        BY <1>8, <3>2 DEF StoreValid, LinkNext, StoreCurrent, ClearWrapped
      <4>2. heap'[a].valid = heap[a].valid
        BY <1>15, <4>1 DEF StoreValid
      <4> QED BY <1>2, <1>3, <1>6, <1>9, <4>1, <4>2 DEF InHandOK
    <3>3. CASE StoreCurrent(t)
      <4>1. /\ pc[t] = "current" /\ pc'[t] = "clear"
            /\ fresh'[t] = fresh[t] /\ source' = source
        BY <1>8, <3>3 DEF StoreValid, LinkNext, StoreCurrent, ClearWrapped
      <4>2. heap'[a].valid = heap[a].valid /\ heap'[a].current # NULL
        BY <1>13, <1>15, <3>3, <4>1 DEF StoreValid
      <4> QED BY <1>2, <1>3, <1>6, <1>9, <1>10, <4>1, <4>2 DEF InHandOK
    <3>4. CASE ClearWrapped(t)
      <4>1. pc'[t] \in {"check", "clearzone"}
        BY <1>8, <3>4 DEF StoreValid, LinkNext, StoreCurrent, ClearWrapped
      <4> QED BY <4>1 DEF Flattening, QueueingLabels
    <3> QED BY <3>1, <3>2, <3>3, <3>4
  <2> QED BY <1>3, <2>1, <2>2 DEF HandsOK
<1>18. OnChain'
  <2> SUFFICES ASSUME NEW v \in References, heap[v].pos # 1
               PROVE  \E u \in References :
                        Before(u, v) /\ (heap'[u].next = v \/ MadeBy(u, v)')
    BY <1>5, <1>9 DEF OnChain, Before
  <2>1. PICK u \in References : Before(u, v) /\ (heap[u].next = v \/ MadeBy(u, v))
    BY DEF ChainOK, OnChain
  <2>2. v # NULL
    BY HeapShape DEF IInv
  <2>3. CASE heap[u].next = v
    <3>1. LinkNext(t) => heap[a].next = NULL
      BY <1>6 DEF LinkNext, SlotsToCome, NextToCome
    <3>2. heap'[u].next = v
      BY <1>5, <1>15, <2>2, <2>3, <3>1
    <3> QED BY <2>1, <3>2
  <2>4. CASE MadeBy(u, v)
    <3>1. PICK s \in Threads : Flattening(s) /\ arg[s] = u /\ fresh[s] = v
      BY <2>4 DEF MadeBy
    <3>2. CASE s # t
      BY <1>3, <2>1, <3>1, <3>2 DEF MadeBy
    <3>3. CASE s = t
      <4>1. pc[t] = "link"
        BY <1>2, <2>2, <3>1, <3>3 DEF IInv, PlaceOK, QueueingLabels
      <4>2. heap'[u].next = v
        BY <1>7, <1>8, <3>1, <3>3, <4>1
           DEF StoreValid, StoreCurrent, ClearWrapped, Wrapper
      <4> QED BY <2>1, <4>2
    <3> QED BY <3>2, <3>3
  <2> QED BY <2>1, <2>3, <2>4
<1>19. OneWrapperPerIterator'
  BY <1>5, <1>9 DEF ChainOK, OneWrapperPerIterator
<1> QED BY <1>11, <1>16, <1>17, <1>18, <1>19 DEF ChainOK

-----------------------------------------------------------------------------
(* The wrapper of the next iterator does not exist before it is made.       *)
LEMMA NoneYet ==
  ASSUME IInv, SlotsOK, ChainOK, NEW t \in Threads, pc[t] = "wrap"
  PROVE  \A v \in References : ~ Before(arg[t], v)
<1> SUFFICES ASSUME NEW v \in References, Before(arg[t], v)
             PROVE  FALSE
  OBVIOUS
<1>1. /\ Flattening(t) /\ arg[t] \in References /\ v # NULL
      /\ heap[arg[t]].next = NULL /\ fresh[t] = NULL
  BY InHand, HeapShape
     DEF SlotsOK, SlotsToCome, NextToCome, IInv, PlaceOK, QueueingLabels
<1>2. heap[v].pos # 1 /\ heap[arg[t]].pos \in Nat
  BY <1>1 DEF Before, ChainOK, PlacesOK
<1>3. PICK u \in References : Before(u, v) /\ (heap[u].next = v \/ MadeBy(u, v))
  BY <1>2 DEF ChainOK, OnChain
<1>4. heap[u].pos \in Nat
  BY DEF ChainOK, PlacesOK
<1>5. u = arg[t]
  BY <1>1, <1>2, <1>3, <1>4 DEF Before, ChainOK, OneWrapperPerIterator
<1>6. MadeBy(arg[t], v)
  BY <1>1, <1>3, <1>5
<1> QED BY <1>1, <1>6, OthersHoldOthers DEF MadeBy

(* A wrapper is made for an iterator that has none.                         *)
Allocates(t, l, p) ==
    /\ heap' = Append(heap, NewWrapper(l, p))
    /\ pc' = [pc EXCEPT ![t] = "look"]
    /\ fresh' = [fresh EXCEPT ![t] = Len(heap) + 1]
    /\ UNCHANGED <<arg, source, iter, program>>
    /\ loop' \in Nat /\ loop \leq loop'

FirstOfItsKind(t, l, p) ==
    /\ l \in 1..loop' /\ p \in Nat \ {NULL}
    /\ \A v \in References : ~ (heap[v].seq = l /\ heap[v].pos = p)
    /\ \/ /\ pc[t] = "wrap" /\ heap[arg[t]].seq = l /\ heap[arg[t]].pos + 1 = p
          /\ Successor(SequenceOf(arg[t]), heap[arg[t]].pos) # Thrown
       \/ t = Main /\ pc[t] = "between" /\ p = 1

LEMMA NewKeepsChain ==
  ASSUME IInv, HeapType', ChainOK, NEW t \in Threads, NEW l, NEW p,
         Allocates(t, l, p), FirstOfItsKind(t, l, p)
  PROVE  ChainOK'
<1>1. /\ pc \in [Threads -> Labels] /\ heap \in Seq(Wrapper) /\ Len(heap) \in Nat
      /\ fresh \in [Threads -> References \cup {NULL, Thrown}]
  BY HeapShape DEF IInv, TypeOK, ThreadTypes, HeapType
<1> DEFINE n == Len(heap) + 1
<1>2. /\ References' = References \cup {n} /\ n \notin References
      /\ heap'[n] = NewWrapper(l, p)
      /\ \A w \in References : heap'[w] = heap[w]
  <2> DEFINE r == NewWrapper(l, p)
  <2>1. heap \in Seq(Wrapper \cup {r}) /\ r \in Wrapper \cup {r}
    BY <1>1, SeqMonotonic
  <2> HIDE DEF r
  <2>2. /\ Len(heap') = Len(heap) + 1 /\ heap'[Len(heap) + 1] = r
        /\ \A w \in 1..Len(heap) : heap'[w] = heap[w]
    BY <2>1, AppendProperties DEF r, Allocates
  <2>3. References' = References \cup {Len(heap) + 1}
    BY <1>1, <2>2 DEF References
  <2> QED BY <1>1, <2>2, <2>3 DEF r, References
<1>3. PICK m : m = n
  OBVIOUS
<1>4. /\ References' = References \cup {m} /\ m \notin References /\ fresh'[t] = m
      /\ heap'[m] = NewWrapper(l, p)
      /\ heap'[m].wrapped = p /\ heap'[m].valid = NULL /\ heap'[m].current = NULL
      /\ heap'[m].next = NULL /\ heap'[m].seq = l /\ heap'[m].pos = p
  BY <1>1, <1>2, <1>3 DEF NewWrapper, Allocates
<1> HIDE DEF n
<1>5. /\ pc'[t] = "look"
      /\ \A u \in Threads : /\ u # t => pc'[u] = pc[u] /\ fresh'[u] = fresh[u]
                            /\ Flattening(u)' <=> Flattening(u)
      /\ Flattening(t) => pc[t] = "wrap"
  <2>1. pc'[t] = "look" /\ \A u \in Threads : u # t => pc'[u] = pc[u] /\ fresh'[u] = fresh[u]
    BY <1>1 DEF Allocates
  <2>2. pc[Main] = "between" => iter = NULL
    BY DEF IInv, MasterPlaceOK
  <2>3. pc[t] = "wrap" => Flattening(t)
    BY InHand
  <2>4. Flattening(t)' <=> Flattening(t)
    BY <2>1, <2>2, <2>3 DEF Flattening, QueueingLabels, Allocates, FirstOfItsKind
  <2>5. Flattening(t) => pc[t] = "wrap"
    BY DEF Flattening, QueueingLabels, FirstOfItsKind
  <2> QED BY <2>1, <2>4, <2>5 DEF Flattening, Allocates
<1>6. /\ \A w \in References : /\ SequenceOf(w)' = SequenceOf(w)
                               /\ \A r : Follows(r, w) => Follows(r, w)'
  <2>1. \A w \in References : SequenceOf(w)' = SequenceOf(w)
    BY <1>2 DEF SequenceOf, Allocates
  <2> QED BY <1>2, <1>4, <2>1 DEF Follows
<1>7. PlacesOK'
  <2>1. \A w \in References : heap[w].seq \in 1..loop'
    BY LoopNumber DEF ChainOK, PlacesOK, Allocates
  <2>2. \A w \in References : /\ heap[w].pos \in Nat \ {NULL}
                              /\ heap[w].wrapped \in {NULL, heap[w].pos}
    BY DEF ChainOK, PlacesOK
  <2> QED BY <1>2, <1>4, <2>1, <2>2 DEF PlacesOK, FirstOfItsKind
<1>8. AnswersOK'
  <2>1. ASSUME NEW w \in References
        PROVE  AnswersOK!(w)'
    BY <1>2, <1>6 DEF ChainOK, AnswersOK
  <2>2. AnswersOK!(m)'
    BY <1>4 DEF FirstOfItsKind
  <2> QED BY <1>4, <2>1, <2>2 DEF AnswersOK
<1>9. HandsOK'
  <2> SUFFICES ASSUME NEW u \in Threads, Flattening(u)
               PROVE  InHandOK(u)'
    BY <1>5 DEF HandsOK
  <2>1. InHandOK(u) /\ arg[u] \in References
    BY DEF ChainOK, HandsOK, IInv, FlatteningOK
  <2>2. CASE u # t
    BY <1>2, <1>5, <1>6, <2>1, <2>2 DEF InHandOK, Allocates
  <2>3. CASE u = t
    <3>1. pc[t] = "wrap" /\ pc'[t] = "look"
      BY <1>5, <2>3
    <3>2. Follows(fresh[t], arg[t])'
      BY <1>2, <1>4, <1>6, <2>1, <2>3, <3>1 DEF Follows, Allocates, FirstOfItsKind
    <3> QED BY <1>2, <2>1, <2>3, <3>1, <3>2 DEF InHandOK, Allocates
  <2> QED BY <2>2, <2>3
<1>10. OnChain'
  <2>1. ASSUME NEW v \in References, heap[v].pos # 1
        PROVE  \E u \in References : Before(u, v)' /\ (heap'[u].next = v \/ MadeBy(u, v)')
    <3>1. PICK u \in References : Before(u, v) /\ (heap[u].next = v \/ MadeBy(u, v))
      BY <2>1 DEF ChainOK, OnChain
    <3>2. MadeBy(u, v) => MadeBy(u, v)'
      <4>1. pc[t] = "wrap" => fresh[t] = NULL
        BY DEF IInv, PlaceOK, QueueingLabels
      <4>2. v # NULL
        BY HeapShape DEF IInv
      <4> QED BY <1>5, <4>1, <4>2 DEF MadeBy, Allocates
    <3> QED BY <1>2, <3>1, <3>2 DEF Before
  <2>2. p # 1 => arg[t] \in References /\ Before(arg[t], m)' /\ MadeBy(arg[t], m)'
    <3> SUFFICES ASSUME p # 1
                 PROVE  arg[t] \in References /\ Before(arg[t], m)' /\ MadeBy(arg[t], m)'
      OBVIOUS
    <3>1. Flattening(t) /\ arg[t] \in References
      BY InHand DEF FirstOfItsKind
    <3> QED BY <1>2, <1>4, <1>5, <3>1 DEF Before, MadeBy, Allocates, FirstOfItsKind
  <2> SUFFICES ASSUME NEW v \in References', heap'[v].pos # 1
               PROVE  \E u \in References' :
                        Before(u, v)' /\ (heap'[u].next = v \/ MadeBy(u, v)')
    BY DEF OnChain
  <2>3. CASE v \in References
    BY <1>2, <1>4, <2>1, <2>3
  <2>4. CASE v = m
    <3>1. /\ arg'[t] = arg[t] /\ arg[t] \in References'
          /\ Before(arg[t], m)' /\ MadeBy(arg[t], m)'
      BY <1>4, <2>2, <2>4 DEF Allocates
    <3> QED BY <2>4, <3>1
  <2> QED BY <1>4, <2>3, <2>4
<1>11. OneWrapperPerIterator'
  <2>1. \A v \in References : ~ (heap'[v].seq = l /\ heap'[v].pos = p)
    BY <1>2 DEF FirstOfItsKind
  <2>2. ASSUME NEW v \in References', NEW w \in References',
               heap'[v].seq = heap'[w].seq, heap'[v].pos = heap'[w].pos
        PROVE  v = w
    <3>1. CASE v \in References /\ w \in References
      <4>1. heap[v].seq = heap[w].seq /\ heap[v].pos = heap[w].pos
        BY <1>2, <2>2, <3>1
      <4> QED BY <3>1, <4>1 DEF ChainOK, OneWrapperPerIterator
    <3>2. CASE v = m \/ w = m
      BY <1>4, <2>1, <2>2, <3>2
    <3> QED BY <1>4, <3>1, <3>2
  <2> QED BY <2>2 DEF OneWrapperPerIterator
<1> QED BY <1>7, <1>8, <1>9, <1>10, <1>11 DEF ChainOK

LEMMA WrapKeepsChain ==
  ASSUME IInv, HeapType', SlotsOK, ChainOK, NEW t \in Threads, WrapNext(t)
  PROVE  ChainOK'
<1> DEFINE a == arg[t]
           q == Successor(SequenceOf(a), source[t])
<1>1. /\ pc \in [Threads -> Labels]
      /\ fresh \in [Threads -> References \cup {NULL, Thrown}]
  BY DEF IInv, TypeOK, ThreadTypes
<1>2. /\ pc[t] = "wrap" /\ UNCHANGED <<arg, source, iter, program, loop>>
      /\ Flattening(t) /\ a \in References
  BY InHand DEF WrapNext, loopVars
<1>3. InHandOK(t) /\ source[t] = heap[a].pos
  BY <1>2 DEF ChainOK, HandsOK, InHandOK
<1>4. CASE q = Thrown
  <2>1. /\ heap' = heap /\ References' = References
        /\ pc' = [pc EXCEPT ![t] = "link"] /\ fresh' = [fresh EXCEPT ![t] = Thrown]
    BY <1>4, HeapUntouched DEF WrapNext, NeedsWrapper, Goto
  <2>2. \A u \in Threads : /\ u # t => pc'[u] = pc[u] /\ fresh'[u] = fresh[u]
                           /\ Flattening(u)' <=> Flattening(u)
    <3>1. pc'[t] = "link" /\ \A u \in Threads : u # t => pc'[u] = pc[u] /\ fresh'[u] = fresh[u]
      BY <1>1, <2>1
    <3> QED BY <1>2, <3>1 DEF Flattening
  <2>3. /\ \A w : SequenceOf(w)' = SequenceOf(w)
        /\ \A r, w : Follows(r, w)' <=> Follows(r, w)
    BY <1>2, <2>1 DEF SequenceOf, Follows
  <2>4. InHandOK(t)'
    <3>1. Follows(Thrown, a)
      BY <1>3, <1>4 DEF Follows
    <3> QED BY <1>1, <1>2, <1>3, <2>1, <2>3, <3>1 DEF InHandOK
  <2>5. \A u \in Threads : u # t /\ Flattening(u) => InHandOK(u)'
    BY <1>2, <2>1, <2>2, <2>3 DEF ChainOK, HandsOK, InHandOK
  <2>6. HandsOK'
    BY <2>2, <2>4, <2>5 DEF HandsOK
  <2>7. \A v \in References : \A u : MadeBy(u, v) => MadeBy(u, v)'
    <3>1. fresh[t] = NULL /\ NULL \notin References
      BY <1>2, HeapShape DEF IInv, PlaceOK, QueueingLabels
    <3> QED BY <1>2, <2>2, <3>1 DEF MadeBy
  <2>8. OnChain'
    BY <2>1, <2>7 DEF ChainOK, OnChain, Before
  <2>9. PlacesOK' /\ AnswersOK' /\ OneWrapperPerIterator'
    BY <1>2, <2>1, <2>3 DEF ChainOK, PlacesOK, AnswersOK, OneWrapperPerIterator
  <2> QED BY <2>6, <2>8, <2>9 DEF ChainOK
<1>5. CASE q # Thrown
  <2>1. /\ heap' = Append(heap, NewWrapper(heap[a].seq, q))
        /\ pc' = [pc EXCEPT ![t] = "look"]
        /\ fresh' = [fresh EXCEPT ![t] = Len(heap) + 1]
    BY <1>5 DEF WrapNext, NeedsWrapper, Goto
  <2>2. q = heap[a].pos + 1
    BY <1>3, <1>5 DEF Successor
  <2>3. heap[a].seq \in 1..loop /\ heap[a].pos \in Nat \ {NULL}
    BY <1>2 DEF ChainOK, PlacesOK
  <2>4. Successor(SequenceOf(a), heap[a].pos) # Thrown
    BY <1>3, <1>5
  <2>5. \A v \in References : ~ (heap[v].seq = heap[a].seq /\ heap[v].pos = q)
    BY <1>2, <2>2, NoneYet DEF Before
  <2>6. q \in Nat \ {NULL} /\ loop' \in Nat /\ loop \leq loop' /\ heap[a].seq \in 1..loop'
    BY <1>2, <2>2, <2>3, LoopNumber
  <2>7. PICK l, p : l = heap[a].seq /\ p = q
    OBVIOUS
  <2> HIDE DEF q
  <2>8. Allocates(t, l, p)
    BY <1>2, <2>1, <2>6, <2>7 DEF Allocates
  <2>9. FirstOfItsKind(t, l, p)
    BY <1>2, <2>2, <2>4, <2>5, <2>6, <2>7 DEF FirstOfItsKind
  <2> QED BY <2>8, <2>9, NewKeepsChain
<1> QED BY <1>4, <1>5

LEMMA BeginKeepsChain ==
  ASSUME IInv, HeapType', ChainOK, BeginLoop
  PROVE  ChainOK'
<1>1. CASE program[loop'] = << >>
  BY <1>1, LoopIsCalm, CalmStep DEF Loop
<1>2. CASE program[loop'] # << >>
  <2>1. /\ pc[Main] = "between" /\ UNCHANGED <<arg, source, iter, program>>
        /\ loop' = loop + 1
        /\ heap' = Append(heap, NewWrapper(loop', 1))
        /\ fresh' = [fresh EXCEPT ![Main] = Len(heap) + 1]
        /\ pc' = [pc EXCEPT ![Main] = "look"]
    BY <1>2 DEF BeginLoop, Goto
  <2>2. loop' \in Nat /\ loop \leq loop' /\ loop' \in 1..loop'
    BY <2>1, LoopNumber
  <2>3. \A v \in References : ~ (heap[v].seq = loop' /\ heap[v].pos = 1)
    BY <2>1, LoopNumber DEF ChainOK, PlacesOK
  <2>4. Allocates(Main, loop', 1)
    BY <2>1, <2>2 DEF Allocates
  <2>5. FirstOfItsKind(Main, loop', 1)
    BY <2>1, <2>2, <2>3 DEF FirstOfItsKind
  <2> QED BY <2>4, <2>5, NewKeepsChain
<1> QED BY <1>1, <1>2

(* Every step of the program preserves the chain.                           *)
LEMMA NextChain == IInv /\ IInv' /\ SlotsOK /\ ChainOK /\ [Next]_vars => ChainOK'
<1> SUFFICES ASSUME IInv, HeapType', SlotsOK, ChainOK, [Next]_vars PROVE ChainOK'
  BY DEF IInv, TypeOK
<1>1. CASE Loop
  BY <1>1, LoopIsCalm, CalmStep, BeginKeepsChain
<1>2. CASE MasterDoWork
  BY <1>2, WaitingIsCalm, CalmStep
<1>3. ASSUME NEW t \in Threads, ProcessIterator(t)
      PROVE  ChainOK'
  BY <1>3, FetchKeepsChain, StoreKeepsChain, WrapKeepsChain, QueueingIsCalm, CalmStep
     DEF ProcessIterator
<1>4. ASSUME NEW w \in Workers, WorkerMain(w)
      PROVE  ChainOK'
  BY <1>3, <1>4, TakingIsCalm, CalmStep DEF WorkerMain
<1>5. CASE UNCHANGED vars
  <2>1. Calm
    BY <1>5, LoopNumber DEF vars, threadVars, loopVars, Calm, Flattening
  <2> QED BY <2>1, CalmStep
<1> QED BY <1>1, <1>2, <1>3, <1>4, <1>5 DEF Next, MainThread

LEMMA InitChain == Init => ChainOK
BY DEF Init, ChainOK, PlacesOK, AnswersOK, HandsOK, OnChain, OneWrapperPerIterator,
       References, Flattening, QueueingLabels

(* The wrappers of a loop are a chain: each is known by the one before it   *)
(* or by the thread that makes it, and its slots answer for its iterator.   *)
THEOREM ChainInvariance == Spec => []ChainOK
BY InitChain, NextChain, Invariance, SlotsInvariance, PTL DEF Spec

(* "There is no way to ... end up with two wrappers for the same target":   *)
(* process_iterator makes a wrapper for an iterator that has none.          *)
THEOREM WrappersAreUnique == Spec => []OneWrapperPerIterator
<1>1. ChainOK => OneWrapperPerIterator
  BY DEF ChainOK
<1> QED BY <1>1, ChainInvariance, PTL

LEMMA CompleteWhenFinished == ASSUME IInv, ChainOK PROVE FinishedIsComplete
<1>1. ASSUME NEW w \in References, IsWorkFinished(w)
      PROVE  /\ heap[w].valid = IsValid(SequenceOf(w), heap[w].pos)
             /\ heap[w].valid # False =>
                  /\ heap[w].current = Current(SequenceOf(w), heap[w].pos)
                  /\ Follows(heap[w].next, w)
  <2>1. heap[w].wrapped = NULL
    BY <1>1 DEF IsWorkFinished
  <2>2. heap[w].valid # NULL /\ (heap[w].valid = False \/ heap[w].current # NULL)
    BY <2>1 DEF ChainOK, AnswersOK
  <2>3. heap[w].valid # False => heap[w].next # NULL
    BY <2>1 DEF IInv, AnswersInOrder
  <2> QED BY <2>2, <2>3 DEF ChainOK, AnswersOK
<1>2. \A w \in References :
        heap[w].pos \in Nat /\ (Follows(heap[w].next, w) =>
          IF Successor(SequenceOf(w), heap[w].pos) = Thrown
            THEN heap[w].next = Thrown
            ELSE /\ heap[w].next \in References
                 /\ heap[heap[w].next].pos = heap[w].pos + 1
                 /\ heap[heap[w].next].seq = heap[w].seq)
  BY DEF ChainOK, PlacesOK, Follows
<1> QED BY <1>1, <1>2 DEF FinishedIsComplete

(* is_work_finished may be trusted: once the source of a wrapper is gone,   *)
(* the slots that pariter hands out hold what the iterator would answer,    *)
(* and its next slot leads to the wrapper of the next iterator.             *)
THEOREM FinishedWrappersAreComplete == Spec => []FinishedIsComplete
BY CompleteWhenFinished, ChainInvariance, Invariance, PTL

-----------------------------------------------------------------------------
(* Where the wrappers of a loop are allocated, for any number of workers,   *)
(* loops and sequences: a worker that is still busy with a loop that is     *)
(* over works in that loop's zone, while the next loop hands its wrappers   *)
(* to the others.                                                           *)
(* queue_iterator has named the zone of the wrapper it is about to assign.  *)
SettingOK ==
    \A t \in Threads : pc[t] = "settask" => zone[idx[t]] = heap[fresh[t]].seq

(* All that the master has in hand belongs to the loop it runs.             *)
OfThisLoop(r) == r \in References => heap[r].seq = loop
MasterZoneOK ==
    /\ OfThisLoop(fresh[Main]) /\ OfThisLoop(arg[Main])
    /\ OfThisLoop(iter) /\ OfThisLoop(held)
    /\ pc[Main] \in LoopLabels => arg[Main] = NULL
    /\ iter = NULL => held = NULL /\ arg[Main] = NULL

ZonesOK == ZoneOfItsLoop /\ SettingOK /\ MasterZoneOK

-----------------------------------------------------------------------------
(* A wrapper stays with the loop it was made for.                           *)
SeqsStay ==
    \A w \in References : /\ w \in References'
                          /\ heap'[w].seq = heap[w].seq /\ heap'[w].pos = heap[w].pos

(* A step of one thread that assigns nothing to anybody.                    *)
AssignsNothing(t) ==
    /\ SeqsStay /\ task' = task /\ zone' = zone
    /\ \A u \in Threads : u # t =>
         pc'[u] = pc[u] /\ idx'[u] = idx[u] /\ fresh'[u] = fresh[u]
    /\ pc'[t] # "settask" /\ pc[t] # "cleartask"

LEMMA AssignsNothingStep ==
  ASSUME IInv, ZonesOK, NEW t \in Threads, AssignsNothing(t)
  PROVE  ZoneOfItsLoop' /\ SettingOK'
<1>1. \A w \in Workers : task[w] \in References \cup {NULL}
  BY DEF IInv, TypeOK, WorkerTypes
<1>2. \A u \in Threads : pc[u] = "settask" => fresh[u] \in References
  BY DEF IInv, PlaceOK, QueueingLabels
<1>3. ZoneOfItsLoop'
  BY <1>1 DEF AssignsNothing, SeqsStay, ZonesOK, ZoneOfItsLoop
<1>4. SettingOK'
  BY <1>2 DEF AssignsNothing, SeqsStay, ZonesOK, SettingOK
<1> QED BY <1>3, <1>4

(* A step that leaves the master's own variables alone.                     *)
MasterKeeps ==
    /\ SeqsStay /\ fresh'[Main] = fresh[Main] /\ arg'[Main] = arg[Main]
    /\ iter' = iter /\ held' = held /\ loop' = loop
    /\ \/ pc'[Main] = pc[Main]
       \/ pc'[Main] \notin LoopLabels
       \/ pc'[Main] = "start" /\ arg[Main] = NULL

LEMMA MasterKeepsStep ==
  ASSUME IInv, ZonesOK, MasterKeeps
  PROVE  MasterZoneOK'
<1>1. \A r \in {fresh[Main], arg[Main], iter, held} : r \in References \cup {NULL, Thrown}
  BY DEF IInv, TypeOK, ThreadTypes, LoopTypes
<1>2. References' \subseteq Nat \ {NULL}
  BY HeapShape DEF MasterKeeps, References
<1>3. \A r \in {fresh[Main], arg[Main], iter, held} : OfThisLoop(r) => OfThisLoop(r)'
  BY <1>1, <1>2 DEF MasterKeeps, SeqsStay, OfThisLoop
<1>4. /\ OfThisLoop(fresh[Main])' /\ OfThisLoop(arg[Main])'
      /\ OfThisLoop(iter)' /\ OfThisLoop(held)'
  BY <1>1, <1>2 DEF MasterKeeps, SeqsStay, ZonesOK, MasterZoneOK, OfThisLoop
<1>5. /\ (pc[Main] \in LoopLabels => arg[Main] = NULL)'
      /\ (iter = NULL => held = NULL /\ arg[Main] = NULL)'
  BY DEF MasterKeeps, ZonesOK, MasterZoneOK
<1> QED BY <1>4, <1>5 DEF MasterZoneOK

LEMMA SameHeapSeqs == ASSUME heap' = heap PROVE SeqsStay
BY HeapUntouched DEF SeqsStay

LEMMA StoredSeqs ==
  ASSUME IInv, HeapType', NEW t \in Threads,
         StoreValid(t) \/ LinkNext(t) \/ StoreCurrent(t) \/ ClearWrapped(t)
  PROVE  SeqsStay
<1>1. /\ heap \in Seq(Wrapper) /\ heap' \in Seq(Wrapper')
      /\ \A w \in References : heap[w] \in Wrapper
  BY HeapShape DEF IInv, TypeOK, HeapType
<1>2. arg[t] \in References
  BY InHand DEF StoreValid, LinkNext, StoreCurrent, ClearWrapped
<1>3. DOMAIN heap' = DOMAIN heap
  BY DEF StoreValid, LinkNext, StoreCurrent, ClearWrapped
<1>4. References' = References /\ References = DOMAIN heap
  BY <1>1, <1>3, LenProperties DEF References
<1>5. \A w \in References : heap'[w].seq = heap[w].seq /\ heap'[w].pos = heap[w].pos
  <2>1. CASE StoreValid(t)
    BY <1>1, <1>2, <1>4, <2>1 DEF StoreValid, Wrapper
  <2>2. CASE LinkNext(t)
    BY <1>1, <1>2, <1>4, <2>2 DEF LinkNext, Wrapper
  <2>3. CASE StoreCurrent(t)
    BY <1>1, <1>2, <1>4, <2>3 DEF StoreCurrent, Wrapper
  <2>4. CASE ClearWrapped(t)
    BY <1>1, <1>2, <1>4, <2>4 DEF ClearWrapped, Wrapper
  <2> QED BY <2>1, <2>2, <2>3, <2>4
<1> QED BY <1>4, <1>5 DEF SeqsStay

LEMMA AllocatedSeqs ==
  ASSUME IInv, NEW l, NEW p, heap' = Append(heap, NewWrapper(l, p))
  PROVE  /\ SeqsStay /\ heap'[Len(heap) + 1].seq = l
         /\ Len(heap) + 1 \in References' /\ Len(heap) + 1 \notin References
<1> DEFINE r == NewWrapper(l, p)
<1>1. heap \in Seq(Wrapper) /\ Len(heap) \in Nat
  BY HeapShape DEF IInv, TypeOK, HeapType
<1>2. r.seq = l
  BY DEF NewWrapper
<1>3. heap \in Seq(Wrapper \cup {r}) /\ r \in Wrapper \cup {r}
  BY <1>1, SeqMonotonic
<1> HIDE DEF r
<1>4. /\ Len(heap') = Len(heap) + 1 /\ heap'[Len(heap) + 1] = r
      /\ \A w \in 1..Len(heap) : heap'[w] = heap[w]
  BY <1>3, AppendProperties DEF r
<1> QED BY <1>1, <1>2, <1>4 DEF SeqsStay, References

-----------------------------------------------------------------------------
(* process_iterator, except for queue_iterator.                             *)
LEMMA FetchKeepsZones ==
  ASSUME IInv, ZonesOK, NEW t \in Threads, Fetch(t)
  PROVE  ZonesOK'
<1>1. pc \in [Threads -> Labels]
  BY DEF IInv, TypeOK, ThreadTypes
<1>2. /\ pc[t] = "fetch" /\ pc'[t] \in {"valid", "check", "clearzone"}
      /\ \A u \in Threads : u # t => pc'[u] = pc[u]
      /\ UNCHANGED <<heap, arg, fresh, idx, task, zone, iter, held, loop>>
  BY <1>1 DEF Fetch, Return, Goto, workerVars, loopVars
<1>3. AssignsNothing(t)
  BY <1>2, SameHeapSeqs DEF AssignsNothing
<1>4. MasterKeeps
  <2>1. pc'[Main] = pc[Main] \/ pc'[Main] \notin LoopLabels
    BY <1>2 DEF LoopLabels
  <2> QED BY <1>2, <2>1, SameHeapSeqs DEF MasterKeeps
<1> QED BY <1>3, <1>4, AssignsNothingStep, MasterKeepsStep DEF ZonesOK

LEMMA StoreKeepsZones ==
  ASSUME IInv, HeapType', ZonesOK, NEW t \in Threads,
         StoreValid(t) \/ LinkNext(t) \/ StoreCurrent(t) \/ ClearWrapped(t)
  PROVE  ZonesOK'
<1>1. /\ pc \in [Threads -> Labels]
      /\ fresh \in [Threads -> References \cup {NULL, Thrown}]
  BY DEF IInv, TypeOK, ThreadTypes
<1>2. /\ pc[t] \in {"valid", "link", "current", "clear"}
      /\ pc'[t] \in {"wrap", "clear", "current", "check", "clearzone"}
      /\ \A u \in Threads : u # t => pc'[u] = pc[u] /\ fresh'[u] = fresh[u]
      /\ fresh'[t] \in {fresh[t], NULL}
      /\ UNCHANGED <<arg, idx, task, zone, iter, held, loop>>
  BY <1>1 DEF StoreValid, LinkNext, StoreCurrent, ClearWrapped, Return, Goto,
              workerVars, loopVars
<1>3. SeqsStay
  BY StoredSeqs
<1>4. AssignsNothing(t)
  BY <1>2, <1>3 DEF AssignsNothing
<1>5. MasterZoneOK'
  <2>1. \A r \in {fresh[Main], arg[Main], iter, held} : r \in References \cup {NULL, Thrown}
    BY <1>1 DEF IInv, TypeOK, ThreadTypes, LoopTypes
  <2>2. References' \subseteq Nat \ {NULL}
    BY HeapShape DEF References
  <2>3. fresh'[Main] \in {fresh[Main], NULL}
    BY <1>2
  <2>4. /\ OfThisLoop(fresh[Main])' /\ OfThisLoop(arg[Main])'
        /\ OfThisLoop(iter)' /\ OfThisLoop(held)'
    BY <1>2, <1>3, <2>1, <2>2, <2>3 DEF SeqsStay, ZonesOK, MasterZoneOK, OfThisLoop
  <2>5. /\ (pc[Main] \in LoopLabels => arg[Main] = NULL)'
        /\ (iter = NULL => held = NULL /\ arg[Main] = NULL)'
    BY <1>2 DEF ZonesOK, MasterZoneOK, LoopLabels
  <2> QED BY <2>4, <2>5 DEF MasterZoneOK
<1> QED BY <1>4, <1>5, AssignsNothingStep DEF ZonesOK

LEMMA WrapKeepsZones ==
  ASSUME IInv, ZonesOK, NEW t \in Threads, WrapNext(t)
  PROVE  ZonesOK'
<1>1. /\ pc \in [Threads -> Labels] /\ Len(heap) \in Nat
      /\ fresh \in [Threads -> References \cup {NULL, Thrown}]
      /\ idx \in [Threads -> 1..(NumWorkers + 1)]
  BY HeapShape DEF IInv, TypeOK, ThreadTypes
<1>2. /\ pc[t] = "wrap" /\ pc'[t] \in {"look", "link"} /\ arg[t] \in References
      /\ \A u \in Threads : u # t =>
           pc'[u] = pc[u] /\ fresh'[u] = fresh[u] /\ idx'[u] = idx[u]
      /\ UNCHANGED <<arg, task, zone, iter, held, loop>>
  BY <1>1, InHand DEF WrapNext, Goto, workerVars, loopVars
<1>3. /\ SeqsStay
      /\ fresh'[t] \in References' => heap'[fresh'[t]].seq = heap[arg[t]].seq
  <2>1. CASE heap' = heap
    <3>1. fresh'[t] = Thrown
      BY <1>1, <2>1 DEF WrapNext, NeedsWrapper
    <3>2. Thrown \notin References'
      BY DEF References
    <3> QED BY <2>1, <3>1, <3>2, SameHeapSeqs
  <2>2. CASE heap' # heap
    <3>1. PICK l, p : l = heap[arg[t]].seq /\ heap' = Append(heap, NewWrapper(l, p))
      BY <2>2 DEF WrapNext
    <3>2. fresh'[t] = Len(heap) + 1
      BY <1>1, <2>2 DEF WrapNext
    <3> QED BY <3>1, <3>2, AllocatedSeqs
  <2> QED BY <2>1, <2>2
<1>4. AssignsNothing(t)
  BY <1>2, <1>3 DEF AssignsNothing
<1>5. MasterZoneOK'
  <2>1. \A r \in {arg[Main], iter, held} : r \in References \cup {NULL, Thrown}
    BY DEF IInv, TypeOK, ThreadTypes, LoopTypes
  <2>2. References' \subseteq Nat \ {NULL}
    BY DEF References
  <2>3. OfThisLoop(fresh[Main])'
    <3>1. CASE t = Main
      BY <1>2, <1>3, <3>1 DEF ZonesOK, MasterZoneOK, OfThisLoop
    <3>2. CASE t # Main
      <4>1. fresh[Main] \in References \cup {NULL, Thrown} /\ fresh'[Main] = fresh[Main]
        BY <1>1, <1>2, <3>2
      <4> QED BY <1>2, <1>3, <2>2, <4>1 DEF SeqsStay, ZonesOK, MasterZoneOK, OfThisLoop
    <3> QED BY <3>1, <3>2
  <2>4. OfThisLoop(arg[Main])' /\ OfThisLoop(iter)' /\ OfThisLoop(held)'
    BY <1>2, <1>3, <2>1, <2>2 DEF SeqsStay, ZonesOK, MasterZoneOK, OfThisLoop
  <2>5. /\ (pc[Main] \in LoopLabels => arg[Main] = NULL)'
        /\ (iter = NULL => held = NULL /\ arg[Main] = NULL)'
    BY <1>2 DEF ZonesOK, MasterZoneOK, LoopLabels
  <2> QED BY <2>3, <2>4, <2>5 DEF MasterZoneOK
<1> QED BY <1>4, <1>5, AssignsNothingStep DEF ZonesOK

-----------------------------------------------------------------------------
(* queue_iterator.                                                          *)
LEMMA LookingKeepsZones ==
  ASSUME IInv, ZonesOK, NEW t \in Threads, Look(t) \/ TryLock(t) \/ Recheck(t) \/ Unlock(t)
  PROVE  ZonesOK'
<1>1. pc \in [Threads -> Labels] /\ idx \in [Threads -> 1..(NumWorkers + 1)]
  BY DEF IInv, TypeOK, ThreadTypes
<1>2. /\ pc[t] \in QueueingLabels
      /\ pc'[t] \in (QueueingLabels \cup {"link", "start"}) \ {"settask"}
      /\ pc'[t] = "start" => iter = NULL /\ t = Main
      /\ \A u \in Threads : u # t => pc'[u] = pc[u] /\ idx'[u] = idx[u]
      /\ UNCHANGED <<heap, arg, fresh, task, zone, iter, held, loop>>
  <2> USE <1>1 DEF Goto, NextWorker, AfterQueueing, QueueingLabels, workerVars, loopVars
  <2>1. CASE Look(t)
    BY <2>1 DEF Look
  <2>2. CASE TryLock(t)
    BY <2>2 DEF TryLock
  <2>3. CASE Recheck(t)
    BY <2>3 DEF Recheck
  <2>4. CASE Unlock(t)
    BY <2>4 DEF Unlock
  <2> QED BY <2>1, <2>2, <2>3, <2>4
<1>3. AssignsNothing(t)
  BY <1>2, SameHeapSeqs DEF AssignsNothing, QueueingLabels
<1>4. MasterKeeps
  <2>1. \/ pc'[Main] = pc[Main] \/ pc'[Main] \notin LoopLabels
        \/ pc'[Main] = "start" /\ arg[Main] = NULL
    BY <1>2 DEF LoopLabels, QueueingLabels, ZonesOK, MasterZoneOK
  <2> QED BY <1>2, <2>1, SameHeapSeqs DEF MasterKeeps
<1> QED BY <1>3, <1>4, AssignsNothingStep, MasterKeepsStep DEF ZonesOK

(* The wrapper a thread is making belongs to the loop of the thread's zone. *)
LEMMA FreshInZone ==
  ASSUME IInv, ChainOK, ZonesOK, NEW t \in Threads, pc[t] \in QueueingLabels
  PROVE  fresh[t] \in References /\ heap[fresh[t]].seq = ZoneOf(t)
<1>1. fresh[t] \in References
  BY DEF IInv, PlaceOK
<1>2. CASE t = Main
  BY <1>1, <1>2 DEF ZonesOK, MasterZoneOK, OfThisLoop, ZoneOf
<1>3. CASE t # Main
  <2>1. /\ Flattening(t) /\ arg[t] \in References /\ t \in Workers
        /\ task[t] = arg[t] /\ pc[t] # "cleartask"
    <3>1. Flattening(t) /\ t \in Workers
      BY <1>3 DEF Flattening
    <3> QED BY <3>1 DEF IInv, FlatteningOK, WorkerOK, WorkerLabels, QueueingLabels
  <2>2. Follows(fresh[t], arg[t])
    BY <1>1, <2>1, HeapShape DEF ChainOK, HandsOK, InHandOK, IInv
  <2>3. heap[fresh[t]].seq = heap[arg[t]].seq
    BY <1>1, <2>2 DEF Follows, References
  <2>4. zone[t] = heap[task[t]].seq
    BY <2>1, HeapShape DEF ZonesOK, ZoneOfItsLoop, IInv
  <2> QED BY <1>1, <1>3, <2>1, <2>3, <2>4 DEF ZoneOf
<1> QED BY <1>2, <1>3

LEMMA SetZoneKeepsZones ==
  ASSUME IInv, ChainOK, ZonesOK, NEW t \in Threads, SetZone(t)
  PROVE  ZonesOK'
<1>1. pc \in [Threads -> Labels] /\ zone \in [Workers -> 0..MaxLoops]
  BY DEF IInv, TypeOK, ThreadTypes, WorkerTypes
<1>2. /\ pc[t] = "setzone" /\ pc'[t] = "settask" /\ idx[t] \in Workers
      /\ \A u \in Threads : u # t => pc'[u] = pc[u]
      /\ zone'[idx[t]] = ZoneOf(t)
      /\ \A w \in Workers : w # idx[t] => zone'[w] = zone[w]
      /\ UNCHANGED <<heap, arg, fresh, idx, task, iter, held, loop>>
  BY <1>1 DEF SetZone, Goto, loopVars, IInv, PlaceOK, Holding
<1>3. task[idx[t]] = NULL /\ lock[idx[t]] = t
  BY <1>2 DEF IInv, LockOK, Holding
<1>4. ZoneOfItsLoop'
  BY <1>2, <1>3 DEF ZonesOK, ZoneOfItsLoop
<1>5. SettingOK'
  <2> SUFFICES ASSUME NEW u \in Threads, pc'[u] = "settask"
               PROVE  zone'[idx[u]] = heap[fresh[u]].seq
    BY <1>2 DEF SettingOK
  <2>1. CASE u = t
    BY <1>2, <2>1, FreshInZone DEF QueueingLabels
  <2>2. CASE u # t
    <3>1. pc[u] = "settask"
      BY <1>2, <2>2
    <3>2. idx[u] \in Workers /\ lock[idx[u]] = u
      BY <3>1 DEF IInv, LockOK, PlaceOK, Holding
    <3> QED BY <1>2, <1>3, <2>2, <3>1, <3>2 DEF ZonesOK, SettingOK
  <2> QED BY <2>1, <2>2
<1>6. MasterKeeps
  <2>1. pc'[Main] = pc[Main] \/ pc'[Main] \notin LoopLabels
    BY <1>2 DEF LoopLabels
  <2> QED BY <1>2, <2>1, SameHeapSeqs DEF MasterKeeps
<1> QED BY <1>4, <1>5, <1>6, MasterKeepsStep DEF ZonesOK

LEMMA SetTaskKeepsZones ==
  ASSUME IInv, ZonesOK, NEW t \in Threads, SetTask(t)
  PROVE  ZonesOK'
<1>1. pc \in [Threads -> Labels] /\ task \in [Workers -> References \cup {NULL}]
  BY DEF IInv, TypeOK, ThreadTypes, WorkerTypes
<1>2. /\ pc[t] = "settask" /\ pc'[t] = "assigned" /\ idx[t] \in Workers
      /\ \A u \in Threads : u # t => pc'[u] = pc[u]
      /\ task'[idx[t]] = fresh[t]
      /\ \A w \in Workers : w # idx[t] => task'[w] = task[w]
      /\ UNCHANGED <<heap, arg, fresh, idx, zone, iter, held, loop>>
  BY <1>1 DEF SetTask, Goto, loopVars, IInv, PlaceOK, Holding
<1>3. zone[idx[t]] = heap[fresh[t]].seq
  BY <1>2 DEF ZonesOK, SettingOK
<1>4. ZoneOfItsLoop'
  <2>1. \A w \in Workers : pc'[w] # "cleartask" => pc[w] # "cleartask"
    BY <1>2
  <2> QED BY <1>2, <1>3, <2>1 DEF ZonesOK, ZoneOfItsLoop
<1>5. SettingOK'
  BY <1>2 DEF ZonesOK, SettingOK
<1>6. MasterKeeps
  <2>1. pc'[Main] = pc[Main] \/ pc'[Main] \notin LoopLabels
    BY <1>2 DEF LoopLabels
  <2> QED BY <1>2, <2>1, SameHeapSeqs DEF MasterKeeps
<1> QED BY <1>4, <1>5, <1>6, MasterKeepsStep DEF ZonesOK

-----------------------------------------------------------------------------
(* worker_main.                                                             *)
LEMMA TakingKeepsZones ==
  ASSUME IInv, ZonesOK, NEW w \in Workers, TakeTask(w) \/ ClearZone(w) \/ ClearTask(w)
  PROVE  ZonesOK'
<1>1. /\ pc \in [Threads -> Labels] /\ task \in [Workers -> References \cup {NULL}]
      /\ zone \in [Workers -> 0..MaxLoops]
      /\ arg \in [Threads -> References \cup {NULL, Thrown}]
  BY DEF IInv, TypeOK, ThreadTypes, WorkerTypes
<1>2. /\ \A u \in Threads : u # w => pc'[u] = pc[u]
      /\ arg'[Main] = arg[Main] /\ pc'[w] # "settask" /\ pc[w] # "settask"
      /\ \A v \in Workers : v # w => task'[v] = task[v] /\ zone'[v] = zone[v]
      /\ UNCHANGED <<heap, fresh, idx, iter, held, loop>>
  <2> USE <1>1 DEF Goto, workerVars, loopVars
  <2>1. CASE TakeTask(w)
    BY <2>1 DEF TakeTask
  <2>2. CASE ClearZone(w)
    BY <2>2 DEF ClearZone
  <2>3. CASE ClearTask(w)
    BY <2>3 DEF ClearTask
  <2> QED BY <2>1, <2>2, <2>3
<1>3. \/ pc[w] = "idle" /\ task'[w] = task[w] /\ zone'[w] = zone[w]
      \/ pc'[w] = "cleartask" /\ pc[w] = "clearzone"
      \/ task'[w] = NULL /\ zone'[w] = zone[w]
  BY <1>1 DEF TakeTask, ClearZone, ClearTask, Goto, workerVars
<1>4. ZoneOfItsLoop'
  BY <1>2, <1>3 DEF ZonesOK, ZoneOfItsLoop
<1>5. SettingOK'
  <2> SUFFICES ASSUME NEW u \in Threads, pc[u] = "settask"
               PROVE  zone'[idx[u]] = zone[idx[u]]
    BY <1>2 DEF ZonesOK, SettingOK
  <2>1. idx[u] \in Workers /\ task[idx[u]] = NULL
    BY DEF IInv, LockOK, PlaceOK, Holding
  <2>2. pc[w] = "clearzone" => task[w] # NULL
    BY DEF IInv, WorkerOK
  <2> QED BY <1>2, <1>3, <2>1, <2>2
<1>6. MasterKeeps
  BY <1>2, SameHeapSeqs DEF MasterKeeps
<1> QED BY <1>4, <1>5, <1>6, MasterKeepsStep DEF ZonesOK

-----------------------------------------------------------------------------
(* master_do_work.                                                          *)
LEMMA WaitingKeepsZones == ASSUME IInv, ChainOK, ZonesOK, MasterDoWork PROVE ZonesOK'
<1>1. pc \in [Threads -> Labels] /\ arg \in [Threads -> References \cup {NULL, Thrown}]
      /\ idx \in [Threads -> 1..(NumWorkers + 1)]
  BY DEF IInv, TypeOK, ThreadTypes
<1>2. /\ pc[Main] \in {"check", "walk", "progress", "advance"}
      /\ pc'[Main] \in {"check", "walk", "progress", "advance", "read", "fetch"}
      /\ pc'[Main] = "read" => arg'[Main] = NULL
      /\ \A u \in Threads : u # Main =>
           pc'[u] = pc[u] /\ arg'[u] = arg[u] /\ idx'[u] = idx[u]
      /\ UNCHANGED <<heap, fresh, task, zone, iter, held, loop>>
  <2> USE <1>1 DEF Goto, workerVars, loopVars
  <2>1. CASE Check
    BY <2>1 DEF Check
  <2>2. CASE Walk
    BY <2>2 DEF Walk
  <2>3. CASE Progress
    BY <2>3 DEF Progress
  <2>4. CASE Advance
    BY <2>4 DEF Advance
  <2> QED BY <2>1, <2>2, <2>3, <2>4 DEF MasterDoWork
<1>3. AssignsNothing(Main)
  BY <1>2, SameHeapSeqs DEF AssignsNothing
<1>4. OfThisLoop(arg'[Main])
  <2>1. CASE Advance
    <3>1. arg[Main] \in References /\ arg'[Main] = heap[arg[Main]].next
      BY <1>1, <2>1 DEF Advance, IInv, MasterPlaceOK
    <3>2. heap[arg[Main]].seq = loop
      BY <3>1 DEF ZonesOK, MasterZoneOK, OfThisLoop
    <3>3. arg'[Main] \in References => Follows(arg'[Main], arg[Main])
      BY <3>1, HeapShape DEF ChainOK, AnswersOK, IInv
    <3> QED BY <3>2, <3>3 DEF Follows, OfThisLoop, References
  <2>2. CASE Check \/ Walk \/ Progress
    <3>1. arg'[Main] \in {NULL, iter, arg[Main]}
      BY <1>1, <2>2 DEF Check, Walk, Progress
    <3>2. NULL \notin References
      BY DEF References
    <3> QED BY <3>1, <3>2 DEF ZonesOK, MasterZoneOK, OfThisLoop
  <2> QED BY <2>1, <2>2 DEF MasterDoWork
<1>5. MasterZoneOK'
  <2>1. References' = References /\ iter # NULL
    BY <1>2, HeapUntouched DEF IInv, MasterPlaceOK, QueueingLabels
  <2>2. OfThisLoop(arg[Main])'
    BY <1>2, <1>4, <2>1 DEF OfThisLoop
  <2> QED BY <1>2, <2>1, <2>2 DEF ZonesOK, MasterZoneOK, OfThisLoop, LoopLabels
<1> QED BY <1>3, <1>5, AssignsNothingStep DEF ZonesOK

-----------------------------------------------------------------------------
(* The loop.                                                                *)
LEMMA BeginKeepsZones ==
  ASSUME IInv, ZonesOK, BeginLoop
  PROVE  ZonesOK'
<1>1. /\ pc \in [Threads -> Labels] /\ idx \in [Threads -> 1..(NumWorkers + 1)]
      /\ fresh \in [Threads -> References \cup {NULL, Thrown}] /\ Len(heap) \in Nat
  BY HeapShape DEF IInv, TypeOK, ThreadTypes
<1>2. /\ pc[Main] = "between" /\ pc'[Main] \in {"between", "look"}
      /\ \A u \in Threads : u # Main =>
           pc'[u] = pc[u] /\ idx'[u] = idx[u] /\ fresh'[u] = fresh[u]
      /\ arg' = arg /\ task' = task /\ zone' = zone /\ iter' = iter /\ held' = held
  BY <1>1 DEF BeginLoop, Goto, workerVars
<1>3. /\ iter = NULL /\ held = NULL /\ arg[Main] = NULL /\ fresh[Main] = NULL
  BY <1>2 DEF ZonesOK, MasterZoneOK, IInv, MasterPlaceOK, PlaceOK, QueueingLabels
<1>4. /\ SeqsStay
      /\ fresh'[Main] \in References' => heap'[fresh'[Main]].seq = loop'
  <2>1. CASE program[loop'] = << >>
    <3>1. heap' = heap /\ fresh'[Main] = NULL
      BY <1>3, <2>1 DEF BeginLoop
    <3>2. NULL \notin References'
      BY DEF References
    <3> QED BY <3>1, <3>2, SameHeapSeqs
  <2>2. CASE program[loop'] # << >>
    <3>1. heap' = Append(heap, NewWrapper(loop', 1)) /\ fresh'[Main] = Len(heap) + 1
      BY <1>1, <2>2 DEF BeginLoop
    <3> QED BY <3>1, AllocatedSeqs
  <2> QED BY <2>1, <2>2
<1>5. AssignsNothing(Main)
  BY <1>2, <1>4 DEF AssignsNothing
<1>6. MasterZoneOK'
  <2>1. NULL \notin References'
    BY DEF References
  <2> QED BY <1>2, <1>3, <1>4, <2>1 DEF MasterZoneOK, OfThisLoop
<1> QED BY <1>5, <1>6, AssignsNothingStep DEF ZonesOK

LEMMA LoopKeepsZones ==
  ASSUME IInv, ChainOK, ZonesOK, Loop, ~ BeginLoop
  PROVE  ZonesOK'
<1>1. /\ pc \in [Threads -> Labels]
      /\ fresh \in [Threads -> References \cup {NULL, Thrown}]
      /\ NULL \notin References /\ References' = References
  <2>1. heap' = heap
    BY DEF Loop, StartLoop, Call, ReadValid, ReadCurrent, ReadNext, Continue, LeaveLoop
  <2> QED BY <2>1, HeapUntouched DEF IInv, TypeOK, ThreadTypes, References
<1>2. /\ pc[Main] \in {"start", "body", "read"}
      /\ pc'[Main] \in {"between", "body", "check"}
      /\ \A u \in Threads : u # Main => pc'[u] = pc[u] /\ fresh'[u] = fresh[u]
      /\ fresh'[Main] \in {fresh[Main], NULL}
      /\ heap' = heap /\ arg' = arg /\ idx' = idx /\ task' = task /\ zone' = zone
      /\ loop' = loop
  <2> USE <1>1 DEF Goto, EndLoop, threadVars, workerVars
  <2>1. CASE StartLoop
    BY <2>1 DEF StartLoop
  <2>2. CASE Call
    BY <2>2 DEF Call
  <2>3. CASE ReadValid
    BY <2>3 DEF ReadValid
  <2>4. CASE ReadCurrent \/ ReadNext
    BY <2>4 DEF ReadCurrent, ReadNext
  <2>5. CASE Continue
    BY <2>5 DEF Continue
  <2>6. CASE LeaveLoop
    BY <2>6 DEF LeaveLoop
  <2> QED BY <2>1, <2>2, <2>3, <2>4, <2>5, <2>6 DEF Loop
<1>3. AssignsNothing(Main)
  BY <1>2, SameHeapSeqs DEF AssignsNothing
<1>4. \/ iter' = NULL /\ held' = NULL
      \/ iter' = iter /\ held' = held
      \/ iter' = iter /\ held' = heap[iter].next /\ iter # NULL
      \/ iter' \in {fresh[Main], held} /\ iter' # NULL /\ held' \in {held, NULL}
  <2>1. CASE StartLoop
    <3>1. fresh[Main] \in References
      BY <2>1 DEF StartLoop, IInv, PlaceOK
    <3> QED BY <1>1, <2>1, <3>1 DEF StartLoop
  <2>2. CASE Call \/ ReadCurrent
    BY <2>2 DEF Call, ReadCurrent
  <2>3. CASE ReadValid
    BY <2>3 DEF ReadValid, EndLoop
  <2>4. CASE ReadNext
    BY <2>4 DEF ReadNext, IInv, MasterPlaceOK, QueueingLabels
  <2>5. CASE Continue
    BY <2>5 DEF Continue
  <2>6. CASE LeaveLoop
    BY <2>6 DEF LeaveLoop, EndLoop
  <2> QED BY <2>1, <2>2, <2>3, <2>4, <2>5, <2>6 DEF Loop
<1>5. iter # NULL => OfThisLoop(heap[iter].next)
  <2> SUFFICES ASSUME iter # NULL, heap[iter].next \in References
               PROVE  heap[heap[iter].next].seq = loop
    BY DEF OfThisLoop
  <2>1. iter \in References /\ heap[iter].seq = loop
    BY DEF IInv, TypeOK, LoopTypes, ZonesOK, MasterZoneOK, OfThisLoop
  <2>2. Follows(heap[iter].next, iter)
    BY <1>1, <2>1 DEF ChainOK, AnswersOK
  <2> QED BY <2>1, <2>2 DEF Follows, References
<1>6. OfThisLoop(iter') /\ OfThisLoop(held') /\ OfThisLoop(fresh'[Main])
  BY <1>1, <1>2, <1>4, <1>5 DEF ZonesOK, MasterZoneOK, OfThisLoop
<1>7. MasterZoneOK'
  <2>1. /\ OfThisLoop(fresh[Main])' /\ OfThisLoop(arg[Main])'
        /\ OfThisLoop(iter)' /\ OfThisLoop(held)'
    BY <1>1, <1>2, <1>6 DEF ZonesOK, MasterZoneOK, OfThisLoop
  <2>2. arg'[Main] = NULL
    BY <1>2 DEF ZonesOK, MasterZoneOK, LoopLabels
  <2>3. iter' = NULL => held' = NULL
    BY <1>4 DEF ZonesOK, MasterZoneOK
  <2> QED BY <2>1, <2>2, <2>3 DEF MasterZoneOK
<1> QED BY <1>3, <1>7, AssignsNothingStep DEF ZonesOK

-----------------------------------------------------------------------------
(* Every step of the program keeps workers in the zones of their wrappers.  *)
LEMMA NextZones == IInv /\ IInv' /\ ChainOK /\ ZonesOK /\ [Next]_vars => ZonesOK'
<1> SUFFICES ASSUME IInv, HeapType', ChainOK, ZonesOK, [Next]_vars PROVE ZonesOK'
  BY DEF IInv, TypeOK
<1>1. CASE Loop
  BY <1>1, LoopKeepsZones, BeginKeepsZones
<1>2. CASE MasterDoWork
  BY <1>2, WaitingKeepsZones
<1>3. ASSUME NEW t \in Threads, ProcessIterator(t)
      PROVE  ZonesOK'
  BY <1>3, FetchKeepsZones, StoreKeepsZones, WrapKeepsZones, LookingKeepsZones,
     SetZoneKeepsZones, SetTaskKeepsZones DEF ProcessIterator, QueueIterator
<1>4. ASSUME NEW w \in Workers, WorkerMain(w)
      PROVE  ZonesOK'
  BY <1>3, <1>4, TakingKeepsZones DEF WorkerMain
<1>5. CASE UNCHANGED vars
  <2>1. heap' = heap /\ task' = task /\ zone' = zone /\ pc' = pc /\ idx' = idx
        /\ fresh' = fresh /\ arg' = arg /\ iter' = iter /\ held' = held /\ loop' = loop
    BY <1>5 DEF vars, threadVars, workerVars, loopVars
  <2>2. References' = References
    BY <2>1, HeapUntouched
  <2> QED BY <2>1, <2>2
          DEF ZonesOK, ZoneOfItsLoop, SettingOK, MasterZoneOK, OfThisLoop
<1> QED BY <1>1, <1>2, <1>3, <1>4, <1>5 DEF Next, MainThread

LEMMA InitZones == Init => ZonesOK
BY DEF Init, ZonesOK, ZoneOfItsLoop, SettingOK, MasterZoneOK, OfThisLoop, References

(* All that a thread has in hand belongs to the loop of its zone.           *)
THEOREM ZonesInvariance == Spec => []ZonesOK
BY InitZones, NextZones, Invariance, ChainInvariance, PTL DEF Spec

(* A worker allocates in the zone of the loop its wrapper was made for,     *)
(* whatever loop the master has come to, and queue_iterator names that zone *)
(* before it hands the wrapper over.                                        *)
THEOREM WorkersStayInTheirZone == Spec => []ZoneOfItsLoop
<1>1. ZonesOK => ZoneOfItsLoop
  BY DEF ZonesOK
<1> QED BY <1>1, ZonesInvariance, PTL

-----------------------------------------------------------------------------
(* What the loop sees, for any number of workers, loops and sequences: no   *)
(* wrapper that still needs work gets lost, and the loop is told, call by   *)
(* call, what the plain iterators of its sequence would have told it.       *)
(* Before a loop has its iterator, its first wrapper is being offered.      *)
StartOK ==
    iter = NULL /\ pc[Main] # "between" =>
        program[loop] # << >> /\ heap[fresh[Main]].pos = 1

(* The first wrapper is the loop's own, until the loop is through with it.  *)
FirstOK ==
    iter # NULL =>
        \A w \in References :
            heap[w].seq = loop /\ heap[w].pos = 1 => w = iter \/ heap[w].wrapped = NULL

(* A loop that is past is_valid has a finished iterator, and asks once.     *)
AskedOK ==
    /\ iter # NULL /\ "is_valid" \notin todo /\ want # "is_valid"
         => heap[iter].wrapped = NULL
    /\ want \notin todo

WorkOK == StartOK /\ FirstOK /\ AskedOK

-----------------------------------------------------------------------------
(* A step that is not the loop's own.                                       *)
LeavesLoopAlone ==
    /\ SeqsStay
    /\ \A w \in References : heap[w].wrapped = NULL => heap'[w].wrapped = NULL
    /\ \A w \in References' \ References : heap'[w].pos # 1
    /\ program' = program /\ loop' = loop /\ iter' = iter /\ want' = want
    /\ todo' = todo /\ held' = held /\ failed' = failed /\ reply' = reply
    /\ iter = NULL => fresh'[Main] = fresh[Main]
    /\ pc'[Main] = "between" <=> pc[Main] = "between"

LEMMA LeavesLoopAloneStep == ASSUME IInv, WorkOK, LeavesLoopAlone PROVE WorkOK'
<1>1. iter # NULL => iter \in References
  BY DEF IInv, TypeOK, LoopTypes
<1>2. iter = NULL /\ pc[Main] # "between" => fresh[Main] \in References
  BY DEF IInv, MasterPlaceOK, PlaceOK
<1>3. StartOK'
  BY <1>2 DEF LeavesLoopAlone, SeqsStay, WorkOK, StartOK
<1>4. FirstOK'
  BY DEF LeavesLoopAlone, SeqsStay, WorkOK, FirstOK
<1>5. AskedOK'
  BY <1>1 DEF LeavesLoopAlone, WorkOK, AskedOK
<1> QED BY <1>3, <1>4, <1>5 DEF WorkOK

LEMMA ProcessingLeavesLoopAlone ==
  ASSUME IInv, HeapType', SlotsOK, ChainOK, NEW t \in Threads, ProcessIterator(t)
  PROVE  LeavesLoopAlone
<1>1. /\ pc \in [Threads -> Labels]
      /\ fresh \in [Threads -> References \cup {NULL, Thrown}] /\ Len(heap) \in Nat
  BY HeapShape DEF IInv, TypeOK, ThreadTypes
<1>2. /\ program' = program /\ loop' = loop /\ iter' = iter /\ want' = want
      /\ todo' = todo /\ held' = held /\ failed' = failed /\ reply' = reply
  BY DEF ProcessIterator, Fetch, StoreValid, WrapNext, LinkNext, StoreCurrent,
         ClearWrapped, QueueIterator, Look, TryLock, Recheck, SetZone, SetTask, Unlock,
         loopVars
<1>3. /\ pc[t] # "between" /\ pc'[t] # "between"
      /\ \A u \in Threads : u # t => pc'[u] = pc[u] /\ fresh'[u] = fresh[u]
  <2> USE <1>1 DEF Goto, Return, NextWorker, AfterQueueing
  <2>1. CASE Fetch(t) \/ StoreValid(t)
    BY <2>1 DEF Fetch, StoreValid
  <2>2. CASE WrapNext(t)
    BY <2>2 DEF WrapNext
  <2>3. CASE LinkNext(t) \/ StoreCurrent(t) \/ ClearWrapped(t)
    BY <2>3 DEF LinkNext, StoreCurrent, ClearWrapped
  <2>4. CASE Look(t) \/ TryLock(t)
    BY <2>4 DEF Look, TryLock
  <2>5. CASE Recheck(t) \/ SetZone(t) \/ SetTask(t)
    BY <2>5 DEF Recheck, SetZone, SetTask
  <2>6. CASE Unlock(t)
    BY <2>6 DEF Unlock
  <2> QED BY <2>1, <2>2, <2>3, <2>4, <2>5, <2>6 DEF ProcessIterator, QueueIterator
<1>4. iter = NULL => fresh'[Main] = fresh[Main]
  <2> SUFFICES ASSUME iter = NULL, t = Main
               PROVE  fresh' = fresh
    BY <1>3
  <2>1. pc[t] \notin {"wrap", "link"}
    BY DEF IInv, MasterPlaceOK, QueueingLabels
  <2> QED BY <2>1
          DEF ProcessIterator, Fetch, StoreValid, WrapNext, LinkNext, StoreCurrent,
              ClearWrapped, QueueIterator, Look, TryLock, Recheck, SetZone, SetTask, Unlock
<1>5. /\ SeqsStay
      /\ \A w \in References : heap[w].wrapped = NULL => heap'[w].wrapped = NULL
      /\ \A w \in References' \ References : heap'[w].pos # 1
  <2>1. CASE heap' = heap
    <3>1. References' = References
      BY <2>1, HeapUntouched
    <3> QED BY <2>1, <3>1, SameHeapSeqs
  <2>2. CASE StoreValid(t) \/ LinkNext(t) \/ StoreCurrent(t) \/ ClearWrapped(t)
    <3>1. SeqsStay /\ \A w \in References : Kept(w)
      BY <2>2, StoredSeqs, StoredKept
    <3>2. DOMAIN heap' = DOMAIN heap
      BY <2>2 DEF StoreValid, LinkNext, StoreCurrent, ClearWrapped
    <3>3. References' = References
      <4>1. heap \in Seq(Wrapper) /\ heap' \in Seq(Wrapper')
        BY DEF IInv, TypeOK, HeapType
      <4> QED BY <3>2, <4>1, LenProperties DEF References
    <3> QED BY <3>1, <3>3 DEF Kept
  <2>3. CASE WrapNext(t) /\ heap' # heap
    <3>1. PICK l, p : /\ heap' = Append(heap, NewWrapper(l, p))
                      /\ p = Successor(SequenceOf(arg[t]), source[t]) /\ p # Thrown
      BY <2>3 DEF WrapNext, NeedsWrapper
    <3>2. source[t] \in Nat \ {NULL} /\ pc[t] = "wrap" /\ Flattening(t)
      <4>1. Flattening(t) /\ arg[t] \in References /\ pc[t] = "wrap"
        BY <2>3, InHand DEF WrapNext
      <4> QED BY <4>1 DEF ChainOK, HandsOK, InHandOK, PlacesOK
    <3>3. p # 1
      BY <3>1, <3>2 DEF Successor
    <3>4. SeqsStay /\ \A w \in References : Kept(w)
      BY <3>1, AllocatedSeqs, AllocatedKept
    <3>5. References' = References \cup {Len(heap) + 1} /\ heap'[Len(heap) + 1].pos = p
      <4> DEFINE r == NewWrapper(l, p)
      <4>1. heap \in Seq(Wrapper) /\ r.pos = p
        BY DEF IInv, TypeOK, HeapType, NewWrapper
      <4>2. heap \in Seq(Wrapper \cup {r}) /\ r \in Wrapper \cup {r}
        BY <4>1, SeqMonotonic
      <4> HIDE DEF r
      <4>3. Len(heap') = Len(heap) + 1 /\ heap'[Len(heap) + 1] = r
        BY <3>1, <4>2, AppendProperties DEF r
      <4> QED BY <1>1, <4>1, <4>3 DEF References
    <3> QED BY <3>3, <3>4, <3>5 DEF Kept
  <2> QED BY <2>1, <2>2, <2>3
          DEF ProcessIterator, Fetch, WrapNext, QueueIterator, Look, TryLock, Recheck,
              SetZone, SetTask, Unlock
<1> QED BY <1>2, <1>3, <1>4, <1>5 DEF LeavesLoopAlone

LEMMA WaitingLeavesLoopAlone ==
  ASSUME IInv, MasterDoWork \/ UNCHANGED vars
         \/ \E w \in Workers : TakeTask(w) \/ ClearZone(w) \/ ClearTask(w)
  PROVE  LeavesLoopAlone
<1>1. /\ heap' = heap /\ fresh' = fresh
      /\ program' = program /\ loop' = loop /\ iter' = iter /\ want' = want
      /\ todo' = todo /\ held' = held /\ failed' = failed /\ reply' = reply
  BY DEF MasterDoWork, Check, Walk, Progress, Advance, TakeTask, ClearZone, ClearTask,
         loopVars, threadVars, vars
<1>2. pc'[Main] = "between" <=> pc[Main] = "between"
  <2>1. pc \in [Threads -> Labels]
    BY DEF IInv, TypeOK, ThreadTypes
  <2>2. CASE MasterDoWork
    BY <2>1, <2>2 DEF MasterDoWork, Check, Walk, Progress, Advance, Goto
  <2>3. CASE \E w \in Workers : TakeTask(w) \/ ClearZone(w) \/ ClearTask(w)
    BY <2>1, <2>3 DEF TakeTask, ClearZone, ClearTask, Goto
  <2>4. CASE UNCHANGED vars
    BY <2>4 DEF vars, threadVars
  <2> QED BY <2>2, <2>3, <2>4
<1> QED BY <1>1, <1>2, HeapUntouched, SameHeapSeqs DEF LeavesLoopAlone

LEMMA OthersLeaveLoopAlone ==
  ASSUME IInv, HeapType', SlotsOK, ChainOK, [Next]_vars, ~ Loop
  PROVE  LeavesLoopAlone
<1>1. ASSUME NEW t \in Threads, ProcessIterator(t)
      PROVE  LeavesLoopAlone
  BY <1>1, ProcessingLeavesLoopAlone
<1>2. ASSUME NEW w \in Workers, WorkerMain(w)
      PROVE  LeavesLoopAlone
  BY <1>1, <1>2, WaitingLeavesLoopAlone DEF WorkerMain
<1> QED BY <1>1, <1>2, WaitingLeavesLoopAlone DEF Next, MainThread

-----------------------------------------------------------------------------
(* The loop's own steps, one by one: what they keep, and which step of the  *)
(* plain loop they are.                                                     *)
LEMMA StutterStep ==
  ASSUME IInv, LeavesLoopAlone
  PROVE  UNCHANGED Serial!vars
<1>1. iter # NULL => iter \in References
  BY DEF IInv, TypeOK, LoopTypes
<1>2. held \in References \cup {NULL, Thrown}
  BY DEF IInv, TypeOK, LoopTypes
<1>3. References' \subseteq Nat \ {NULL}
  BY DEF References
<1>4. IF held' \in References' THEN heap'[held'].pos = heap[held].pos /\ held \in References
                               ELSE held \notin References
  BY <1>2, <1>3 DEF LeavesLoopAlone, SeqsStay
<1>5. iter # NULL => heap'[iter].pos = heap[iter].pos
  BY <1>1 DEF LeavesLoopAlone, SeqsStay
<1>6. (IF held \in References THEN heap[held].pos ELSE held)'
        = IF held \in References THEN heap[held].pos ELSE held
  BY <1>4 DEF LeavesLoopAlone
<1> QED BY <1>5, <1>6 DEF LeavesLoopAlone, Serial!vars

(* Both modules speak of the same iterators.                                *)
LEMMA SameIterators ==
  \A s, p : /\ Serial!IsValid(s, p) = IsValid(s, p)
            /\ Serial!Current(s, p) = Current(s, p)
            /\ Serial!Successor(s, p) = Successor(s, p)
            /\ Serial!True = True /\ Serial!Thrown = Thrown /\ Serial!NULL = NULL
BY DEF Serial!IsValid, Serial!Current, Serial!Successor, IsValid, Current, Successor,
       Serial!True, Serial!False, Serial!Thrown, Serial!NULL, True, False

(* What the loop reads is what its iterator answers.                        *)
LEMMA ReadAnswers ==
  ASSUME IInv, ChainOK, ZonesOK, pc[Main] = "read"
  PROVE  /\ iter \in References /\ iter # NULL
         /\ heap[iter].wrapped = NULL /\ heap[iter].pos \in Nat \ {NULL}
         /\ heap[iter].valid = IsValid(program[loop], heap[iter].pos)
         /\ want \in {"current", "next"} =>
              /\ heap[iter].current = Current(program[loop], heap[iter].pos)
              /\ IF Successor(program[loop], heap[iter].pos) = Thrown
                   THEN heap[iter].next = Thrown
                   ELSE /\ heap[iter].next \in References
                        /\ heap[heap[iter].next].pos
                             = Successor(program[loop], heap[iter].pos)
<1>1. iter \in References /\ iter # NULL /\ heap[iter].wrapped = NULL
  BY DEF IInv, TypeOK, LoopTypes, MasterPlaceOK, QueueingLabels, LoopOK
<1>2. SequenceOf(iter) = program[loop]
  BY <1>1 DEF ZonesOK, MasterZoneOK, OfThisLoop, SequenceOf
<1>3. heap[iter].pos \in Nat \ {NULL}
  BY <1>1 DEF ChainOK, PlacesOK
<1>4. IsWorkFinished(iter)
  BY <1>1 DEF IsWorkFinished, References
<1>5. want \in {"current", "next"} => heap[iter].valid # False
  BY DEF IInv, LoopOK, True, False
<1>6. FinishedIsComplete
  BY CompleteWhenFinished
<1>7. Successor(program[loop], heap[iter].pos) # Thrown =>
        Successor(program[loop], heap[iter].pos) = heap[iter].pos + 1
  BY DEF Successor
<1> QED BY <1>1, <1>2, <1>3, <1>4, <1>5, <1>6, <1>7 DEF FinishedIsComplete

SerialStep == [Serial!Next]_(Serial!vars)

LEMMA CallStepIsSerial ==
  ASSUME IInv, WorkOK, Call
  PROVE  WorkOK' /\ SerialStep
<1>1. /\ pc[Main] = "body" /\ want = "none" /\ iter # NULL
      /\ todo \subseteq Methods /\ pc'[Main] = "check"
  BY DEF Call, Goto, IInv, TypeOK, ThreadTypes, LoopTypes, LoopOK, MasterPlaceOK,
         QueueingLabels
<1>2. PICK m \in todo : want' = m /\ todo' = todo \ {m}
  BY DEF Call
<1>3. /\ UNCHANGED <<heap, fresh, program, loop, iter, held, failed, reply>>
      /\ References' = References
  BY HeapUntouched DEF Call
<1>4. WorkOK'
  BY <1>1, <1>2, <1>3 DEF WorkOK, StartOK, FirstOK, AskedOK, Methods
<1>5. todo' \cup ({want'} \ {"none"}) = todo \cup ({want} \ {"none"})
  BY <1>1, <1>2 DEF Methods
<1>6. UNCHANGED Serial!vars
  BY <1>1, <1>3, <1>5 DEF Serial!vars
<1> QED BY <1>4, <1>6 DEF SerialStep

LEMMA ReadValidIsSerial ==
  ASSUME IInv, ChainOK, ZonesOK, WorkOK, ReadValid
  PROVE  WorkOK' /\ SerialStep
<1>1. /\ pc[Main] = "read" /\ want = "is_valid" /\ want' = "none"
      /\ pc'[Main] \in {"body", "between"}
      /\ UNCHANGED <<heap, fresh, program, loop>>
      /\ References' = References /\ NULL \notin References
  BY HeapUntouched DEF ReadValid, EndLoop, Goto, IInv, TypeOK, ThreadTypes, References
<1>2. /\ iter \in References /\ iter # NULL /\ heap[iter].wrapped = NULL
      /\ heap[iter].valid = IsValid(program[loop], heap[iter].pos)
  BY <1>1, ReadAnswers
<1>3. \/ /\ heap[iter].valid = True
         /\ todo' = {"current", "next"} /\ pc'[Main] = "body"
         /\ iter' = iter /\ held' = held /\ failed' = failed
      \/ /\ heap[iter].valid # True
         /\ iter' = NULL /\ todo' = {} /\ held' = NULL /\ failed' = FALSE
         /\ pc'[Main] = "between"
  BY DEF ReadValid, EndLoop, Goto, IInv, TypeOK, ThreadTypes
<1>4. WorkOK'
  BY <1>1, <1>2, <1>3 DEF WorkOK, StartOK, FirstOK, AskedOK
<1>5. reply' = << "is_valid", heap[iter].valid >>
  BY <1>1 DEF ReadValid
<1>6. todo' \cup ({want'} \ {"none"}) = todo'
  BY <1>1
<1>7. Serial!AskValid
  <2>1. CASE heap[iter].valid = True
    BY <1>1, <1>2, <1>3, <1>5, <1>6, <2>1, SameIterators DEF Serial!AskValid
  <2>2. CASE heap[iter].valid # True
    BY <1>1, <1>2, <1>3, <1>5, <1>6, <2>2, SameIterators
       DEF Serial!AskValid, Serial!EndLoop
  <2> QED BY <2>1, <2>2
<1> QED BY <1>4, <1>7 DEF SerialStep, Serial!Next

LEMMA ReadCurrentIsSerial ==
  ASSUME IInv, ChainOK, ZonesOK, WorkOK, ReadCurrent
  PROVE  WorkOK' /\ SerialStep
<1>1. /\ pc[Main] = "read" /\ want = "current" /\ want' = "none"
      /\ pc'[Main] = "body" /\ want \notin todo
      /\ UNCHANGED <<heap, fresh, program, loop, iter, todo, held, failed>>
      /\ References' = References
  BY HeapUntouched DEF ReadCurrent, Goto, IInv, TypeOK, ThreadTypes, WorkOK, AskedOK
<1>2. /\ iter \in References /\ iter # NULL /\ heap[iter].wrapped = NULL
      /\ heap[iter].current = Current(program[loop], heap[iter].pos)
  BY <1>1, ReadAnswers
<1>3. WorkOK'
  <2>1. "none" \notin todo
    BY DEF IInv, TypeOK, LoopTypes, Methods
  <2> QED BY <1>1, <1>2, <2>1 DEF WorkOK, StartOK, FirstOK, AskedOK
<1>4. reply' = << "current", heap[iter].current >>
  BY <1>1 DEF ReadCurrent
<1>5. /\ todo' \cup ({want'} \ {"none"}) = todo
      /\ (todo \cup ({want} \ {"none"})) \ {"current"} = todo
  BY <1>1
<1>6. Serial!AskCurrent
  BY <1>1, <1>2, <1>4, <1>5, SameIterators DEF Serial!AskCurrent
<1> QED BY <1>3, <1>6 DEF SerialStep, Serial!Next

LEMMA ReadNextIsSerial ==
  ASSUME IInv, ChainOK, ZonesOK, WorkOK, ReadNext
  PROVE  WorkOK' /\ SerialStep
<1>1. /\ pc[Main] = "read" /\ want = "next" /\ want' = "none"
      /\ pc'[Main] = "body" /\ want \notin todo
      /\ UNCHANGED <<heap, fresh, program, loop, iter, todo>>
      /\ References' = References
  BY HeapUntouched DEF ReadNext, Goto, IInv, TypeOK, ThreadTypes, WorkOK, AskedOK
<1>2. /\ iter \in References /\ iter # NULL /\ heap[iter].wrapped = NULL
      /\ IF Successor(program[loop], heap[iter].pos) = Thrown
           THEN heap[iter].next = Thrown
           ELSE /\ heap[iter].next \in References
                /\ heap[heap[iter].next].pos = Successor(program[loop], heap[iter].pos)
  BY <1>1, ReadAnswers
<1>3. WorkOK'
  <2>1. "none" \notin todo
    BY DEF IInv, TypeOK, LoopTypes, Methods
  <2> QED BY <1>1, <1>2, <2>1 DEF WorkOK, StartOK, FirstOK, AskedOK
<1> DEFINE answer == Successor(program[loop], heap[iter].pos)
<1>4. /\ Thrown \notin References /\ References = DOMAIN heap
  <2>1. heap \in Seq(Wrapper)
    BY DEF IInv, TypeOK, HeapType
  <2> QED BY <2>1, LenProperties DEF References
<1>5. /\ reply' = << "next", answer >>
      /\ failed' = (answer = Thrown)
      /\ (IF held' \in References THEN heap[held'].pos ELSE held') = answer
  <2>1. /\ held' = heap[iter].next
        /\ reply' = << "next", IF held' \in DOMAIN heap THEN heap[held'].pos ELSE held' >>
        /\ failed' = (held' = Thrown)
    BY <1>1 DEF ReadNext
  <2> QED BY <1>2, <1>4, <2>1
<1>6. /\ todo' \cup ({want'} \ {"none"}) = todo
      /\ (todo \cup ({want} \ {"none"})) \ {"next"} = todo
  BY <1>1
<1>7. Serial!AskNext
  BY <1>1, <1>2, <1>5, <1>6, SameIterators DEF Serial!AskNext
<1> QED BY <1>3, <1>7 DEF SerialStep, Serial!Next

LEMMA ContinueIsSerial ==
  ASSUME IInv, ChainOK, WorkOK, Continue
  PROVE  WorkOK' /\ SerialStep
<1>1. /\ pc[Main] = "body" /\ todo = {} /\ want = "none" /\ failed = FALSE
      /\ iter' = held /\ held' = NULL /\ todo' = {"is_valid"}
      /\ UNCHANGED <<heap, fresh, pc, program, loop, want, failed, reply>>
      /\ References' = References
  BY HeapUntouched DEF Continue, threadVars, IInv, TypeOK, LoopTypes, LoopOK
<1>2. /\ iter \in References /\ iter # NULL /\ heap[iter].wrapped = NULL
      /\ held \in References /\ held # NULL
  <2>1. iter \in References /\ iter # NULL
    BY <1>1 DEF IInv, TypeOK, LoopTypes, MasterPlaceOK, QueueingLabels
  <2>2. held \in References /\ held # NULL
    BY <1>1, <2>1 DEF IInv, TypeOK, LoopTypes, LoopOK
  <2> QED BY <1>1, <2>1, <2>2 DEF WorkOK, AskedOK
<1>3. WorkOK'
  <2>1. StartOK' /\ AskedOK'
    BY <1>1, <1>2 DEF StartOK, AskedOK
  <2>2. FirstOK'
    BY <1>1, <1>2 DEF WorkOK, FirstOK
  <2> QED BY <2>1, <2>2 DEF WorkOK
<1>4. heap[iter].pos # NULL /\ NULL \notin References
  BY <1>2 DEF ChainOK, PlacesOK, References
<1>5. todo \cup ({want} \ {"none"}) = {} /\ todo' \cup ({want'} \ {"none"}) = {"is_valid"}
  BY <1>1
<1>6. Serial!Continue
  BY <1>1, <1>2, <1>4, <1>5, SameIterators DEF Serial!Continue, Serial!Between
<1> QED BY <1>3, <1>6 DEF SerialStep, Serial!Next

LEMMA LeaveIsSerial ==
  ASSUME IInv, ChainOK, WorkOK, LeaveLoop
  PROVE  WorkOK' /\ SerialStep
<1>1. /\ pc[Main] = "body" /\ pc'[Main] = "between" /\ todo = {} /\ want = "none"
      /\ iter' = NULL /\ held' = NULL /\ todo' = {} /\ failed' = FALSE
      /\ UNCHANGED <<heap, program, loop, want, reply>>
      /\ References' = References
  BY HeapUntouched DEF LeaveLoop, EndLoop, Goto, IInv, TypeOK, ThreadTypes, LoopOK
<1>2. iter \in References /\ iter # NULL
  BY <1>1 DEF IInv, TypeOK, LoopTypes, MasterPlaceOK, QueueingLabels
<1>3. WorkOK'
  BY <1>1 DEF WorkOK, StartOK, FirstOK, AskedOK
<1>4. heap[iter].pos # NULL /\ NULL \notin References
  BY <1>2 DEF ChainOK, PlacesOK, References
<1>5. todo \cup ({want} \ {"none"}) = {} /\ todo' \cup ({want'} \ {"none"}) = {}
  BY <1>1
<1>6. Serial!Leave
  BY <1>1, <1>2, <1>4, <1>5, SameIterators DEF Serial!Leave, Serial!EndLoop, Serial!Between
<1> QED BY <1>3, <1>6 DEF SerialStep, Serial!Next

LEMMA StartIsSerial ==
  ASSUME IInv, ChainOK, ZonesOK, WorkOK, StartLoop
  PROVE  WorkOK' /\ SerialStep
<1>1. /\ pc[Main] = "start" /\ pc'[Main] = "body" /\ iter = NULL
      /\ iter' = fresh[Main] /\ fresh[Main] \in References
      /\ todo = {} /\ want = "none" /\ todo' = {"is_valid"} /\ held = NULL
      /\ UNCHANGED <<heap, program, loop, want, held, failed, reply>>
      /\ References' = References /\ NULL \notin References
  BY HeapUntouched
     DEF StartLoop, Goto, IInv, TypeOK, ThreadTypes, LoopOK, MasterPlaceOK, PlaceOK,
         ZonesOK, MasterZoneOK, References
<1>2. /\ heap[fresh[Main]].pos = 1 /\ heap[fresh[Main]].seq = loop
      /\ program[loop] # << >>
  BY <1>1 DEF WorkOK, StartOK, ZonesOK, MasterZoneOK, OfThisLoop
<1>3. WorkOK'
  <2>1. StartOK' /\ AskedOK'
    BY <1>1 DEF StartOK, AskedOK
  <2>2. FirstOK'
    BY <1>1, <1>2 DEF FirstOK, ChainOK, OneWrapperPerIterator
  <2> QED BY <2>1, <2>2 DEF WorkOK
<1>4. todo \cup ({want} \ {"none"}) = {} /\ todo' \cup ({want'} \ {"none"}) = {"is_valid"}
  BY <1>1
<1>5. loop \in Nat /\ loop - 1 < MaxLoops /\ loop = (loop - 1) + 1
  BY MaxLoopsAssumption DEF IInv, TypeOK, LoopTypes, MaxLoopsAssumption
<1>6. Serial!Begin
  BY <1>1, <1>2, <1>4, <1>5, SameIterators DEF Serial!Begin, Serial!Between
<1> QED BY <1>3, <1>6 DEF SerialStep, Serial!Next

LEMMA BeginIsSerial ==
  ASSUME IInv, ChainOK, ZonesOK, WorkOK, BeginLoop
  PROVE  WorkOK' /\ SerialStep
<1>1. /\ pc[Main] = "between" /\ iter = NULL /\ held = NULL /\ todo = {} /\ want = "none"
      /\ loop \in Nat /\ loop < MaxLoops /\ loop' = loop + 1
      /\ UNCHANGED <<program, iter, want, todo, held, failed, reply>>
      /\ NULL \notin References /\ NULL \notin References'
  BY LoopNumber
     DEF BeginLoop, IInv, MasterPlaceOK, LoopOK, ZonesOK, MasterZoneOK, References
<1>2. CASE program[loop'] = << >>
  <2>1. pc'[Main] = "between"
    BY <1>1, <1>2 DEF BeginLoop
  <2>2. WorkOK'
    BY <1>1, <2>1 DEF WorkOK, StartOK, FirstOK, AskedOK
  <2>3. Serial!Begin
    BY <1>1, <1>2, <2>1, SameIterators DEF Serial!Begin, Serial!Between
  <2> QED BY <2>2, <2>3 DEF SerialStep, Serial!Next
<1>3. CASE program[loop'] # << >>
  <2>1. /\ pc'[Main] = "look" /\ fresh'[Main] = Len(heap) + 1
        /\ heap' = Append(heap, NewWrapper(loop', 1))
    BY <1>3 DEF BeginLoop, Goto, IInv, TypeOK, ThreadTypes
  <2>2. heap'[Len(heap) + 1].pos = 1
    <3> DEFINE r == NewWrapper(loop', 1)
    <3>1. heap \in Seq(Wrapper) /\ r.pos = 1
      BY DEF IInv, TypeOK, HeapType, NewWrapper
    <3>2. heap \in Seq(Wrapper \cup {r}) /\ r \in Wrapper \cup {r}
      BY <3>1, SeqMonotonic
    <3> HIDE DEF r
    <3> QED BY <2>1, <3>1, <3>2, AppendProperties DEF r
  <2>3. WorkOK'
    BY <1>1, <1>3, <2>1, <2>2 DEF WorkOK, StartOK, FirstOK, AskedOK
  <2>4. UNCHANGED Serial!vars
    <3>1. loop' - 1 = loop
      BY <1>1
    <3> QED BY <1>1, <2>1, <3>1 DEF Serial!vars
  <2> QED BY <2>3, <2>4 DEF SerialStep
<1> QED BY <1>2, <1>3

-----------------------------------------------------------------------------
(* Every step keeps the loop's work in sight, and is a step of the plain    *)
(* loop or none.                                                            *)
LEMMA NextWork ==
  IInv /\ IInv' /\ SlotsOK /\ ChainOK /\ ZonesOK /\ WorkOK /\ [Next]_vars
    => WorkOK' /\ SerialStep
<1> SUFFICES ASSUME IInv, HeapType', SlotsOK, ChainOK, ZonesOK, WorkOK, [Next]_vars
             PROVE  WorkOK' /\ SerialStep
  BY DEF IInv, TypeOK
<1>1. CASE Loop
  BY <1>1, BeginIsSerial, StartIsSerial, CallStepIsSerial, ReadValidIsSerial,
     ReadCurrentIsSerial, ReadNextIsSerial, ContinueIsSerial, LeaveIsSerial DEF Loop
<1>2. CASE ~ Loop
  <2>1. LeavesLoopAlone
    BY <1>2, OthersLeaveLoopAlone
  <2> QED BY <2>1, LeavesLoopAloneStep, StutterStep DEF SerialStep
<1> QED BY <1>1, <1>2

LEMMA InitWork == Init => WorkOK /\ Serial!Init
<1> SUFFICES ASSUME Init PROVE WorkOK /\ Serial!Init
  OBVIOUS
<1>1. WorkOK
  BY DEF Init, WorkOK, StartOK, FirstOK, AskedOK
<1>2. Serial!Init
  BY SameIterators DEF Init, Serial!Init, References
<1> QED BY <1>1, <1>2

(* While a loop runs, a wrapper that still needs work hangs on the chain    *)
(* behind the loop's iterator or is in the hands of its maker:              *)
(* queue_iterator may fail to place it, and nobody loses it.                *)
THEOREM NoWorkIsLost == Spec => []NoWorkLost
<1>1. ASSUME ChainOK, WorkOK, iter # NULL,
             NEW w \in References, heap[w].seq = loop, heap[w].wrapped # NULL
      PROVE  Linked(w) \/ \E t \in Threads : fresh[t] = w
  <2>1. CASE heap[w].pos = 1
    BY <1>1, <2>1 DEF WorkOK, FirstOK, Linked
  <2>2. CASE heap[w].pos # 1
    BY <1>1, <2>2 DEF ChainOK, OnChain, MadeBy, Linked
  <2> QED BY <2>1, <2>2
<1>2. ChainOK /\ WorkOK => NoWorkLost
  BY <1>1 DEF NoWorkLost
<1> QED BY <1>2, InitWork, NextWork, Invariance, SlotsInvariance, ChainInvariance,
        ZonesInvariance, PTL DEF Spec

(* parallelize changes nothing but time: whatever the workers do, the loop  *)
(* is told what the plain iterators of its sequence would have told it.     *)
THEOREM ParallelLoopsAreSerial == Spec => ImplementsSerialLoop
BY InitWork, NextWork, Invariance, SlotsInvariance, ChainInvariance, ZonesInvariance, PTL
   DEF Spec, ImplementsSerialLoop, Serial!Spec, SerialStep

-----------------------------------------------------------------------------
(* What RunIO may rely on when it collects a zone, for any number of        *)
(* workers, loops and zones: a loop that went on to its terminator has left *)
(* no worker behind.                                                        *)
(* The wrappers of a loop have no gaps, and only the last one may be known  *)
(* to be the terminator, or not to be known yet.                            *)
LastOK ==
    \A v, w \in References :
        heap[v].seq = heap[w].seq /\ heap[v].pos < heap[w].pos =>
            /\ heap[v].valid \notin {NULL, False}
            /\ \E x \in References : Before(v, x)

(* The loop goes from each wrapper to the next one, and is through with all *)
(* those before its iterator.                                               *)
PastOK ==
    iter # NULL =>
        /\ held \in References => Before(iter, held)
        /\ \A w \in References :
             heap[w].seq = loop /\ heap[w].pos < heap[iter].pos
               => heap[w].wrapped = NULL

(* What a worker has taken nobody else has finished.                        *)
TakenOK == \A w \in Workers : pc[w] = "fetch" => heap[task[w]].wrapped # NULL

EngineOK == IInv /\ SlotsOK /\ ChainOK /\ ZonesOK /\ WorkOK
TailOK == LastOK /\ PastOK /\ TakenOK

(* A loop that is over and was not left early has no work to do.            *)
QuietLoopsOK ==
    \A w \in References :
        heap[w].seq \notin left /\ (heap[w].seq # loop \/ pc[Main] = "between")
            => heap[w].wrapped = NULL

(* The loop that runs does so in the zone that is current.                  *)
StageOK ==
    /\ stage \in Nat /\ stageOf \in [1..MaxLoops -> Nat]
    /\ \A l \in 1..MaxLoops : Destroyed(l) => l # loop \/ pc[Main] = "between"

-----------------------------------------------------------------------------
(* What a step does to the heap: it keeps the wrappers there are, or makes  *)
(* one more.                                                                *)
LEMMA AllocatedSlots ==
  ASSUME IInv, NEW r, heap' = Append(heap, r)
  PROVE  /\ References' = References \cup {Len(heap) + 1}
         /\ Len(heap) + 1 \notin References
         /\ heap'[Len(heap) + 1] = r
         /\ \A w \in References : heap'[w] = heap[w]
<1>1. heap \in Seq(Wrapper \cup {r}) /\ r \in Wrapper \cup {r} /\ Len(heap) \in Nat
  BY HeapShape, SeqMonotonic DEF IInv, TypeOK, HeapType
<1>2. /\ Len(heap') = Len(heap) + 1 /\ heap'[Len(heap) + 1] = r
      /\ \A w \in 1..Len(heap) : heap'[w] = heap[w]
  BY <1>1, AppendProperties
<1> QED BY <1>1, <1>2 DEF References

MakesNone == /\ References' = References /\ SeqsStay
             /\ \A w \in References : Kept(w)

LEMMA HeapMoves ==
  ASSUME IInv, HeapType', SlotsOK, [Next]_vars
  PROVE  \/ MakesNone
         \/ BeginLoop /\ heap' # heap
         \/ \E t \in Threads : WrapNext(t) /\ heap' # heap
<1>1. CASE heap' = heap
  BY <1>1, HeapUntouched, SameHeapSeqs DEF MakesNone, Kept
<1>2. ASSUME NEW t \in Threads,
             StoreValid(t) \/ LinkNext(t) \/ StoreCurrent(t) \/ ClearWrapped(t)
      PROVE  MakesNone
  <2>1. DOMAIN heap' = DOMAIN heap
    BY <1>2 DEF StoreValid, LinkNext, StoreCurrent, ClearWrapped
  <2>2. heap \in Seq(Wrapper) /\ heap' \in Seq(Wrapper')
    BY DEF IInv, TypeOK, HeapType
  <2>3. References' = References
    BY <2>1, <2>2, LenProperties DEF References
  <2> QED BY <1>2, <2>3, StoredSeqs, StoredKept DEF MakesNone
<1>3. CASE heap' # heap
  <2>1. \/ BeginLoop
        \/ \E t \in Threads : \/ WrapNext(t) \/ StoreValid(t) \/ LinkNext(t)
                              \/ StoreCurrent(t) \/ ClearWrapped(t)
    BY <1>3
    DEF Next, vars, MainThread, Loop, StartLoop, Call, ReadValid, ReadCurrent,
        ReadNext, Continue, LeaveLoop, MasterDoWork, Check, Walk, Progress, Advance,
        WorkerMain, TakeTask, ClearZone, ClearTask, ProcessIterator, Fetch,
        QueueIterator, Look, TryLock, Recheck, SetZone, SetTask, Unlock
  <2> QED BY <1>2, <1>3, <2>1
<1> QED BY <1>1, <1>3

(* What a thread that makes a wrapper has in hand.                          *)
LEMMA WrapMakes ==
  ASSUME EngineOK, NEW t \in Threads, WrapNext(t), heap' # heap
  PROVE  /\ arg[t] \in References /\ heap[arg[t]].wrapped # NULL
         /\ heap[arg[t]].valid \notin {NULL, False}
         /\ \A v \in References : ~ Before(arg[t], v)
         /\ heap' = Append(heap, NewWrapper(heap[arg[t]].seq, heap[arg[t]].pos + 1))
<1>1. pc[t] = "wrap" /\ Flattening(t) /\ arg[t] \in References
      /\ heap[arg[t]].wrapped # NULL
  BY InHand DEF EngineOK, WrapNext
<1>2. \A v \in References : ~ Before(arg[t], v)
  BY <1>1, NoneYet DEF EngineOK
<1>3. heap[arg[t]].valid \notin {NULL, False} /\ source[t] = heap[arg[t]].pos
  BY <1>1 DEF EngineOK, IInv, AnswersInOrder, ChainOK, HandsOK, InHandOK
<1>4. heap' = Append(heap, NewWrapper(heap[arg[t]].seq, heap[arg[t]].pos + 1))
  BY <1>3 DEF WrapNext, NeedsWrapper, Successor
<1> QED BY <1>1, <1>2, <1>3, <1>4

LEMMA BeginMakes ==
  ASSUME EngineOK, BeginLoop, heap' # heap
  PROVE  /\ heap' = Append(heap, NewWrapper(loop', 1))
         /\ \A w \in References : heap[w].seq # loop'
<1>1. loop' = loop + 1 /\ loop \in Nat
  BY LoopNumber DEF EngineOK, BeginLoop
<1>2. \A w \in References : heap[w].seq \in 1..loop
  BY DEF EngineOK, ChainOK, PlacesOK
<1> QED BY <1>1, <1>2 DEF BeginLoop

-----------------------------------------------------------------------------
(* The wrappers of a loop have no gaps.                                     *)
LEMMA NoneMadeKeepsLast == ASSUME LastOK, MakesNone PROVE LastOK'
<1>1. \A v, x \in References : Before(v, x) => Before(v, x)'
  BY DEF MakesNone, SeqsStay, Before
<1> SUFFICES ASSUME NEW v \in References, NEW w \in References,
                    heap[v].seq = heap[w].seq, heap[v].pos < heap[w].pos
             PROVE  /\ heap'[v].valid \notin {NULL, False}
                    /\ \E x \in References : Before(v, x)'
  BY DEF LastOK, MakesNone, SeqsStay
<1>2. heap[v].valid \notin {NULL, False} /\ \E x \in References : Before(v, x)
  BY DEF LastOK
<1> QED BY <1>1, <1>2 DEF MakesNone, Kept

(* The first wrapper of a loop is alone.                                    *)
LEMMA BeginKeepsLast == ASSUME EngineOK, LastOK, BeginLoop, heap' # heap PROVE LastOK'
<1> DEFINE n == Len(heap) + 1
<1>1. /\ References' = References \cup {n}
      /\ heap'[n] = NewWrapper(loop', 1)
      /\ \A w \in References : heap'[w] = heap[w] /\ heap[w].seq # loop'
  BY BeginMakes, AllocatedSlots DEF EngineOK
<1>2. heap'[n].seq = loop' /\ ~ heap'[n].pos < heap'[n].pos
  BY <1>1 DEF NewWrapper
<1> HIDE DEF n
<1>3. \A v, x \in References : Before(v, x) => Before(v, x)'
  BY <1>1 DEF Before
<1>4. ASSUME NEW v \in References', NEW w \in References',
             heap'[v].seq = heap'[w].seq, heap'[v].pos < heap'[w].pos
      PROVE  /\ heap'[v].valid \notin {NULL, False}
             /\ \E x \in References' : Before(v, x)'
  <2>1. v \in References /\ w \in References
    BY <1>1, <1>2, <1>4
  <2>2. heap[v].valid \notin {NULL, False} /\ \E x \in References : Before(v, x)
    BY <1>1, <1>4, <2>1 DEF LastOK
  <2> QED BY <1>1, <1>3, <2>1, <2>2
<1> QED BY <1>4 DEF LastOK

(* A new wrapper comes after all others of its loop.                        *)
LEMMA WrapKeepsLast ==
  ASSUME EngineOK, LastOK, NEW t \in Threads, WrapNext(t), heap' # heap
  PROVE  LastOK'
<1>a. PICK a : a = arg[t]
  OBVIOUS
<1>n. PICK n : n = Len(heap) + 1
  OBVIOUS
<1>1. /\ a \in References /\ heap[a].valid \notin {NULL, False}
      /\ \A v \in References : ~ Before(a, v)
      /\ \A w \in References : heap[w].pos \in Nat
  BY <1>a, WrapMakes DEF EngineOK, ChainOK, PlacesOK
<1>2. /\ References' = References \cup {n} /\ n \notin References
      /\ heap'[n] = NewWrapper(heap[a].seq, heap[a].pos + 1)
      /\ \A w \in References : heap'[w] = heap[w]
  BY <1>a, <1>n, WrapMakes, AllocatedSlots DEF EngineOK
<1>3. heap'[n].seq = heap[a].seq /\ heap'[n].pos = heap[a].pos + 1
  BY <1>2 DEF NewWrapper
<1>4. \A w \in References : heap[w].seq = heap[a].seq => heap[w].pos <= heap[a].pos
  BY <1>1 DEF LastOK
<1>5. \A v, x \in References : Before(v, x) => Before(v, x)'
  BY <1>2 DEF Before
<1>6. Before(a, n)'
  BY <1>1, <1>2, <1>3 DEF Before
<1>7. ASSUME NEW v \in References', NEW w \in References',
             heap'[v].seq = heap'[w].seq, heap'[v].pos < heap'[w].pos
      PROVE  /\ heap'[v].valid \notin {NULL, False}
             /\ \E x \in References' : Before(v, x)'
  <2>1. v \in References
    <3>1. SUFFICES ASSUME v = n PROVE FALSE
      BY <1>2
    <3>2. w \in References
      BY <1>1, <1>2, <1>3, <1>7, <3>1
    <3> QED BY <1>1, <1>2, <1>3, <1>4, <1>7, <3>1, <3>2
  <2>2. CASE v = a
    BY <1>1, <1>2, <1>6, <2>1, <2>2
  <2>3. CASE v # a
    <3>1. PICK u \in References : heap[v].seq = heap[u].seq /\ heap[v].pos < heap[u].pos
      <4>1. CASE w \in References
        BY <1>2, <1>7, <2>1, <4>1
      <4>2. CASE w = n
        <5>1. heap[v].seq = heap[a].seq /\ heap[v].pos # heap[a].pos
          BY <1>1, <1>2, <1>3, <1>7, <2>1, <2>3, <4>2
             DEF EngineOK, ChainOK, OneWrapperPerIterator
        <5> QED BY <1>1, <1>4, <2>1, <5>1
      <4> QED BY <1>2, <4>1, <4>2
    <3>2. heap[v].valid \notin {NULL, False} /\ \E x \in References : Before(v, x)
      BY <2>1, <3>1 DEF LastOK
    <3> QED BY <1>2, <1>5, <2>1, <3>2
  <2> QED BY <2>2, <2>3
<1> QED BY <1>7 DEF LastOK

LEMMA NextLast == ASSUME EngineOK, HeapType', LastOK, [Next]_vars PROVE LastOK'
BY HeapMoves, NoneMadeKeepsLast, BeginKeepsLast, WrapKeepsLast DEF EngineOK

-----------------------------------------------------------------------------
(* The loop is through with the wrappers before its iterator.               *)
LEMMA OthersKeepPast ==
  ASSUME EngineOK, HeapType', PastOK, LastOK', [Next]_vars, ~ Loop
  PROVE  PastOK'
<1>1. LeavesLoopAlone
  BY OthersLeaveLoopAlone DEF EngineOK
<1>2. \A w \in References' : w \in References \/ heap'[w].valid = NULL
  <2>1. CASE MakesNone
    BY <2>1 DEF MakesNone
  <2>2. ASSUME NEW t \in Threads, WrapNext(t), heap' # heap
        PROVE  \A w \in References' : w \in References \/ heap'[w].valid = NULL
    <3> DEFINE r == NewWrapper(heap[arg[t]].seq, heap[arg[t]].pos + 1)
    <3>1. /\ References' = References \cup {Len(heap) + 1}
          /\ heap'[Len(heap) + 1] = r
      BY <2>2, WrapMakes, AllocatedSlots DEF EngineOK
    <3>2. r.valid = NULL
      BY DEF NewWrapper
    <3> HIDE DEF r
    <3> QED BY <3>1, <3>2
  <2>3. ~ BeginLoop
    BY DEF Loop
  <2> QED BY <2>1, <2>2, <2>3, HeapMoves DEF EngineOK
<1> SUFFICES ASSUME iter # NULL
             PROVE  /\ held \in References' => Before(iter, held)'
                    /\ \A w \in References' :
                         heap'[w].seq = loop /\ heap'[w].pos < heap'[iter].pos
                           => heap'[w].wrapped = NULL
  BY <1>1 DEF LeavesLoopAlone, PastOK
<1>3. /\ iter \in References /\ held \in References \cup {NULL, Thrown}
      /\ heap[iter].seq = loop
      /\ References' \subseteq Nat \ {NULL}
  BY DEF EngineOK, IInv, TypeOK, LoopTypes, ZonesOK, MasterZoneOK, OfThisLoop, References
<1>4. held \in References' => Before(iter, held)'
  BY <1>1, <1>3 DEF PastOK, LeavesLoopAlone, SeqsStay, Before
<1>5. ASSUME NEW w \in References', heap'[w].seq = loop, heap'[w].pos < heap'[iter].pos
      PROVE  heap'[w].wrapped = NULL
  <2>1. iter \in References' /\ heap'[iter].seq = loop /\ heap'[iter].pos = heap[iter].pos
    BY <1>1, <1>3 DEF LeavesLoopAlone, SeqsStay
  <2>2. w \in References
    BY <1>2, <1>5, <2>1 DEF LastOK
  <2> QED BY <1>1, <1>5, <2>1, <2>2 DEF PastOK, LeavesLoopAlone, SeqsStay
<1> QED BY <1>4, <1>5

LEMMA LoopKeepsPast == ASSUME EngineOK, PastOK, Loop PROVE PastOK'
<1>1. /\ pc \in [Threads -> Labels] /\ iter \in References \cup {NULL}
      /\ NULL \notin References
      /\ pc[Main] \in {"between", "start"} => iter = NULL /\ held = NULL
      /\ pc[Main] \in {"body", "read"} => iter \in References /\ heap[iter].seq = loop
  BY DEF EngineOK, IInv, TypeOK, ThreadTypes, LoopTypes, MasterPlaceOK, QueueingLabels,
         ZonesOK, MasterZoneOK, OfThisLoop, References
<1>2. heap' = heap => References' = References
  BY HeapUntouched
<1>3. CASE BeginLoop
  BY <1>1, <1>3 DEF BeginLoop, PastOK
<1>4. CASE StartLoop
  <2>1. /\ iter' = fresh[Main] /\ fresh[Main] \in References /\ heap[fresh[Main]].pos = 1
        /\ held' = NULL /\ heap' = heap /\ pc[Main] = "start"
    BY <1>1, <1>4
    DEF StartLoop, EngineOK, IInv, PlaceOK, WorkOK, StartOK
  <2>2. \A w \in References : heap[w].pos \in Nat \ {NULL}
    BY DEF EngineOK, ChainOK, PlacesOK
  <2> QED BY <1>1, <1>2, <2>1, <2>2 DEF PastOK
<1>5. CASE Call \/ ReadValid \/ ReadCurrent \/ LeaveLoop
  <2>1. /\ heap' = heap /\ loop' = loop
        /\ iter' = NULL \/ (iter' = iter /\ held' = held)
    BY <1>5 DEF Call, ReadValid, ReadCurrent, LeaveLoop, EndLoop
  <2> QED BY <1>2, <2>1 DEF PastOK, Before
<1>6. CASE ReadNext
  <2>1. /\ heap' = heap /\ loop' = loop /\ iter' = iter /\ held' = heap[iter].next
        /\ iter \in References
    BY <1>1, <1>6 DEF ReadNext
  <2>2. held' \in References => Before(iter, held')
    <3>1. held' \in References => held' \notin {NULL, Thrown}
      BY DEF References
    <3> QED BY <2>1, <3>1 DEF EngineOK, ChainOK, AnswersOK, Follows, Before
  <2>3. held' \in References => Before(iter, held)'
    BY <2>1, <2>2 DEF Before
  <2> QED BY <1>2, <2>1, <2>3 DEF PastOK
<1>7. CASE Continue
  <2>1. /\ heap' = heap /\ loop' = loop /\ iter' = held /\ held' = NULL
        /\ pc[Main] = "body" /\ todo = {} /\ failed = FALSE /\ want = "none"
    BY <1>7 DEF Continue, EngineOK, IInv, TypeOK, LoopTypes, LoopOK
  <2>2. /\ iter \in References /\ iter # NULL /\ heap[iter].seq = loop
        /\ held \in References /\ heap[iter].wrapped = NULL
    BY <1>1, <2>1 DEF EngineOK, IInv, TypeOK, LoopTypes, LoopOK, WorkOK, AskedOK
  <2>3. Before(iter, held) /\ \A w \in References : heap[w].pos \in Nat
    BY <2>2 DEF PastOK, EngineOK, ChainOK, PlacesOK
  <2>4. ASSUME NEW w \in References, heap[w].seq = loop, heap[w].pos < heap[held].pos
        PROVE  heap[w].wrapped = NULL
    <3>1. heap[w].pos < heap[iter].pos \/ heap[w].pos = heap[iter].pos
      BY <2>2, <2>3, <2>4 DEF Before
    <3>2. CASE heap[w].pos < heap[iter].pos
      BY <2>2, <2>4, <3>2 DEF PastOK
    <3>3. CASE heap[w].pos = heap[iter].pos
      BY <2>2, <2>4, <3>3 DEF EngineOK, ChainOK, OneWrapperPerIterator
    <3> QED BY <3>1, <3>2, <3>3
  <2> QED BY <1>1, <1>2, <2>1, <2>4 DEF PastOK
<1> QED BY <1>3, <1>4, <1>5, <1>6, <1>7 DEF Loop

-----------------------------------------------------------------------------
(* Nobody finishes what a worker has taken and not begun.                   *)
LEMMA NextTaken == ASSUME EngineOK, HeapType', TakenOK, [Next]_vars PROVE TakenOK'
<1>1. /\ pc \in [Threads -> Labels] /\ heap \in Seq(Wrapper)
      /\ task \in [Workers -> References \cup {NULL}]
      /\ \A w \in Workers : pc[w] = "fetch" =>
           task[w] \in References /\ task[w] # NULL /\ heap[task[w]].wrapped # NULL
  BY DEF EngineOK, IInv, TypeOK, ThreadTypes, WorkerTypes, HeapType, WorkerOK, TakenOK
<1> DEFINE Stays(w) ==
      /\ pc[w] = "fetch" /\ task'[w] = task[w]
      /\ heap'[task[w]].wrapped = heap[task[w]].wrapped
<1>2. ASSUME NEW t \in Threads, ProcessIterator(t), NEW w \in Workers, pc'[w] = "fetch"
      PROVE  Stays(w)
  <2>1. w # t /\ pc[w] = "fetch"
    <3> USE <1>1, <1>2 DEF Goto, Return, NextWorker, AfterQueueing
    <3>1. CASE Fetch(t) \/ StoreValid(t) \/ WrapNext(t)
      BY <3>1 DEF Fetch, StoreValid, WrapNext
    <3>2. CASE LinkNext(t) \/ StoreCurrent(t) \/ ClearWrapped(t)
      BY <3>2 DEF LinkNext, StoreCurrent, ClearWrapped
    <3>3. CASE Look(t) \/ TryLock(t)
      BY <3>3 DEF Look, TryLock
    <3>4. CASE Recheck(t) \/ SetZone(t) \/ SetTask(t)
      BY <3>4 DEF Recheck, SetZone, SetTask
    <3>5. CASE Unlock(t)
      BY <3>5 DEF Unlock
    <3> QED BY <3>1, <3>2, <3>3, <3>4, <3>5 DEF ProcessIterator, QueueIterator
  <2>2. task'[w] = task[w]
    <3>1. CASE SetTask(t)
      <4>1. idx[t] # w
        BY <1>1, <2>1, <3>1 DEF SetTask, EngineOK, IInv, LockOK
      <4> QED BY <1>1, <3>1, <4>1 DEF SetTask
    <3>2. CASE ~ SetTask(t)
      BY <1>2, <3>2
      DEF ProcessIterator, Fetch, StoreValid, WrapNext, LinkNext, StoreCurrent,
          ClearWrapped, QueueIterator, Look, TryLock, Recheck, SetZone, Unlock, workerVars
    <3> QED BY <3>1, <3>2
  <2>3. task[w] \in References /\ heap[task[w]] \in Wrapper
    BY <1>1, <2>1, HeapShape DEF EngineOK, IInv
  <2>4. heap'[task[w]].wrapped = heap[task[w]].wrapped
    <3>1. CASE ClearWrapped(t)
      <4>1. pc[t] = "clear" /\ Flattening(t) /\ arg[t] \in References
        BY <3>1, InHand DEF ClearWrapped, EngineOK
      <4>2. arg[t] # task[w]
        <5>1. CASE t = Main
          BY <4>1, <5>1 DEF EngineOK, IInv, MasterAlone
        <5>2. CASE t \in Workers
          BY <1>1, <2>1, <4>1, <5>2
          DEF EngineOK, IInv, WorkerOK, WorkerLabels, TasksDiffer
        <5> QED BY <5>1, <5>2
      <4> QED BY <1>1, <2>3, <3>1, <4>1, <4>2 DEF ClearWrapped, References
    <3>2. CASE StoreValid(t) \/ LinkNext(t) \/ StoreCurrent(t)
      <4>1. arg[t] \in References
        BY <3>2, InHand DEF StoreValid, LinkNext, StoreCurrent, EngineOK
      <4>2. CASE StoreValid(t)
        BY <1>1, <2>3, <4>1, <4>2 DEF StoreValid, Wrapper, References
      <4>3. CASE LinkNext(t)
        BY <1>1, <2>3, <4>1, <4>3 DEF LinkNext, Wrapper, References
      <4>4. CASE StoreCurrent(t)
        BY <1>1, <2>3, <4>1, <4>4 DEF StoreCurrent, Wrapper, References
      <4> QED BY <3>2, <4>2, <4>3, <4>4
    <3>3. CASE WrapNext(t) /\ heap' # heap
      BY <2>3, <3>3, WrapMakes, AllocatedSlots DEF EngineOK
    <3>4. CASE heap' = heap
      BY <3>4
    <3> QED BY <1>2, <3>1, <3>2, <3>3, <3>4
            DEF ProcessIterator, Fetch, QueueIterator, Look, TryLock, Recheck, SetZone,
                SetTask, Unlock
  <2> QED BY <2>1, <2>2, <2>4
<1>3. ASSUME NEW v \in Workers, TakeTask(v) \/ ClearZone(v) \/ ClearTask(v),
             NEW w \in Workers, pc'[w] = "fetch"
      PROVE  Stays(w) \/ heap'[task'[w]].wrapped # NULL
  <2>1. CASE TakeTask(v)
    BY <1>1, <1>3, <2>1 DEF TakeTask, Goto, workerVars, EngineOK, IInv, WorkerOK
  <2>2. CASE ClearZone(v) \/ ClearTask(v)
    BY <1>1, <1>3, <2>2 DEF ClearZone, ClearTask, Goto
  <2> QED BY <1>3, <2>1, <2>2
<1>4. ASSUME Loop \/ MasterDoWork \/ UNCHANGED vars, NEW w \in Workers, pc'[w] = "fetch"
      PROVE  Stays(w)
  <2>1. w # Main
    OBVIOUS
  <2>2. pc[w] = "fetch" /\ task' = task
    <3> USE <1>1, <1>4, <2>1 DEF Goto, EndLoop, workerVars, threadVars
    <3>1. CASE BeginLoop \/ StartLoop \/ Call
      BY <3>1 DEF BeginLoop, StartLoop, Call
    <3>2. CASE ReadValid \/ ReadCurrent \/ ReadNext
      BY <3>2 DEF ReadValid, ReadCurrent, ReadNext
    <3>3. CASE Continue \/ LeaveLoop
      BY <3>3 DEF Continue, LeaveLoop
    <3>4. CASE MasterDoWork
      BY <3>4 DEF MasterDoWork, Check, Walk, Progress, Advance
    <3>5. CASE UNCHANGED vars
      BY <3>5 DEF vars
    <3> QED BY <3>1, <3>2, <3>3, <3>4, <3>5 DEF Loop
  <2>3. CASE heap' = heap
    BY <2>2, <2>3
  <2>4. CASE BeginLoop /\ heap' # heap
    BY <1>1, <2>2, <2>4, BeginMakes, AllocatedSlots DEF EngineOK
  <2> QED BY <1>4, <2>3, <2>4
          DEF Loop, StartLoop, Call, ReadValid, ReadCurrent, ReadNext, Continue,
              LeaveLoop, MasterDoWork, Check, Walk, Progress, Advance, vars
<1>5. \A w \in Workers : pc'[w] = "fetch" => Stays(w) \/ heap'[task'[w]].wrapped # NULL
  BY <1>2, <1>3, <1>4 DEF Next, MainThread, WorkerMain
<1> QED BY <1>1, <1>5 DEF TakenOK

LEMMA NextTail == ASSUME EngineOK, HeapType', TailOK, [Next]_vars PROVE TailOK'
BY NextLast, OthersKeepPast, LoopKeepsPast, NextTaken DEF TailOK

-----------------------------------------------------------------------------
(* When is_valid tells the loop that it has come to the terminator, all its *)
(* wrappers are finished.                                                   *)
LEMMA QuietAtTerminator ==
  ASSUME EngineOK, TailOK, ReadValid, heap[iter].valid \notin {True, Thrown},
         NEW w \in References, heap[w].seq = loop
  PROVE  heap[w].wrapped = NULL
<1>1. /\ iter \in References /\ iter # NULL /\ heap[iter].wrapped = NULL
      /\ heap[iter].seq = loop
      /\ heap[iter].valid = IsValid(program[loop], heap[iter].pos)
  BY ReadAnswers DEF ReadValid, EngineOK, ZonesOK, MasterZoneOK, OfThisLoop
<1>2. heap[iter].valid = False
  BY <1>1 DEF IsValid
<1>3. heap[w].pos \in Nat /\ heap[iter].pos \in Nat
  BY <1>1 DEF EngineOK, ChainOK, PlacesOK
<1>4. CASE heap[w].pos < heap[iter].pos
  BY <1>1, <1>4 DEF TailOK, PastOK
<1>5. CASE heap[w].pos = heap[iter].pos
  BY <1>1, <1>5 DEF EngineOK, ChainOK, OneWrapperPerIterator
<1>6. CASE heap[iter].pos < heap[w].pos
  BY <1>1, <1>2, <1>6 DEF TailOK, LastOK
<1> QED BY <1>3, <1>4, <1>5, <1>6

LEMMA RunKeepsQuiet ==
  ASSUME EngineOK, HeapType', TailOK, QuietLoopsOK, Run
  PROVE  QuietLoopsOK'
<1>1. /\ pc \in [Threads -> Labels] /\ left \subseteq left'
      /\ LeavesEarly => loop \in left'
  BY DEF EngineOK, IInv, TypeOK, ThreadTypes, Run
<1>2. CASE BeginLoop
  <2>1. pc[Main] = "between"
    BY <1>2 DEF BeginLoop
  <2>2. CASE heap' = heap
    BY <1>1, <2>1, <2>2, HeapUntouched DEF QuietLoopsOK
  <2>3. CASE heap' # heap
    <3> DEFINE n == Len(heap) + 1
    <3>1. /\ References' = References \cup {n} /\ heap'[n] = NewWrapper(loop', 1)
          /\ \A w \in References : heap'[w] = heap[w]
      BY <1>2, <2>3, BeginMakes, AllocatedSlots DEF EngineOK
    <3>2. heap'[n].seq = loop' /\ pc'[Main] # "between"
      BY <1>1, <1>2, <2>3, <3>1 DEF NewWrapper, BeginLoop, Goto
    <3> HIDE DEF n
    <3> QED BY <1>1, <2>1, <3>1, <3>2 DEF QuietLoopsOK
  <2> QED BY <2>2, <2>3
<1>3. CASE Loop /\ ~ BeginLoop
  <2>1. /\ heap' = heap /\ loop' = loop /\ pc[Main] \in {"start", "body", "read"}
        /\ pc'[Main] = "between" => LeavesEarly \/ ReadValid
    <3> USE <1>1, <1>3 DEF Goto, EndLoop, threadVars, LeavesEarly
    <3>1. CASE StartLoop \/ Call
      BY <3>1 DEF StartLoop, Call
    <3>2. CASE ReadValid \/ ReadCurrent \/ ReadNext
      BY <3>2 DEF ReadValid, ReadCurrent, ReadNext
    <3>3. CASE Continue \/ LeaveLoop
      BY <3>3 DEF Continue, LeaveLoop
    <3> QED BY <3>1, <3>2, <3>3 DEF Loop
  <2>2. References' = References
    BY <2>1, HeapUntouched
  <2> SUFFICES ASSUME NEW w \in References, heap[w].seq \notin left',
                      heap[w].seq # loop \/ pc'[Main] = "between"
               PROVE  heap[w].wrapped = NULL
    BY <2>1, <2>2 DEF QuietLoopsOK
  <2>3. CASE heap[w].seq # loop
    BY <1>1, <2>3 DEF QuietLoopsOK
  <2>4. CASE heap[w].seq = loop
    <3>1. ReadValid /\ ~ LeavesEarly /\ pc'[Main] = "between"
      BY <1>1, <2>1, <2>4
    <3>2. heap[iter].valid \notin {True, Thrown}
      BY <1>1, <3>1 DEF ReadValid, LeavesEarly, Goto
    <3> QED BY <2>4, <3>1, <3>2, QuietAtTerminator
  <2> QED BY <2>3, <2>4
<1>4. CASE ~ Loop
  <2>1. LeavesLoopAlone /\ Next
    BY <1>4, OthersLeaveLoopAlone DEF EngineOK, Run
  <2>2. \A w \in References :
          heap'[w].seq \notin left' /\ (heap'[w].seq # loop' \/ pc'[Main] = "between")
            => heap'[w].wrapped = NULL
    BY <1>1, <2>1 DEF QuietLoopsOK, LeavesLoopAlone, SeqsStay
  <2>3. CASE MakesNone
    BY <2>2, <2>3 DEF MakesNone, QuietLoopsOK
  <2>4. ASSUME NEW t \in Threads, WrapNext(t), heap' # heap
        PROVE  QuietLoopsOK'
    <3> DEFINE n == Len(heap) + 1
    <3>1. /\ References' = References \cup {n}
          /\ heap'[n] = NewWrapper(heap[arg[t]].seq, heap[arg[t]].pos + 1)
          /\ arg[t] \in References /\ heap[arg[t]].wrapped # NULL
      BY <2>4, WrapMakes, AllocatedSlots DEF EngineOK
    <3>2. heap'[n].seq = heap[arg[t]].seq
      BY <3>1 DEF NewWrapper
    <3> HIDE DEF n
    <3>3. ~ (heap'[n].seq \notin left' /\ (heap'[n].seq # loop' \/ pc'[Main] = "between"))
      BY <1>1, <2>1, <3>1, <3>2 DEF QuietLoopsOK, LeavesLoopAlone
    <3> QED BY <2>2, <3>1, <3>3 DEF QuietLoopsOK
  <2> QED BY <1>4, <2>1, <2>3, <2>4, HeapMoves DEF EngineOK, Loop
<1> QED BY <1>2, <1>3, <1>4

(* A zone is left behind between two loops only.                            *)
LEMMA ProgramKeepsStage ==
  ASSUME EngineOK, HeapType', StageOK, [ProgramNext]_programVars
  PROVE  StageOK'
<1>1. CASE Run
  <2>1. /\ stage' = stage /\ stageOf' \in [1..MaxLoops -> Nat]
        /\ loop' # loop => loop' \in 1..MaxLoops /\ stageOf'[loop'] = stage
        /\ \A l \in 1..MaxLoops : l # loop' => stageOf'[l] = stageOf[l]
        /\ loop' = loop => stageOf' = stageOf
    <3>1. loop' # loop => BeginLoop
      BY <1>1
      DEF Run, Next, vars, loopVars, MainThread, Loop, StartLoop, Call, ReadValid,
          ReadCurrent, ReadNext, Continue, LeaveLoop, MasterDoWork, Check, Walk, Progress,
          Advance, WorkerMain, TakeTask, ClearZone, ClearTask, ProcessIterator, Fetch,
          StoreValid, WrapNext, LinkNext, StoreCurrent, ClearWrapped, QueueIterator,
          Look, TryLock, Recheck, SetZone, SetTask, Unlock
    <3>2. loop' # loop => loop' \in 1..MaxLoops
      BY <3>1, LoopNumber, MaxLoopsAssumption DEF BeginLoop, EngineOK, MaxLoopsAssumption
    <3> QED BY <1>1, <3>2 DEF Run, StageOK
  <2>2. pc[Main] = "between" /\ pc'[Main] # "between" => loop' # loop
    <3>1. CASE ~ Loop
      BY <1>1, <3>1, OthersLeaveLoopAlone DEF Run, EngineOK, LeavesLoopAlone
    <3>2. CASE Loop
      BY <3>2, LoopNumber
      DEF Loop, BeginLoop, StartLoop, Call, ReadValid, ReadCurrent, ReadNext, Continue,
          LeaveLoop, EngineOK
    <3> QED BY <3>1, <3>2
  <2>3. \A l \in 1..MaxLoops : Destroyed(l)' => l # loop' \/ pc'[Main] = "between"
    <3> SUFFICES ASSUME NEW l \in 1..MaxLoops, l = loop', pc'[Main] # "between"
                 PROVE  stageOf'[l] \notin 1..(stage - 1)
      BY <2>1 DEF Destroyed
    <3>1. CASE loop' # loop
      BY <2>1, <3>1 DEF StageOK
    <3>2. CASE loop' = loop
      BY <2>1, <2>2, <3>2 DEF StageOK, Destroyed
    <3> QED BY <3>1, <3>2
  <2> QED BY <2>1, <2>3 DEF StageOK
<1>2. CASE NextStage
  BY <1>2 DEF NextStage, StageOK, vars, threadVars
<1>3. CASE UNCHANGED programVars
  BY <1>3 DEF programVars, vars, threadVars, loopVars, StageOK, Destroyed
<1> QED BY <1>1, <1>2, <1>3 DEF ProgramNext

LEMMA StandingKeepsQuiet ==
  ASSUME QuietLoopsOK, UNCHANGED <<vars, left>>
  PROVE  QuietLoopsOK'
BY HeapUntouched DEF vars, threadVars, loopVars, QuietLoopsOK

-----------------------------------------------------------------------------
LEMMA ProgramRunsEngine ==
  /\ ProgramInit => Init
  /\ [ProgramNext]_programVars => [Next]_vars
BY DEF ProgramInit, ProgramNext, programVars, Run, NextStage

LEMMA InitProgram == ProgramInit => TailOK /\ QuietLoopsOK /\ StageOK
BY DEF ProgramInit, Init, TailOK, LastOK, PastOK, TakenOK, QuietLoopsOK, StageOK,
       Destroyed, References

LEMMA NextProgram ==
  EngineOK /\ EngineOK' /\ TailOK /\ QuietLoopsOK /\ StageOK /\ [ProgramNext]_programVars
    => TailOK' /\ QuietLoopsOK' /\ StageOK'
<1> SUFFICES ASSUME EngineOK, HeapType', TailOK, QuietLoopsOK, StageOK,
                    [ProgramNext]_programVars
             PROVE  TailOK' /\ QuietLoopsOK' /\ StageOK'
  BY DEF EngineOK, IInv, TypeOK
<1>1. TailOK'
  BY ProgramRunsEngine, NextTail
<1>2. QuietLoopsOK'
  <2>1. CASE Run
    BY <2>1, RunKeepsQuiet
  <2>2. CASE NextStage \/ UNCHANGED programVars
    BY <2>2, StandingKeepsQuiet DEF NextStage, programVars
  <2> QED BY <2>1, <2>2 DEF ProgramNext
<1> QED BY <1>1, <1>2, ProgramKeepsStage

(* A worker that has a task has work to do.                                 *)
LEMMA WorkersHaveWork ==
  ASSUME EngineOK, TakenOK, NEW w \in Workers, NEW l, WorksAt(w, l)
  PROVE  /\ task[w] \in References /\ heap[task[w]].seq = l
         /\ heap[task[w]].wrapped # NULL
<1>1. /\ task[w] \in References /\ task[w] # NULL /\ heap[task[w]].seq = l
      /\ pc[w] \in Labels \ ({"clearzone", "cleartask"} \cup MasterLabels)
  BY DEF WorksAt, EngineOK, IInv, TypeOK, ThreadTypes, WorkerTypes, RolesOK
<1>2. CASE pc[w] = "idle"
  BY <1>1, <1>2 DEF EngineOK, IInv, WorkerOK
<1>3. CASE pc[w] = "fetch"
  BY <1>1, <1>3 DEF TakenOK
<1>4. CASE pc[w] \notin {"idle", "fetch"}
  <2>1. Flattening(w)
    BY <1>1, <1>4 DEF Flattening, Labels, MasterLabels, LoopLabels, QueueingLabels
  <2>2. arg[w] = task[w]
    BY <1>1, <1>4 DEF EngineOK, IInv, WorkerOK, WorkerLabels
  <2> QED BY <1>1, <2>1, <2>2 DEF EngineOK, IInv, FlatteningOK
<1> QED BY <1>1, <1>2, <1>3, <1>4

(* RunIO need not wait for the workers before it collects a zone whose      *)
(* loops all went on to their terminators: none of them has a task left.    *)
THEOREM CompletedLoopsLeaveNobody == ProgramSpec => []CompletedLoopsAreQuiet
<1>1. ProgramSpec => []EngineOK
  <2>1. ProgramSpec => Spec
    BY ProgramRunsEngine, PTL DEF ProgramSpec, Spec
  <2>2. Spec => []WorkOK
    BY InitWork, NextWork, Invariance, SlotsInvariance, ChainInvariance,
       ZonesInvariance, PTL DEF Spec
  <2>3. Spec => []EngineOK
    BY <2>2, Invariance, SlotsInvariance, ChainInvariance, ZonesInvariance, PTL
       DEF EngineOK
  <2> QED BY <2>1, <2>3, PTL
<1>2. ProgramSpec => [](TailOK /\ QuietLoopsOK /\ StageOK)
  BY <1>1, InitProgram, NextProgram, PTL DEF ProgramSpec
<1>3. EngineOK /\ TailOK /\ QuietLoopsOK /\ StageOK => CompletedLoopsAreQuiet
  BY WorkersHaveWork DEF TailOK, QuietLoopsOK, StageOK, CompletedLoopsAreQuiet
<1> QED BY <1>1, <1>2, <1>3, PTL
=============================================================================
