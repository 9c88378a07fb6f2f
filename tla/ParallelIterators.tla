------------------------- MODULE ParallelIterators -------------------------
(* The parallel loop engine of the runtime, runtime/parallel.c.             *)
(*                                                                          *)
(* The compiler wraps the sequence of every loop without yields in a        *)
(* "parallelize" call.  The loop then reads wrapper iterators ("pariter"    *)
(* closures) that memoize the answers of the original ones.  Whoever        *)
(* flattens a wrapper creates the next one and offers it to an idle worker  *)
(* thread before computing the element, so the workers run ahead of the     *)
(* loop.  When the loop reads a wrapper that is not flattened yet, its      *)
(* thread, the master, flattens what nobody else is working at.             *)
(*                                                                          *)
(* A step makes at most one access to state that threads share, in the      *)
(* order the source makes them.  The C code uses plain variables for all of *)
(* it; the model takes each access as atomic and the memory as sequentially *)
(* consistent.                                                              *)
(*                                                                          *)
(* A definition that stands right before the one it varies, and is used     *)
(* nowhere, is a slip the code could have made; the properties catch it.    *)
EXTENDS SourceIterators

CONSTANTS NumWorkers,   \* s_num_workers
          Sources,      \* the sequences a loop may range over
          MaxLoops      \* bound: the number of loops the program runs

(* parallelize_func leaves the sequence alone unless there are at least two *)
(* workers.                                                                 *)
ASSUME NumWorkersAssumption == NumWorkers \in Nat /\ NumWorkers > 1
ASSUME SourcesAssumption == Sources \subseteq Seq(Kinds)
ASSUME MaxLoopsAssumption == MaxLoops \in Nat

Main == 0
Workers == 1..NumWorkers
Threads == {Main} \cup Workers
NoThread == -1

VARIABLES
  program,    \* the sequence each loop ranges over
  loop,       \* the loop the master runs, or the last one it ran
  heap,       \* the wrappers allocated so far; a reference is an index
  task,       \* s_workers[i].task
  zone,       \* s_workers[i].zone; a zone is named by the loop it serves
  lock,       \* holder of s_workers[i].lock
  pc,         \* what each thread does next
  arg,        \* process_iterator's "it"; the master's "next" as it walks
  source,     \* process_iterator's local "source"
  fresh,      \* the wrapper wrap_source_iterator is making, or an exception
  idx,        \* the loop counter over s_workers
  iter,       \* the loop's iterator; NULL when there is none
  want,       \* the method the loop is calling on it
  todo,       \* the methods this iteration has yet to call
  held,       \* the next iterator, once this iteration has asked for it
  failed,     \* the next iterator is an exception
  reply       \* <<method, answer>> of the last call the loop made

threadVars == <<pc, arg, source, fresh, idx>>
workerVars == <<task, zone, lock>>
loopVars == <<program, loop, iter, want, todo, held, failed, reply>>
vars == <<heap, threadVars, workerVars, loopVars>>

-----------------------------------------------------------------------------
(* A wrapper has four slots.  seq and pos are no slots: they record which   *)
(* iterator of which loop's sequence it was made for.                       *)
NewWrapper(l, p) == [wrapped |-> p, valid |-> NULL, current |-> NULL,
                     next |-> NULL, seq |-> l, pos |-> p]

(* Slot 0 of an exception holds what was thrown, which is never null.       *)
FinishedOnceValid(w) == w # Thrown /\ heap[w].valid # NULL
IsWorkFinished(w) == w # Thrown /\ heap[w].wrapped = NULL

Goto(t, label) == pc' = [pc EXCEPT ![t] = label]

(* The zone the running code allocates in.                                  *)
ZoneOfMaster(t) == loop
ZoneOf(t) == IF t = Main THEN loop ELSE zone[t]

SequenceOf(w) == program[heap[w].seq]

Init == /\ program \in [1..MaxLoops -> Sources]
        /\ loop = 0
        /\ heap = << >>
        /\ task = [w \in Workers |-> NULL]
        /\ zone = [w \in Workers |-> NULL]
        /\ lock = [w \in Workers |-> NoThread]
        /\ pc = [t \in Threads |-> IF t = Main THEN "between" ELSE "idle"]
        /\ arg = [t \in Threads |-> NULL]
        /\ source = [t \in Threads |-> NULL]
        /\ fresh = [t \in Threads |-> NULL]
        /\ idx = [t \in Threads |-> 1]
        /\ iter = NULL
        /\ want = "none"
        /\ todo = {}
        /\ held = NULL
        /\ failed = FALSE
        /\ reply = << "none", NULL >>

-----------------------------------------------------------------------------
(* process_iterator(zone, it), run by the master and by the workers.        *)

(* Where a thread goes when process_iterator returns.                       *)
Return(t) == Goto(t, IF t = Main THEN "check" ELSE "clearzone")

(* An exception, or a wrapper whose source is gone, needs no work.          *)
Fetch(t) ==
    /\ pc[t] = "fetch"
    /\ IF arg[t] = Thrown \/ heap[arg[t]].wrapped = NULL
         THEN Return(t) /\ UNCHANGED source
         ELSE /\ source' = [source EXCEPT ![t] = heap[arg[t]].wrapped]
              /\ Goto(t, "valid")
    /\ UNCHANGED <<heap, arg, fresh, idx, workerVars, loopVars>>

StopOnException(t) ==
    /\ pc[t] = "valid"
    /\ LET flag == IsValid(SequenceOf(arg[t]), source[t])
       IN /\ heap' = [heap EXCEPT ![arg[t]].valid = flag]
          /\ Goto(t, IF flag = True THEN "wrap" ELSE "clear")
    /\ UNCHANGED <<arg, source, fresh, idx, workerVars, loopVars>>

StoreValid(t) ==
    /\ pc[t] = "valid"
    /\ LET flag == IsValid(SequenceOf(arg[t]), source[t])
       IN /\ heap' = [heap EXCEPT ![arg[t]].valid = flag]
          /\ Goto(t, IF BoolFromBoolean(flag) THEN "wrap" ELSE "clear")
    /\ UNCHANGED <<arg, source, fresh, idx, workerVars, loopVars>>

(* An exception needs no wrapper: the loop will see it anyway.              *)
WrapAnything(p) == TRUE
NeedsWrapper(p) == p # Thrown

(* next = source.next; wrap_source_iterator passes an exception through,    *)
(* and otherwise allocates a wrapper and offers it to the workers.          *)
WrapNext(t) ==
    /\ pc[t] = "wrap"
    /\ LET p == Successor(SequenceOf(arg[t]), source[t])
       IN IF NeedsWrapper(p)
            THEN /\ heap' = Append(heap, NewWrapper(heap[arg[t]].seq, p))
                 /\ fresh' = [fresh EXCEPT ![t] = Len(heap) + 1]
                 /\ idx' = [idx EXCEPT ![t] = 1]
                 /\ Goto(t, "look")
            ELSE /\ fresh' = [fresh EXCEPT ![t] = p]
                 /\ Goto(t, "link")
                 /\ UNCHANGED <<heap, idx>>
    /\ UNCHANGED <<arg, source, workerVars, loopVars>>

(* Only now does the new wrapper become reachable from the old one.         *)
LinkQueuedOnly(t) ==
    /\ pc[t] = "link"
    /\ heap' = IF \E w \in Workers : task[w] = fresh[t]
                 THEN [heap EXCEPT ![arg[t]].next = fresh[t]] ELSE heap
    /\ fresh' = [fresh EXCEPT ![t] = NULL]
    /\ Goto(t, "current")
    /\ UNCHANGED <<arg, source, idx, workerVars, loopVars>>

LinkAndSignal(t) ==
    /\ pc[t] = "link"
    /\ heap' = [heap EXCEPT ![arg[t]].next = fresh[t], ![arg[t]].wrapped = NULL]
    /\ fresh' = [fresh EXCEPT ![t] = NULL]
    /\ Goto(t, "current")
    /\ UNCHANGED <<arg, source, idx, workerVars, loopVars>>

LinkNext(t) ==
    /\ pc[t] = "link"
    /\ heap' = [heap EXCEPT ![arg[t]].next = fresh[t]]
    /\ fresh' = [fresh EXCEPT ![t] = NULL]
    /\ Goto(t, "current")
    /\ UNCHANGED <<arg, source, idx, workerVars, loopVars>>

StoreCurrent(t) ==
    /\ pc[t] = "current"
    /\ heap' = [heap EXCEPT ![arg[t]].current =
                               Current(SequenceOf(arg[t]), source[t])]
    /\ Goto(t, "clear")
    /\ UNCHANGED <<arg, source, fresh, idx, workerVars, loopVars>>

(* Dropping the source is the signal that the wrapper is complete.          *)
ClearWrapped(t) ==
    /\ pc[t] = "clear"
    /\ heap' = [heap EXCEPT ![arg[t]].wrapped = NULL]
    /\ source' = [source EXCEPT ![t] = NULL]
    /\ Return(t)
    /\ UNCHANGED <<arg, fresh, idx, workerVars, loopVars>>

-----------------------------------------------------------------------------
(* queue_iterator(zone, task): offer a wrapper to the first worker that     *)
(* takes it.  Called by process_iterator, and by parseq_iterate for the     *)
(* first wrapper of a loop.                                                 *)

AfterQueueing(t) == IF iter = NULL /\ t = Main THEN "start" ELSE "link"

NextWorker(t) == /\ idx' = [idx EXCEPT ![t] = @ + 1]
                 /\ Goto(t, "look")

(* The end of the loop, or the first, unlocked, look at a worker's task.    *)
Look(t) ==
    /\ pc[t] = "look"
    /\ \/ /\ idx[t] \notin Workers
          /\ Goto(t, AfterQueueing(t))
          /\ UNCHANGED idx
       \/ /\ idx[t] \in Workers
          /\ task[idx[t]] # NULL
          /\ NextWorker(t)
       \/ /\ idx[t] \in Workers
          /\ task[idx[t]] = NULL
          /\ Goto(t, "trylock")
          /\ UNCHANGED idx
    /\ UNCHANGED <<heap, arg, source, fresh, workerVars, loopVars>>

TryLock(t) ==
    /\ pc[t] = "trylock"
    /\ \/ /\ lock[idx[t]] = NoThread
          /\ lock' = [lock EXCEPT ![idx[t]] = t]
          /\ Goto(t, "recheck")
          /\ UNCHANGED idx
       \/ /\ lock[idx[t]] # NoThread
          /\ NextWorker(t)
          /\ UNCHANGED lock
    /\ UNCHANGED <<heap, arg, source, fresh, task, zone, loopVars>>

(* Somebody else may have assigned it a task before we got the lock.        *)
AssignUnchecked(t) ==
    /\ pc[t] = "recheck"
    /\ Goto(t, "setzone")
    /\ UNCHANGED <<heap, arg, source, fresh, idx, workerVars, loopVars>>

AssignWithoutZone(t) ==
    /\ pc[t] = "recheck"
    /\ Goto(t, IF task[idx[t]] = NULL THEN "settask" ELSE "unlock")
    /\ UNCHANGED <<heap, arg, source, fresh, idx, workerVars, loopVars>>

Recheck(t) ==
    /\ pc[t] = "recheck"
    /\ Goto(t, IF task[idx[t]] = NULL THEN "setzone" ELSE "unlock")
    /\ UNCHANGED <<heap, arg, source, fresh, idx, workerVars, loopVars>>

SetZone(t) ==
    /\ pc[t] = "setzone"
    /\ zone' = [zone EXCEPT ![idx[t]] = ZoneOf(t)]
    /\ Goto(t, "settask")
    /\ UNCHANGED <<heap, arg, source, fresh, idx, task, lock, loopVars>>

(* Last, because it starts the worker.                                      *)
SetTask(t) ==
    /\ pc[t] = "settask"
    /\ task' = [task EXCEPT ![idx[t]] = fresh[t]]
    /\ Goto(t, "assigned")
    /\ UNCHANGED <<heap, arg, source, fresh, idx, zone, lock, loopVars>>

Unlock(t) ==
    /\ \/ /\ pc[t] = "unlock"
          /\ NextWorker(t)
       \/ /\ pc[t] = "assigned"
          /\ Goto(t, AfterQueueing(t))
          /\ UNCHANGED idx
    /\ lock' = [lock EXCEPT ![idx[t]] = NoThread]
    /\ UNCHANGED <<heap, arg, source, fresh, task, zone, loopVars>>

QueueIterator(t) ==
    Look(t) \/ TryLock(t) \/ Recheck(t) \/ SetZone(t) \/ SetTask(t) \/ Unlock(t)

ProcessIterator(t) ==
    \/ Fetch(t) \/ StoreValid(t) \/ WrapNext(t) \/ QueueIterator(t)
    \/ LinkNext(t) \/ StoreCurrent(t) \/ ClearWrapped(t)

-----------------------------------------------------------------------------
(* worker_main: wait for a task, process it, become idle again.             *)

TakeTask(w) ==
    /\ pc[w] = "idle"
    /\ task[w] # NULL
    /\ arg' = [arg EXCEPT ![w] = task[w]]
    /\ Goto(w, "fetch")
    /\ UNCHANGED <<heap, source, fresh, idx, workerVars, loopVars>>

ClearZone(w) ==
    /\ pc[w] = "clearzone"
    /\ zone' = [zone EXCEPT ![w] = NULL]
    /\ arg' = [arg EXCEPT ![w] = NULL]
    /\ Goto(w, "cleartask")
    /\ UNCHANGED <<heap, source, fresh, idx, task, lock, loopVars>>

KeepTask(w) ==
    /\ pc[w] = "cleartask"
    /\ Goto(w, "idle")
    /\ UNCHANGED <<heap, arg, source, fresh, idx, workerVars, loopVars>>

ClearTask(w) ==
    /\ pc[w] = "cleartask"
    /\ task' = [task EXCEPT ![w] = NULL]
    /\ Goto(w, "idle")
    /\ UNCHANGED <<heap, arg, source, fresh, idx, zone, lock, loopVars>>

WorkerMain(w) ==
    TakeTask(w) \/ ProcessIterator(w) \/ ClearZone(w) \/ ClearTask(w)

-----------------------------------------------------------------------------
(* master_do_work(zone, iter): what the loop's thread does when it calls a  *)
(* method of a wrapper.                                                     *)

Check ==
    /\ pc[Main] = "check"
    /\ IF IsWorkFinished(iter)
         THEN Goto(Main, "read") /\ arg' = [arg EXCEPT ![Main] = NULL]
         ELSE Goto(Main, "walk") /\ arg' = [arg EXCEPT ![Main] = iter]
    /\ UNCHANGED <<heap, source, fresh, idx, workerVars, loopVars>>

(* At the end of the chain there is nothing to do but to look again.        *)
Walk ==
    /\ pc[Main] = "walk"
    /\ \/ /\ arg[Main] = NULL
          /\ Goto(Main, "check")
          /\ UNCHANGED idx
       \/ /\ arg[Main] # NULL
          /\ IsWorkFinished(arg[Main])
          /\ Goto(Main, "advance")
          /\ UNCHANGED idx
       \/ /\ arg[Main] # NULL
          /\ ~IsWorkFinished(arg[Main])
          /\ Goto(Main, "progress")
          /\ idx' = [idx EXCEPT ![Main] = 1]
    /\ UNCHANGED <<heap, arg, source, fresh, workerVars, loopVars>>

(* is_work_in_progress: read the workers' tasks one after the other, with   *)
(* no lock; a wrapper in nobody's hands is the master's to flatten.         *)
NothingInProgress ==
    /\ pc[Main] = "progress"
    /\ Goto(Main, "fetch")
    /\ UNCHANGED <<heap, arg, source, fresh, idx, workerVars, loopVars>>

LeaveItToWorkers ==
    /\ pc[Main] = "progress"
    /\ Goto(Main, IF arg[Main] = Thrown THEN "fetch" ELSE "advance")
    /\ UNCHANGED <<heap, arg, source, fresh, idx, workerVars, loopVars>>

Progress ==
    /\ pc[Main] = "progress"
    /\ \/ /\ idx[Main] \notin Workers
          /\ Goto(Main, "fetch")
          /\ UNCHANGED idx
       \/ /\ idx[Main] \in Workers
          /\ task[idx[Main]] = arg[Main]
          /\ Goto(Main, "advance")
          /\ UNCHANGED idx
       \/ /\ idx[Main] \in Workers
          /\ task[idx[Main]] # arg[Main]
          /\ idx' = [idx EXCEPT ![Main] = @ + 1]
          /\ UNCHANGED pc
    /\ UNCHANGED <<heap, arg, source, fresh, workerVars, loopVars>>

Advance ==
    /\ pc[Main] = "advance"
    /\ arg' = [arg EXCEPT ![Main] = heap[@].next]
    /\ Goto(Main, "walk")
    /\ UNCHANGED <<heap, source, fresh, idx, workerVars, loopVars>>

MasterDoWork == Check \/ Walk \/ Progress \/ Advance

-----------------------------------------------------------------------------
(* The loop foreach.cpp generates, on the master thread.                    *)

(* parallelize, then parseq_iterate: an exception from the sequence's own   *)
(* iterate method is the loop's result, its first iterator gets a wrapper.  *)
BeginLoop ==
    /\ pc[Main] = "between"
    /\ loop < MaxLoops
    /\ loop' = loop + 1
    /\ IF program[loop'] = << >>
         THEN UNCHANGED <<heap, fresh, idx, pc>>
         ELSE /\ heap' = Append(heap, NewWrapper(loop', 1))
              /\ fresh' = [fresh EXCEPT ![Main] = Len(heap) + 1]
              /\ idx' = [idx EXCEPT ![Main] = 1]
              /\ Goto(Main, "look")
    /\ UNCHANGED <<arg, source, workerVars,
                   program, iter, want, todo, held, failed, reply>>

StartLoop ==
    /\ pc[Main] = "start"
    /\ iter' = fresh[Main]
    /\ fresh' = [fresh EXCEPT ![Main] = NULL]
    /\ todo' = {"is_valid"}
    /\ Goto(Main, "body")
    /\ UNCHANGED <<heap, arg, source, idx, workerVars,
                   program, loop, want, held, failed, reply>>

EndLoop == /\ iter' = NULL
           /\ todo' = {}
           /\ held' = NULL
           /\ failed' = FALSE
           /\ Goto(Main, "between")

(* pariter, the wrapper's dispatcher: do some work until it can answer.     *)
Call ==
    /\ pc[Main] = "body"
    /\ \E m \in todo : want' = m /\ todo' = todo \ {m}
    /\ Goto(Main, "check")
    /\ UNCHANGED <<heap, arg, source, fresh, idx, workerVars,
                   program, loop, iter, held, failed, reply>>

(* pariter_is_valid; the loop's condition function.                         *)
ReadValid ==
    /\ pc[Main] = "read" /\ want = "is_valid"
    /\ reply' = << want, heap[iter].valid >>
    /\ IF heap[iter].valid = True
         THEN /\ todo' = {"current", "next"}
              /\ Goto(Main, "body")
              /\ UNCHANGED <<iter, held, failed>>
         ELSE EndLoop
    /\ want' = "none"
    /\ UNCHANGED <<heap, arg, source, fresh, idx, workerVars, program, loop>>

(* pariter_current                                                          *)
ReadCurrent ==
    /\ pc[Main] = "read" /\ want = "current"
    /\ reply' = << want, heap[iter].current >>
    /\ Goto(Main, "body")
    /\ want' = "none"
    /\ UNCHANGED <<heap, arg, source, fresh, idx, workerVars,
                   program, loop, iter, todo, held, failed>>

(* pariter_next; the loop sees an opaque iterator, reply names its place.   *)
ReadNext ==
    /\ pc[Main] = "read" /\ want = "next"
    /\ LET w == heap[iter].next
       IN /\ held' = w
          /\ reply' = << want, IF w \in DOMAIN heap THEN heap[w].pos ELSE w >>
          /\ failed' = (w = Thrown)
    /\ Goto(Main, "body")
    /\ want' = "none"
    /\ UNCHANGED <<heap, arg, source, fresh, idx, workerVars,
                   program, loop, iter, todo>>

Continue ==
    /\ pc[Main] = "body" /\ todo = {} /\ ~failed
    /\ iter' = held
    /\ held' = NULL
    /\ todo' = {"is_valid"}
    /\ UNCHANGED <<heap, threadVars, workerVars,
                   program, loop, want, failed, reply>>

(* The next iterator is an exception, or an assertion of the body failed:   *)
(* the loop is over, though its wrappers may still be with workers.         *)
LeaveLoop ==
    /\ pc[Main] = "body" /\ todo = {}
    /\ EndLoop
    /\ UNCHANGED <<heap, arg, source, fresh, idx, workerVars,
                   program, loop, want, reply>>

Loop == \/ BeginLoop \/ StartLoop \/ Call
        \/ ReadValid \/ ReadCurrent \/ ReadNext \/ Continue \/ LeaveLoop

MainThread == Loop \/ MasterDoWork \/ ProcessIterator(Main)

(* The program has run its last loop and every worker is out of work.       *)
Finished == /\ pc[Main] = "between" /\ loop = MaxLoops
            /\ \A w \in Workers : pc[w] = "idle" /\ task[w] = NULL

Next == \/ MainThread
        \/ \E w \in Workers : WorkerMain(w)
        \/ Finished /\ UNCHANGED vars

Spec == Init /\ [][Next]_vars

(* Each thread is a kernel thread that the system keeps scheduling; the     *)
(* values of elements are assumed to take finite time to compute.           *)
FairSpec == Spec /\ WF_vars(MainThread) /\ \A w \in Workers : WF_vars(WorkerMain(w))
-----------------------------------------------------------------------------
(* Properties.                                                              *)

References == 1..Len(heap)

Wrapper == [wrapped : Nat, valid : {NULL, True, False, Thrown},
            current : Nat \cup {Thrown}, next : References \cup {NULL, Thrown},
            seq : Nat, pos : Nat]

Labels == {"between", "start", "body", "read", "check", "walk", "progress",
           "advance", "idle", "clearzone", "cleartask",
           "fetch", "valid", "wrap", "link", "current", "clear",
           "look", "trylock", "recheck", "setzone", "settask", "assigned",
           "unlock"}

ThreadTypes ==
    /\ pc \in [Threads -> Labels]
    /\ arg \in [Threads -> References \cup {NULL, Thrown}]
    /\ source \in [Threads -> Nat]
    /\ fresh \in [Threads -> References \cup {NULL, Thrown}]
    /\ idx \in [Threads -> 1..(NumWorkers + 1)]

WorkerTypes ==
    /\ task \in [Workers -> References \cup {NULL}]
    /\ zone \in [Workers -> 0..MaxLoops]
    /\ lock \in [Workers -> Threads \cup {NoThread}]

Methods == {"is_valid", "current", "next"}

LoopTypes ==
    /\ program \in [1..MaxLoops -> Sources]
    /\ loop \in 0..MaxLoops
    /\ iter \in References \cup {NULL}
    /\ want \in Methods \cup {"none"}
    /\ todo \subseteq Methods
    /\ held \in References \cup {NULL, Thrown}
    /\ failed \in BOOLEAN
    /\ reply \in (Methods \cup {"none"}) \X (Nat \cup {Thrown})

HeapType == heap \in Seq(Wrapper)

(* The variables keep to their types; in particular every reference that a  *)
(* thread, a worker_t or a wrapper holds is to a wrapper that exists.       *)
TypeOK == HeapType /\ ThreadTypes /\ WorkerTypes /\ LoopTypes

(* Where a thread is between finding a source in its wrapper and dropping   *)
(* it: the wrapper is in its hands.                                         *)
QueueingLabels == {"look", "trylock", "recheck", "setzone", "settask",
                   "assigned", "unlock"}
Flattening(t) == /\ pc[t] \in {"valid", "wrap", "link", "current", "clear"}
                              \cup QueueingLabels
                 /\ t = Main => iter # NULL

(* No two threads flatten one wrapper, though the master decides on what it *)
(* reads without a lock while the workers take and drop their tasks: a      *)
(* wrapper's methods would run twice, and its contents change under a       *)
(* reader (parallel.c, process_iterator and master_do_work).                *)
FlattenedByOne ==
    \A t, u \in Threads :
        t # u /\ Flattening(t) /\ Flattening(u) => arg[t] # arg[u]

(* What worker_main asserts of a task it finds: nobody has finished it in   *)
(* the meantime, and there is a zone to allocate in.                        *)
TaskReady ==
    \A w \in Workers :
        pc[w] = "idle" /\ task[w] # NULL =>
            ~IsWorkFinished(task[w]) /\ zone[w] # NULL

(* "There is no way to ... end up with two wrappers for the same target"    *)
(* (process_iterator): one wrapper per iterator of each loop's sequence.    *)
OneWrapperPerIterator ==
    \A v, w \in References :
        heap[v].seq = heap[w].seq /\ heap[v].pos = heap[w].pos => v = w

(* A worker allocates in the zone of the loop its wrapper belongs to, also  *)
(* when it still works for a loop that is over and the next one queues.     *)
ZoneOfItsLoop ==
    \A w \in Workers :
        task[w] # NULL /\ pc[w] # "cleartask" => zone[w] = heap[task[w]].seq

(* A wrapper without its source has all its answers, so pariter's methods   *)
(* never hand out a slot that is not written (is_work_finished).            *)
FinishedIsComplete ==
    \A w \in References :
        IsWorkFinished(w) =>
            LET s == SequenceOf(w)
                p == heap[w].pos
            IN /\ heap[w].valid = IsValid(s, p)
               /\ heap[w].valid # False =>
                     /\ heap[w].current = Current(s, p)
                     /\ IF Successor(s, p) = Thrown
                          THEN heap[w].next = Thrown
                          ELSE /\ heap[w].next \in References
                               /\ heap[heap[w].next].pos = p + 1
                               /\ heap[heap[w].next].seq = heap[w].seq

(* While a loop runs, a wrapper of its sequence that still needs work is on *)
(* the way of somebody who will see to it: its maker is about to link it,   *)
(* or it hangs on the chain, where the master finds it when it waits for it.*)
(* queue_iterator may fail to place a wrapper, and may not lose it.         *)
Linked(w) == w = iter \/ \E v \in References : heap[v].next = w

NoWorkLost ==
    iter # NULL =>
        \A w \in References :
            heap[w].seq = loop /\ heap[w].wrapped # NULL =>
                Linked(w) \/ \E t \in Threads : fresh[t] = w

(* "It still works like an immutable object": a slot that has an answer     *)
(* keeps it, and a source that is gone does not come back                   *)
(* (process_iterator).                                                      *)
Kept(w) ==
    /\ heap[w].wrapped = NULL => heap'[w] = heap[w]
    /\ heap[w].valid # NULL => heap'[w].valid = heap[w].valid
    /\ heap[w].current # NULL => heap'[w].current = heap[w].current
    /\ heap[w].next # NULL => heap'[w].next = heap[w].next

AnswersStay == [][\A w \in References : Kept(w)]_vars

(* A task is given to a worker that has none and only the worker itself     *)
(* puts it away, although it never takes the lock that "protects the task   *)
(* variable" (struct worker, queue_iterator, worker_main).                  *)
HandsOver(w) == IF task[w] = NULL THEN pc[w] = "idle" /\ lock[w] # NoThread
                                 ELSE pc[w] = "cleartask" /\ task'[w] = NULL

TasksNotOverwritten ==
    [][\A w \in Workers : task'[w] # task[w] => HandsOver(w)]_vars

(* The loop gets from the wrappers, call by call, what the plain iterators  *)
(* of its sequence would have told it: parallelize changes nothing but time.*)
Serial == INSTANCE SerialLoop
            WITH pos  <- IF iter = NULL THEN NULL ELSE heap[iter].pos,
                 loop <- IF iter = NULL /\ pc[Main] # "between"
                           THEN loop - 1 ELSE loop,
                 todo <- todo \cup ({want} \ {"none"}),
                 held <- IF held \in References THEN heap[held].pos ELSE held

ImplementsSerialLoop == Serial!Spec

(* Every loop comes to its end: the master does not wait for ever for a     *)
(* wrapper that nobody flattens (master_do_work's spin).                    *)
LoopsEnd == [](pc[Main] # "between" => <>(pc[Main] = "between"))

(* A worker that is given a task comes free again (worker_main).            *)
WorkersComeFree ==
    \A w \in Workers : task[w] # NULL ~> task[w] = NULL
=============================================================================
