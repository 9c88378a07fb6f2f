------------------------------ MODULE MCControl ------------------------------
(* Finite instances of what runs the statements of a program, side by side: *)
(* a behaviour is the run of a task, the run of a generator, or that of the *)
(* parallel loop engine.                                                    *)
EXTENDS MCFlow

CONSTANTS NumWorkers, Sources, MaxLoops           \* see ParallelIterators

VARIABLES loops,                                  \* its program
          loop, heap, task, zone, lock, pc, arg, source, fresh, idx,
          iter, want, todo, held, failed, reply

Engine == INSTANCE ParallelIterators WITH program <- loops
Iterators == INSTANCE SourceIterators

(* Every sequence of at most three positions.                               *)
ShortSequences == Iterators!SequencesUpTo(3)

engineVars == <<loops, loop, heap, task, zone, lock, pc, arg, source, fresh, idx,
                iter, want, todo, held, failed, reply>>
controlVars == <<vars, engineVars>>

NoLoops == [l \in 1..MaxLoops |-> << >>]
ControlInit ==
    \/ Init /\ Engine!Init /\ loops = NoLoops
    \/ /\ kind = "loop" /\ Engine!Init
       /\ program = Block(<< >>) /\ object = Answer(Result)
       /\ stage = "exited" /\ done = << >>

OfLoop(Action) == kind = "loop" /\ Action /\ UNCHANGED vars
OfFlow == kind # "loop" /\ Next /\ UNCHANGED engineVars

ControlSpec ==
    /\ ControlInit /\ [][OfLoop(Engine!Next) \/ OfFlow]_controlVars
    /\ WF_controlVars(OfFlow)
    /\ WF_controlVars(OfLoop(Engine!MainThread))
    /\ \A w \in Engine!Workers : WF_controlVars(OfLoop(Engine!WorkerMain(w)))

-----------------------------------------------------------------------------
(* Every loop comes to its end: the master does not wait for ever for a     *)
(* wrapper that nobody flattens (master_do_work's spin).                    *)
LoopsEnd == Engine!LoopsEnd

(* A worker that is given a task comes free again (worker_main).            *)
WorkersComeFree == Engine!WorkersComeFree
=============================================================================
