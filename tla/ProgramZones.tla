---------------------------- MODULE ProgramZones ----------------------------
(* A program whose loops run in the zones of RunIO, runtime/io/io.c.        *)
(*                                                                          *)
(* RunIO computes each of the program's actions in a scratch zone, performs *)
(* it, and collects the zone: what the program still needs moves to a fresh *)
(* zone and the pages of the old one go back to the system.  The loops the  *)
(* program runs on its way to an action are those of ParallelIterators, so  *)
(* the wrappers of a loop, and what the workers allocate for it, live in    *)
(* the zone that was current when it began.  Collecting does not involve    *)
(* the workers.                                                             *)
EXTENDS ParallelIterators

CONSTANTS MaxStages    \* bound: the zones RunIO goes through

ASSUME StagesAssumption == MaxStages \in Nat

VARIABLES stage,       \* RunIO's zone; the zones before it are destroyed
          stageOf,     \* the zone each loop runs in
          left         \* the loops an exception has ended early

programVars == <<vars, stage, stageOf, left>>

ProgramInit == /\ Init
               /\ stage = 1
               /\ stageOf = [l \in 1..MaxLoops |-> 0]
               /\ left = {}

(* A step of the program or of its workers.                                 *)
LeavesEarly == /\ pc'[Main] = "between"
               /\ \/ pc[Main] = "body"
                  \/ pc[Main] = "read" /\ heap[iter].valid = Thrown

Run == /\ Next
       /\ stageOf' = IF loop' # loop THEN [stageOf EXCEPT ![loop'] = stage] ELSE stageOf
       /\ left' = IF LeavesEarly THEN left \cup {loop} ELSE left
       /\ UNCHANGED stage

(* The program has come up with its next action.  RunIO performs it, sends  *)
(* it the result, creates a zone and collects the old one into it.  No loop *)
(* is open then: a loop that synchronizes is not parallelized.              *)
NextStage == /\ pc[Main] = "between"
             /\ stage < MaxStages
             /\ stage' = stage + 1
             /\ UNCHANGED <<vars, stageOf, left>>

ProgramNext == Run \/ NextStage
ProgramSpec == ProgramInit /\ [][ProgramNext]_programVars

-----------------------------------------------------------------------------
(* From finding a task until process_iterator returns, a worker reads and   *)
(* writes wrappers of the loop, and allocates in its zone.                  *)
WorksAt(w, l) == /\ task[w] # NULL
                 /\ pc[w] \notin {"clearzone", "cleartask"}
                 /\ heap[task[w]].seq = l
Destroyed(l) == stageOf[l] \in 1..(stage - 1)

(* A loop that went on to its terminator leaves no worker behind: by then   *)
(* every wrapper it saw is finished and none is left in the table, so its   *)
(* zone can be collected (io.c, RunIO; parallel.c, is_work_finished).  Only *)
(* a loop that an exception ended early can still have workers.             *)
CompletedLoopsAreQuiet ==
    \A w \in Workers, l \in 1..MaxLoops : WorksAt(w, l) /\ Destroyed(l) => l \in left

(* collect_zone: "This is obviously a destructive operation, so you can     *)
(* only use it when the task using the source zone has returned; you must   *)
(* guarantee that no-one but the collector is reading from or writing to    *)
(* src."                                                                    *)
NobodyInDestroyedZones ==
    \A w \in Workers, l \in 1..MaxLoops : WorksAt(w, l) => ~Destroyed(l)
=============================================================================
