---------------------------- MODULE SerialLoop ----------------------------
(* What a "for each" loop of a Radian program promises: the loop reads the  *)
(* iterators of its sequence one after the other, on one thread.  This is   *)
(* the loop foreach.cpp generates before it wraps the sequence in           *)
(* "parallelize", and what the program runs when there are too few cores    *)
(* for it.  ParallelIterators is shown to implement it.                     *)
EXTENDS SourceIterators

CONSTANTS Sources,    \* the sequences a loop may range over
          MaxLoops    \* bound: the number of loops the program runs

VARIABLES program,    \* the sequence each loop ranges over
          loop,       \* the loop now running, or the last one that ran
          pos,        \* position of the loop's iterator; NULL between loops
          todo,       \* the methods this iteration has yet to call
          held,       \* the next iterator, once this iteration has asked for it
          failed,     \* the next iterator is an exception
          reply       \* <<method, answer>> of the last call the loop made

vars == <<program, loop, pos, todo, held, failed, reply>>

Init == /\ program \in [1..MaxLoops -> Sources]
        /\ loop = 0
        /\ pos = NULL
        /\ todo = {}
        /\ held = NULL
        /\ failed = FALSE
        /\ reply = << "none", NULL >>

Between == pos = NULL

(* A condition that is an exception ends the loop: because the iterator is  *)
(* one, or because the chain of the body's assertions, which the condition  *)
(* is wrapped in, has failed.                                               *)
EndLoop == /\ pos' = NULL
           /\ todo' = {}
           /\ held' = NULL
           /\ failed' = FALSE

(* Enter a loop: call iterate.  When that throws the loop is over.          *)
Begin == /\ Between
         /\ loop < MaxLoops
         /\ loop' = loop + 1
         /\ IF program[loop'] = <<>>
              THEN UNCHANGED <<pos, todo>>
              ELSE pos' = 1 /\ todo' = {"is_valid"}
         /\ UNCHANGED <<program, held, failed, reply>>

(* The condition function: another iteration, or the end of the loop.       *)
AskValid == /\ "is_valid" \in todo
            /\ LET answer == IsValid(program[loop], pos)
               IN /\ reply' = << "is_valid", answer >>
                  /\ IF answer = True
                       THEN /\ todo' = {"current", "next"}
                            /\ UNCHANGED <<pos, held, failed>>
                       ELSE EndLoop
            /\ UNCHANGED <<program, loop>>

(* The operation function reads the element and the successor, in an order  *)
(* that depends on the code generator.                                      *)
AskCurrent == /\ "current" \in todo
              /\ reply' = << "current", Current(program[loop], pos) >>
              /\ todo' = todo \ {"current"}
              /\ UNCHANGED <<program, loop, pos, held, failed>>

AskNext == /\ "next" \in todo
           /\ LET answer == Successor(program[loop], pos)
              IN /\ reply' = << "next", answer >>
                 /\ held' = answer
                 /\ failed' = (answer = Thrown)
           /\ todo' = todo \ {"next"}
           /\ UNCHANGED <<program, loop, pos>>

(* The iteration has its operands: go round with the next iterator, even    *)
(* when the element was an exception, which is a value that the body may    *)
(* have no use for, or leave, because the next iterator is an exception or  *)
(* because an assertion of the body failed.                                 *)
Continue == /\ ~Between /\ todo = {} /\ ~failed
            /\ pos' = held
            /\ held' = NULL
            /\ todo' = {"is_valid"}
            /\ UNCHANGED <<program, loop, failed, reply>>

Leave == /\ ~Between /\ todo = {}
         /\ EndLoop
         /\ UNCHANGED <<program, loop, reply>>

Next == Begin \/ AskValid \/ AskCurrent \/ AskNext \/ Continue \/ Leave

Spec == Init /\ [][Next]_vars

FairSpec == Spec /\ WF_vars(Next)
=============================================================================
