------------------------------ MODULE Segments ------------------------------
(* Tasks and generators: how the "sync" statements of a program become a    *)
(* chain of actions, which the runtime's main loop runs, and the "yield"    *)
(* statements of a function a chain of iterators, which a consumer reads.   *)
(*                                                                          *)
(* The compiler turns every segment into a call of core.make_subtask,       *)
(* core.make_iterator or core.make_subsequence (Segment::Iterator), and a   *)
(* loop with segments into a loop_task or loop_sequencer object of          *)
(* runtime/flowcontrol.c (Loop::ExitBlock).  The objects built that way are *)
(* immutable: "send" and "next" answer the object for the rest.             *)
EXTENDS BlockPrograms, FiniteSetsExt

CONSTANT Programs       \* the functions to run
ASSUME ProgramsAssumption == Programs \subseteq Functions

VARIABLES kind,         \* "task" or "generator"
          program, object, stage,
          done          \* what was performed, or seen, so far
vars == <<kind, program, object, stage, done>>

(* An action or iterator answers by itself, or wraps another one and keeps  *)
(* what is left of its block or loop: the next_func of a concaction, a      *)
(* make_iterator or a concaterator, the rounds of a Loop_Action or          *)
(* Loop_Iterator.  Every wrapper's response or current is that of the       *)
(* object it wraps; so an object is the answer of the innermost one, and    *)
(* what the wrappers keep, from the outermost in.                           *)
Object(v, w) == [answer |-> v, wrappers |-> w]

(* make_terminator, the terminators of a loop, the stub of an IO action     *)
(* (ioaction.c), and an exception wrap nothing, and are not running.        *)
Answer(v) == Object(v, << >>)
Exception == Answer(Thrown)

(* Every wrapper is running (is_running, is_valid).                         *)
IsRunning(o) == o.wrappers # << >>

Wrap(o, rest) == Object(o.answer, << rest >> \o o.wrappers)

(* make_subtask does not look at the action it gets, as make_subsequence    *)
(* does at its iterator, which lets an idle one be passed over.             *)
MakeSubtaskIfAny(action, rest) ==
    IF action = Answer(Result) THEN action ELSE Wrap(action, rest)
MakeSubtask(action, rest) == Wrap(action, rest)
MakeIterator(v, rest) == Object(v, << rest >>)
MakeSubsequence(iter, rest, next) ==
    IF iter = Exception THEN Exception
    ELSE IF IsRunning(iter) THEN Wrap(iter, rest) ELSE next

(* Loop_Task_Decide asks the wrapper it has just made whether it is         *)
(* running, which it always is, so it never goes round by itself;           *)
(* Loop_Sequence_Decide goes on to the next round.                          *)
TaskRound(action, rest) == IF action = Exception THEN Exception ELSE Wrap(action, rest)
OneSequenceRound(iter, rest, next) ==
    IF IsRunning(iter) THEN Wrap(iter, rest) ELSE iter
SequenceRound(iter, rest, next) ==
    IF iter = Exception THEN Exception
    ELSE IF IsRunning(iter) THEN Wrap(iter, rest) ELSE next

(* The action a block or loop starts with; what has run out is a terminator *)
(* (Scope::PackageSegmentedResult).                                         *)
Start[s \in Nested] ==
    IF IsEmpty(s) THEN Answer(End(s))
    ELSE LET first == First(s)
             action == IF first.op = "step" THEN Answer(first.value) ELSE Start[first]
         IN IF s.op = "block" THEN MakeSubtask(action, Rest(s))
                              ELSE TaskRound(action, Rest(s))

(* The iterator of a block or loop.                                         *)
Iterate[s \in Nested] ==
    IF IsEmpty(s) THEN Answer(End(s))
    ELSE LET first == First(s)
             next == Iterate[Rest(s)]
         IN IF first.op = "step" THEN MakeIterator(first.value, Rest(s))
            ELSE IF s.op = "block" THEN MakeSubsequence(Iterate[first], Rest(s), next)
                                   ELSE SequenceRound(Iterate[first], Rest(s), next)

(* send and next: a call comes down to the innermost wrapper, which goes on *)
(* with what it has kept.  Where that hands out nothing, neither is the     *)
(* wrapper running that it is the object of, so that one goes on.  An       *)
(* exception is passed out through all of them.                             *)
SendToFinished(o, begin) == Exception
GoOnOutside(o, begin) == begin[o.wrappers[1]]
GoOn(o, begin) ==
    LET next == [i \in DOMAIN o.wrappers |-> begin[o.wrappers[i]]]
        busy == {i \in DOMAIN o.wrappers : next[i] # Answer(Result)}
    IN IF busy = {} THEN Answer(Result)
       ELSE LET i == Max(busy)
            IN IF next[i] = Exception THEN Exception
               ELSE Object(next[i].answer, SubSeq(o.wrappers, 1, i - 1) \o next[i].wrappers)

Begin(k) == IF k = "task" THEN Start ELSE Iterate

-----------------------------------------------------------------------------
Init == /\ kind \in {"task", "generator"}
        /\ program \in Programs
        /\ object = Begin(kind)[program]
        /\ stage = "run"
        /\ done = << >>

IsAnIOAction(v) == v \notin {Result, Thrown}

HandOut == /\ done' = Append(done, object.answer)
           /\ object' = GoOn(object, Begin(kind))
           /\ UNCHANGED <<kind, program, stage>>
Become(s) == stage' = s /\ UNCHANGED <<kind, program, object, done>>

(* One turn of RunIO's loop: perform the action, send its result in.        *)
Perform == /\ kind = "task" /\ stage = "run"
           /\ IsRunning(object) /\ IsAnIOAction(object.answer)
           /\ HandOut

(* AbortIfException: the task itself, or its response.                      *)
Fail == /\ kind = "task" /\ stage = "run" /\ object.answer = Thrown
        /\ Become("failed")

(* AbortIfNotIOAction                                                       *)
Abort == /\ kind = "task" /\ stage = "run"
         /\ IsRunning(object) /\ object.answer = Result
         /\ Become("aborted")

Exit == /\ kind = "task" /\ stage = "run"
        /\ ~IsRunning(object) /\ object.answer # Thrown
        /\ Become("exited")

(* The consumer, for example a loop over the generator.                     *)
Take == /\ kind = "generator" /\ stage = "run"
        /\ IsRunning(object) /\ object.answer # Thrown
        /\ HandOut

(* The end, or an exception in the place of an iterator or of its value.    *)
Stop == /\ kind = "generator" /\ stage = "run"
        /\ \/ object.answer = Thrown /\ Become("failed")
           \/ ~IsRunning(object) /\ object.answer # Thrown /\ Become("exited")

Halted == stage # "run" /\ UNCHANGED vars

Next == Perform \/ Fail \/ Abort \/ Exit \/ Take \/ Stop \/ Halted

Spec == Init /\ [][Next]_vars /\ WF_vars(Next)

-----------------------------------------------------------------------------
(* Properties.                                                              *)

HandedOutInOrder ==
    /\ InOrder(done, Meaning[program])
    /\ stage = "exited" => done = Meaning[program]
    /\ stage = "failed" => ThrowsAfter(done, Meaning[program])

(* The actions of a task are performed once each and in the order of the    *)
(* program, however its blocks and loops nest; a program that exits has     *)
(* performed them all, and one that fails all before the exception          *)
(* (make_subtask, Loop_Task_Decide, Loop_Action_Send).                      *)
PerformedInOrder == kind = "task" => HandedOutInOrder

(* The consumer sees the values of the yield statements in the order of the *)
(* source text, none twice and none left out, however blocks and loops nest *)
(* and whichever of them have nothing to yield (make_subsequence,           *)
(* Loop_Sequence_Decide, Loop_Iterator_next).                               *)
SeenInOrder == kind = "generator" => HandedOutInOrder

(* Loop_Action_Send's "assert( BoolFromBoolean( zone, flag ) )": the action *)
(* inside a loop is running, so a loop is never the innermost wrapper.      *)
(* Loop_Task_Decide does not see to it; it holds because a loop's body      *)
(* starts with a subtask, and every subtask claims to be running, also one  *)
(* whose action is finished.                                                *)
LoopAssertHolds ==
    kind = "task" /\ IsRunning(object) =>
        object.wrappers[Len(object.wrappers)].op # "loop"

Throws == \E i \in DOMAIN Meaning[program] : Meaning[program][i] = Thrown

(* A program whose blocks and loops all have an action runs to its end,     *)
(* which is an exception only where the program has one (RunIO).            *)
RunsToTheEnd ==
    kind = "task" /\ NeverIdle[program]
        => <>(stage = IF Throws THEN "failed" ELSE "exited")

(* "As long as the task is running, its responses must be IO actions"       *)
(* (io.c, RunIO): the program is never aborted for one that is not.         *)
ResponsesAreActions == stage # "aborted"
=============================================================================
