--------------------------------- MODULE Loops ---------------------------------
(***************************************************************************)
(* src/semantics/blocks/loops.cpp and foreach.cpp: while and for.  Inside  *)
(* a loop a captured name is a placeholder, until the end shows whether    *)
(* the loop assigns it: then it is an element of the loop's tuple, and a   *)
(* captured slot otherwise.                                                *)
(*                                                                         *)
(* A definition that stands right before the one it varies, and is used    *)
(* nowhere, is a slip the code could have made; the properties catch it.   *)
(***************************************************************************)
EXTENDS Blocks

EnterWhile(c, condition) ==
    LET r == Eval(Enter(c, Scope("while")), condition) IN
    [r.c EXCEPT !.stack[Top(r.c)].condition = r.node]

\* ForLoop::Enter: the iterator is a variable of the context, with a name of
\* its own; the loop assigns it at once.
EnterFor(c, iterName, var, sequence) ==
    LET d == Top(c) + 1
        seq == Eval(c, sequence)
        first == Method(seq.node, "iterate", <<>>)
        defined == Define(seq.c, d - 1, iterName, first, "var")
        it == Resolve(Enter(defined, [Scope("for") EXCEPT !.name = iterName]),
                      d, iterName)
        local == it.sym.val
        known == Define(it.c, d, var,
                        Inductor(Method(local, "current", <<>>)), "var")
        set == [known EXCEPT !.stack[d].sequence = seq.node,
                             !.stack[d].contextIterator = first,
                             !.stack[d].localIterator = local,
                             !.stack[d].condition = Method(local, "is_valid", <<>>)]
    IN Assign(set, d, iterName, Method(local, "next", <<>>))

-----------------------------------------------------------------------------
(* Loop::RemapIO.                                                          *)

\* The invariants whose value depends on the context are captured.
CapturedInvariants(scope) ==
    SelectSeq(InOrder(DOMAIN scope.invariants),
              LAMBDA name : ~IsContextIndependent(scope.starts[name]))

\* What each placeholder turns out to be.
LoopMap(scope) ==
    LET names == InOrder(DOMAIN scope.updates)
        slots == CapturedInvariants(scope)
        Element(i) == Call(Parameter(0), <<Number(i - 1)>>)
    IN [p \in {scope.updates[n] : n \in DOMAIN scope.updates} |->
            Element(CHOOSE i \in DOMAIN names : scope.updates[names[i]] = p)]
       @@ [p \in {scope.invariants[n] : n \in DOMAIN scope.invariants} |->
            LET name == CHOOSE n \in DOMAIN scope.invariants : scope.invariants[n] = p
            IN IF IsContextIndependent(scope.starts[name]) THEN scope.starts[name]
               ELSE Slot((CHOOSE i \in DOMAIN slots : slots[i] = name) - 1)]

\* RewriteSegmentCaptures: what the first segment passes on, and its value.
RewriteFirstValue(segments, reMap) ==
    IF segments = <<>> THEN segments
    ELSE [segments EXCEPT ![1].value = Rewrite(@, reMap)]

RewriteFirst(segments, reMap) ==
    IF segments = <<>> THEN segments
    ELSE [segments EXCEPT
            ![1].captures = [i \in DOMAIN @ |-> Rewrite(@[i], reMap)],
            ![1].value = Rewrite(@, reMap)]

RemapIO(c) ==
    LET d == Top(c)
        scope == c.stack[d]
        chained == IF "assert" \in DOMAIN scope.updates
                   THEN Chain(scope.updates["assert"], scope.condition)
                   ELSE scope.condition
        reMap == LoopMap(scope)
        values == FoldLeft(
            LAMBDA state, name :
                LET r == Resolve(state, d, name) IN
                Assign(r.c, d, name, Rewrite(r.sym.val, reMap)),
            c, InOrder(DOMAIN scope.updates))
    IN [values EXCEPT
            !.stack[d].segments = RewriteFirst(@, reMap),
            !.stack[d].condition = Rewrite(chained, reMap),
            !.stack[d].localIterator = Rewrite(@, reMap)]

-----------------------------------------------------------------------------
(* ForLoop::GenerateLoopOperation: the part of the body that depends on    *)
(* the element and on invariants alone moves into a map of the sequence.   *)

RECURSIVE MappableSubexpressions(_)
MappableSubexpressions(exp) ==
    IF IsContextIndependent(exp) THEN {}
    ELSE IF IsInductionVar(exp) /\ AsOperation(exp).op # "arg" THEN {exp}
    ELSE IF IsAnOperation(exp)
    THEN MappableSubexpressions(Left(exp)) \union MappableSubexpressions(Right(exp))
    ELSE {}

WorthMapping(mappables) ==
    IF \E n \in mappables : mappables = {n} /\ n.op = "inductor" THEN {}
    ELSE mappables

\* The loop starts with an iterator of the parallelized sequence.
ParallelStart(scope, starts, sequence) ==
    LET parallel == Method(Parallelize(sequence), "iterate", <<>>)
        places == {i \in DOMAIN starts : starts[i] = scope.contextIterator}
    IN TupleN(IF places = {} THEN starts
              ELSE [starts EXCEPT ![Max(places)] = parallel])

Mappables(body) == WorthMapping(MappableSubexpressions(body))

ParallelLoop(scope, starts, captures, condition, body) ==
    LET mappables == Mappables(body)
        order == InOrder(mappables)
        current == Method(scope.localIterator, "current", <<>>)
        mapped == IF Len(order) > 1 THEN TupleN(order) ELSE order[1]
        mapper == Captured(
            FunctionNode(Rewrite(mapped, Inductor(current) :> Parameter(0)), 1),
            captures)
        place == [n \in mappables |->
                    IF Len(order) = 1 THEN current
                    ELSE Call(current,
                        <<Number((CHOOSE i \in DOMAIN order : order[i] = n) - 1)>>)]
        Operate(exp) == Captured(FunctionNode(exp, 1), captures)
    IN IF mappables = {}
       THEN LoopOperation(ParallelStart(scope, starts, scope.sequence),
                          condition, Operate(body))
       ELSE LoopOperation(
                ParallelStart(scope, starts,
                              CallCore("map", <<scope.sequence, mapper>>)),
                condition, Operate(Rewrite(body, place)))

\* The values of the loop's variables at the end of its body, as a tuple.
LoopResult(scope) ==
    LET names == InOrder(DOMAIN scope.updates) IN
    TupleN([i \in DOMAIN names |-> scope.symbols[names[i]].val])

\* Loop::ExitBlock and Block::Exit.
ExitLoop(c) ==
    LET d == Top(c)
        async == IsSegmented(c.stack[d])
        syncup == SegmentsSynchronize(c.stack[d])
        remapped == RemapIO(c)
        scope == remapped.stack[d]
        names == InOrder(DOMAIN scope.updates)
        slots == CapturedInvariants(scope)
        captures == [i \in DOMAIN slots |-> scope.starts[slots[i]]]
        starts == [i \in DOMAIN names |-> scope.starts[names[i]]]
        condition == Captured(FunctionNode(scope.condition, 1), captures)
        out == LoopResult(scope)
        body == IF async THEN PackageSegmentedResult(scope.segments, out) ELSE out
        operation == Captured(FunctionNode(body, 1), captures)
        result ==
            IF async
            THEN IF syncup THEN LoopTask(condition, operation, TupleN(starts))
                 ELSE LoopSequencer(condition, operation, TupleN(starts))
            ELSE IF scope.what = "for"
            THEN ParallelLoop(scope, starts, captures, condition, body)
            ELSE LoopOperation(TupleN(starts), condition, operation)
        pushed == IF async
                  THEN PushSegment(remapped, d - 1, result,
                                   IF syncup THEN "sync" ELSE "yield from")
                  ELSE remapped
    IN Leave(MakeContextAssignments(pushed, d,
                IF async THEN Parameter(0) ELSE result))
=============================================================================
