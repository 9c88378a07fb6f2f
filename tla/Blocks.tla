-------------------------------- MODULE Blocks ---------------------------------
(***************************************************************************)
(* src/semantics: expressions evaluated to nodes, and functions, branches  *)
(* and loops turned into functions and calls when they end.                *)
(***************************************************************************)
EXTENDS Scopes

(* Syntax trees: a kind, a name or an operator, and the parts. *)
Num(n) == [e |-> "number", n |-> n, sub |-> <<>>]
Tree(e, s, sub) == [e |-> e, s |-> s, sub |-> sub]
Id(s) == Tree("identifier", s, <<>>)
CallOf(s, args) == Tree("call", s, args)
Apply(exp, name, args) == Tree("method", name, <<exp>> \o args)  \* operators too
Add(l, r) == Apply(l, "add", <<r>>)
Relation(holds, l, r) == Tree("relation", holds, <<l, r>>)
Less(l, r) == Relation({1}, l, r)
Logic(op, sub) == Tree("logic", op, sub)
Truth(b) == Tree("truth", b, <<>>)
Minus(exp) == Tree("negation", "", <<exp>>)
Pair(l, r) == Tree("tuple", "", <<l, r>>)
Has(l, name) == Tree("has", name, <<l>>)
Lambda(param, exp) == Tree("lambda", param, <<exp>>)
InvokeOf(exp, args) == Tree("invoke", "", <<exp>> \o args)
Raise(exp) == Tree("throw", "", <<exp>>)
Each(var, input, where, out) == Tree("each", var, <<input, where, out>>)
Io(arg) == Tree("io", "", <<arg>>)                  \* an imported task
Sync(task) == Tree("sync", "", <<task>>)
IfElse(test, then, else) == Tree("if", "", <<test, then, else>>)
NoExp == Tree("none", "", <<>>)

\* CollectSyncs, depth first and left to right, whatever evaluates the part.
RECURSIVE SyncsIn(_)
SyncsIn(e) ==
    FoldLeft(LAMBDA list, part : list \o SyncsIn(part), <<>>, e.sub)
    \o (IF e.e = "sync" THEN e.sub ELSE <<>>)

RECURSIVE SemGen(_, _), EvalAll(_, _), CaptureLambda(_, _, _)

\* The nodes of expressions in the innermost scope, from left to right.
EvalAll(c, exps) ==
    FoldLeft(LAMBDA done, e : LET r == SemGen(done.c, e) IN
                              [c |-> r.c, nodes |-> Append(done.nodes, r.node)],
             [c |-> c, nodes |-> <<>>], exps)

\* ExpressionAnalyzer, of the expressions that evaluate all of their parts.
Combined(e, nodes) ==
    CASE e.e = "method" -> Method(nodes[1], e.s, Tail(nodes))
      [] e.e = "relation" ->
            Call(Compare(nodes[1], nodes[2]),
                 [i \in 1..3 |-> IF i \in e.s THEN True ELSE False])
      [] e.e = "logic" -> Captured(LogicFunction(e.s), nodes)
      [] e.e = "truth" -> IF e.s THEN True ELSE False
      [] e.e = "negation" -> Method(Number(0), "subtract", nodes)
      [] e.e = "has" ->
            Call(Intrinsic("is_not_exceptional"), <<Call(nodes[1], <<Symbol(e.s)>>)>>)
      [] e.e = "invoke" -> Call(nodes[1], Tail(nodes))
      [] e.e = "throw" -> Throw(nodes[1])
      [] e.e = "tuple" -> TupleN(nodes)
      [] e.e = "io" -> Call(Import("io"), nodes)

GenIdentifier(c, name) ==
    LET r == Resolve(c, Top(c), name) IN
    CASE r.sym.kind = "undefined" -> [c |-> ReportError(r.c, "undefined"), node |-> Nil]
      [] r.sym.kind = "member" ->
            [c |-> ReportError(r.c, "direct member reference"), node |-> Nil]
      [] r.sym.kind = "function" -> [c |-> r.c, node |-> Call(r.sym.val, <<>>)]
      [] OTHER -> [c |-> r.c, node |-> r.sym.val]

GenCall(c, name, exps) ==
    LET r == Resolve(c, Top(c), name)
        args == EvalAll(r.c, exps)
    IN CASE r.sym.kind = "undefined" ->
                [c |-> ReportError(r.c, "undefined"), node |-> Nil]
         [] r.sym.kind = "function" ->
                [c |-> args.c, node |-> Call(r.sym.val, args.nodes)]
         [] OTHER -> [c |-> ReportError(r.c, "subscript non-function"), node |-> Nil]

\* Of the two results of an if one must be evaluated: both are thunks.
GenIf(c, test, then, else) ==
    LET t == SemGen(c, test)
        thenThunk == CaptureLambda(t.c, "", then)
        elseThunk == CaptureLambda(thenThunk.c, "", else)
    IN [c |-> elseThunk.c,
        node |-> Call(Branch(t.node, thenThunk.node, elseThunk.node), <<>>)]

\* A list comprehension filters and maps its sequence, by a function each.
GenEach(c, var, input, where, out) ==
    LET Through(r, name, exp) ==
            LET f == CaptureLambda(r.c, var, exp) IN
            IF exp.e = "none" THEN r
            ELSE [c |-> f.c, node |-> CallCore(name, <<r.node, f.node>>)]
    IN Through(Through(SemGen(c, input), "filter", where), "map", out)

SemGen(c, e) ==
    CASE e.e = "number" -> [c |-> c, node |-> Number(e.n)]
      [] e.e = "none" -> [c |-> c, node |-> Nil]
      [] e.e = "sync" -> [c |-> c, node |-> Parameter(0)]
      [] e.e = "identifier" -> GenIdentifier(c, e.s)
      [] e.e = "call" -> GenCall(c, e.s, e.sub)
      [] e.e = "if" -> GenIf(c, e.sub[1], e.sub[2], e.sub[3])
      [] e.e = "each" -> GenEach(c, e.s, e.sub[1], e.sub[2], e.sub[3])
      [] e.e = "lambda" -> CaptureLambda(c, e.s, e.sub[1])
      [] OTHER -> LET r == EvalAll(c, e.sub) IN [c |-> r.c, node |-> Combined(e, r.nodes)]

\* Scope::Eval: first the syncs, each of which begins a segment.
Eval(c, e) ==
    LET synced == FoldLeft(
            LAMBDA state, task :
                LET r == SemGen(state, task)
                    chain == Resolve(r.c, Top(c), "assert")
                IN PushSegment(chain.c, Top(c), Chain(chain.sym.val, r.node), "sync"),
            c, SyncsIn(e))
    IN SemGen(synced, e)

-----------------------------------------------------------------------------
(* Functions. *)

\* Closure::DefineParameters, in the scope on top: in a dispatching scope the
\* object comes first, as a variable of methods and a constant elsewhere.
DefineParameters(c, params) ==
    LET d == Top(c)
        implicit == d > 1 /\ NeedsImplicitSelf(c.stack[d - 1])
        all == (IF implicit THEN <<"self">> ELSE <<>>)
               \o SelectSeq(params, LAMBDA name : name # "")
        Kind(i) == IF implicit /\ i = 1 /\ c.stack[d].what # "method" THEN "self"
                   ELSE "var"
    IN FoldLeft(LAMBDA state, i : Define(state, d, all[i], Parameter(i - 1), Kind(i)),
                [c EXCEPT !.stack[d].arity = Len(all)], [i \in DOMAIN all |-> i])

\* Function::EnterFunction in a new scope, with the function's own name if it
\* has one.
EnterFunction(c, name, params, exp) ==
    LET d == Top(c) + 1
        new == Enter(c, [Scope("function") EXCEPT !.name = name])
        named == IF name = "" THEN new ELSE Define(new, d, name, Self, "function")
        ready == Define(DefineParameters(named, params), d, "assert", True, "var")
        val == IF exp.e = "none" THEN [c |-> ready, node |-> Undefined]
               ELSE Eval(ready, exp)
    IN Define(val.c, d, "result", val.node, "var")

\* Closure::Capture: the scope on top as a function.
Capture(c, exp) ==
    LET scope == Last(c.stack)
        body == IF IsSegmented(scope)
                THEN PackageSegmentedResult(scope.segments, exp) ELSE exp
    IN [c |-> Leave(c),
        node |-> Captured(FunctionNode(body, scope.arity), scope.captures)]

\* The answer, a variable of the scope on top, if no assertion fails.
AnswerOf(c, name) ==
    LET result == Resolve(c, Top(c), name)
        chain == Resolve(result.c, Top(c), "assert")
    IN Capture(chain.c, Chain(chain.sym.val, result.sym.val))

ExitFunction(c) == AnswerOf(c, "result")

\* CaptureLambda, and GenerateThunk when there is no parameter.
CaptureLambda(c, param, e) == ExitFunction(EnterFunction(c, "", <<param>>, e))

-----------------------------------------------------------------------------
(* Objects: a function that makes an object, from a prototype if it has one.*)

EnterObject(c, name, param, prototype) ==
    LET d == Top(c) + 1
        new == DefineParameters(Enter(c, [Scope("object") EXCEPT !.name = name]),
                                <<param>>)
        from == Eval(new, prototype)
    IN [from.c EXCEPT
          !.stack[d].opened = TRUE,
          !.stack[d].members = IF prototype.e = "none" THEN @
                               ELSE Call(from.node, <<Symbol(Wildcard)>>)]

ExitObject(c) == Capture(c, WrapObject(Last(c.stack).members))

EnterMethod(c, name, param) ==
    LET new == Enter(c, [Scope("method") EXCEPT !.name = name]) IN
    Define(DefineParameters(new, <<param>>), Top(new), "assert", True, "var")

\* A method answers what became of the object.
ExitMethod(c) == AnswerOf(c, "self")

-----------------------------------------------------------------------------
(* If-then-else: an IfThenElse scope with the scope of a branch above it.  *)

NewBranch(c, condition) ==
    LET r == Eval(Enter(c, Scope("branch")), condition) IN
    [r.c EXCEPT !.stack[Top(r.c)].condition = r.node]

EnterIf(c, condition) == NewBranch(Enter(c, Scope("if")), condition)

\* The branch on top is complete: its scope stays with the IfThenElse.
CloseBranch(c) ==
    LET d == Top(c) - 1 IN
    [Leave(c) EXCEPT !.stack[d].branches = Append(@, Last(c.stack))]

PartitionElse(c, condition) ==
    IF Last(c.stack).what = "branch" THEN NewBranch(CloseBranch(c), condition)
    ELSE ReportError(c, "else outside if")

\* The tuple Branch::Result makes of the branch on top.
BranchTuple(c, segmented) ==
    LET d == Top(c)
        names == InOrder(c.stack[d - 1].rebinds)
        got == FoldLeft(
            LAMBDA state, name :
                LET r == Resolve(state.c, d, name) IN
                [c |-> r.c, nodes |-> Append(state.nodes, r.sym.val)],
            [c |-> c, nodes |-> <<>>], names)
        tuple == IF names = <<>> THEN Nil ELSE TupleN(got.nodes)
        result == IF segmented
                  THEN PackageSegmentedResult(got.c.stack[d].segments, tuple)
                  ELSE tuple
    IN [c |-> got.c, result |-> result]

\* The branches from the last to the first, each a choice between its action
\* and the choice after it.
RECURSIVE BranchChain(_, _, _, _)
BranchChain(c, d, segmented, else) ==
    LET branches == c.stack[d].branches IN
    IF branches = <<>> THEN [c |-> c, action |-> else]
    ELSE LET back == Enter([c EXCEPT !.stack[d].branches = Front(@)],
                           Last(branches))
             condition == Last(branches).condition
             r == BranchTuple(back, segmented)
             arity == Len(r.c.stack[d].captures)
             action == FunctionNode(r.result, arity)
             forward == [i \in 1..arity |-> Parameter(i - 1)]
         IN BranchChain(Leave(r.c), d, segmented,
                IF condition = Nil THEN action
                ELSE FunctionNode(Call(Branch(condition, action, else), forward),
                                  arity))

\* Branch::Exit, IfThenElse::ExitBlock and Block::Exit.
ExitIf(c) ==
    LET d == Top(c) - 1
        ended == IF Last(c.stack).condition = Nil THEN CloseBranch(c)
                 ELSE CloseBranch(NewBranch(CloseBranch(c), NoExp))
        branches == ended.stack[d].branches
        segmented == \E i \in DOMAIN branches : IsSegmented(branches[i])
        type == IF \E i \in DOMAIN branches : SegmentsSynchronize(branches[i])
                THEN "sync" ELSE "yield from"
        chosen == BranchChain(ended, d, segmented, Nil)
        call == Call(chosen.action, chosen.c.stack[d].captures)
        pushed == IF segmented THEN PushSegment(chosen.c, d - 1, call, type)
                  ELSE chosen.c
    IN Leave(MakeContextAssignments(pushed, d,
                IF segmented THEN Parameter(0) ELSE call))
=============================================================================
