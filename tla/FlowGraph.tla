------------------------------- MODULE FlowGraph -------------------------------
(***************************************************************************)
(* src/flowgraph: the nodes a compiled expression is made of, as values.   *)
(* The pool makes each node once and compares nodes by address; here equal *)
(* nodes are the same value.  Names of functions, and the text of strings, *)
(* are left out; numbers stand for themselves.                             *)
(***************************************************************************)
EXTENDS Naturals, Sequences, FiniteSets, SequencesExt, FiniteSetsExt

Nil == [op |-> "nil"]
Self == [op |-> "self"]
Number(n) == [op |-> "number", n |-> n]
Symbol(s) == [op |-> "symbol", s |-> s]
Import(s) == [op |-> "import", s |-> s]
Intrinsic(s) == [op |-> "intrinsic", s |-> s]
Parameter(i) == [op |-> "parameter", i |-> i]
Slot(i) == [op |-> "slot", i |-> i]
Placeholder(i) == [op |-> "placeholder", i |-> i]
FunctionNode(exp, arity) == [op |-> "function", exp |-> exp, arity |-> arity]
Inductor(exp) == [op |-> "inductor", exp |-> exp]
Operation(type, left, right) == [op |-> type, left |-> left, right |-> right]

IsAnOperation(n) ==
    n.op \in {"call", "capture", "arg", "loop", "assert", "chain", "inductor"}

RECURSIVE AsOperation(_)
AsOperation(n) == IF n.op = "inductor" THEN AsOperation(n.exp) ELSE n
Left(n) == AsOperation(n).left
Right(n) == AsOperation(n).right

\* May the node be evaluated in any context?  Self, parameters, slots and
\* placeholders may not, nor may any operation.
IsContextIndependent(n) ==
    n.op \in {"nil", "number", "symbol", "import", "intrinsic", "function"}

RECURSIVE MinParameterCount(_)
MinParameterCount(n) ==
    CASE n.op = "parameter" -> n.i + 1
      [] n.op \notin {"parameter", "inductor"} /\ IsAnOperation(n) ->
            Max({MinParameterCount(n.left), MinParameterCount(n.right)})
      [] OTHER -> 0

RECURSIVE IsInductionVar(_)
IsInductionVar(n) ==
    IF n.op = "inductor" THEN TRUE
    ELSE /\ IsAnOperation(n)
         /\ IF IsInductionVar(n.left)
            THEN IsInductionVar(n.right) \/ MinParameterCount(n.right) = 0
            ELSE IsInductionVar(n.right) /\ MinParameterCount(n.left) = 0

-----------------------------------------------------------------------------
(* The pool's constructors. *)

\* Arguments are a list of operations, the last one outermost.
Args(s) == FoldLeft(LAMBDA list, v : Operation("arg", list, v), Nil, s)
CallN(object, args) == Operation("call", object, args)
Call(object, s) == CallN(object, Args(s))
CaptureN(function, slots) == Operation("capture", function, slots)
Captured(function, s) ==
    IF s = <<>> THEN function ELSE CaptureN(function, Args(s))

True == FunctionNode(Parameter(0), 2)
False == FunctionNode(Parameter(1), 2)
Chain(head, tail) ==
    IF head = True THEN tail ELSE Operation("chain", head, tail)
AssertOperation(condition, message) ==
    Operation("assert", condition, message)
Branch(condition, thenVal, elseVal) == Call(condition, <<thenVal, elseVal>>)
TupleN(s) == Call(Intrinsic("tuple"), s)
Throw(exp) == Call(Intrinsic("throw"), <<exp>>)
Undefined == Throw(Symbol("undefined"))
Method(object, name, args) ==
    Call(Call(object, <<Symbol(name)>>), <<object>> \o args)
Compare(left, right) == Method(left, "compare_to", <<right>>)

\* Booleans are functions that pick their first or second argument; the
\* logical operators capture their operands and do the same.
LogicFunction(op) ==
    LET left == Slot(0)
        right == Slot(1)
        true == Parameter(0)
        false == Parameter(1)
        exp == CASE op = "not" -> Call(left, <<false, true>>)
                 [] op = "and" -> Branch(left, Branch(right, true, false), false)
                 [] op = "or" -> Branch(left, true, Branch(right, true, false))
                 [] op = "xor" -> Branch(left, Branch(right, false, true),
                                               Branch(right, true, false))
    IN FunctionNode(exp, 2)

ImportCore == Import("core")
CallCore(name, args) == Call(Call(ImportCore, <<Symbol(name)>>),
                             <<ImportCore>> \o args)
Parallelize(exp) == Call(Intrinsic("parallelize"), <<exp>>)
LoopOperation(start, condition, operation) ==
    Call(Operation("loop", condition, operation), <<start>>)
LoopSequencer(condition, operation, start) ==
    Call(Intrinsic("loop_sequencer"), <<condition, operation, start>>)
LoopTask(condition, operation, start) ==
    Call(Intrinsic("loop_task"), <<condition, operation, start>>)

\* The values of a list of arguments, first to last.
RECURSIVE ArgList(_)
ArgList(n) ==
    IF n.op = "arg" THEN Append(ArgList(n.left), n.right) ELSE <<>>

\* Everything an expression is made of that the map names, replaced; the
\* bodies of functions are not entered.
RECURSIVE Rewrite(_, _)
Rewrite(exp, reMap) ==
    IF exp \in DOMAIN reMap THEN reMap[exp]
    ELSE IF ~IsAnOperation(exp) THEN exp
    ELSE LET new == Operation(AsOperation(exp).op, Rewrite(Left(exp), reMap),
                              Rewrite(Right(exp), reMap))
         IN IF exp.op = "inductor" /\ ~IsInductionVar(AsOperation(exp))
            THEN Inductor(new) ELSE new

-----------------------------------------------------------------------------
(* PostOrderDFS: an iterative walk, with a work list and a set of visited  *)
(* nodes.  w is [work, visited, out]: the last node of out is the current. *)

RECURSIVE Push(_, _)
Push(w, item) ==
    IF item \in w.visited THEN w
    ELSE LET pushed == [w EXCEPT !.work = Append(@, item)] IN
         IF ~IsAnOperation(item) THEN pushed
         ELSE IF Left(item) \notin w.visited THEN Push(pushed, Left(item))
         ELSE Push(pushed, Right(item))

\* PostOrderDFS::Next from the work list on: look at the top, dig into its
\* right operand, and visit whatever is on top then.
RECURSIVE WalkOn(_)
WalkOn(w) ==
    IF w.work = <<>> THEN w.out
    ELSE LET item == Last(w.work)
             dug == IF IsAnOperation(item) THEN Push(w, Right(item)) ELSE w
             current == Last(dug.work)
         IN WalkOn([work |-> Front(dug.work),
                    visited |-> dug.visited \union {current},
                    out |-> Append(dug.out, current)])

Walk(root) ==
    WalkOn(Push([work |-> <<>>, visited |-> {}, out |-> <<>>], root))
=============================================================================
