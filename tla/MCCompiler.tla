------------------------------- MODULE MCCompiler ------------------------------
(* Programs for the compiler: each list of sets is a family of them. *)
EXTENDS Compiler

Var(n, e) == St("var", n, e)
Def(n, e) == St("def", n, e)
Put(n, e) == St("set", n, e)
Check(e) == St("assert", "", e)
Yield(e) == St("yield", "", e)
From(e) == St("yield from", "", e)
Await(e) == St("sync", "", e)
If(e) == St("if", "", e)
Else(e) == St("else", "", e)
While(e) == St("while", "", e)
For(n, e) == St("for", n, e)
Fun(n, param) == Statement("function", n, param, NoExp)
Short(n, param, e) == Statement("function", n, param, e)
End == St("end", "", NoExp)
Trace(e) == St("trace", "", e)
Object(n, param, prototype) == Statement("object", n, param, prototype)
MethodOf(n, param) == Statement("method", n, param, NoExp)
PutMember(o, m, e) == Statement("set member", o, m, e)
Mutate(o, m, e) == Statement("mutate", o, m, e)
PutPair(n, m, e) == Statement("set pair", n, m, e)

P == Id("p")
Q == Id("q")
X == Id("x")
Y == Id("y")
One == Num(1)

\* Branches that assign, define, emit and fail, before and after other uses.
Branching == <<
    {Var("x", One), Yield(P)},
    {Var("y", Num(5))},
    {If(Less(P, One))},
    {Put("x", Num(2)), Yield(Y), Var("y", P), Check(Less(P, Num(0)))},
    {Else(NoExp), Else(Less(P, Num(2)))},
    {Put("y", Add(Y, One)), Yield(P), Var("x", Y), Await(Io(P)), Put("x", Y)},
    {End},
    {Put("result", Add(Y, One)), Yield(Y), Put("result", X)},
    {End}>>

\* A while that counts, emits, asserts and branches.
Counting == <<
    {Var("x", Num(0)), Await(Io(P))},
    {Var("y", P)},
    {While(Less(Y, Num(3)))},
    {Yield(X), Check(Less(Y, Num(2))), Await(Io(Y)), Def("x", Add(Y, One)),
     Put("y", Sync(Io(Y))), From(Q)},
    {Put("y", Add(Y, One))},
    {End, Yield(Y)},
    {End, Put("result", Y), Yield(Y)},
    {End, Put("result", Y)},
    {End}>>

\* A for with a body that can be mapped, in parts or not at all.
Mapping == <<
    {Var("x", Num(0))},
    {Def("y", Add(P, One)), Yield(P), Await(Io(P))},
    {For("e", Q)},
    {Put("x", Add(X, Add(Id("e"), One))), Yield(Add(Id("e"), Y)),
     Check(Less(Id("e"), P)), Put("x", Id("e"))},
    {Put("x", Add(Id("e"), P)), Put("x", Add(X, P)), Await(Io(Id("e"))),
     Var("z", IfElse(Less(Id("e"), P), X, Id("e"))), Put("p", X)},
    {End},
    {Put("result", X), Put("result", Add(X, P)), Yield(X)},
    {End}>>

\* Blocks in blocks.
Nesting == <<
    {Var("x", Num(0))},
    {While(Less(X, Num(2))), For("d", Q), If(Less(X, P))},
    {Put("x", Add(X, One))},
    {For("e", Q), If(Less(P, X)), While(Less(X, P))},
    {Put("x", Add(X, P)), Yield(X), Check(Less(P, X)), Await(Io(X))},
    {Else(NoExp), Put("x", Add(X, One))},
    {End},
    {Else(NoExp), Yield(P), Put("p", X), Put("x", Add(X, One))},
    {End},
    {Put("result", X)},
    {End}>>

\* A loop in a loop, whose body or condition depends on the outer element.
Hoisting == <<
    {Var("x", Num(0))},
    {For("d", Q)},
    {For("e", Q), While(Less(X, Id("d")))},
    {Put("x", Add(X, Id("d"))), Put("x", Add(X, One)), Yield(Id("d"))},
    {End},
    {End},
    {Put("result", X)},
    {End}>>

\* A function in the function, called, emitted from and awaited.
Calling == <<
    {Var("x", P), Def("x", Num(4))},
    {Fun("g", "a")},
    {Put("result", Add(Id("a"), X)), Yield(Id("a")), Put("x", Id("a")),
     Check(Less(Id("a"), One)), Await(Io(X))},
    {Yield(X), Put("result", X), Await(Io(Id("a"))),
     Put("result", Add(Sync(Io(P)), X)), Var("x", P)},
    {End, If(Less(P, One)), For("x", CallOf("g", <<P>>))},
    {From(CallOf("g", <<X>>)), Var("y", CallOf("g", <<One>>)), Await(CallOf("g", <<X>>)),
     Var("y", Sync(CallOf("g", <<P>>))), For("e", CallOf("g", <<P>>)), End},
    {Put("result", X), Put("x", CallOf("g", <<P>>)), Put("x", CallOf("y", <<X>>)),
     Put("g", X), Put("result", Y), End},
    {Put("result", X), End},
    {End}>>

\* What operators decide, throw and leave alone.
A == Id("a")
Operating == <<
    {Var("x", One), Var("x", Minus(P)), Var("x", Raise(P))},
    {Var("y", Logic(op, <<Relation({2}, P, One), Less(X, P)>>)) : op \in {"and", "or", "xor"}}
        \union {Var("y", Logic("not", <<Relation({1, 3}, X, P)>>)), Var("y", Truth(TRUE))},
    {Var("z", IfElse(Y, X, P)), Trace(X), If(Relation({2, 3}, P, One))},
    {Put("x", IfElse(Logic("not", <<Y>>), One, P)), PutPair("x", "p", Pair(P, X)),
     Check(Less(P, One)), Put("result", Y), PutPair("x", "y", Q)},
    {End, Put("result", X)},
    {Put("result", Add(X, P)), Put("result", Y), End},
    {End}>>

\* Functions without a name, and what they remember.
Remembering == <<
    {Var("x", P), Def("x", One)},
    {Var("h", Lambda("a", Add(A, X))), Var("h", Lambda("a", IfElse(Less(A, One), X, A)))},
    {Put("x", Num(5)), For("e", Q), Short("g", "a", Add(A, InvokeOf(Id("h"), <<A>>)))},
    {Put("result", InvokeOf(Id("h"), <<P>>)), Var("a", X), Var("h", Id("h")),
     Put("h", Lambda("p", Add(P, X)))},
    {End, Put("result", Add(X, CallOf("g", <<P>>))), Yield(InvokeOf(Id("h"), <<X>>))},
    {Put("result", InvokeOf(Id("h"), <<X>>)), End},
    {End}>>

\* Sequences filtered and mapped, by functions of their elements and more.
Comprehending == <<
    {Var("x", P)},
    {Var("s", Each("a", Q, Less(X, A), NoExp)), Var("s", Each("a", Q, NoExp, Add(A, X))),
     Var("s", Each("a", Q, Less(A, Num(2)), Add(A, X))), While(Less(X, Num(2)))},
    {Put("x", Num(5)), For("e", Id("s")), From(Each("a", Q, NoExp, Add(A, X)))},
    {Put("x", Add(X, Id("e"))), Yield(X), Put("x", Add(X, One)), From(Id("s"))},
    {End, For("e", Each("a", Q, NoExp, Add(X, P)))},
    {Put("result", X), Put("x", Id("e"))},
    {End},
    {Put("result", X), End},
    {End}>>

\* A function that calls itself, from inside its blocks.
Recurring == <<
    {Fun("g", "a")},
    {If(Less(A, One))},
    {Put("result", One), Yield(A), Await(Io(A)), Check(Less(One, A))},
    {Else(NoExp)},
    {Put("result", Add(CallOf("g", <<Apply(A, "subtract", <<One>>)>>), A)), Var("a", P),
     From(CallOf("g", <<Apply(A, "subtract", <<One>>)>>)), Put("g", A),
     Put("result", Sync(CallOf("g", <<Apply(A, "subtract", <<One>>)>>)))},
    {End},
    {End, Put("result", CallOf("g", <<One>>))},
    {Put("result", CallOf("g", <<P>>)), From(CallOf("g", <<P>>)),
     Put("result", Sync(CallOf("g", <<P>>))), End},
    {End}>>

\* An object, its members and its methods.
N == Apply(Id("self"), "n", <<>>)
Objects == <<
    {Var("x", P)},
    {Object("Counter", "a", NoExp)},
    {Var("n", A), Def("n", Add(A, X)), Put("x", A), Yield(A), Var("a", A), Check(Less(A, One))},
    {MethodOf("bump", "by"), Fun("bump", "by"), Var("m", Id("n"))},
    {PutMember("self", "n", Add(N, Id("by"))), Put("result", Add(N, X)), Put("n", X),
     Check(Less(N, Id("by"))), Put("self", Id("by"))},
    {End},
    {End, Short("peek", "", Add(N, X))},
    {Var("o", CallOf("Counter", <<P>>)), End},
    {Mutate("o", "bump", X), PutMember("o", "n", X), Put("x", Num(5)),
     Var("o", CallOf("Counter", <<X>>))},
    {Put("result", Apply(Id("o"), "n", <<>>)), Put("result", Has(Id("o"), "m")),
     Put("result", Apply(Apply(Id("o"), "bump", <<One>>), "n", <<>>)), Put("result", Apply(Id("o"), "peek", <<>>))},
    {End}>>

\* An object made from another, and assigned in a loop.
Inheriting == <<
    {Object("Base", "a", NoExp)},
    {Var("n", A)},
    {Fun("get", "")},
    {Put("result", N)},
    {End},
    {End},
    {Object("Derived", "a", CallOf("Base", <<A>>)), Object("Derived", "a", Id("Base")),
     Object("Base", "", NoExp)},
    {Short("get", "", Num(9)), Def("m", A), Var("n", P)},
    {End},
    {Var("o", CallOf("Derived", <<P>>))},
    {For("e", Q), If(Less(P, One)), Var("x", P)},
    {PutMember("o", "n", Add(Apply(Id("o"), "n", <<>>), One)), Put("o", CallOf("Base", <<One>>)),
     Put("p", Apply(Id("o"), "get", <<>>))},
    {End, Put("result", Apply(Id("o"), "m", <<>>))},
    {Put("result", Apply(Id("o"), "get", <<>>)), Put("result", P)},
    {End}>>

MCShapes == {Branching, Counting, Mapping, Nesting, Hoisting, Calling,
             Operating, Remembering, Comprehending, Recurring, Objects, Inheriting}
MCPlaces == {}

\* The families and the places of the runs that show what goes wrong there.
ShadowShapes == {Branching}
ShadowPlaces == {"shadow"}
HoistShapes == {Hoisting}
HoistPlaces == {"hoisted loop"}

MCQs == {<<>>, <<1, 2>>}
=============================================================================
