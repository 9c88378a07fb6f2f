-------------------------------- MODULE Compiler -------------------------------
(***************************************************************************)
(* src/semantics/statementanalyzer.cpp: the statements of a function       *)
(* f(p, q) come one by one and change the stack of scopes; the last "end"  *)
(* leaves the function as a node of the flow graph.                        *)
(*                                                                         *)
(* The compiler answers to nothing but the statements, so its state is a   *)
(* function of them: c.stack and c.error are those of module Scopes,       *)
(* c.count is the number of statements so far, c.output the function when  *)
(* it has ended.  A behaviour of the specification writes a program, and   *)
(* each of its steps is compiled.                                          *)
(*                                                                         *)
(* A definition that stands right before the one it varies, and is used    *)
(* nowhere, is a slip the code could have made; the properties catch it.   *)
(***************************************************************************)
EXTENDS SourceProgram, Loops

CONSTANTS
    Shapes,     \* lists of sets of statements: what may come first, second ...
    Places,     \* the shapes of code, of those named at Reached, not left out
    Ps, Qs      \* the arguments the compiled function is called with

ASSUME PlacesAssumption ==
    Places \subseteq {"shadow", "hoisted loop"}

NoCode == Nil
Started ==
    EnterFunction([stack |-> <<>>, error |-> "none", count |-> 0,
                   output |-> NoCode, reached |-> {}], "f", <<"p", "q">>, NoExp)

-----------------------------------------------------------------------------
(* Where the code goes wrong: programs that reach these ends of blocks are  *)
(* left out, but for the runs that show what happens there.                 *)

\* A branch's own variable has the name of one that another branch assigns.
Shadows(scope, branch) ==
    \E name \in scope.rebinds :
        name \in DOMAIN branch.definitions /\ name \notin branch.captured

\* A loop's call depends on the loop around it, its condition or body does not.
Hoists(c) ==
    LET remapped == RemapIO(c) IN
    /\ ~IsSegmented(Last(c.stack))
    /\ \E n \in Mappables(LoopResult(Last(remapped.stack))) :
          AsOperation(n).op = "loop"

Reached(c) ==
    LET top == Last(c.stack)
        below == c.stack[Top(c) - 1]
        branches == Append(below.branches, top)
    IN IF top.what = "branch" /\ \E i \in DOMAIN branches : Shadows(below, branches[i])
       THEN {"shadow"}
       ELSE IF top.what = "for" /\ Hoists(c) THEN {"hoisted loop"}
       ELSE {}

-----------------------------------------------------------------------------
(* The statements: the state of the compiler after each. *)

GenVar(c, st) ==
    LET r == Eval(c, st.exp) IN Define(r.c, Top(c), st.name, r.node, "var")

GenDef(c, st) ==
    LET r == Eval(c, st.exp) IN Define(r.c, Top(c), st.name, r.node, "def")

GenAssignment(c, st) ==
    LET r == Eval(c, st.exp) IN Assign(r.c, Top(c), st.name, r.node)

\* Each assertion is chained to those before it.
GenAssertion(c, st) ==
    LET chain == Resolve(c, Top(c), "assert")
        r == Eval(chain.c, st.exp)
    IN Assign(r.c, Top(c), "assert",
              Chain(chain.sym.val, AssertOperation(r.node, Symbol("failed"))))

\* A trace has an assertion's place in the chain: its function returns the chain.
GenDebugTrace(c, st) ==
    LET chain == Resolve(c, Top(c), "assert")
        r == Eval(chain.c, st.exp)
    IN Assign(r.c, Top(c), "assert",
              Call(Intrinsic("debug_trace"),
                   <<Symbol("here"), r.node, chain.sym.val>>))

\* AssignToMember: the object's setter makes the object that is assigned.
GenMemberAssignment(c, st) ==
    LET val == Eval(c, st.exp)
        base == Eval(val.c, Id(st.name))
        setter == Call(base.node, <<Symbol(Setter(st.member))>>)
    IN Assign(base.c, Top(c), st.name, Call(setter, <<base.node, val.node>>))

GenTupleAssignmentInTurn(c, st) ==
    LET r == Eval(c, st.exp)
        Iterate(exp) == Method(exp, "iterate", <<>>)
        first == Assign(r.c, Top(c), st.name, Method(Iterate(r.node), "current", <<>>))
        again == Eval(first, st.exp)
        next == Method(Iterate(again.node), "next", <<>>)
    IN Assign(again.c, Top(c), st.member, Method(next, "current", <<>>))

\* AssignToTuple: the value as a sequence, one element to each variable.
GenTupleAssignment(c, st) ==
    LET r == Eval(c, st.exp)
        iterator == Method(r.node, "iterate", <<>>)
        first == Assign(r.c, Top(c), st.name, Method(iterator, "current", <<>>))
        next == Method(iterator, "next", <<>>)
    IN Assign(first, Top(c), st.member, Method(next, "current", <<>>))

GenMutation(c, st) ==
    LET object == Eval(c, Id(st.name))
        arg == Eval(object.c, st.exp)
        args == IF st.exp.e = "none" THEN <<>> ELSE <<arg.node>>
    IN Assign(arg.c, Top(c), st.name, Method(object.node, st.member, args))

GenYield(c, st) ==
    LET r == Eval(c, st.exp) IN PushSegment(r.c, Top(c), r.node, st.s)

\* A task must not go on after an assertion that failed.
GenSync(c, st) ==
    LET r == Eval(c, st.exp)
        chain == Resolve(r.c, Top(c), "assert")
    IN PushSegment(chain.c, Top(c), Chain(chain.sym.val, r.node), "sync")

GenIfThen(c, st) == EnterIf(c, st.exp)
GenElse(c, st) == PartitionElse(c, st.exp)
GenWhile(c, st) == EnterWhile(c, st.exp)
GenForLoop(c, st) == EnterFor(c, ToString(c.count), st.name, st.exp)

DefineFunction(r, name) == Define(r.c, Top(r.c), name, r.node, "function")

GenFunction(c, st) ==
    LET entered == EnterFunction(c, st.name, <<st.member>>, st.exp) IN
    IF Begins(st) THEN entered ELSE DefineFunction(ExitFunction(entered), st.name)

GenMethod(c, st) == EnterMethod(c, st.name, st.member)
GenObject(c, st) == EnterObject(c, st.name, st.member, st.exp)

\* Function::Exit, of the function the program is the body of and of others.
EndFunction(c) ==
    LET r == ExitFunction(c) IN
    IF Top(c) = 1 THEN [r.c EXCEPT !.output = r.node]
    ELSE DefineFunction(r, Last(c.stack).name)

\* The scope on top exits.
GenBlockEnd(c) ==
    LET top == Last(c.stack) IN
    CASE top.what = "branch" -> ExitIf(c)
      [] top.what \in {"while", "for"} -> ExitLoop(c)
      [] top.what = "function" -> EndFunction(c)
      [] top.what = "method" -> DefineFunction(ExitMethod(c), top.name)
      [] top.what = "object" -> DefineFunction(ExitObject(c), top.name)

\* StatementAnalyzer: each kind of statement to its own.
Generate(c, st) ==
    CASE st.s = "var" -> GenVar(c, st)
      [] st.s = "def" -> GenDef(c, st)
      [] st.s = "set" -> GenAssignment(c, st)
      [] st.s = "set member" -> GenMemberAssignment(c, st)
      [] st.s = "set pair" -> GenTupleAssignment(c, st)
      [] st.s = "mutate" -> GenMutation(c, st)
      [] st.s = "assert" -> GenAssertion(c, st)
      [] st.s = "trace" -> GenDebugTrace(c, st)
      [] st.s \in {"yield", "yield from"} -> GenYield(c, st)
      [] st.s = "sync" -> GenSync(c, st)
      [] st.s = "if" -> GenIfThen(c, st)
      [] st.s = "else" -> GenElse(c, st)
      [] st.s = "while" -> GenWhile(c, st)
      [] st.s = "for" -> GenForLoop(c, st)
      [] st.s = "function" -> GenFunction(c, st)
      [] st.s = "method" -> GenMethod(c, st)
      [] st.s = "object" -> GenObject(c, st)
      [] st.s = "end" -> GenBlockEnd(c)

LeftOut(c) == ~(c.reached \subseteq Places)

\* Nothing follows the first error, the end of f or a place left out.
Follows(c, st) ==
    LET at == IF st.s = "end" THEN [c EXCEPT !.reached = @ \union Reached(c)] ELSE c
    IN IF c.error # "none" \/ c.stack = <<>> \/ LeftOut(at) THEN at
       ELSE [Generate(at, st) EXCEPT !.count = @ + 1]

Compiled(prog) == FoldLeft(Follows, Started, prog)

-----------------------------------------------------------------------------
(* A program is written, statement by statement, to the end of f. *)

VARIABLES shape, program
vars == <<shape, program>>

Init ==
    /\ shape \in Shapes
    /\ program = <<>>

Write(st) ==
    /\ Depth(program, Len(program) + 1) >= 0
    /\ program' = Append(program, st)
    /\ UNCHANGED shape

Next ==
    /\ Len(program) < Len(shape)
    /\ \E st \in shape[Len(program) + 1] : Write(st)

Spec == Init /\ [][Next]_vars

-----------------------------------------------------------------------------
(* What the compiler owes a program. *)

\* A name a scope knows is in its active table, or the scope has a segment to
\* find it in (the assertions of RetrieveFromPreviousSegment); what was
\* captured is known; a loop's variable is an invariant or is updated.
Agrees(scope) ==
    /\ DOMAIN scope.symbols \union scope.captured \subseteq DOMAIN scope.definitions
    /\ DOMAIN scope.definitions # DOMAIN scope.symbols => IsSegmented(scope)
    /\ DOMAIN scope.invariants \intersect DOMAIN scope.updates = {}
    /\ DOMAIN scope.starts = DOMAIN scope.invariants \union DOMAIN scope.updates
TablesAgree ==
    [][\A scope \in Range(Compiled(program').stack) : Agrees(scope)]_vars

\* The compiler reports an error exactly for the programs that have one, and
\* one of theirs.
Accords(c, errors) ==
    IF c.error = "none" THEN errors = {} ELSE c.error \in errors
RejectsExactly ==
    [][\A c \in {Compiled(program')} :
          c.count = Len(program') => Accords(c, Errors(program'))]_vars

\* Every operand is a register that an earlier instruction has set; parameters
\* and captured slots exist where they are read; a loop is called and never
\* retained (the comment in Pool::Loop).
RECURSIVE WellFormed(_, _)
WellFormed(lic, slots) ==
    LET IsSet(a, i) ==
            /\ "register" \in DOMAIN a =>
                  a.register < i /\ lic.code[a.register].code # "none"
            /\ "link" \in DOMAIN a => WellFormed(a.link, 0)
    IN /\ IsSet(lic.result, Len(lic.code) + 1)
       /\ \A i \in DOMAIN lic.code :
            LET ins == lic.code[i] IN
            CASE ins.code = "unknown" -> FALSE
              [] ins.code = "parameter" -> ins.node.i < lic.arity
              [] ins.code = "slot" -> ins.node.i < slots
              [] ins.code = "capture" ->
                    /\ \A a \in Operands(ins) \ {ins.target} : IsSet(a, i)
                    /\ WellFormed(ins.target.link, Len(ins.args))
              [] OTHER -> \A a \in Operands(ins) : IsSet(a, i)

CodeIsWellFormed ==
    [][\A code \in {Compiled(program').output} :
          code = NoCode \/ WellFormed(Linear(code), 0)]_vars

\* The values a function's answer is made of.
Parts(v) == IF "sequence" \in DOMAIN v
            THEN {v.final} \union {v.sequence[i] : i \in DOMAIN v.sequence} ELSE {v}
\* Objects and functions are told apart by what they answer alone.
IsSpecified(v) ==
    \A part \in Parts(v) :
        /\ part \notin {Raised("unspecified"), Raised("endless")}
        /\ {"object", "env"} \intersect DOMAIN part = {}

\* What a boolean, a function that picks one of its arguments, comes to.
PickedBy(v) ==
    LET picked == Invoke(v, <<IntOf(1), IntOf(0)>>, MaxTurns) IN
    IF IsException(picked) THEN picked ELSE TruthOf(picked = IntOf(1))

\* The answer of the code is that of the program.  A generator may emit more
\* than the program before it fails as the program does.
Means(answer, meant, prog) ==
    \/ answer = meant
    \/ "function" \in DOMAIN answer /\ PickedBy(answer) = meant
    \/ /\ {"sequence"} \subseteq DOMAIN answer \intersect DOMAIN meant
       /\ meant.final = Raised("assert")
       /\ answer.final = meant.final /\ IsPrefix(meant.sequence, answer.sequence)
       /\ ~IsTask(prog, 0)

\* The compiled function answers, for every argument, what the program says.
AnswersAs(code, prog) ==
    \A p \in Ps, q \in Qs :
        LET list == [i \in DOMAIN q |-> IntOf(q[i])]
            args == <<IntOf(p), SequenceOf(list, IntOf(0))>>
            meant == Interpret(prog, args)
        IN IsSpecified(meant) => Means(Run(code, args), meant, prog)
CompiledMeansSource ==
    [][\A code \in {Compiled(program').output} :
          code = NoCode \/ AnswersAs(code, Front(program'))]_vars
=============================================================================
