----------------------------- MODULE SourceProgram -----------------------------
(***************************************************************************)
(* What a program of the language means, without the compiler: a program   *)
(* is a list of statements, the body of one function f(p, q); names are    *)
(* variables of nested blocks; an assertion that fails ends the function.  *)
(* And which programs the language refuses.                                *)
(***************************************************************************)
EXTENDS Blocks, LinearCode

\* A statement: its kind, the name it is about, a second name (a parameter, a
\* member, the other variable) and an expression.
Statement(s, name, member, exp) == [s |-> s, name |-> name, member |-> member, exp |-> exp]
St(s, name, exp) == Statement(s, name, "", exp)

MakesClosure(st) == st.s \in {"method", "object"} \/ (st.s = "function" /\ st.exp.e = "none")
Begins(st) == st.s \in {"if", "while", "for"} \/ MakesClosure(st)
Depth(prog, k) == Cardinality({j \in 1..(k - 1) : Begins(prog[j])})
                  - Cardinality({j \in 1..(k - 1) : prog[j].s = "end"})
\* The block (or the branch) that begins at j ends before PartEnd, and the
\* whole statement at EndOf; past the end of a program that is not complete.
PartEnd(prog, j) ==
    LET inner == Depth(prog, j) + (IF prog[j].s = "else" THEN 0 ELSE 1) IN
    Min({Len(prog) + 1} \union
        {k \in (j + 1)..Len(prog) : prog[k].s \in {"else", "end"}
                                    /\ Depth(prog, k) = inner})
RECURSIVE BlockEnd(_, _)
BlockEnd(prog, j) ==
    LET k == PartEnd(prog, j) IN
    IF k <= Len(prog) /\ prog[k].s = "else" THEN BlockEnd(prog, k) ELSE k
EndOf(prog, j) == IF Begins(prog[j]) \/ prog[j].s = "else" THEN BlockEnd(prog, j) ELSE j

\* A block is the index of the statement, or of the else, that opens it; 0 is
\* the body of f.
Opens(st) == Begins(st) \/ st.s = "else"
BlockOf(prog, k) ==
    Max({0} \union {j \in 1..(k - 1) : Opens(prog[j]) /\ PartEnd(prog, j) > k})
InObject(prog, k) == LET b == BlockOf(prog, k) IN b # 0 /\ prog[b].s = "object"

ParametersOf(prog, k) ==
    IF k = 0 THEN <<"p", "q">>
    ELSE (IF InObject(prog, k) THEN <<"self">> ELSE <<>>)
         \o (IF prog[k].member = "" THEN <<>> ELSE <<prog[k].member>>)
\* What a function answers.
AnswerName(prog, k) ==
    IF k = 0 THEN "result"
    ELSE CASE prog[k].s = "method" -> "self"
           [] prog[k].s = "object" -> "members"
           [] OTHER -> "result"

-----------------------------------------------------------------------------
(* Running a program.  st is [env, out, status]: env a list of blocks, out *)
(* what was yielded, or the actions performed.                             *)

Running == SymbolOf("running")
Holder(env, name) == Max({i \in DOMAIN env : name \in DOMAIN env[i]})
ValueOf(st, name) == st.env[Holder(st.env, name)][name]
Stop(st, why) == [st EXCEPT !.status = why]
Unspecified(st) == Stop(st, SymbolOf("unspecified"))

\* Does a statement yield or sync?
EmitsAt(st) ==
    CASE st.s \in {"yield", "yield from"} -> {"yield"}
      [] st.s = "sync" \/ SyncsIn(st.exp) # <<>> -> {"sync"}
      [] OTHER -> {}
FunctionOf(prog, k) ==
    Max({0} \union {j \in 1..(k - 1) : MakesClosure(prog[j]) /\ EndOf(prog, j) > k})
BodyOf(prog, i) ==
    {k \in (i + 1)..(IF i = 0 THEN Len(prog) ELSE EndOf(prog, i) - 1) :
        FunctionOf(prog, k) = i}
IsTask(prog, i) == \E k \in BodyOf(prog, i) : EmitsAt(prog[k]) = {"sync"}
IsGenerator(prog, i) == \E k \in BodyOf(prog, i) : EmitsAt(prog[k]) # {}

RECURSIVE RunFrom(_, _, _, _), Evaluate(_, _, _), EvaluateAll(_, _, _), Turn(_, _, _, _),
          ForEach(_, _, _, _)

\* The value of a finished call of the function that begins at i.  What a
\* generator emits after an assertion that failed is left open, so what others
\* make of it is too.
AnswerFrom(prog, i, st) ==
    LET value == CASE st.status = Running -> Last(st.env)[AnswerName(prog, i)]
                   [] i # 0 /\ IsGenerator(prog, i) /\ ~IsTask(prog, i) ->
                        Raised("unspecified")
                   [] OTHER -> Exception(st.status)
    IN IF IsGenerator(prog, i) THEN SequenceOf(st.out, value) ELSE value

\* A function is [at, env]: its statement, and the variables where it stands.
CallFunction(prog, f, args) ==
    LET names == ParametersOf(prog, f.at)
        named == IF f.at = 0 \/ prog[f.at].s # "function" THEN {} ELSE {prog[f.at].name}
        frame == [n \in {names[i] : i \in DOMAIN names} |->
                    args[CHOOSE i \in DOMAIN names : names[i] = n]]
                 @@ [n \in named |-> f]
        begin == [env |-> Append(f.env, frame), out |-> <<>>, status |-> Running]
        Set(name, val) ==
            [begin EXCEPT !.env = Append(Front(@), name :> val @@ Last(@))]
        first == IF f.at = 0 THEN NoExp ELSE prog[f.at].exp
        base == Evaluate(prog, begin, first).val
        ready == CASE AnswerName(prog, f.at) = "result" -> Set("result", base)
                   [] AnswerName(prog, f.at) = "members" ->
                        Set("members", IF first.e # "none" THEN base
                                       ELSE [object |-> NoNames])
                   [] OTHER -> begin
        end == IF f.at = 0 THEN Len(prog) + 1 ELSE EndOf(prog, f.at)
    IN IF Len(args) # Len(names) THEN Raised("arity")
       ELSE AnswerFrom(prog, f.at, RunFrom(prog, f.at + 1, end, ready))

IsFollowed(seq) ==
    "sequence" \in DOMAIN seq /\ seq.final # Raised("unspecified")

\* A sync emits what its task performs.
Emit(st, seq) ==
    IF ~IsFollowed(seq)
    THEN [st |-> Unspecified(st), val |-> seq]
    ELSE [st |-> [st EXCEPT !.out = @ \o seq.sequence], val |-> seq.final]

\* A message to a value: a member of an object, or arithmetic.
Send(prog, v, name, args) ==
    CASE IsException(v) -> v
      [] "object" \in DOMAIN v ->
            IF name \notin DOMAIN v.object THEN Raised("not found")
            ELSE LET member == v.object[name] IN
                 IF "at" \in DOMAIN member
                 THEN CallFunction(prog, member, <<v>> \o args)
                 ELSE IF args = <<>> THEN member.val ELSE Raised("arity")
      [] name \notin {"add", "subtract"} -> Raised("not found")
      [] OTHER -> IF IsException(args[1]) THEN args[1]
                  ELSE IF {"int"} # DOMAIN v \intersect DOMAIN args[1]
                  THEN Raised("not found")
                  ELSE IntOf(IF name = "add" THEN v.int + args[1].int
                             ELSE v.int - args[1].int)

Ordered(l, r) == IF l < r THEN 1 ELSE IF l = r THEN 2 ELSE 3
TruthOf(b) == [truth |-> b]

\* A lambda is [param, exp, env].
Applied(prog, f, arg) ==
    Evaluate(prog, [env |-> Append(f.env, f.param :> arg), out |-> <<>>,
                    status |-> Running], f.exp).val

\* An expression of a value for each part.
FromParts(prog, e, v) ==
    LET failed == {i \in DOMAIN v : IsException(v[i])} IN
    CASE e.e = "method" -> Send(prog, v[1], e.s, Tail(v))
      [] e.e = "truth" -> TruthOf(e.s)
      [] e.e = "tuple" -> SequenceOf(v, Raised("unspecified"))
      [] e.e = "has" ->
            IF IsException(v[1]) THEN TruthOf(FALSE)
            ELSE IF "object" \notin DOMAIN v[1] THEN Raised("unspecified")
            ELSE TruthOf(e.s \in DOMAIN v[1].object)
      [] failed # {} -> v[Min(failed)]
      [] e.e = "relation" -> TruthOf(Ordered(v[1].int, v[2].int) \in e.s)
      [] e.e = "negation" -> IntOf(0 - v[1].int)
      [] e.e = "invoke" -> Applied(prog, v[1], v[2])
      [] e.e = "throw" -> Exception(v[1])
      [] e.e = "io" -> SequenceOf(v, IntOf(Response(v[1].int)))

\* The second operand of a logical operator counts only if the first does not
\* decide; so does what it throws.
LogicOf(op, v) ==
    LET Decides == (op = "and" /\ ~v[1].truth) \/ (op = "or" /\ v[1].truth) IN
    IF IsException(v[1]) \/ (op # "not" /\ Decides) THEN v[1]
    ELSE CASE op = "not" -> TruthOf(~v[1].truth)
           [] op = "xor" /\ ~IsException(v[2]) -> TruthOf(v[1].truth # v[2].truth)
           [] OTHER -> v[2]

\* The parts from left to right, to [st, vals].
EvaluateAll(prog, st, exps) ==
    FoldLeft(LAMBDA done, e : LET r == Evaluate(prog, done.st, e) IN
                              [st |-> r.st, vals |-> Append(done.vals, r.val)],
             [st |-> st, vals |-> <<>>], exps)

\* An expression, to [st, val].
Evaluate(prog, st, e) ==
    LET parts == EvaluateAll(prog, st, e.sub)
        first == Evaluate(prog, st, e.sub[1])
        To(val) == [st |-> st, val |-> val]
        Through(exp) == [param |-> e.s, exp |-> exp, env |-> st.env]
    IN CASE e.e = "number" -> To(IntOf(e.n))
         [] e.e = "none" -> To(Raised("undefined"))
         [] e.e = "identifier" ->
                LET v == ValueOf(st, e.s) IN
                To(IF "at" \in DOMAIN v THEN CallFunction(prog, v, <<>>) ELSE v)
         [] e.e = "call" ->
                [st |-> parts.st,
                 val |-> CallFunction(prog, ValueOf(st, e.s), parts.vals)]
         [] e.e = "sync" -> Emit(first.st, first.val)
         [] e.e = "if" ->
                IF IsException(first.val) THEN first
                ELSE Evaluate(prog, first.st,
                              IF first.val.truth THEN e.sub[2] ELSE e.sub[3])
         [] e.e = "logic" -> [st |-> parts.st, val |-> LogicOf(e.s, parts.vals)]
         [] e.e = "lambda" -> To(Through(e.sub[1]))
         [] e.e = "each" ->
                LET Keeps(v) == e.sub[2].e = "none"
                                \/ Applied(prog, Through(e.sub[2]), v) = TruthOf(TRUE)
                    kept == SelectSeq(first.val.sequence, Keeps)
                IN IF IsException(first.val) THEN first
                   ELSE [first EXCEPT !.val.sequence =
                            IF e.sub[3].e = "none" THEN kept
                            ELSE [i \in DOMAIN kept |->
                                    Applied(prog, Through(e.sub[3]), kept[i])]]
         [] OTHER -> [st |-> parts.st, val |-> FromParts(prog, e, parts.vals)]

\* A declaration: in an object, of a member, that a function is as it stands.
Declare(prog, i, st, name, val) ==
    LET member == IF "at" \in DOMAIN val THEN val
                  ELSE [val |-> val, settable |-> prog[i].s = "var"]
    IN IF InObject(prog, i) /\ IsException(Last(st.env)["members"]) THEN st
       ELSE IF InObject(prog, i)
       THEN [st EXCEPT !.env[Len(st.env)]["members"].object = name :> member @@ @]
       ELSE [st EXCEPT !.env = Append(Front(@), name :> val @@ Last(@))]

Set(st, name, val) == [st EXCEPT !.env[Holder(st.env, name)][name] = val]

\* An object with another value of a member.
WithMember(v, name, val) ==
    CASE IsException(v) -> v
      [] name \in DOMAIN v.object /\ "settable" \in DOMAIN v.object[name]
         /\ v.object[name].settable -> [v EXCEPT !.object[name].val = val]
      [] OTHER -> Raised("not found")

\* A block's body from i to j, in a block of its own.
InBlock(prog, i, j, st, names) ==
    LET done == RunFrom(prog, i, j, [st EXCEPT !.env = Append(@, names)])
    IN IF done.status = Running THEN [done EXCEPT !.env = Front(@)] ELSE done

\* The branch taken of an if at j, or after it.
RECURSIVE Choose(_, _, _)
Choose(prog, j, st) ==
    LET test == Evaluate(prog, st, prog[j].exp)
        next == PartEnd(prog, j)
    IN IF prog[j].exp.e = "none" THEN InBlock(prog, j + 1, next, st, NoNames)
       ELSE IF IsException(test.val) THEN Unspecified(st)
       ELSE IF test.val.truth THEN InBlock(prog, j + 1, next, test.st, NoNames)
       ELSE IF prog[next].s = "else" THEN Choose(prog, next, test.st)
       ELSE test.st

\* One statement that is not a block.
Execute(prog, i, st) ==
    LET s == prog[i]
        r == Evaluate(prog, st, s.exp)
    IN CASE s.s \in {"var", "def"} -> Declare(prog, i, r.st, s.name, r.val)
         [] s.s \in {"function", "method", "object"} ->
                Declare(prog, i, st, s.name, [at |-> i, env |-> st.env])
         [] s.s = "set" -> Set(r.st, s.name, r.val)
         [] s.s = "set member" ->
                Set(r.st, s.name, WithMember(ValueOf(r.st, s.name), s.member, r.val))
         [] s.s = "mutate" ->
                Set(r.st, s.name, Send(prog, ValueOf(st, s.name), s.member,
                                       IF s.exp.e = "none" THEN <<>> ELSE <<r.val>>))
         [] s.s = "set pair" ->
                IF IsException(r.val) \/ Len(r.val.sequence) < 2 THEN Unspecified(st)
                ELSE Set(Set(r.st, s.name, r.val.sequence[1]),
                         s.member, r.val.sequence[2])
         [] s.s = "trace" -> r.st
         [] s.s = "assert" ->
                IF IsException(r.val) THEN Stop(r.st, r.val.exception)
                ELSE IF r.val.truth THEN r.st ELSE Stop(r.st, SymbolOf("assert"))
         [] s.s = "yield" -> [r.st EXCEPT !.out = Append(@, r.val)]
         [] s.s \in {"yield from", "sync"} -> Emit(r.st, r.val).st

RunFrom(prog, i, j, st) ==
    IF i >= j \/ st.status # Running THEN st
    ELSE LET s == prog[i]
             over == EndOf(prog, i) + 1
             source == Evaluate(prog, st, s.exp)
         IN CASE s.s = "if" -> RunFrom(prog, over, j, Choose(prog, i, st))
              [] s.s = "while" -> RunFrom(prog, over, j, Turn(prog, i, st, MaxTurns))
              [] s.s = "for" ->
                    RunFrom(prog, over, j,
                        IF ~IsFollowed(source.val) THEN Unspecified(st)
                        ELSE ForEach(prog, i, source.st, source.val.sequence))
              [] OTHER -> RunFrom(prog, over, j, Execute(prog, i, st))

Turn(prog, i, st, turns) ==
    LET test == Evaluate(prog, st, prog[i].exp) IN
    IF st.status # Running THEN st
    ELSE IF turns = 0 THEN Stop(st, SymbolOf("endless"))
    ELSE IF IsException(test.val) THEN Unspecified(st)
    ELSE IF test.val.truth
    THEN Turn(prog, i, InBlock(prog, i + 1, EndOf(prog, i), test.st, NoNames),
              turns - 1)
    ELSE test.st

ForEach(prog, i, st, rest) ==
    IF rest = <<>> \/ st.status # Running THEN st
    ELSE ForEach(prog, i, InBlock(prog, i + 1, EndOf(prog, i), st,
                                  prog[i].name :> Head(rest)), Tail(rest))

Interpret(prog, args) ==
    CallFunction(prog, [at |-> 0, env |-> <<>>], args)
-----------------------------------------------------------------------------
(* Which programs are wrong, said of the program's text.                    *)

\* The blocks around statement k, its own first when it evaluates in its own.
RECURSIVE Around(_, _)
Around(prog, b) == IF b = 0 THEN {0} ELSE {b} \union Around(prog, BlockOf(prog, b))

Decl(name, block, at, kind) ==
    [name |-> name, block |-> block, at |-> at, kind |-> kind]
Declarations(prog) ==
    LET Inside(k) ==          \* names of the function's own: they come first
            LET names == ParametersOf(prog, k)
                Kind(n) == IF n = "self" /\ prog[k].s # "method" THEN "self" ELSE "var"
            IN {Decl(names[i], k, k - 1, Kind(names[i])) : i \in DOMAIN names}
               \union (IF prog[k].s # "function" THEN {}
                       ELSE {Decl("result", k, k - 1, "var"),
                             Decl(prog[k].name, k, k - 1, "function")})
        At(k, kind) == Decl(prog[k].name, BlockOf(prog, k), EndOf(prog, k),
                            IF InObject(prog, k) THEN "member" ELSE kind)
        Of(k) ==
            CASE prog[k].s \in {"var", "def"} -> {At(k, prog[k].s)}
              [] prog[k].s = "for" -> {Decl(prog[k].name, k, k, "var")}
              [] prog[k].s \in {"function", "method", "object"} ->
                    {At(k, "function")} \union Inside(k)
              [] OTHER -> {}
    IN {Decl(n, 0, 0, "var") : n \in {"p", "q", "result"}}
       \union {d \in UNION {Of(k) : k \in DOMAIN prog} : d.at <= Len(prog)}

RECURSIVE NamesIn(_)
\* The names of an expression, with whether each is called.
NamesIn(e) ==
    LET InParts(parts) == UNION {NamesIn(parts[i]) : i \in DOMAIN parts}
        Own == {<<e.s, called>> : called \in BOOLEAN}
    IN CASE e.e = "identifier" -> {<<e.s, FALSE>>}
         [] e.e = "call" -> {<<e.s, TRUE>>} \union InParts(e.sub)
         [] e.e = "lambda" -> InParts(e.sub) \ Own
         [] e.e = "each" -> NamesIn(e.sub[1]) \union (InParts(Tail(e.sub)) \ Own)
         [] OTHER -> InParts(e.sub)

\* The variables a statement assigns; of some it reads the value first.
AssignedBy(st) ==
    CASE st.s \in {"set", "set member", "mutate"} -> {st.name}
      [] st.s = "set pair" -> {st.name, st.member}
      [] OTHER -> {}
ReadBy(st) == IF st.s \in {"set member", "mutate"} THEN {st.name} ELSE {}

\* Where a name is used: [name, use, block, at].
Mentions(prog) ==
    LET Where(k) == IF prog[k].s \in {"if", "else", "while", "function", "object"}
                    THEN k ELSE BlockOf(prog, k)
        Use(name, use, k) == [name |-> name, use |-> use, block |-> Where(k), at |-> k]
        Of(k) == {Use(m[1], IF m[2] THEN "call" ELSE "read", k) : m \in NamesIn(prog[k].exp)}
                 \union {Use(n, "read", k) : n \in ReadBy(prog[k])}
                 \union {Use(n, "set", k) : n \in AssignedBy(prog[k])}
    IN UNION {Of(k) : k \in DOMAIN prog}

\* The declaration a use at k in block b refers to, the innermost one.
Found(prog, decls, name, b, k) ==
    LET visible == {d \in decls :
                        d.name = name /\ d.at < k /\ d.block \in Around(prog, b)}
    IN {d \in visible : \A e \in visible : e.block <= d.block}

\* What blocks emit, first to last: [at, kind].  An if with a sync in some
\* branch counts as a sync, whatever its other branches do.
RECURSIVE KindsOf(_, _)
Emissions(prog, b) ==
    UNION {{[at |-> k, kind |-> kind] : kind \in EmitsAt(prog[k])}
              : k \in {k \in DOMAIN prog : BlockOf(prog, k) = b}}
    \union
    UNION {{[at |-> EndOf(prog, k), kind |-> kind] :
                kind \in KindsOf(prog, k) \ (IF "sync" \in KindsOf(prog, k)
                                             THEN {"yield"} ELSE {})}
              : k \in {k \in DOMAIN prog :
                          /\ BlockOf(prog, k) = b /\ EndOf(prog, k) <= Len(prog)
                          /\ prog[k].s \in {"if", "while", "for"}}}
KindsOf(prog, b) ==
    LET next == PartEnd(prog, b) IN
    {e.kind : e \in Emissions(prog, b)}
    \union (IF next <= Len(prog) /\ prog[next].s = "else" THEN KindsOf(prog, next)
             ELSE {})

\* The errors of a use of a name.
ErrorsOfUse(prog, decls, m) ==
    LET at == Found(prog, decls, m.name, m.block, m.at)
        closures == {j \in Around(prog, m.block) \ {0} :
                        prog[j].s \in {"function", "method", "object"}}
        kinds == {d.kind : d \in at}
    IN {"undefined" : i \in {i \in {1} : at = {}}}
       \union (CASE m.use = "call" ->
                    {"subscript non-function" : k \in kinds \ {"function"}}
                 [] m.use = "read" ->
                    {"direct member reference" : k \in kinds \intersect {"member"}}
                 [] m.use = "set" ->
                    {UpdateError(k) : k \in kinds \ {"var"}}
                    \union {"object member redefinition" : i \in {i \in {1} : InObject(prog, m.at)}}
                    \union {"context variable redefinition" : d \in {d \in at :
                        /\ d.kind = "var"
                        \* A block inside the function assigns when it ends.
                        /\ \E j \in closures :
                              /\ d.block < j
                              /\ \A b \in Around(prog, m.block) :
                                    b > j => EndOf(prog, b) <= Len(prog)}})

ErrorsOf(prog, decls, uses) ==
    LET blocks == {0} \union {k \in DOMAIN prog : Opens(prog[k])}
    IN UNION {ErrorsOfUse(prog, decls, m) : m \in uses}
       \union {"already defined" : d \in {d \in decls :
            \/ \E e \in decls : e.name = d.name /\ e.block = d.block
                               /\ (e.at < d.at \/ (e.at = d.at /\ e # d))
            \* The block has used the name of a block around it.
            \/ \E m \in uses :
                  /\ m.name = d.name /\ m.at <= d.at /\ d.block \in Around(prog, m.block)
                  /\ LET at == Found(prog, decls, m.name, m.block, m.at) IN
                     at # {} /\ \A e \in at : e.block < d.block}}
       \union UNION {
            {IF e.kind = "sync" THEN "sync inside generator" ELSE "yield inside task"
                : e \in {e \in Emissions(prog, b) :
                            \E f \in Emissions(prog, b) : f.at < e.at /\ f.kind # e.kind}}
            : b \in blocks}
       \union {"yield inside member dispatch" : k \in {k \in DOMAIN prog :
            InObject(prog, k) /\ EmitsAt(prog[k]) # {}}}
       \union {"object member redefinition" : k \in {k \in DOMAIN prog :
            InObject(prog, k) /\ prog[k].s \in {"assert", "trace"}}}
       \union {"else outside if" : k \in {k \in DOMAIN prog : prog[k].s = "else"
            /\ ~\E j \in DOMAIN prog : prog[j].s \in {"if", "else"} /\ PartEnd(prog, j) = k}}

Errors(prog) ==
    UNION {ErrorsOf(prog, decls, Mentions(prog)) : decls \in {Declarations(prog)}}
=============================================================================
