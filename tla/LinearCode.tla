------------------------------ MODULE LinearCode -------------------------------
(***************************************************************************)
(* src/linearcode: a function's expression, walked in post order, becomes  *)
(* a list of instructions, one register to a node; and what the            *)
(* instructions compute.  The repository has no back end at this commit:   *)
(* Run and the operators it calls say what the runtime library and the     *)
(* comments of linearcode.h promise of each instruction, with sequences    *)
(* and tasks as the list of what they emit and their final value.          *)
(***************************************************************************)
EXTENDS FlowGraph, Integers, TLC

CONSTANT MaxTurns      \* how often a loop turns, or calls nest, before it is endless

\* The address of a node's value: functions and intrinsics have no register.
RECURSIVE FindNode(_, _), Instruction(_, _), Linear(_)
FindNode(order, n) ==
    CASE n.op = "function" -> [link |-> Linear(n)]
      [] n.op = "intrinsic" -> [intrinsic |-> n.s]
      [] n.op = "nil" -> [void |-> TRUE]
      [] OTHER -> [register |-> CHOOSE i \in DOMAIN order : order[i] = n]

\* Linearizer::Process: the instruction that sets the register of n.  A call
\* of a loop stands for LoopWhile, Call and Repeat.
Instruction(order, n) ==
    LET Find(m) == FindNode(order, m)
        FindAll(s) == [i \in DOMAIN s |-> Find(s[i])]
        op == AsOperation(n).op
    IN CASE op \in {"nil", "intrinsic", "arg", "function", "loop"} ->
                [code |-> "none"]
         [] op \in {"number", "symbol", "import", "parameter", "slot", "self"} ->
                [code |-> op, node |-> n]
         [] op \in {"assert", "chain"} ->
                [code |-> op, left |-> Find(Left(n)), right |-> Find(Right(n))]
         [] op = "call" /\ AsOperation(Left(n)).op = "loop" ->
                [code |-> "repeat", condition |-> Find(Left(Left(n))),
                 operation |-> Find(Right(Left(n))),
                 start |-> Find(Right(Right(n)))]
         [] op \in {"call", "capture"} ->
                [code |-> op, target |-> Find(Left(n)),
                 args |-> FindAll(ArgList(Right(n)))]
         [] OTHER -> [code |-> "unknown"]

Linear(function) ==
    LET order == Walk(function.exp) IN
    [arity |-> function.arity,
     code |-> [i \in DOMAIN order |-> Instruction(order, order[i])],
     result |-> FindNode(order, function.exp)]

\* The addresses an instruction reads.
Operands(ins) ==
    CASE ins.code \in {"assert", "chain"} -> {ins.left, ins.right}
      [] ins.code = "repeat" -> {ins.condition, ins.operation, ins.start}
      [] ins.code \in {"call", "capture"} ->
            {ins.target} \union {ins.args[i] : i \in DOMAIN ins.args}
      [] OTHER -> {}

-----------------------------------------------------------------------------
(* Values.  Each kind is a record with fields of its own. *)

IntOf(n) == [int |-> n]
SymbolOf(s) == [symbol |-> s]
Exception(v) == [exception |-> v]
Raised(why) == Exception(SymbolOf(why))
Closure(lic, slots) == [function |-> lic, slots |-> slots]
Tuple(s) == [tuple |-> s]
SequenceOf(out, final) == [sequence |-> out, final |-> final]
IteratorOf(out, final) == [iterator |-> out, final |-> final]
Boolean(b) == Closure(Linear(IF b THEN True ELSE False), <<>>)

IsException(v) == "exception" \in DOMAIN v

\* What a thrown value is worth as an iterator: it emits nothing.
AsIterator(v) == IF IsException(v) THEN IteratorOf(<<>>, v) ELSE v
First(v) == CASE "sequence" \in DOMAIN v -> IteratorOf(v.sequence, v.final)
              [] "tuple" \in DOMAIN v -> IteratorOf(v.tuple, Raised("not_valid"))
              [] OTHER -> Raised("not a sequence")
Joined(it, rest) == IteratorOf(it.iterator \o AsIterator(rest).iterator,
                               AsIterator(rest).final)

\* What `io` answers when a task performs the action n.
Response(n) == n + 1

\* What a map that starts blank holds.
Entries(v) == IF "map" \in DOMAIN v THEN v.map ELSE [k \in {} |-> Nil]

RECURSIVE Invoke(_, _, _), Perform(_, _, _, _, _), LoopWhile(_, _, _, _),
          LoopDecide(_, _, _, _)

\* A boolean picks its first or second argument; what is thrown picks none.
Holds(v, turns) == Invoke(v, <<IntOf(1), IntOf(0)>>, turns) = IntOf(1)

\* The methods of ints, symbols, maps, sequences and iterators.
InvokeMethod(m, args) ==
    LET self == args[1]
        Are(kind) == \A i \in DOMAIN args : kind \in DOMAIN args[i]
    IN
    IF \E i \in DOMAIN args : IsException(args[i])
    THEN args[Min({i \in DOMAIN args : IsException(args[i])})]
    ELSE CASE m = "add" /\ Are("int") -> IntOf(self.int + args[2].int)
           [] m = "subtract" /\ Are("int") -> IntOf(self.int - args[2].int)
           [] m \in {"insert", "assign"} ->
                [map |-> args[2].symbol :> args[3] @@ Entries(self)]
           [] m = "lookup" ->
                IF args[2].symbol \in DOMAIN Entries(self)
                THEN Entries(self)[args[2].symbol] ELSE Raised("not found")
           [] m = "compare_to" /\ Are("symbol") ->
                [relation |-> IF self = args[2] THEN 2 ELSE 3]
           [] m = "compare_to" /\ Are("int") ->
                [relation |-> IF self.int < args[2].int THEN 1
                              ELSE IF self.int = args[2].int THEN 2 ELSE 3]
           [] m \in {"iterate", "start"} -> First(self)
           [] m = "is_valid" -> Boolean(self.iterator # <<>>)
           [] m = "current" ->
                IF self.iterator = <<>> THEN self.final ELSE Head(self.iterator)
           [] m = "next" ->
                IF self.iterator = <<>> THEN Raised("not_valid")
                ELSE IteratorOf(Tail(self.iterator), self.final)
           [] OTHER -> Raised("not found")

\* The intrinsics, and the functions of core.radian after their first argument.
InvokeIntrinsic(s, args, turns) ==
    CASE s = "map_blank" -> [method |-> args[1].symbol]
      [] s = "throw" -> IF IsException(args[1]) THEN args[1] ELSE Exception(args[1])
      [] s = "is_not_exceptional" -> Boolean(~IsException(args[1]))
      [] s = "debug_trace" -> args[3]
      [] s = "tuple" -> Tuple(args)
      [] s = "parallelize" -> args[1]
      [] s \in {"loop_sequencer", "loop_task"} ->
            LET it == AsIterator(LoopDecide(args[1], args[2], args[3], turns))
            IN SequenceOf(it.iterator, it.final)

InvokeCore(s, args, turns) ==
    CASE s = "make_terminator" -> IteratorOf(<<>>, args[1])
      [] s = "make_iterator" ->
            Joined(IteratorOf(<<args[1]>>, args[1]),
                   Invoke(args[2], <<args[1]>>, turns))
      [] s \in {"make_subsequence", "make_subtask"} ->
            IF IsException(args[1]) THEN args[1]
            ELSE Joined(args[1], Invoke(args[2], <<args[1].final>>, turns))
      [] s = "make_seq_or_task" ->
            SequenceOf(AsIterator(args[1]).iterator, AsIterator(args[1]).final)
      [] s = "map" ->
            IF IsException(args[1]) THEN args[1]
            ELSE SequenceOf([i \in DOMAIN args[1].sequence |->
                                Invoke(args[2], <<args[1].sequence[i]>>, turns)],
                            args[1].final)
      [] s = "filter" ->
            IF IsException(args[1]) THEN args[1]
            ELSE SequenceOf(SelectSeq(args[1].sequence,
                                LAMBDA v : Holds(Invoke(args[2], <<v>>, turns), turns)),
                            args[1].final)

\* CALL: a target and its arguments.
Invoke(target, args, turns) ==
    LET Is(kind) == kind \in DOMAIN target IN
    IF turns = 0 THEN Raised("endless")
    ELSE CASE Is("exception") -> target
      [] Is("function") ->
            LET lic == target.function
                registers == FoldLeft(
                    LAMBDA r, ins : Append(r, Perform(ins, r, target, args, turns)),
                    <<>>, lic.code)
            IN IF lic.arity # Len(args) THEN Raised("arity")
               ELSE IF "register" \in DOMAIN lic.result
               THEN registers[lic.result.register]
               ELSE IF "link" \in DOMAIN lic.result
               THEN Closure(lic.result.link, <<>>) ELSE [void |-> TRUE]
      [] Is("intrinsic") -> InvokeIntrinsic(target.intrinsic, args, turns)
      [] Is("import") /\ target.import = "core" -> [core |-> args[1].symbol]
      [] Is("import") /\ target.import = "io" ->
            IF IsException(args[1]) THEN args[1]
            ELSE SequenceOf(<<args[1]>>, IntOf(Response(args[1].int)))
      [] Is("core") -> InvokeCore(target.core, Tail(args), turns)
      [] Is("relation") -> args[target.relation]
      [] Is("method") -> InvokeMethod(target.method, args)
      [] Is("tuple") /\ "symbol" \notin DOMAIN args[1] ->
            IF IsException(args[1]) THEN args[1] ELSE target.tuple[args[1].int + 1]
      [] OTHER -> IF IsException(args[1]) THEN args[1]
                  ELSE [method |-> args[1].symbol]

\* The value an instruction leaves in its register.
Perform(ins, registers, self, args, turns) ==
    LET Value(a) ==
            CASE "register" \in DOMAIN a -> registers[a.register]
              [] "link" \in DOMAIN a -> Closure(a.link, <<>>)
              [] OTHER -> a
        Values(s) == [i \in DOMAIN s |-> Value(s[i])]
    IN CASE ins.code = "number" -> IntOf(ins.node.n)
         [] ins.code = "symbol" -> SymbolOf(ins.node.s)
         [] ins.code = "import" -> [import |-> ins.node.s]
         [] ins.code = "parameter" -> args[ins.node.i + 1]
         [] ins.code = "slot" -> self.slots[ins.node.i + 1]
         [] ins.code = "self" -> self
         [] ins.code = "assert" ->
                IF IsException(Value(ins.left)) \/ Holds(Value(ins.left), turns)
                THEN Value(ins.left) ELSE Raised("assert")
         [] ins.code = "chain" ->
                IF IsException(Value(ins.left)) THEN Value(ins.left)
                ELSE Value(ins.right)
         [] ins.code = "call" ->
                Invoke(Value(ins.target), Values(ins.args), turns - 1)
         [] ins.code = "capture" ->
                Closure(ins.target.link, Values(ins.args))
         [] ins.code = "repeat" ->
                LoopWhile(Value(ins.condition), Value(ins.operation),
                          Value(ins.start), turns - 1)
         [] OTHER -> [void |-> TRUE]

\* LoopWhile, Call, Repeat: the last value for which the condition is not true.
LoopWhile(condition, operation, value, turns) ==
    IF turns = 0 THEN Raised("endless")
    ELSE IF Holds(Invoke(condition, <<value>>, turns), turns)
    THEN LoopWhile(condition, operation,
                   Invoke(operation, <<value>>, turns), turns - 1)
    ELSE value

\* Loop_Sequence_Decide and Loop_Task_Decide with the sequences run to their end.
LoopDecide(condition, operation, value, turns) ==
    LET flag == Invoke(condition, <<value>>, turns)
        sub == Invoke(operation, <<value>>, turns)
    IN IF turns = 0 THEN Raised("endless")
       ELSE IF IsException(value) THEN value
       ELSE IF IsException(flag) THEN flag
       ELSE IF ~Holds(flag, turns) THEN IteratorOf(<<>>, value)
       ELSE IF IsException(sub) THEN sub
       ELSE Joined(First(sub), LoopDecide(condition, operation, sub.final, turns - 1))

\* A compiled function called with the arguments of a test.
Run(function, args) == Invoke(Closure(Linear(function), <<>>), args, MaxTurns)
=============================================================================
