-------------------------------- MODULE Scopes ---------------------------------
(***************************************************************************)
(* src/semantics: how names become nodes.  The compiler's state is a stack *)
(* of scopes, c.stack, whose context is always the scope below, and the    *)
(* first error reported, c.error.  Every operator that may capture a name, *)
(* and so change scopes on the way, returns the state after it.            *)
(*                                                                         *)
(* A definition that stands right before the one it varies, and is used    *)
(* nowhere, is a slip the code could have made; the properties catch it.   *)
(***************************************************************************)
EXTENDS FlowGraph, TLC

NoSymbol == [kind |-> "undefined", val |-> Nil]
NoNames == [n \in {} |-> Nil]

\* The fields of a scope; a kind of scope uses those it needs.
Scope(what) ==
    [what |-> what,
     symbols |-> NoNames,        \* the active table: name -> [kind, val]
     definitions |-> NoNames,    \* every name the scope knows -> kind
     captured |-> {},            \* those that came from the context
     segments |-> <<>>,
     captures |-> <<>>,          \* Closure: values of its slots; IfThenElse: initial arguments
     arity |-> 0,                \* Closure: parameters so far
     name |-> "",                \* Function: its name; ForLoop: its iterator variable
     parameters |-> NoNames,     \* IfThenElse: name -> index
     branches |-> <<>>,          \* IfThenElse: the branches that are complete
     rebinds |-> {},             \* Block: names to assign in the context
     condition |-> Nil,          \* Branch, Loop
     opened |-> FALSE,           \* Object: do declarations become members?
     members |-> Intrinsic("map_blank"),   \* Object: the map of its members
     invariants |-> NoNames,     \* Loop: name -> placeholder
     updates |-> NoNames,
     starts |-> NoNames,         \* Loop: name -> value in the context
     sequence |-> Nil, contextIterator |-> Nil, localIterator |-> Nil]

\* Some fixed order, where the code has the order of addresses.
InOrder(S) == FoldSet(LAMBDA x, s : Append(s, x), <<>>, S)

With(f, name, v) == (name :> v) @@ f
Without(f, name) == [n \in DOMAIN f \ {name} |-> f[n]]

Top(c) == Len(c.stack)
Enter(c, scope) == [c EXCEPT !.stack = Append(@, scope)]
Leave(c) == [c EXCEPT !.stack = Front(@)]
ReportError(c, e) == [c EXCEPT !.error = IF @ = "none" THEN e ELSE @]

\* Self-dispatching scopes: functions declared in them get a self parameter.
NeedsImplicitSelf(scope) == scope.what = "object"

\* A name goes into the active table; it is not there yet.
Insert(c, d, name, sym) ==
    [c EXCEPT !.stack[d].symbols = With(@, name, sym)]

IsSegmented(scope) == scope.segments # <<>>
SegmentsSynchronize(scope) ==
    IsSegmented(scope) /\ Last(scope.segments).type = "sync"

-----------------------------------------------------------------------------
(* Segments: what is left of a scope's symbols at each yield or sync.      *)

Segment(symbols, value, type) ==
    [symbols |-> symbols, value |-> value, type |-> type,
     refs |-> NoNames, captures |-> <<>>]

\* The value a name has in the segment after the n-th: a slot, whose value the
\* n-th captures, or a value that is the same everywhere.
RECURSIVE SegmentResolve(_, _, _)
SegmentResolve(segments, n, name) ==
    IF name \in DOMAIN segments[n].refs
    THEN [segments |-> segments, sym |-> segments[n].refs[name]]
    ELSE LET prev == SegmentResolve(segments, n - 1, name)
             found == IF name \in DOMAIN segments[n].symbols THEN segments
                      ELSE [prev.segments EXCEPT
                                ![n].symbols = With(@, name, prev.sym)]
             here == found[n]
             val == here.symbols[name].val
             free == IsContextIndependent(val)
             ref == IF free THEN here.symbols[name]
                    ELSE [kind |-> here.symbols[name].kind,
                          val |-> Slot(Len(here.captures))]
         IN [segments |-> [found EXCEPT
                ![n].refs = With(@, name, ref),
                ![n].captures = IF free THEN @ ELSE Append(@, val)],
             sym |-> ref]

\* Segment::Iterator: each segment wraps the next one as a function.
Wrapped(segments, terminator) ==
    FoldRight(
        LAMBDA seg, next :
            LET follow == Captured(FunctionNode(next, 1), seg.captures)
                begin == IF seg.type = "sync" THEN "start" ELSE "iterate"
                sub == IF seg.type = "sync" THEN "make_subtask"
                       ELSE "make_subsequence"
            IN IF seg.type = "yield"
               THEN CallCore("make_iterator", <<seg.value, follow>>)
               ELSE CallCore(sub, <<Method(seg.value, begin, <<>>), follow>>),
        segments, terminator)

PackageSegmentedResult(segments, result) ==
    CallCore("make_seq_or_task",
        <<Wrapped(segments, CallCore("make_terminator", <<result>>))>>)

PushSegment(c, d, value, type) ==
    LET scope == c.stack[d]
        mixed == IsSegmented(scope) /\ ((type = "sync") # SegmentsSynchronize(scope))
        cut == [c EXCEPT
            !.stack[d].segments = Append(@, Segment(scope.symbols, value, type)),
            !.stack[d].symbols = NoNames]
    IN IF NeedsImplicitSelf(scope)
       THEN ReportError(c, "yield inside member dispatch")
       ELSE IF ~mixed THEN cut
       ELSE ReportError(cut, IF type = "sync" THEN "sync inside generator"
                             ELSE "yield inside task")

-----------------------------------------------------------------------------
(* Resolving a name: in the active table, in an earlier segment, or in the *)
(* context, whose value each kind of scope refers to in its own way.       *)

\* CreateLocalReference of Closure, IfThenElse, Branch and Loop.
LocalReference(c, d, name, val) ==
    LET scope == c.stack[d] IN
    CASE scope.what \in {"function", "method", "object"} ->
            IF IsContextIndependent(val) THEN [c |-> c, val |-> val]
            ELSE [c |-> [c EXCEPT !.stack[d].captures = Append(@, val)],
                  val |-> Slot(Len(scope.captures))]
      [] scope.what = "if" ->
            [c |-> [c EXCEPT !.stack[d].captures = Append(@, val),
                             !.stack[d].parameters =
                                With(@, name, Len(scope.captures))],
             val |-> Parameter(Len(scope.captures))]
      [] scope.what = "branch" ->
            [c |-> c, val |-> Parameter(c.stack[d - 1].parameters[name])]
      [] scope.what \in {"while", "for"} ->
            LET ref == Placeholder(Cardinality(DOMAIN scope.starts)) IN
            [c |-> [c EXCEPT !.stack[d].invariants = With(@, name, ref),
                             !.stack[d].starts = With(@, name, val)],
             val |-> ref]

RECURSIVE Resolve(_, _, _), RetrieveFromContext(_, _, _)

RetrieveFromContext(c, d, name) ==
    LET outer == IF d = 1 THEN [c |-> c, sym |-> NoSymbol]
                 ELSE Resolve(c, d - 1, name)
        local == LocalReference(outer.c, d, name, outer.sym.val)
        sym == [kind |-> outer.sym.kind, val |-> local.val]
        known == [local.c EXCEPT
                    !.stack[d].captured = @ \union {name},
                    !.stack[d].definitions = With(@, name, sym.kind)]
        scope == known.stack[d]
        \* PropagateCapturedValue, to the first segment, and back from there
        passed == SegmentResolve(
                    [scope.segments EXCEPT ![1].symbols = With(@, name, sym)],
                    Len(scope.segments), name)
    IN IF outer.sym.kind = "undefined" THEN outer
       ELSE IF ~IsSegmented(scope)
       THEN [c |-> Insert(known, d, name, sym), sym |-> sym]
       ELSE [c |-> Insert([known EXCEPT !.stack[d].segments = passed.segments],
                          d, name, passed.sym),
             sym |-> passed.sym]

RetrieveFromPreviousSegment(c, d, name) ==
    LET segments == c.stack[d].segments
        found == SegmentResolve(segments, Len(segments), name)
    IN [c |-> Insert([c EXCEPT !.stack[d].segments = found.segments],
                     d, name, found.sym),
        sym |-> found.sym]

Resolve(c, d, name) ==
    IF name \in DOMAIN c.stack[d].symbols
    THEN [c |-> c, sym |-> c.stack[d].symbols[name]]
    ELSE IF name \in DOMAIN c.stack[d].definitions
    THEN RetrieveFromPreviousSegment(c, d, name)
    ELSE RetrieveFromContext(c, d, name)

\* MemberDispatch: a value becomes a getter that an object's map holds; a
\* variable has a setter too, which gives the object a new map.
Wildcard == "~"
Setter(name) == name \o "="
WrapGetter(exp) == Captured(FunctionNode(Slot(0), 1), <<exp>>)
ObjectFunction ==
    LET lookup == Call(Slot(0), <<Symbol("lookup")>>)
        extractor == FunctionNode(Parameter(0), 2)
        relation == Compare(Parameter(0), Symbol(Wildcard))
        actor == Call(relation, <<lookup, extractor, lookup>>)
    IN FunctionNode(Call(actor, <<Slot(0), Parameter(0)>>), 1)
WrapObject(members) == Captured(ObjectFunction, <<members>>)
StandardSetter ==
    LET old == Call(Parameter(0), <<Symbol(Wildcard)>>)
        new == Method(old, "assign", <<Parameter(1), WrapGetter(Parameter(2))>>)
    IN FunctionNode(WrapObject(new), 3)
CustomSetter(name) ==
    FunctionNode(Call(StandardSetter, <<Parameter(0), Symbol(name), Parameter(1)>>), 2)

DefineMember(members, name, val, kind) ==
    LET withSetter ==
            IF kind # "var" THEN members
            ELSE Method(members, "insert", <<Symbol(Setter(name)), CustomSetter(name)>>)
    IN Method(withSetter, "insert",
              <<Symbol(name), IF kind = "function" THEN val ELSE WrapGetter(val)>>)

IsDefinedSinceYield(scope, name) == name \in DOMAIN scope.symbols
IsDefined(scope, name) == name \in DOMAIN scope.definitions

RECURSIVE Define(_, _, _, _, _)
Define(c, d, name, val, kind) ==
    IF c.stack[d].what = "object" /\ c.stack[d].opened /\ kind # "member"
    THEN Define([c EXCEPT !.stack[d].members = DefineMember(@, name, val, kind)],
                d, name, val, "member")
    ELSE IF IsDefined(c.stack[d], name)
    THEN ReportError(c, "already defined")
    ELSE Insert([c EXCEPT !.stack[d].definitions = With(@, name, kind)],
                d, name, [kind |-> kind, val |-> val])

-----------------------------------------------------------------------------
(* Assigning to a name: where it was captured, the scope has to see to the *)
(* context's variable.                                                     *)

UpdateError(kind) ==
    CASE kind = "var" -> "none"
      [] kind = "def" -> "constant redefinition"
      [] kind = "function" -> "function redefinition"
      [] kind = "self" -> "self redefinition"
      [] kind = "member" -> "member redefinition"
      [] kind = "undefined" -> "undefined"

\* The name in the active table, one way or the other, before the update.
Active(c, d, name) ==
    LET scope == c.stack[d] IN
    IF name \in DOMAIN scope.symbols THEN c
    ELSE IF name \in DOMAIN scope.definitions
    THEN Insert(c, d, name, [kind |-> scope.definitions[name], val |-> Nil])
    ELSE RetrieveFromContext(c, d, name).c

\* A loop's invariant that it assigns after all.
UpdatedToo(scope, name) ==
    [scope EXCEPT !.updates = With(@, name, scope.invariants[name]),
                  !.rebinds = @ \union {name}]
Updated(scope, name) ==
    [scope EXCEPT !.updates = With(@, name, scope.invariants[name]),
                  !.invariants = Without(@, name),
                  !.rebinds = @ \union {name}]

RECURSIVE Assign(_, _, _, _)
\* RebindInContext of Closure, Block, Loop and Branch.
RebindInContext(c, d, name, val) ==
    LET scope == c.stack[d] IN
    CASE scope.what \in {"function", "method", "object"} ->
            ReportError(c, "context variable redefinition")
      [] scope.what = "if" -> [c EXCEPT !.stack[d].rebinds = @ \union {name}]
      [] scope.what = "branch" -> Assign(c, d - 1, name, val)
      [] scope.what \in {"while", "for"} ->
            IF name \notin DOMAIN scope.invariants THEN c
            ELSE [c EXCEPT !.stack[d] = Updated(@, name)]

Assign(c, d, name, val) ==
    LET active == Active(c, d, name)
        symbols == active.stack[d].symbols
        kind == IF name \in DOMAIN symbols THEN symbols[name].kind
                ELSE "undefined"
        updated == [active EXCEPT !.stack[d].symbols[name].val = val]
    IN IF NeedsImplicitSelf(c.stack[d])
       THEN ReportError(c, "object member redefinition")
       ELSE IF UpdateError(kind) # "none" THEN ReportError(active, UpdateError(kind))
       ELSE IF name \in updated.stack[d].captured
       THEN RebindInContext(updated, d, name, val)
       ELSE updated

\* MakeContextAssignments: the tuple of results goes to the rebound variables
\* of the scope below.
MakeContextAssignments(c, d, values) ==
    LET names == InOrder(c.stack[d].rebinds) IN
    FoldLeft(LAMBDA state, i :
                Assign(state, d - 1, names[i], Call(values, <<Number(i - 1)>>)),
             c, [i \in DOMAIN names |-> i])
=============================================================================
