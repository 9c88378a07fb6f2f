--------------------------------- MODULE Parser --------------------------------
(***************************************************************************)
(* src/parse/parsercore.cpp, expressionparser.cpp, statementparser.cpp and *)
(* the precedence of src/ast/binop.cpp: a list of tokens becomes           *)
(* statements.  Comments and spaces, which Core::Next skips, are not in    *)
(* the list.  A parser's state p is the place in the text with what was    *)
(* reported; p.ok is what the last method of it answered.  At the end of   *)
(* the text the last token stays the current one.                          *)
(*                                                                         *)
(* A definition that stands right before the one it varies, and is used    *)
(* nowhere, is a slip the code could have made; the properties catch it.   *)
(***************************************************************************)
EXTENDS Naturals, Sequences

CONSTANTS
    NextReturns,     \* Core::Next returns at a token that it does not skip
    Identifiers,     \* the tokens that are names
    MaxStalls        \* a parser that asks so often for more than there is never ends

Literals == {"1", "true", ":symbol"}

\* Precedence levels, from loose to tight.
Precedences == <<{","}, {"=>"}, {"as"}, {"if", "else"}, {"and", "or", "xor"},
                 {"<", ">", "=", "!=", "<=", ">=", "has"}, {"<<", ">>"},
                 {"+", "-", "&"}, {"*", "/", "mod"}, {"**"}>>
BinOps == UNION {Precedences[i] : i \in DOMAIN Precedences}
Precedence(op) == CHOOSE i \in DOMAIN Precedences : op \in Precedences[i]
Brackets == [br \in {"(", "[", "{"} |->
               CASE br = "(" -> ")" [] br = "[" -> "]" [] br = "{" -> "}"]
RightAssociative == {"=>", "if", "else", "**"}

-----------------------------------------------------------------------------
(* Core *)

AtStart(text) ==
    [text |-> text, pos |-> 0, ok |-> TRUE, errors |-> {}, stalls |-> 0, reached |-> {}]
AtEnd(p) == p.pos = Len(p.text)
Current(p) == p.text[p.pos]
Hung(p) == p.stalls > MaxStalls
Report(p, error) == [p EXCEPT !.errors = @ \union {error}]
SyntaxError(p) == Report(p, "syntax")

\* The loop of Core::Next means to skip the tokens that are left out here, and
\* to return at any other.  But the break there leaves the switch alone: the
\* loop in the code, where NextReturns is FALSE, returns at the end of the text.
CoreNext(p) ==
    IF AtEnd(p) \/ ~NextReturns THEN [p EXCEPT !.pos = Len(p.text), !.ok = FALSE]
    ELSE [p EXCEPT !.pos = @ + 1, !.ok = TRUE]

RECURSIVE NextInputToken(_)
Fetched(q) ==
    CASE ~q.ok -> [SyntaxError(q) EXCEPT !.stalls = @ + 1]
      [] q.ok /\ Current(q) \in {"error", "unknown"} -> NextInputToken(SyntaxError(q))
      [] OTHER -> q
NextInputToken(p) == Fetched(CoreNext(p))

Match(p, tk) ==
    IF Current(p) = tk THEN NextInputToken(p) ELSE [p EXCEPT !.ok = FALSE]

Expect(p, tks) ==
    IF Current(p) \in tks THEN NextInputToken(p)
    ELSE [SyntaxError(p) EXCEPT !.ok = FALSE]

\* Synchronize at the end of a line.
RECURSIVE SkipLine(_)
Skipped(q) == IF ~q.ok \/ Current(q) = "eol" THEN q ELSE SkipLine(q)
SkipLine(p) == Skipped(CoreNext(p))
Synchronize(p) == IF Current(p) = "eol" THEN p ELSE SkipLine(SyntaxError(p))

-----------------------------------------------------------------------------
(* Expressions: trees of an operator, or a token, and its operands. *)

Node(op, sub) == [op |-> op, sub |-> sub]
Leaf(tk) == Node(tk, <<>>)
Dummy == Leaf("dummy")
None == Leaf("none")
IsABinOp(e) == e.op \in BinOps /\ Len(e.sub) = 2
Read(p, e) == [p |-> p, exp |-> e]

BindsTighterLeft(e, left) == Precedence(e.op) >= Precedence(left.op)
BindsTighter(e, left) ==
    \/ Precedence(e.op) > Precedence(left.op)
    \/ Precedence(e.op) = Precedence(left.op) /\ e.op \in RightAssociative

\* A new operator moves down the right side of the tree on its left.
RECURSIVE Reassociate(_)
Below(left, e) ==
    IF IsABinOp(left) /\ BindsTighter(e, left)
    THEN Node(left.op, <<left.sub[1],
                         Reassociate(Node(e.op, <<left.sub[2], e.sub[2]>>))>>)
    ELSE e
Reassociate(e) == Below(e.sub[1], e)

RECURSIVE SkipIndents(_)
SkipIndents(p) ==
    IF Current(p) # "indent" \/ Hung(p) THEN p ELSE SkipIndents(NextInputToken(p))

\* After the break one token more is skipped; without an indent there, it is
\* one of the expression's.
AfterBreak(m) ==
    IF ~m.ok THEN m
    ELSE SkipIndents(NextInputToken(
            [m EXCEPT !.reached = IF Current(m) = "indent" THEN @
                                  ELSE @ \union {"flush break"}]))
SkipOptionalLinebreak(p) == AfterBreak(Match(p, "eol"))

\* The methods that call each other without end; e is the expression so far.
RECURSIVE Parse(_, _, _)
ParseExpression(p) == Parse("expression", p, None)
ParseTerm(p) == Parse("term", p, None)
MorePostfixes(r) == Parse("postfixes", r.p, r.exp)
MoreOperators(r) == Parse("operators", r.p, r.exp)

IfFound(m) == IF m.ok THEN ParseExpression(m) ELSE Read(m, None)
OptionalExpression(p, flag) == IfFound(Match(p, flag))

\* An expression and the token that closes it.
ClosedBy(r, op, close) == Read(Expect(r.p, {close}), Node(op, <<r.exp>>))
Enclosed(p, op, close) == ClosedBy(ParseExpression(p), op, close)

IfOpen(m, op) == IF m.ok THEN Enclosed(m, op, ")") ELSE Read(m, None)
OptionalEnclosed(p, op) == IfOpen(Match(p, "("), op)

Evaluated(args, tk) ==
    Read(args.p, IF args.exp = None THEN Leaf(tk)
                 ELSE Node("call", <<Leaf(tk), args.exp.sub[1]>>))
ParseEvaluation(p, tk) == Evaluated(OptionalEnclosed(p, "args"), tk)

\* ParseInvoke and ParseCapture: one expression, or two with a colon between.
Paired(second, first, op) ==
    Read(Expect(second.p, {")"}),
         Node(op, IF second.exp = None THEN <<first.exp>>
                  ELSE <<first.exp, second.exp>>))
PairedWith(first, op) == Paired(OptionalExpression(first.p, ":"), first, op)
ParsePair(p, op) == PairedWith(ParseExpression(Expect(p, {"("})), op)

SyncOf(r) == IF r.exp = None THEN Read(r.p, Leaf("sync")) ELSE r
ParseSync(p) == SyncOf(OptionalEnclosed(p, "sync"))

Each(output, var, input, where) ==
    Read(where.p, Node("each", <<output.exp, var.exp, input.exp, where.exp>>))
EachWhere(output, var, input) ==
    Each(output, var, input, OptionalExpression(input.p, "where"))
EachIn(output, var) == EachWhere(output, var, ParseExpression(Expect(var.p, {"in"})))
EachFrom(output) == EachIn(output, OptionalExpression(output.p, "from"))
ParseListComprehension(p) == EachFrom(ParseExpression(p))

Prefixed(tk, r) == Read(r.p, Node(tk, <<r.exp>>))
Primary(tk, q) ==
    CASE tk \in Identifiers -> ParseEvaluation(q, tk)
      [] tk \in Literals -> Read(q, Leaf(tk))
      [] tk \in {"-", "not", "poison"} -> Prefixed(tk, ParseTerm(q))
      [] tk \in DOMAIN Brackets -> Enclosed(q, tk, Brackets[tk])
      [] tk \in {"invoke", "capture"} -> ParsePair(q, tk)
      [] tk = "sync" -> ParseSync(q)
      [] tk = "throw" -> Enclosed(Expect(q, {"("}), tk, ")")
      [] tk = "each" -> ParseListComprehension(q)
      [] OTHER -> Read(SyntaxError(q), Dummy)
ParsePrimary(p) == Primary(Current(p), NextInputToken(p))

LookedUp(e, sub) == Read(sub.p, Node("lookup", <<e, sub.exp.sub[1]>>))
Member(e, member) == Read(member.p, Node(".", <<e, member.exp>>))
NamedMember(e, q, name) ==
    IF name.ok THEN MorePostfixes(Member(e, ParseEvaluation(name, Current(q))))
    ELSE Read(name, e)
ParseMember(q, e) == NamedMember(e, q, Expect(q, Identifiers))

\* ParseTerm's loop; "->" is an error that is read like the dot.
IfArrow(m, e) ==
    IF m.ok THEN ParseMember(SkipOptionalLinebreak(SyntaxError(m)), e) ELSE Read(m, e)
IfDot(m, e) ==
    IF m.ok THEN ParseMember(SkipOptionalLinebreak(m), e) ELSE IfArrow(Match(m, "->"), e)
IfLookup(m, e) ==
    IF m.ok THEN MorePostfixes(LookedUp(e, Enclosed(m, "lookup", "]")))
    ELSE IfDot(Match(m, "."), e)

Operated(p, e, right) ==
    MoreOperators(Read(right.p, Reassociate(Node(Current(p), <<e, right.exp>>))))

Parse(goal, p, e) ==
    CASE Hung(p) -> Read(p, IF goal \in {"expression", "term"} THEN Dummy ELSE e)
      [] goal = "expression" -> MoreOperators(ParseTerm(p))
      [] goal = "term" -> MorePostfixes(ParsePrimary(p))
      [] goal = "postfixes" -> IfLookup(Match(p, "["), e)
      [] goal = "operators" /\ Current(p) \in BinOps ->
            Operated(p, e, ParseTerm(SkipOptionalLinebreak(NextInputToken(p))))
      [] OTHER -> Read(p, e)

-----------------------------------------------------------------------------
(* Statements: the kind, the name they declare or end, and their           *)
(* expressions, with the number of indents before them.                    *)

NoName == ""
Statement(kind, name, parts) ==
    [kind |-> kind, name |-> name, parts |-> parts, level |-> 0]
NoStatement == Statement("none", NoName, <<>>)
BlankLine == Statement("blank", NoName, <<>>)
AnyBlockEnd == Statement("end", NoName, <<>>)
Got(p, st) == [p |-> p, st |-> st]

\* What stands after the word a statement begins with: a token, a name to
\* declare, an expression, or one that a token introduces.
Item(do, tk) == [do |-> do, tk |-> tk]
Word(tk) == Item("word", tk)
Declared == Item("name", "")
Exp == Item("exp", "")
Maybe(flag) == Item("maybe", flag)
Parameter == Item("parameter", "")
Begun == Word(":")

Production ==
    [assert |-> <<Exp>>, debug_trace |-> <<Exp>>, sync |-> <<Exp>>,
     def |-> <<Declared, Word("="), Exp>>,
     var |-> <<Declared, Maybe("=")>>,
     else |-> <<Maybe("if"), Begun>>,
     if |-> <<Exp, Begun>>, while |-> <<Exp, Begun>>,
     for |-> <<Declared, Word("in"), Exp, Begun>>,
     method |-> <<Declared, Parameter, Begun>>,
     object |-> <<Declared, Parameter, Maybe("from"), Begun>>,
     import |-> <<Declared, Maybe("from")>>]

With(st, r) == Got(r.p, [st EXCEPT !.parts = Append(@, r.exp)])
ParseItem(p, st, item) ==
    CASE item.do = "word" -> Got(Expect(p, {item.tk}), st)
      [] item.do = "name" -> Got(Expect(p, Identifiers), [st EXCEPT !.name = Current(p)])
      [] item.do = "exp" -> With(st, ParseExpression(p))
      [] item.do = "maybe" -> With(st, OptionalExpression(p, item.tk))
      [] item.do = "parameter" -> With(st, OptionalEnclosed(p, "("))

RECURSIVE ParseItems(_, _)
ParseItems(r, items) ==
    IF items = <<>> THEN r ELSE ParseItems(ParseItem(r.p, r.st, Head(items)), Tail(items))

\* A function with an expression needs no block.
WithOrWithoutBlock(r) ==
    IF r.st.parts[2] = None THEN Got(Expect(r.p, {":"}), r.st) ELSE r

YieldOf(r, from) ==
    Got(r.p, Statement(IF from.ok THEN "yield from" ELSE "yield", NoName, <<r.exp>>))
YieldFrom(from) == YieldOf(ParseExpression(from), from)
ParseYield(p) == YieldFrom(Match(p, "from"))

BlockEnd(p, tk, named) ==
    IF tk \in Identifiers \union {"if", "while"} /\ named.ok
    THEN Got(named, Statement("end", tk, <<>>))
    ELSE Got(IF tk = "eol" THEN p ELSE NextInputToken(SyntaxError(p)), AnyBlockEnd)
ParseBlockEnd(p) == BlockEnd(p, Current(p), Match(p, Current(p)))

\* What is assigned: names, their members, elements, and tuples of all these.
RECURSIVE ParseTargetItem(_), TargetMembers(_, _), MoreTargets(_)
ArrowMember(arrow, e) ==
    IF arrow.ok THEN TargetMembers(Expect(arrow, Identifiers),
                                   Node("->", <<e, Leaf(Current(arrow))>>))
    ELSE Read(arrow, e)
TargetMembers(p, e) == ArrowMember(Match(p, "->"), e)

TargetLookup(lookup, e) ==
    IF lookup.ok THEN LookedUp(e, Enclosed(lookup, "lookup", "]")) ELSE Read(lookup, e)
TargetElement(member) == TargetLookup(Match(member.p, "["), member.exp)

NextTarget(m, e, item) == MoreTargets(Read(item.p, Node(",", <<e, item.exp>>)))
IfComma(m, e) == IF m.ok THEN NextTarget(m, e, ParseTargetItem(m)) ELSE Read(m, e)
MoreTargets(r) == IfComma(Match(r.p, ","), r.exp)
ParseTarget(p) == MoreTargets(ParseTargetItem(p))

\* Parentheses leave no trace.
TargetIn(tk, target) ==
    Read(Expect(target.p, {Brackets[tk]}),
         IF tk = "(" THEN target.exp ELSE Node(tk, <<target.exp>>))
TargetItem(p, tk, m) ==
    CASE tk \in Identifiers /\ m.ok -> TargetElement(TargetMembers(m, Leaf(tk)))
      [] tk \in DOMAIN Brackets /\ m.ok -> TargetIn(tk, ParseTarget(m))
      [] OTHER -> Read(SyntaxError(p), Dummy)
ParseTargetItem(p) == TargetItem(p, Current(p), Match(p, Current(p)))

Assigned(target, val) == Got(val.p, Statement("set", NoName, <<target.exp, val.exp>>))
Mutated(target, args) == Got(args.p, Statement("mutate", NoName, <<target.exp, args.exp>>))
SetOrMutate(target) ==
    IF Current(target.p) = "="
    THEN Assigned(target, ParseExpression(Expect(target.p, {"="})))
    ELSE Mutated(target, OptionalEnclosed(target.p, "("))
ParseExprStatement(p) == SetOrMutate(ParseTarget(p))

\* The switch of ParseStatement.
Switch(tk, p, q) ==
    CASE tk = "eol" -> Got(p, BlankLine)
      [] tk = "end" -> ParseBlockEnd(q)
      [] tk = "yield" -> ParseYield(q)
      [] tk = "function" -> WithOrWithoutBlock(
              ParseItems(Got(q, Statement(tk, NoName, <<>>)),
                         <<Declared, Parameter, Maybe("=")>>))
      [] tk \in DOMAIN Production ->
              ParseItems(Got(q, Statement(tk, NoName, <<>>)), Production[tk])
      [] OTHER -> ParseExprStatement(p)

RECURSIVE ParseIndented(_, _)
AtLevel(r, level) == Got(r.p, [r.st EXCEPT !.level = level])
IfIndent(p, indent, level) ==
    IF indent.ok THEN ParseIndented(indent, level + 1)
    ELSE AtLevel(Switch(Current(p), indent, Expect(p, {Current(p)})), level)
ParseIndented(p, level) == IfIndent(p, Match(p, "indent"), level)

\* Engine::Next: the next line as a statement, NoStatement at the end.
LineRead(r) == Got(Synchronize(r.p), r.st)
LineAt(q) ==
    CASE ~q.ok -> Got(q, NoStatement)
      [] q.ok /\ Current(q) = "error" -> LineRead(Got(SyntaxError(q), BlankLine))
      [] OTHER -> LineRead(ParseIndented(q, 0))
ParseLine(p) == LineAt(CoreNext(p))
=============================================================================
