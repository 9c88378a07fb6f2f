------------------------------- MODULE SourceText ------------------------------
(***************************************************************************)
(* What a text is, without the parser: the grammar that the comments of    *)
(* expressionparser.cpp and statementparser.cpp give, lines and blocks,    *)
(* the words a statement stands for, and how missing ends are made up.     *)
(***************************************************************************)
EXTENDS BlockStacker, FiniteSetsExt

Slice(s, i, j) == SubSeq(s, i, j)
From(s, i) == SubSeq(s, i, Len(s))

(* The grammar. *)

RECURSIVE Indented(_)
Indented(s) == IF s # <<>> /\ Head(s) = "indent" THEN Indented(Tail(s)) ELSE s
\* A line may break after an operator and after a dot.
Unbroken(s) == IF s # <<>> /\ Head(s) = "eol" THEN Indented(Tail(s)) ELSE s

RECURSIVE IsExp(_), IsTerm(_), IsList(_, _)

\* Expressions, each after a word that begins it, or without the word.
IsList(s, flags) ==
    IF flags = <<>> THEN IsExp(s)
    ELSE \/ IsList(s, Tail(flags))
         \/ \E i \in DOMAIN s : s[i] = Head(flags) /\ IsList(From(s, i + 1), Tail(flags))
                                /\ IsExp(Slice(s, 1, i - 1))
IsEnclosed(s, open, close) ==
    Len(s) > 2 /\ Head(s) = open /\ Last(s) = close /\ IsExp(Slice(s, 2, Len(s) - 1))
IsCall(s) == Len(s) > 1 /\ Head(s) \in Identifiers /\ IsEnclosed(Tail(s), "(", ")")
IsEvaluation(s) == (Len(s) = 1 /\ Head(s) \in Identifiers) \/ IsCall(s)
IsComprehension(s) ==
    \E i \in DOMAIN s :
        /\ s[i] = "in" /\ s[1] = "each"
        /\ IsList(Slice(s, 2, i - 1), <<"from">>) /\ IsList(From(s, i + 1), <<"where">>)

IsPrimary(s) ==
    \/ IsEvaluation(s)
    \/ Len(s) = 1 /\ Head(s) \in Literals \union {"sync"}
    \/ \E pair \in {<<"(", ")">>, <<"[", "]">>, <<"{", "}">>} : IsEnclosed(s, pair[1], pair[2])
    \/ Len(s) > 1 /\ Head(s) \in {"throw", "sync"} /\ IsEnclosed(Tail(s), "(", ")")
    \/ /\ Len(s) > 3 /\ Head(s) \in {"invoke", "capture"} /\ s[2] = "(" /\ Last(s) = ")"
       /\ IsList(Slice(s, 3, Len(s) - 1), <<":">>)
    \/ IsComprehension(s)

IsTerm(s) ==
    \/ IsPrimary(s)
    \/ s # <<>> /\ Head(s) \in {"-", "not", "poison"} /\ IsTerm(Tail(s))
    \/ \E i \in 2..Len(s) :
        /\ \/ IsEnclosed(From(s, i), "[", "]")
           \/ s[i] = "." /\ IsEvaluation(Unbroken(From(s, i + 1)))
        /\ IsTerm(Slice(s, 1, i - 1))

IsExp(s) ==
    \/ IsTerm(s)
    \/ \E i \in 2..Len(s) : /\ s[i] \in BinOps /\ IsTerm(Unbroken(From(s, i + 1)))
                            /\ IsExp(Slice(s, 1, i - 1))

RECURSIVE IsTarget(_)
IsTargetName(s) ==
    /\ Len(s) % 2 = 1
    /\ \A i \in DOMAIN s : IF i % 2 = 1 THEN s[i] \in Identifiers ELSE s[i] = "->"
IsTarget(s) ==
    \/ IsTargetName(s)
    \/ \E i \in 2..Len(s) : IsTargetName(Slice(s, 1, i - 1)) /\ IsEnclosed(From(s, i), "[", "]")
    \/ /\ Len(s) > 2 /\ <<Head(s), Last(s)>> \in {<<"(", ")">>, <<"[", "]">>, <<"{", "}">>}
       /\ IsTarget(Slice(s, 2, Len(s) - 1))
    \/ \E i \in DOMAIN s : s[i] = "," /\ IsTarget(Slice(s, 1, i - 1)) /\ IsTarget(From(s, i + 1))

\* Lines, with holes for names, expressions and parameters.
Patterns ==
    {<<word, "EXP">> : word \in {"assert", "debug_trace", "sync", "yield"}} \union
    {<<"yield", "from", "EXP">>, <<"def", "NAME", "=", "EXP">>, <<"var", "NAME">>,
     <<"var", "NAME", "=", "EXP">>, <<"else", ":">>, <<"else", "if", "EXP", ":">>,
     <<"if", "EXP", ":">>, <<"while", "EXP", ":">>, <<"for", "NAME", "in", "EXP", ":">>,
     <<"function", "NAME", "PARAMETER", "=", "EXP">>, <<"function", "NAME", "PARAMETER", ":">>,
     <<"method", "NAME", "PARAMETER", ":">>, <<"object", "NAME", "PARAMETER", ":">>,
     <<"object", "NAME", "PARAMETER", "from", "EXP", ":">>, <<"import", "NAME">>,
     <<"import", "NAME", "from", "EXP">>, <<"end">>, <<"end", "NAME">>, <<"end", "if">>,
     <<"end", "while">>, <<"TARGET", "=", "EXP">>, <<"TARGET", "PARAMETER">>}

Fills(s, hole) ==
    CASE hole = "EXP" -> IsExp(s)
      [] hole = "NAME" -> Len(s) = 1 /\ Head(s) \in Identifiers
      [] hole = "PARAMETER" -> s = <<>> \/ IsEnclosed(s, "(", ")")
      [] hole = "TARGET" -> IsTarget(s)
      [] OTHER -> s = <<hole>>
RECURSIVE Fits(_, _)
Fits(s, pattern) ==
    IF Len(pattern) = 1 THEN Fills(s, Head(pattern))
    ELSE \E i \in 0..Len(s) : /\ Fills(Slice(s, 1, i), Head(pattern))
                              /\ Fits(From(s, i + 1), Tail(pattern))

(* Lines and blocks. *)

\* Where the line that begins at i ends: not after an operator or a dot.
EndOfLine(i) ==
    Min({Len(text)} \union
        {k \in i..Len(text) :
            /\ text[k] = "eol"
            /\ k > i /\ text[k - 1] \in BinOps \union {"."} =>
                   text[k - 1] = "if" /\ k > i + 1 /\ text[k - 2] = "end"})
RECURSIVE LinesFrom(_)
LinesFrom(i) ==
    IF i > Len(text) THEN <<>>
    ELSE LET k == EndOfLine(i)
             line == Slice(text, i, IF text[k] = "eol" THEN k - 1 ELSE k)
             words == Indented(line)
         IN (IF words = <<>> THEN <<>>
             ELSE <<[words |-> words, level |-> Len(line) - Len(words)]>>)
            \o LinesFrom(k + 1)
Lines == LinesFrom(1)

Opens(line) ==
    \/ Head(line.words) \in {"if", "while", "for", "method", "object"}
    \/ Head(line.words) = "function" /\ Last(line.words) = ":"
Closes(line) == Head(line.words) = "end"
NameOf(line) ==
    IF Head(line.words) \in {"if", "while"} THEN Head(line.words) ELSE line.words[2]

BlocksMatch(lines) ==
    LET Opened(k) == {j \in 1..k : Opens(lines[j])}
        Closed(k) == {j \in 1..k : Closes(lines[j])}
        Depth(k) == Cardinality(Opened(k)) - Cardinality(Closed(k))
        Opener(k) == Max({j \in Opened(k) : Depth(j) = Depth(k - 1)})
        IsPart(line) == Closes(line) \/ Head(line.words) = "else"
        Level(k) == LET n == Depth(k - 1) IN
                    IF IsPart(lines[k]) /\ n > 0 THEN n - 1 ELSE n
    IN /\ \A k \in DOMAIN lines :
            /\ Depth(k) >= 0
            /\ lines[k].level = Level(k)
            /\ Closes(lines[k]) /\ Len(lines[k].words) = 2 =>
                   lines[k].words[2] = NameOf(lines[Opener(k)])
       /\ Depth(Len(lines)) = 0

WellWritten ==
    /\ Last(text) = "eol"
    /\ \A i \in DOMAIN Lines : \E pattern \in Patterns : Fits(Lines[i].words, pattern)
    /\ BlocksMatch(Lines)

(* The words of a statement. *)

RECURSIVE TextOf(_)
Optional(flag, e) == IF e = None THEN <<>> ELSE flag \o TextOf(e)
TextOf(e) ==
    LET Part(i) == TextOf(e.sub[i]) IN
    CASE e.sub = <<>> -> <<e.op>>
      [] IsABinOp(e) -> Part(1) \o <<e.op>> \o Part(2)
      [] e.op \in {".", "->"} -> Part(1) \o <<e.op>> \o Part(2)
      [] e.op = "(" -> <<"(">> \o Part(1) \o <<")">>
      [] e.op = "[" -> <<"[">> \o Part(1) \o <<"]">>
      [] e.op = "{" -> <<"{">> \o Part(1) \o <<"}">>
      [] e.op = "call" -> Part(1) \o <<"(">> \o Part(2) \o <<")">>
      [] e.op = "lookup" -> Part(1) \o <<"[">> \o Part(2) \o <<"]">>
      [] e.op \in {"throw", "sync"} -> <<e.op, "(">> \o Part(1) \o <<")">>
      [] e.op \in {"invoke", "capture"} ->
            <<e.op, "(">> \o Part(1)
            \o (IF Len(e.sub) = 2 THEN <<":">> \o Part(2) ELSE <<>>) \o <<")">>
      [] e.op = "each" ->
            <<"each">> \o Part(1) \o Optional(<<"from">>, e.sub[2])
            \o <<"in">> \o Part(3) \o Optional(<<"where">>, e.sub[4])
      [] OTHER -> <<e.op>> \o Part(1)

\* Parentheses around a target leave no trace, but a tuple that stands in a
\* tuple needs them.
RECURSIVE TargetTexts(_)
TargetTexts(e) ==
    LET Par(s) == <<"(">> \o s \o <<")">>
        core == IF e.op # "," THEN {TextOf(e)}
                ELSE {l \o <<",">> \o r : l \in TargetTexts(e.sub[1]),
                                          r \in TargetTexts(e.sub[2])}
    IN core \union {Par(s) : s \in core}

\* The lines that are read as the statement.
TextsOf(st) ==
    LET First == TextOf(st.parts[1])
        Named == <<st.kind, st.name>>
        OptionalFirst(flag) == Optional(flag, st.parts[1])
    IN CASE st.kind \in {"assert", "debug_trace", "sync", "yield"} -> {<<st.kind>> \o First}
         [] st.kind = "yield from" -> {<<"yield", "from">> \o First}
         [] st.kind = "def" -> {Named \o <<"=">> \o First}
         [] st.kind = "var" -> {Named \o OptionalFirst(<<"=">>)}
         [] st.kind = "import" -> {Named \o OptionalFirst(<<"from">>)}
         [] st.kind = "else" -> {<<"else">> \o OptionalFirst(<<"if">>) \o <<":">>}
         [] st.kind \in {"if", "while"} -> {<<st.kind>> \o First \o <<":">>}
         [] st.kind = "for" -> {Named \o <<"in">> \o First \o <<":">>}
         [] st.kind = "method" -> {Named \o OptionalFirst(<<>>) \o <<":">>}
         [] st.kind = "object" -> {Named \o OptionalFirst(<<>>)
                                   \o Optional(<<"from">>, st.parts[2]) \o <<":">>}
         [] st.kind = "function" -> {Named \o OptionalFirst(<<>>)
                \o (IF st.parts[2] = None THEN <<":">> ELSE Optional(<<"=">>, st.parts[2]))}
         [] st.kind = "end" -> {IF st.name = NoName THEN <<"end">> ELSE Named}
         [] st.kind = "set" -> {t \o <<"=">> \o TextOf(st.parts[2]) : t \in TargetTexts(st.parts[1])}
         [] st.kind = "mutate" -> {t \o Optional(<<>>, st.parts[2]) : t \in TargetTexts(st.parts[1])}

\* An operator's operands bind tighter, or as tight on the side it leans to.
RECURSIVE Associated(_)
Associated(e) ==
    /\ \A i \in DOMAIN e.sub : Associated(e.sub[i])
    /\ IsABinOp(e) =>
        LET Fits2(operand, side) ==
                IsABinOp(operand) =>
                    \/ Precedence(operand.op) > Precedence(e.op)
                    \/ Precedence(operand.op) = Precedence(e.op) /\ side
        IN /\ Fits2(e.sub[1], e.op \notin RightAssociative)
           /\ Fits2(e.sub[2], e.op \in RightAssociative)

Expressions(st) ==
    IF st.kind \in {"set", "mutate"} THEN {st.parts[2]} ELSE {st.parts[i] : i \in DOMAIN st.parts}

(* Ends that are missing. *)

RECURSIVE AllStatements(_)
StatementsFrom(r) ==
    IF r.st = NoStatement \/ Hung(r.p) THEN <<>> ELSE <<r.st>> \o AllStatements(r.p)
AllStatements(p) == StatementsFrom(NextInput(p))

\* An end closes the innermost block of its name and all blocks inside; if
\* there is none it is left out.
Repaired(sts) ==
    LET EndsOf(open, st) == {i \in DOMAIN open : EndsThisBlock(st, open[i])}
        Put(done, st) ==
            CASE IsBlockBegin(st) ->
                    [out |-> Append(done.out, st), open |-> Append(done.open, BlockName(st))]
              [] ~IsBlockEnd(st) -> [done EXCEPT !.out = Append(@, st)]
              [] IsBlockEnd(st) /\ EndsOf(done.open, st) = {} -> done
              [] OTHER ->
                    LET i == Max(EndsOf(done.open, st)) IN
                    [out |-> done.out \o [k \in 1..(Len(done.open) - i + 1) |-> AnyBlockEnd],
                     open |-> Slice(done.open, 1, i - 1)]
        all == FoldLeft(Put, [out |-> <<>>, open |-> <<>>], sts)
    IN all.out \o [k \in DOMAIN all.open |-> AnyBlockEnd]

-----------------------------------------------------------------------------
(* What the front end owes a text. *)

Done == reader.phase = Finished

\* expressionparser.cpp, statementparser.cpp and blockstacker.cpp report an
\* error exactly for the texts that the language refuses: lines that no
\* pattern fits, blocks that do not match, wrong indentation.
ReportsExactly == Done => (reader.p.errors = {} <=> WellWritten)

\* The statements of a text without errors are its words, all and in order,
\* and their operators have the operands that precedence gives them.
ReadsWhatIsWritten ==
    Done /\ reader.p.errors = {} =>
        /\ SelectSeq(text, LAMBDA tk : tk \notin {"eol", "indent"}) \in
             FoldLeft(LAMBDA S, st : {s \o t : s \in S, t \in TextsOf(st)}, {<<>>}, out)
        /\ \A i \in DOMAIN out : \A e \in Expressions(out[i]) : Associated(e)

\* Whatever the text, the parser comes to its end, and every statement is
\* handed out once and in order, with ends such that blocks match ("guaranteed
\* to be semantically balanced", main.cpp).
HandedOut ==
    SelectSeq([i \in DOMAIN out |-> IF IsBlockEnd(out[i]) THEN AnyBlockEnd ELSE out[i]],
              LAMBDA st : st.kind # "blank")
HandsOutBalanced ==
    /\ ~Hung(reader.p)
    /\ reader.phase # Writing =>
        \E repaired \in {Repaired(AllStatements(AtStart(text)))} :
            IF Done THEN HandedOut = repaired ELSE IsPrefix(HandedOut, repaired)
=============================================================================
