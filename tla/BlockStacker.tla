------------------------------ MODULE BlockStacker -----------------------------
(***************************************************************************)
(* src/parse/blanklinefilter.cpp and blockstacker.cpp: the statements of  a *)
(* text, one at a time, with blank lines left out and blocks made to match: *)
(* an end that is missing is made up, one that is too many becomes a blank *)
(* line, and an error is reported.                                         *)
(*                                                                         *)
(* A definition that stands right before the one it varies, and is used    *)
(* nowhere, is a slip the code could have made; the properties catch it.   *)
(***************************************************************************)
EXTENDS Parser, SequencesExt

CONSTANTS
    TextShapes,      \* lists of sets of token lists: what may come first, second ...
    Places           \* ways to write that are not left out: "flush break", "cut off"

VARIABLES
    shape,
    text,            \* the tokens of the file
    reader,          \* the parser, its statement, the one handed out, and the stack
    out              \* every statement handed out
vars == <<shape, text, reader, out>>

Writing == "writing"
Reading == "reading"
Finished == "finished"

Init ==
    /\ shape \in TextShapes
    /\ text = <<>>
    /\ reader = [phase |-> Writing, written |-> 0, p |-> AtStart(<<>>),
                 input |-> NoStatement,
                 current |-> NoStatement, made |-> FALSE, stack |-> <<>>]
    /\ out = <<>>

\* The file is written piece by piece, and read once it is complete.
Write(piece) ==
    /\ reader.phase = Writing /\ reader.written < Len(shape)
    /\ piece \in shape[reader.written + 1]
    /\ text' = text \o piece
    /\ reader' = [reader EXCEPT !.written = @ + 1]
    /\ UNCHANGED <<shape, out>>

\* A file ends with the end of a line.
Close ==
    /\ reader.phase = Writing /\ text # <<>>
    /\ Last(text) # "eol" => "cut off" \in Places
    /\ reader' = [reader EXCEPT !.phase = Reading, !.p = AtStart(text)]
    /\ UNCHANGED <<shape, text, out>>

-----------------------------------------------------------------------------

IsBlockEnd(st) == st.kind = "end"
IsBlockBegin(st) ==
    \/ st.kind \in {"if", "while", "for", "method", "object"}
    \/ st.kind = "function" /\ st.parts[2] = None
DelimitsBlock(st) == st.kind = "else"
\* The name an end may give: a declaration's, a for loop's variable, or "if"
\* and "while".
BlockName(st) == IF st.kind \in {"if", "while"} THEN st.kind ELSE st.name
EndsThisBlock(st, name) == st.name \in {NoName, name}

\* BlankLineFilter::Next.
RECURSIVE NextInput(_)
NotBlank(r) == IF r.st.kind = "blank" THEN NextInput(r.p) ELSE r
NextInput(p) == NotBlank(ParseLine(p))

PulledAlways(r) == NextInput(r.p)
\* An end that was made up stands before the statement that showed that it is
\* missing, which is still to be handed out.
Pulled(r) ==
    IF r.made /\ IsBlockEnd(r.current) THEN Got(r.p, r.input) ELSE NextInput(r.p)

TargetLevelOfEnd(st, depth) == IF depth > 0 /\ IsBlockEnd(st) THEN depth - 1 ELSE depth
TargetLevel(st, depth) ==
    IF depth > 0 /\ (IsBlockEnd(st) \/ DelimitsBlock(st)) THEN depth - 1 ELSE depth

CheckIndentation(p, st, depth) ==
    IF st.level = TargetLevel(st, depth) THEN p ELSE Report(p, "indentation")

Popped == IF IsBlockEnd(reader.current) THEN Front(reader.stack) ELSE reader.stack
StackContains(name) == \E i \in DOMAIN Popped : Popped[i] = name

\* BlockStacker::Next, with the block of an end that was handed out off the
\* stack: the next statement is st, what is handed out may be made up instead.
HandOut(p, st, given, made, stack) ==
    /\ p.reached \subseteq Places
    /\ reader' = [reader EXCEPT !.p = p, !.input = st, !.current = given,
                                !.made = made, !.stack = stack]
    /\ out' = Append(out, given)
    /\ UNCHANGED <<shape, text>>

PassOn(p, st) ==
    /\ st # NoStatement /\ ~IsBlockEnd(st)
    /\ HandOut(p, st, st, FALSE,
               IF IsBlockBegin(st) THEN Append(Popped, BlockName(st)) ELSE Popped)

EndBlock(p, st) ==
    /\ IsBlockEnd(st) /\ Popped # <<>> /\ EndsThisBlock(st, Last(Popped))
    /\ HandOut(p, st, st, FALSE, Popped)

\* The end names a block further out.
EndInnerBlock(p, st) ==
    /\ IsBlockEnd(st) /\ Popped # <<>> /\ ~EndsThisBlock(st, Last(Popped))
    /\ StackContains(st.name)
    /\ HandOut(Report(p, "unmatched begin"), st, AnyBlockEnd, TRUE, Popped)

DropEnd(p, st) ==
    /\ IsBlockEnd(st)
    /\ Popped # <<>> => ~EndsThisBlock(st, Last(Popped)) /\ ~StackContains(st.name)
    /\ HandOut(Report(p, "unmatched end"), st, BlankLine, TRUE, Popped)

\* The file ends before its blocks do.
EndOpenBlock(p, st) ==
    /\ st = NoStatement /\ Popped # <<>>
    /\ HandOut(Report(p, "unmatched begin"), st, AnyBlockEnd, TRUE, Popped)

Finish(p, st) ==
    /\ st = NoStatement /\ Popped = <<>>
    /\ p.reached \subseteq Places
    /\ reader' = [reader EXCEPT !.phase = Finished, !.p = p, !.input = st,
                                !.current = st, !.made = FALSE, !.stack = Popped]
    /\ UNCHANGED <<shape, text, out>>

ReadNext ==
    /\ reader.phase = Reading /\ ~Hung(reader.p)
    /\ \E r \in {Pulled(reader)} :
        LET p == IF r.st = NoStatement THEN r.p
                 ELSE CheckIndentation(r.p, r.st, Len(Popped))
        IN \/ PassOn(p, r.st) \/ EndBlock(p, r.st) \/ EndInnerBlock(p, r.st)
           \/ DropEnd(p, r.st) \/ EndOpenBlock(p, r.st) \/ Finish(p, r.st)

WritePiece == \E piece \in UNION {shape[i] : i \in DOMAIN shape} : Write(piece)
Next == WritePiece \/ Close \/ ReadNext

Spec == Init /\ [][Next]_vars
=============================================================================
