------------------------------- MODULE MCFrontEnd -----------------------------
(* Finite instances of the two halves of the front end, side by side: a     *)
(* behaviour is the reading of a list of tokens by the parser, or of a list *)
(* of characters by the scanner.                                            *)
EXTENDS Naturals, Sequences, SequencesExt

CONSTANTS NextReturns, Places, Identifiers, MaxStalls,  \* see Parser, BlockStacker
          Oddities                                      \* see Scanner

VARIABLES kind,                        \* what is read, "tokens" or "characters"
          shape, text, reader, out     \* see BlockStacker

frontEndVars == <<kind, shape, text, reader, out>>

(* Texts for the parser: each list of sets is a family of them. *)

\* Every operator beside every other, and operators that lean to either side.
Operators == {<<op>> : op \in {",", "=>", "as", "else", "and", "has", "<<", "-", "*", "**"}}
Chains == <<
    {<<"a", "=">>},
    {<<"a">>, <<"-", "b">>, <<"not", "a">>},
    Operators,
    {<<"b">>, <<"b", ".", "c">>},
    Operators,
    {<<"a">>},
    Operators,
    {<<"1", "eol">>, <<"error", "b", "eol">>}>>

\* What brackets and dots enclose, and where they are missing.
Marks == {<<tk>> : tk \in {"a", "(", ")", "[", "]", ".", "-", ",", "{", "}"}}
Groups == <<
    {<<"assert">>, <<"a", "=">>},
    {<<"a">>, <<"(">>, <<"[">>, <<"-">>, <<"{">>},
    Marks, Marks, Marks,
    {<<"eol">>, <<")", "eol">>, <<"]", "eol">>, <<"a", "}", "eol">>}>>

\* The words of statements, and the wrong words.
Words == <<
    {<<w>> : w \in {"assert", "def", "var", "yield", "if", "for", "function", "object",
                    "import", "sync", "method", "while"}}
      \union {<<"a">>, <<"else", "if">>, <<"a", "->">>, <<"(">>},
    {<<"a">>, <<"from">>, <<"a", "=">>, <<"a", "(", "b">>, <<"error", "a">>},
    {<<>>, <<"in">>, <<"from">>, <<"=">>, <<")">>, <<"->">>, <<",">>},
    {<<>>, <<"b">>, <<"[", "a", "]">>},
    {<<>>, <<":">>, <<"=", "b">>},
    {<<"eol">>, <<"eol", "indent", "a", "eol", "end", "eol">>, <<"eol", "end", "eol">>}>>

\* Expressions of more words than one.
Forms == <<
    {<<"x", "=">>},
    {<<"each">>, <<"invoke", "(">>, <<"capture", "(">>, <<"throw", "(">>, <<"sync", "(">>},
    {<<"a">>, <<"a", "*">>, <<"each", "b", "in">>},
    {<<>>, <<":", "b">>, <<"from", "b">>, <<"b">>},
    {<<"in">>, <<")">>, <<"in", "a">>},
    {<<"b">>, <<>>, <<"where", "a">>, <<"where">>},
    {<<"eol">>, <<")", "eol">>}>>

\* Lines of blocks, well and badly indented, in every order.
Tabs(n) == [i \in 1..n |-> "indent"]
BlockLines == {Tabs(n) \o line \o <<"eol">> : n \in 0..1, line \in {
    <<"if", "a", ":">>, <<"for", "a", "in", "b", ":">>, <<"end">>, <<"end", "a">>,
    <<"end", "if">>, <<"end", "while">>}} \union
    {<<"eol">>, <<"indent", "indent", "end", "eol">>, <<"else", ":", "eol">>,
     <<"indent", "assert", "a", "eol">>}
Outlines == <<{<<>>, <<"while", "b", ":", "eol">>}, BlockLines, BlockLines, BlockLines>>

\* Lines that break, or not where they may.
Breaks == <<
    {<<"a", "=">>, <<"assert">>, <<"if">>},
    {<<"a">>, <<"(", "a", ")">>, <<"a", "[", "b", "]">>},
    {<<"+">>, <<".">>, <<",">>, <<"and", "not">>},
    {<<"eol">>, <<"eol", "indent">>, <<"indent">>, <<"eol", "eol", "indent", "indent">>},
    {<<"b">>, <<"-", "b">>, <<"b", "(", "a", ")">>},
    {<<>>, <<":">>},
    {<<"eol">>, <<"eol", "end", "if", "eol">>}>>

TextShapes == {Chains, Groups, Words, Forms, Outlines, Breaks}

(* Files for the scanner, in families as well. *)

Each(chars) == {<<c>> : c \in chars}

\* Literals of all bases, and what is hardly one.
Figures == Each({"0", "1", "9", ".", "x", "O", "b", "f"})
Numerals == <<Each({"0", "7"}), Figures, Figures, Figures, Each({"1", "F", "lf"})>>

\* Escapes of every kind, and strings that break off.
Escaped(c) == <<"backslash", c>>
Strings == <<
    Each({"quote", "apostrophe"}),
    {<<>>, <<"a">>, <<"#">>, <<"bad">>, Escaped("n"), Escaped("quote"), Escaped("o"),
     Escaped("backslash")},
    {<<"quote">>, <<"apostrophe">>, <<"lf">>, Escaped("x") \o <<"2", "2">>,
     Escaped("u") \o <<"0", "0", "0", "a">>, Escaped("U") \o <<"1", "0", "f", "f", "f", "f">>,
     Escaped("U") \o <<"1", "1", "0", "0", "0", "0">>},
    {<<>>, <<"1">>, <<"a">>, Escaped("x") \o <<"0">>, Escaped("apostrophe")},
    {<<"quote">>, <<"apostrophe", "lf">>, <<"lf", "a">>, <<"cr", "quote", "a">>, <<"backslash">>}>>

\* Lines, words and signs beside one another.
Signs == Each({"i", "F", "1", "=", ":", "<", "-", "!", "#", "space", "cr", "lf"})
Files == <<{<<>>, <<"bom">>}, Signs, Signs, Signs,
           {<<>>, <<"tab">>, <<"bad">>, <<"cr", "lf">>, <<"*", "a">>, <<"=", ">">>}>>

Joined(family) == FoldLeft(LAMBDA S, P : {s \o p : s \in S, p \in P}, {<<>>}, family)
Sources == UNION {Joined(family) : family \in {Numerals, Strings, Files}}

-----------------------------------------------------------------------------

Parsing == INSTANCE SourceText
Scanning == INSTANCE TokenGrammar
              WITH source <- text, scan <- reader, tokens <- out,
                   Keywords <- {<<"i", "f">>, <<"i", "n">>}

FrontEndInit == \/ kind = "tokens" /\ Parsing!Init
                \/ kind = "characters" /\ shape = <<>> /\ Scanning!Init

FrontEndNext == \/ kind = "tokens" /\ Parsing!Next /\ UNCHANGED kind
                \/ kind = "characters" /\ Scanning!Next /\ UNCHANGED <<kind, shape>>

FrontEndSpec == FrontEndInit /\ [][FrontEndNext]_frontEndVars

-----------------------------------------------------------------------------
(* Errors are reported for exactly the texts that are not in the grammar of *)
(* expressionparser.cpp and statementparser.cpp, or badly indented.         *)
ReportsExactly == kind = "tokens" => Parsing!ReportsExactly

(* The statements of a text without errors are its words, with the operands *)
(* that precedence gives.                                                   *)
ReadsWhatIsWritten == kind = "tokens" => Parsing!ReadsWhatIsWritten

(* Every text comes to its end, its statements handed out once, in order,   *)
(* "guaranteed to be semantically balanced" (main.cpp).                     *)
HandsOutBalanced == kind = "tokens" => Parsing!HandsOutBalanced

(* Scanner.cpp: the tokens of a file are the longest that its characters    *)
(* form, with their texts and locations.                                    *)
TokensAsDescribed == kind = "characters" => Scanning!TokensAsDescribed
================================================================================
