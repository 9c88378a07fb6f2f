--------------------------------- MODULE Scanner -------------------------------
(***************************************************************************)
(* src/lex/scanner.cpp and token.cpp: the characters of a file become      *)
(* tokens, one with each call of Next.  A character is its name and one    *)
(* position wide; letters and white space stand for their Unicode classes. *)
(*                                                                         *)
(* A definition that stands right before the one it varies, and is used    *)
(* nowhere, is a slip the code could have made; the properties catch it.   *)
(***************************************************************************)
EXTENDS Naturals, FiniteSetsExt, SequencesExt

CONSTANTS
    Sources,     \* the files: sequences of characters
    Oddities,    \* odd ways to write that are not left out, see Odd
    Keywords     \* words of the language, in lower case

VARIABLES
    source,
    scan,        \* the position, the line, where it began, and whether it is over
    tokens       \* what Current answered after each call
vars == <<source, scan, tokens>>

Digits == {"0", "1", "2", "7", "9"}
LowerOf == [c \in {"A", "B", "F", "O", "U", "X"} |->
              CASE c = "A" -> "a" [] c = "B" -> "b" [] c = "F" -> "f"
                [] c = "O" -> "o" [] c = "U" -> "u" [] c = "X" -> "x"]
Letters == DOMAIN LowerOf \union {"a", "b", "f", "i", "n", "o", "u", "x"}
LineEnds == {"cr", "lf"}
Quotes == {"quote", "apostrophe"}
IdentStart == Letters \union {"_"}
IdentContinue == IdentStart \union Digits
HexDigits == Digits \union {"a", "b", "f", "A", "B", "F"}
FoldCase(c) == IF c \in DOMAIN LowerOf THEN LowerOf[c] ELSE c
Folded(s) == [i \in DOMAIN s |-> FoldCase(s[i])]

OneSign == {"(", ")", "[", "]", "{", "}", ".", "<", ">", "=", "+", "-", "&", ",", ":",
            "*", "/", "tab"}
TwoSigns == {<<"<", "<">>, <<">", ">">>, <<"*", "*">>, <<"<", "=">>, <<">", "=">>,
             <<"!", "=">>, <<"-", ">">>, <<"<", "-">>, <<"=", ">">>}
TokenMap == Keywords \union {<<c>> : c \in OneSign} \union TwoSigns

HexDigitVal(c) ==
    CASE c = "0" -> 0 [] c = "1" -> 1 [] c = "2" -> 2 [] c = "7" -> 7 [] c = "9" -> 9
      [] c \in {"a", "A"} -> 10 [] c \in {"b", "B"} -> 11 [] c \in {"f", "F"} -> 15
Value(digits) == FoldLeft(LAMBDA n, c : 16 * n + HexDigitVal(c), 0, digits)
\* Of the characters with a number, these have a name.
Numbers == [n \in {9, 10, 34, 97} |->
              CASE n = 9 -> "tab" [] n = 10 -> "lf" [] n = 34 -> "quote" [] n = 97 -> "a"]
CharOf(n) == IF n \in DOMAIN Numbers THEN Numbers[n] ELSE "other"
Escapes == [c \in {"backslash", "apostrophe", "quote", "a", "b", "f", "n"} |->
              CASE c = "a" -> "bell" [] c = "b" -> "backspace" [] c = "f" -> "feed"
                [] c = "n" -> "lf" [] OTHER -> c]
EscapedDigits == [c \in {"x", "u", "U"} |->
                    CASE c = "x" -> 2 [] c = "u" -> 4 [] c = "U" -> 6]

Size == Len(source)
\* The character that Next answers at a position: at the end it is no character.
At(i) == IF i < Size THEN source[i + 1] ELSE "bad"
Between(i, j) == SubSeq(source, i + 1, j)

Init ==
    /\ source \in Sources
    /\ scan = [pos |-> IF At(0) = "bom" THEN 1 ELSE 0,
               line |-> 0, lineStart |-> 0, flip |-> FALSE, done |-> FALSE]
    /\ tokens = <<>>

-----------------------------------------------------------------------------

\* A token in the making: the position, the end and the text of the token so
\* far, the hint, and the odd ways to write that were met.
Start == [pos |-> scan.pos + 1, end |-> scan.pos + 1, text |-> <<>>, hint |-> "unknown",
          odd |-> {}]
First == At(scan.pos)
Odd(t, oddity) == [t EXCEPT !.odd = @ \union {oddity}]

\* The loops that read on while characters are in a set, and move back to the
\* end of the token at the first that is not.
RunEnd(i, chars) == Min({k \in i..Size : k = Size \/ At(k) \notin chars})
Taken(t, chars) ==
    LET end == RunEnd(t.pos, chars) IN
    [t EXCEPT !.pos = end, !.end = end, !.text = @ \o Between(t.pos, end)]

Categorize(text, hint) ==
    IF hint \in {"identifier", "unknown"} /\ text \in TokenMap THEN "reserved" ELSE hint

\* Scan, with a line that begins behind the last one's end, and Current.
Give(t) ==
    LET line == IF scan.flip THEN scan.line + 1 ELSE scan.line
        lineStart == IF scan.flip THEN scan.pos ELSE scan.lineStart
    IN /\ t.odd \subseteq Oddities
       /\ scan' = [scan EXCEPT !.pos = t.pos, !.line = line, !.lineStart = lineStart,
                               !.flip = t.hint = "eol"]
       /\ tokens' = Append(tokens, [text |-> t.text, type |-> Categorize(t.text, t.hint),
                                    line |-> line, start |-> scan.pos - lineStart,
                                    end |-> t.end - lineStart])
       /\ UNCHANGED source

ScanComment ==
    /\ First = "#"
    /\ LET end == Min({k \in Start.pos..Size : k = Size \/ At(k) \in LineEnds}) IN
       Give([Start EXCEPT !.hint = "comment", !.pos = end, !.end = end])

ScanWhitespace ==
    /\ First = "space"
    /\ LET end == RunEnd(Start.pos, {"space"}) IN
       Give([Start EXCEPT !.hint = "whitespace", !.pos = end, !.end = end])

\* After a cr the next character is read, and given back unless it is lf.
AfterCRNotGivenBack(i) == IF First = "cr" /\ i < Size THEN i + 1 ELSE i
AfterCR(i) == IF First = "cr" /\ At(i) = "lf" THEN i + 1 ELSE i
ScanEOL ==
    /\ First \in LineEnds
    /\ LET end == AfterCR(Start.pos) IN
       Give([Start EXCEPT !.hint = "eol", !.pos = end, !.end = end])

\* An "=" may end a name.  The end of the token moves with what follows the
\* first letter; where nothing does, the scanner moves back to the end that t has,
\* unless the file is over.
Identifier(t) ==
    LET end == RunEnd(t.pos, IdentContinue)
        stop == IF At(end) = "=" THEN end + 1 ELSE end
        named == [t EXCEPT !.hint = "identifier", !.text = Folded(@ \o Between(t.pos, stop))]
    IN CASE stop > t.pos -> [named EXCEPT !.pos = stop, !.end = stop]
         [] stop = t.pos /\ t.pos < Size -> [named EXCEPT !.pos = t.end]
         [] stop = t.pos /\ t.pos = Size -> named
ScanIdentifier == First \in IdentStart /\ Give(Identifier([Start EXCEPT !.text = <<First>>]))

\* A colon that ends the file has no text.  The end stands behind the colon when
\* the first letter is read: a symbol of one letter ends before that letter.
Symbol(letter) ==
    LET named == Identifier([Start EXCEPT !.pos = @ + 1, !.text = <<letter>>])
        symbol == [named EXCEPT !.hint = "symbol"]
    IN IF symbol.end = Start.end THEN Odd(symbol, "short symbol") ELSE symbol
ScanSymbol ==
    /\ First = ":"
    /\ LET next == At(Start.pos) IN
       Give(CASE Start.pos = Size -> Odd(Start, "last colon")
              [] Start.pos < Size /\ next \in IdentStart -> Symbol(next)
              [] OTHER -> [Start EXCEPT !.text = <<":">>])

ScanOperator ==
    /\ First \notin IdentStart \union Digits \union Quotes \union LineEnds
                    \union {"#", "space", ":", "bad"}
    /\ LET two == <<First, At(Start.pos)>> IN
       Give(IF Start.pos < Size /\ two \in TokenMap
            THEN [Start EXCEPT !.pos = @ + 1, !.end = @ + 1, !.text = two]
            ELSE [Start EXCEPT !.text = <<First>>])

ScanError == First = "bad" /\ Give([Start EXCEPT !.hint = "error"])

-----------------------------------------------------------------------------
(* Numbers *)

\* ScanHex, ScanOct and ScanBin.  A letter with no digit behind it is given
\* back, but not at the end of the file.
Based(t, hint, digits) ==
    LET read == Taken([t EXCEPT !.pos = @ + 1, !.text = <<>>, !.hint = hint], digits) IN
    IF read.text # <<>> THEN read
    ELSE Odd([read EXCEPT !.pos = IF t.pos + 1 = Size THEN Size ELSE t.end, !.end = t.end],
             "no digits")

BaseOf == [c \in {"x", "X", "o", "O", "b", "B"} |->
             CASE FoldCase(c) = "x" -> <<"hex", HexDigits>>
               [] FoldCase(c) = "o" -> <<"oct", Digits \ {"9"}>>
               [] FoldCase(c) = "b" -> <<"bin", {"0", "1"}>>]

\* Digits and points, in any order.
Decimal(t) ==
    LET read == Taken(t, Digits \union {"."})
        points == {i \in DOMAIN read.text : read.text[i] = "."}
        real == [read EXCEPT !.hint = "real"]
    IN CASE points = {} -> read
         [] Cardinality(points) = 1 /\ Len(read.text) \notin points -> real
         [] OTHER -> Odd(real, "point")

\* An f behind any kind of number, and the position back at the end if it is
\* something else.
Suffixed(t) ==
    LET next == At(t.pos)
        float == [t EXCEPT !.pos = @ + 1, !.end = t.pos + 1, !.hint = "float",
                           !.text = Append(@, next)]
    IN CASE t.pos = Size -> t
         [] t.pos < Size /\ next \in {"f", "F"} ->
                IF t.hint = "real" THEN float ELSE Odd(float, "float without point")
         [] OTHER -> [t EXCEPT !.pos = t.end]

\* Zero and more digits are "some bogus literal".
Checked(t) ==
    IF t.hint = "integer" /\ First = "0" /\ Len(t.text) > 1 THEN [t EXCEPT !.hint = "unknown"]
    ELSE t

ScanNumber ==
    /\ First \in Digits
    /\ LET t == [Start EXCEPT !.hint = "integer", !.text = <<First>>]
           next == At(t.pos)
           read == IF First = "0" /\ next \in DOMAIN BaseOf
                   THEN Based(t, BaseOf[next][1], BaseOf[next][2])
                   ELSE Decimal(t)
       IN Give(Checked(Suffixed(read)))

-----------------------------------------------------------------------------
(* Strings *)

Failed(t) == [t EXCEPT !.hint = "error", !.end = t.pos]
Put(t, c) == [t EXCEPT !.text = Append(@, c)]

\* StringChar: where the digits end too soon, one character more is gone.
StringChar(t, count) ==
    LET end == Min({t.pos + count, RunEnd(t.pos, HexDigits)})
        n == Value(Between(t.pos, end))
        ended == Put([t EXCEPT !.pos = end], CharOf(n))
        gone == Put(Failed([t EXCEPT !.pos = end + 1]), "bad")
    IN CASE end < t.pos + count /\ end < Size ->
                IF At(end) \in LineEnds THEN Odd(gone, "line end in escape") ELSE gone
         [] n > 1114111 -> Odd(ended, "no character")
         [] OTHER -> ended

RECURSIVE StringFrom(_)
Escaped(t) ==
    LET c == At(t.pos)
        next == [t EXCEPT !.pos = @ + 1]
    IN CASE c \in DOMAIN Escapes -> StringFrom(Put(next, Escapes[c]))
         [] c \in DOMAIN EscapedDigits -> StringFrom(StringChar(next, EscapedDigits[c]))
         [] c \in LineEnds -> Odd(Failed(next), "line end in escape")
         [] OTHER -> Failed(next)
\* The token may end before the position where an error was found.
StringFrom(t) ==
    LET c == At(t.pos)
        next == [t EXCEPT !.pos = @ + 1]
    IN CASE t.pos = Size -> Odd(t, "open string")
         [] t.pos < Size /\ c = First -> [next EXCEPT !.end = next.pos]
         [] c \in LineEnds -> [t EXCEPT !.hint = "error", !.pos = t.end]
         [] c = "backslash" /\ next.pos < Size -> Escaped(next)
         [] t.pos < Size /\ c = "bad" -> StringFrom(Odd(Put(next, c), "bad character"))
         [] OTHER -> StringFrom(Put(next, c))
ScanString == First \in Quotes /\ Give(StringFrom([Start EXCEPT !.hint = "string"]))

-----------------------------------------------------------------------------

Scan ==
    \/ ScanComment \/ ScanIdentifier \/ ScanNumber \/ ScanString \/ ScanEOL
    \/ ScanWhitespace \/ ScanSymbol \/ ScanError \/ ScanOperator

Next ==
    /\ ~scan.done
    /\ \/ scan.pos < Size /\ Scan
       \/ /\ scan.pos = Size
          /\ scan' = [scan EXCEPT !.done = TRUE]
          /\ UNCHANGED <<source, tokens>>

Spec == Init /\ [][Next]_vars
================================================================================
