------------------------------ MODULE TokenGrammar -----------------------------
(***************************************************************************)
(* What tokens a file has, without the scanner: the forms that the         *)
(* comments of scanner.cpp give for each type, the longest form at every   *)
(* place, and lines counted by their ends.                                 *)
(***************************************************************************)
EXTENDS Scanner

Part(s, i, j) == SubSeq(s, i, Min({j, Len(s)}))
AllIn(s, chars) == ToSet(s) \subseteq chars

IsName(s) ==
    /\ s # <<>> /\ Head(s) \in IdentStart
    /\ AllIn(IF Last(s) = "=" THEN Front(s) ELSE s, IdentContinue)
IsSign(c) == c \notin IdentContinue \union Quotes \union LineEnds
                       \union {"#", "space", "bad"}
IsReal(s) == \E i \in 2..(Len(s) - 1) : s[i] = "." /\ AllIn(RemoveAt(s, i), Digits)
IsBased(s, letter, digits) ==
    /\ Len(s) > 2 /\ s[1] = "0" /\ FoldCase(s[2]) = letter
    /\ AllIn(SubSeq(s, 3, Len(s)), digits)

\* What the beginning of s says inside a string: how many characters, and what
\* they stand for.
Units(s, delimiter) ==
    CASE Head(s) \in LineEnds \union {delimiter, "bad"} -> {}
      [] Head(s) = "backslash" ->
         {<<2, Escapes[c]>> : c \in DOMAIN Escapes \intersect ToSet(Part(s, 2, 2))}
         \union
         UNION {LET digits == Part(s, 3, EscapedDigits[c] + 2) IN
                IF Len(digits) = EscapedDigits[c] /\ AllIn(digits, HexDigits)
                   /\ Value(digits) <= 1114111
                THEN {<<Len(digits) + 2, CharOf(Value(digits))>>} ELSE {} :
                   c \in DOMAIN EscapedDigits \intersect ToSet(Part(s, 2, 2))}
      [] OTHER -> {<<1, Head(s)>>}
RECURSIVE Contents(_, _)
Contents(s, delimiter) ==
    IF s = <<>> THEN {<<>>}
    ELSE UNION {{<<unit[2]>> \o rest : rest \in Contents(SubSeq(s, unit[1] + 1, Len(s)), delimiter)} :
                   unit \in Units(s, delimiter)}
IsQuoted(s) == Len(s) > 1 /\ Head(s) \in Quotes /\ Last(s) = Head(s)

\* The types and texts that s can be a token of.
Readings(s) ==
    LET Where(holds, type, text) == IF holds THEN {<<type, text>>} ELSE {}
        digits == SubSeq(s, 3, Len(s))
        decimal == AllIn(s, Digits)
    IN Where(Head(s) = "#" /\ AllIn(s, ToSet(s) \ LineEnds), "comment", <<>>)
       \union Where(AllIn(s, {"space"}), "whitespace", <<>>)
       \union Where(s \in {<<"cr">>, <<"lf">>, <<"cr", "lf">>}, "eol", <<>>)
       \union Where(IsName(s), IF Folded(s) \in Keywords THEN "reserved" ELSE "identifier", Folded(s))
       \union Where(Head(s) = ":" /\ IsName(Tail(s)), "symbol", Folded(Tail(s)))
       \union Where(s \in TokenMap \ Keywords, "reserved", s)
       \union Where(Len(s) = 1 /\ IsSign(Head(s)) /\ s \notin TokenMap, "unknown", s)
       \union Where(decimal /\ (Head(s) = "0" => Len(s) = 1), "integer", s)
       \union Where(decimal /\ Head(s) = "0" /\ Len(s) > 1, "unknown", s)
       \union Where(IsReal(s), "real", s)
       \union Where(Last(s) \in {"f", "F"} /\ IsReal(Front(s)), "float", s)
       \union Where(IsBased(s, "x", HexDigits), "hex", digits)
       \union Where(IsBased(s, "o", Digits \ {"9"}), "oct", digits)
       \union Where(IsBased(s, "b", {"0", "1"}), "bin", digits)
       \union (IF IsQuoted(s)
               THEN {<<"string", text>> : text \in Contents(SubSeq(s, 2, Len(s) - 1), Head(s))}
               ELSE {})

(* Lines. *)

LineBegins ==
    {0} \union {i \in 1..Size : source[i] = "lf" \/ (source[i] = "cr" /\ At(i) # "lf")}
LineOf(i) == Cardinality({k \in LineBegins : k <= i}) - 1
LineBegin(i) == Max({k \in LineBegins : k <= i})

-----------------------------------------------------------------------------

AfterMark == IF At(0) = "bom" THEN 1 ELSE 0
StandsAt(token, i) == token.line = LineOf(i) /\ token.start = i - LineBegin(i)
IsLongest(i, j) == \A k \in (j + 1)..Size : Readings(Between(i, k)) = {}
IsRead(token, i, j) ==
    IF token.type = "error" THEN IsLongest(i, i)
    ELSE <<token.type, token.text>> \in Readings(Between(i, j)) /\ IsLongest(i, j)
Ends(n, j) == IF n = Len(tokens) THEN j = Size ELSE StandsAt(tokens[n + 1], j)

\* The tokens of a file cover it without a gap; each has the type and the text
\* of the longest form that stands there, and is an error exactly where there
\* is none; and its location is its line and its place in the line
\* ("line-relative source locations", scanner.cpp).
TokensAsDescribed ==
    scan.done =>
        /\ \A n \in DOMAIN tokens : \E i \in 0..(Size - 1) : \E j \in (i + 1)..Size :
             /\ StandsAt(tokens[n], i) /\ tokens[n].end - tokens[n].start = j - i
             /\ Ends(n, j)
             /\ IsRead(tokens[n], i, j)
        /\ IF tokens = <<>> THEN AfterMark = Size ELSE StandsAt(tokens[1], AfterMark)
================================================================================
