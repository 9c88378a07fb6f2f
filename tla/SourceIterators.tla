-------------------------- MODULE SourceIterators --------------------------
(* The iterators of an ordinary Radian sequence, as the loops of the        *)
(* runtime see them: an object that answers is_valid, current and next, any *)
(* of which may answer with an exception instead of a value.  Iterators are *)
(* immutable, so the iterator at position p of sequence s is the pair       *)
(* (s, p), and what it answers is a function of that pair.                  *)
EXTENDS Integers, Sequences

NULL == 0          \* the null reference, the value of a slot never written
Thrown == -1       \* an exception object (exceptions.c): absorbs every call
True == 1
False == 2

(* How the iterator at one position behaves.                                *)
Kinds == {"good",         \* valid, has a value and a successor
          "badCurrent",   \* computing its value throws
          "badNext",      \* computing its successor throws
          "badValid",     \* is_valid itself answers an exception
          "end"}          \* the terminator: not valid

(* Sequences of at most n positions.  A sequence stops at the terminator or *)
(* at an iterator with no successor; the empty one is a sequence whose      *)
(* iterate method throws.                                                   *)
SequencesUpTo(n) ==
    { <<>> } \cup
    UNION { { s \in [1..len -> Kinds] :
                 /\ s[len] \in {"end", "badNext"}
                 /\ \A p \in 1..(len - 1) : s[p] \notin {"end", "badNext"} }
            : len \in 1..n }

IsValid(s, p) ==
    CASE s[p] = "end"      -> False
      [] s[p] = "badValid" -> Thrown
      [] OTHER             -> True

(* An exception returns itself when called, so BoolFromBoolean, which       *)
(* compares what a boolean picks of two arguments with the boolean itself,  *)
(* takes an exception for true.                                             *)
BoolFromBoolean(flag) == flag # False

Current(s, p) == IF s[p] = "badCurrent" THEN Thrown ELSE p

Successor(s, p) == IF s[p] = "badNext" THEN Thrown ELSE p + 1
=============================================================================
