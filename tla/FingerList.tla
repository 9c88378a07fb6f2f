----------------------------- MODULE FingerList -----------------------------
(* A program and its list, an object of runtime/containers/list*.c.  Each   *)
(* call is one step, as nothing else can see a list before it is returned.  *)
(* Lists are immutable: a program keeps the list that push, pop, append,    *)
(* chop, reverse and concatenate return, here, and only looks at the        *)
(* answers of the other calls (Answer).                                     *)
(*                                                                          *)
(* A definition that stands right before the one it varies, and is used     *)
(* nowhere, is a slip the code could have made; the properties catch it.    *)
EXTENDS FingerTree

CONSTANTS Period,      \* the values pushed run through 0 .. Period - 1
          Lengths,     \* of the lists that are joined to it
          ListReaches  \* which of Troubles the program's calls run into

ASSUME ListAssumption == Period \in Nat \ {0} /\ Lengths \in SUBSET (Nat \ {0})

(* Calls the code does not carry through: a join that meets a chunk of four *)
(* items, and a partition in the head chunk, in cold storage, and of a list *)
(* run backwards.  The runs that look at the rest leave them out.           *)
Troubles == {"full chunk", "head chunk", "cold storage", "backwards"}

VARIABLES list,    \* the program's list object
          joined   \* what was in the list the last call joined to it

listVars == <<list, joined>>

-----------------------------------------------------------------------------
ListInit == list = list_empty /\ joined = << >>

Keep(l) == list' = l /\ joined' = << >>

Length == Size(Under(list))
Either(forwards, backwards) == IF IsReversed(list) THEN Reversed(backwards) ELSE forwards

(* The values pushed and appended carry the run of values in the list on,   *)
(* up or down, so that every list holds a stretch of one cycle of values.   *)
Step == IF Length < 2 THEN 1 ELSE InOrder(list)[2] - InOrder(list)[1]
Before == IF Length = 0 THEN 0 ELSE (InOrder(list)[1] - Step) % Period
After(n) == IF Length = 0 THEN n % Period ELSE (Last(InOrder(list)) + n * Step) % Period

List_push ==
    /\ Length < MaxLength
    /\ LET v == Leaf(Before) IN Keep(Either(Push[list][v], Attach[Under(list)][v]))

List_append ==
    /\ Length < MaxLength
    /\ LET v == Leaf(After(1)) IN Keep(Either(Attach[list][v], Push[Under(list)][v]))

List_pop == list # list_empty /\ Keep(Either(Pop[list], Chop[Under(list)]))
List_chop == list # list_empty /\ Keep(Either(Chop[list], Pop[Under(list)]))
List_reverse == Keep(Reversed(list))

(* Joining with a list of the next values, appended one by one or pushed,   *)
(* or run backwards.                                                        *)
Others(n) ==
    LET next == [k \in 1..n |-> Leaf(After(k))]
    IN {AttachAll(list_empty, next), PushAll(list_empty, Reverse(next)),
        Reversed(AttachAll(list_empty, Reverse(next)))}

List_concatenate(o) ==
    LET joinable == JoinableLists(list, o)
    IN /\ joinable \/ "full chunk" \in ListReaches
       /\ \E behind \in IF joinable THEN {6} ELSE AnyAction :
            list' = JoinedLists(list, o, behind)
       /\ joined' = InOrder(o)

(* A join that fails an assertion is the end of the program.                *)
ListNext ==
    /\ list # StoppedList
    /\ \/ List_push \/ List_append \/ List_pop \/ List_chop \/ List_reverse
       \/ \E n \in Lengths :
            Length + n <= MaxLength /\ \E o \in Others(n) : List_concatenate(o)

ListSpec == ListInit /\ [][ListNext]_listVars

-----------------------------------------------------------------------------
(* The calls that are looked at.                                            *)
Flipped(i) == IF IsReversed(list) THEN FlipIndex(list.list, i) ELSE i

(* "before" and "after" are the two lists that partition returns.           *)
Partitioned(i) ==
    LET parts == Partition[Under(list)][Flipped(i)]
    IN IF IsReversed(list) THEN Parts(Reversed(parts.after), Reversed(parts.before)) ELSE parts

(* Insert, remove and assign divide the list at the index, change the       *)
(* second part and join the two; a list of one item or none gets there      *)
(* directly.  A wrapper asks its list to, at the flipped index.             *)
New == Period
Changed(call, after) ==
    CASE call = "insert" -> Push[after][Leaf(New)]
      [] call = "remove" -> Pop[after]
      [] OTHER           -> Push[Pop[after]][Leaf(New)]

Edited(call, i) ==
    LET parts == Partition[Under(list)][Flipped(i)]
        whole == Joined(parts.before, Changed(call, parts.after), 6)
    IN IF IsReversed(list) THEN Reversed(whole) ELSE whole

Answer(call, i) ==
    CASE call = "size"   -> << Length >>
      [] call = "items"  -> LeavesOf(ItemsOf(list))
      [] call = "head"   -> IF list = list_empty THEN ThrownValue
                            ELSE LeavesOf(<< IF IsReversed(list) THEN TailOf(list.list) ELSE HeadOf(list) >>)
      [] call = "tail"   -> IF list = list_empty THEN ThrownValue
                            ELSE LeavesOf(<< IF IsReversed(list) THEN HeadOf(list.list) ELSE TailOf(list) >>)
      [] call = "lookup" -> Lookup[Under(list)][Flipped(i)]
      [] call = "before" -> IF Flipped(i) \in 0..Length THEN InOrder(Partitioned(i).before)
                                                        ELSE ThrownValue
      [] call = "after"  -> IF Flipped(i) \in 0..Length THEN InOrder(Partitioned(i).after)
                                                        ELSE ThrownValue
      [] call = "insert" -> IF Flipped(i) \in 0..Length THEN InOrder(Edited(call, i))
                                                        ELSE ThrownValue
      [] OTHER           -> IF Flipped(i) \in 0..(Length - 1) THEN InOrder(Edited(call, i))
                                                              ELSE ThrownValue

(* The calls that do not run into a trouble the run leaves out.             *)
Divides(i) ==
    LET l == Under(list)
    IN l.kind = "list" /\ Flipped(i) \in 0..Length =>
        \/ Flipped(i) = 0 \/ InTailChunk(l, Flipped(i))
        \/ InHeadChunk(l, Flipped(i)) /\ "head chunk" \in ListReaches
        \/ ~ InHeadChunk(l, Flipped(i)) /\ "cold storage" \in ListReaches

Rejoins(call, i) ==
    LET parts == Partition[Under(list)][Flipped(i)]
    IN Flipped(i) \in 0..(Length - 1) => Joinable(parts.before, Changed(call, parts.after))

Sound(call, i) ==
    /\ call \in {"before", "after", "insert"} /\ IsReversed(list) => "backwards" \in ListReaches
    /\ call \in {"before", "after", "insert", "remove", "assign"} => Divides(i)
    /\ call \in {"insert", "remove", "assign"} => Rejoins(call, i)

-----------------------------------------------------------------------------
(* "A chunk contains exactly 1, 2, 3, or 4 items", all leaves are at one    *)
(* depth, every size and leaf count is right (list-chunks.c:21-31).         *)
WellShaped == 0 \in DepthsOf[Under(list)] /\ (IsReversed(list) => list.list.kind = "list")

(* "An inexpensive pop always follows an expensive push, and vice versa,    *)
(* which is how we get amortized O(1) performance" (lists.c:112-117): a     *)
(* call that went to cold storage leaves an end that the next push fits in, *)
(* and, if it was a push, that the next pop does not empty.  The same at    *)
(* the other end.                                                           *)
CheapAfterExpensive ==
    LET l == Under(list)
        m == Under(list')
    IN l.kind = "list" /\ m.kind = "list" /\ joined' = << >> /\ l.cold # m.cold =>
         \A ends \in {<< l.head, m.head >>, << l.tail, m.tail >>} :
             ends[1] # ends[2] =>
                 /\ chunk_can_grow(ends[2])
                 /\ m.size > l.size => chunk_can_shrink(ends[2])
ExpensiveThenCheap == [][CheapAfterExpensive]_listVars

(* The list goes through every sequence of calls as a plain sequence does:  *)
(* nothing is lost, doubled or out of order on the way to cold storage and  *)
(* back, through reversals and joins.                                       *)
Straight == INSTANCE PlainList WITH content <- InOrder(list), Values <- 0..(Period - 1), New <- New
ImplementsPlainList == Straight!Spec

(* What is looked at is what the plain sequence answers.                    *)
AnswersAsPlainList ==
    \A call \in Straight!Calls, i \in -1..(Length + 1) :
        Sound(call, i) => Answer(call, i) = Straight!Answer(call, i)

(* The first list that partition returns holds what comes before the index  *)
(* (lists.c:328-331).  TLC refutes it as soon as ListReaches holds one of *)
(* the three troubles of partition.                                         *)
PartitionDivides ==
    \A i \in 0..Length :
        Sound("before", i) => Answer("before", i) = SubSeq(InOrder(list), 1, i)

(* "join two lists together" (lists.c:37).                                  *)
ConcatenateJoins == [][joined' # << >> => InOrder(list') = InOrder(list) \o joined']_listVars
=============================================================================
