\* Ints of four bits.  Answers up to 300 need bigints of three digits.
\* Every sequence of calls on maps over seven keys: trees of three levels.
\* Every sequence of calls on lists of up to eight leaves, joins with lists of
\* up to four included: cold storage gets cold storage of its own.
SPECIFICATION ValuesSpec
CONSTANTS
  HalfBase = 4
  Radix = 2
  Reaches = {}
  Literals <- LiteralChars
  Operands <- OperandValues
  MaxTop = 300
  MaxBottom = 6
  Keys = {1, 2, 3, 4, 5, 6, 7}
  Changing = {3}
  Period = 4
  MaxLength = 8
  Lengths = {1, 2, 3, 4}
  ListReaches = {}
\* A computation may have ended.
CHECK_DEADLOCK FALSE
INVARIANTS
  NumbersCanonical
  NumbersExact
  NumbersOrdered
  Balanced
  WellShaped
  AnswersAsPlainList
PROPERTIES
  ImplementsKeyedMap
  ExpensiveThenCheap
  ImplementsPlainList
