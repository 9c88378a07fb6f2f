\* Files of a few lines, every place left out, and a Core::Next that returns at
\* the tokens it does not skip.
SPECIFICATION FrontEndSpec
CONSTANTS
  Places = {}
  Oddities = {}
  NextReturns = TRUE
  Identifiers = {"a", "b", "c", "x"}
  MaxStalls = 3
INVARIANTS
  ReportsExactly
  ReadsWhatIsWritten
  HandsOutBalanced
  TokensAsDescribed
\* A file is written and read once.
CHECK_DEADLOCK FALSE
