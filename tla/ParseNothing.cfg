\* Core::Next as it is.
SPECIFICATION FrontEndSpec
CONSTANTS
  Places = {}
  Oddities = {}
  NextReturns = FALSE
  Identifiers = {"a", "b", "c", "x"}
  MaxStalls = 3
INVARIANT ReadsWhatIsWritten
CHECK_DEADLOCK FALSE
