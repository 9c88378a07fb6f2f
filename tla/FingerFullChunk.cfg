\* A list of five pushes has a full head chunk; a list is joined with it.
SPECIFICATION ValuesSpec
CONSTANTS
  HalfBase = 4
  Radix = 2
  Reaches = {}
  Literals = {}
  Operands = {}
  MaxTop = 0
  MaxBottom = 0
  Keys = {1}
  Changing = {}
  Period = 5
  MaxLength = 9
  Lengths = {5}
  ListReaches = {"full chunk"}
PROPERTIES
  ConcatenateJoins
