SPECIFICATION Spec
CONSTANTS
    Shapes <- MCShapes
    Places <- MCPlaces
    Ps = {0, 1, 2}
    Qs <- MCQs
    MaxTurns = 40
PROPERTIES
    TablesAgree
    RejectsExactly
    CodeIsWellFormed
    CompiledMeansSource
CHECK_DEADLOCK FALSE
