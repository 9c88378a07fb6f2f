\* A loop in a loop, whose body depends on the outer element.
SPECIFICATION Spec
CONSTANTS
    Shapes <- HoistShapes
    Places <- HoistPlaces
    Ps = {0, 1, 2}
    Qs <- MCQs
    MaxTurns = 40
PROPERTIES
    CodeIsWellFormed
CHECK_DEADLOCK FALSE
