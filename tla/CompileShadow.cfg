\* A variable of one branch with the name of one another branch assigns.
SPECIFICATION Spec
CONSTANTS
    Shapes <- ShadowShapes
    Places <- ShadowPlaces
    Ps = {0, 1, 2}
    Qs <- MCQs
    MaxTurns = 40
PROPERTIES
    CompiledMeansSource
CHECK_DEADLOCK FALSE
