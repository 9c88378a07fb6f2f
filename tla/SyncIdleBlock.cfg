\* A branch of an if block, or a loop, that performs no action.
SPECIFICATION Spec
CONSTANTS
  Values = {1, 2}
  Depth = 2
  Programs <- SmallPrograms
INVARIANT ResponsesAreActions
