\* Fair scheduling of every thread, every kind of iterator; every small task
\* and generator.
SPECIFICATION ControlSpec
CONSTANTS
  NumWorkers = 2
  MaxLoops = 1
  Sources <- ShortSequences
  Values = {1, 2}
  Depth = 2
  Programs <- SmallPrograms
INVARIANTS
  PerformedInOrder
  LoopAssertHolds
  SeenInOrder
PROPERTIES
  LoopsEnd
  WorkersComeFree
  RunsToTheEnd
