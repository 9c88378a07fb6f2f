\* One loop that an exception ends early, and two zones.
SPECIFICATION ProgramSpec
CONSTANTS
  NumWorkers = 2
  MaxLoops = 1
  MaxStages = 2
  Sources <- ProgramSequences
INVARIANTS
  NobodyInDestroyedZones
