\* Two loops one after the other, in one zone or two: workers still busy with
\* the first one while the second one queues its iterators.
SPECIFICATION ProgramSpec
CONSTANTS
  NumWorkers = 2
  MaxLoops = 2
  MaxStages = 2
  Sources <- ProgramSequences
CONSTRAINT ShortPrograms
INVARIANTS
  TypeOK
  CompletedLoopsAreQuiet
  OneWrapperPerIterator
  ZoneOfItsLoop
  FinishedIsComplete
  NoWorkLost
  FlattenedByOne
  TaskReady
PROPERTIES
  AnswersStay
  TasksNotOverwritten
  ImplementsSerialLoop
