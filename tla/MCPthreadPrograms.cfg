CONSTANTS
  MaxWorkers = 3
  None = None
  NumThreads = 3
  Iterations = 3
  MaxItems = 4
  NumConsumers = 3
  NumStrings = 3

SPECIFICATION Spec

INVARIANTS
  NoDataRace
  ResultExact
  MutexesAtEnd
  CleanedUp
  WellDefined

PROPERTIES
  ProgramEnds
  ItemsConsumed

CHECK_DEADLOCK FALSE
