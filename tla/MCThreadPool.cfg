CONSTANTS
  PoolSize = 3
  Tasks = {a, b}
  Pill = Pill
  None = None
  Threads <- MCThreads
  Items <- MCItems
  MaxSpurious = 1

SPECIFICATION FairSpec

INVARIANTS
  OnePlace
  DrainedBeforeReturn
  NoUseAfterDestroy

PROPERTIES
  DestructorReturns
  TaskCalled
