CONSTANTS
  Threads = {t1, t2, t3}
  Items = {a, b}
  None = None
  MaxCalls = 5
  MaxSpurious = 1

SPECIFICATION FairSpec

INVARIANTS
  GuardDiscipline
  NonEmptyAtTake
  NoLostWakeup

PROPERTIES
  Linearizable
  CallsComplete

CHECK_DEADLOCK FALSE
