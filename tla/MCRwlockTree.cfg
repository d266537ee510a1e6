CONSTANTS
  Threads = {t1, t2, t3}
  Keys = {1, 2}
  Nodes = {n1, n2, n3}
  Null = Null
  Unset = Unset
  MaxCalls = 4

SPECIFICATION FairSpec

INVARIANTS
  NoRawRead
  EveryNodeDeleted

PROPERTIES
  Linearizable
  CallsReturn
