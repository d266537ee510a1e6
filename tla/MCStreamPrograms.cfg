CONSTANTS
  Servers = {s1, s2}
  Clients = {c1, c2}
  Addresses = 2
  FdLimit = 2
  Buffer <- MCBuffer
  IntMax = 3
  Room = 2
  PoolSize = 2
  MaxTasks = 2
  None = None

SPECIFICATION FairSpec

INVARIANTS
  NothingLeftOpen
  SendAllExact

PROPERTIES
  ClientsEnd

CHECK_DEADLOCK FALSE
