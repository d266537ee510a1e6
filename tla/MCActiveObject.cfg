CONSTANTS
  Senders = {s1, s2}
  Owner = s1
  Worker = worker
  Messages = {a, b, c, d}
  Pill = Pill
  None = None
  Threads <- MCThreads
  Items <- MCItems
  MaxSpurious = 1

SPECIFICATION FairSpec

INVARIANTS
  PerSenderOrder
  ExecutedBeforeReturn

PROPERTIES
  DestructorReturns
  SentIsExecuted
