CONSTANTS
  s1 = s1
  s2 = s2
  c1 = c1
  c2 = c2
  sp = sp
  p1 = p1
  p2 = p2
  Servers = {s1, s2}
  Clients = {c1, c2}
  Sockets = {s1, s2, c1, c2}
  Paths = {sp, p1, p2}
  PathOf <- MCPathOf
  Nothing = Nothing
  Gone = Gone
  NoName = NoName
  Limit = 1
  PathLength = 12
  SizeBits = 16
  MaxSize = 32767
  MaxRefusals = 1

SPECIFICATION FairSpec

INVARIANTS
  NothingLeftBehind
  Reachable
  PathsExtract
  ServerOutlivesClients

PROPERTY
  ClientsReturn
