CONSTANTS
  Jobs = {s1, s2, s3}
  Errors <- MCErrors
  Fds = {4, 5}
  None = None

SPECIFICATION FairSpec

INVARIANTS
  FunctorOwned
  OwnConnection
  DescriptorsAccounted

PROPERTY
  SessionsEnd
