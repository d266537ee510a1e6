CONSTANTS
  Jobs = {s1, s2, s3, s4}
  Errors <- MCErrors
  Fds = {4, 5, 6}
  None = None

SPECIFICATION MCSpec
SYMMETRY Symmetry

INVARIANT
  FailureReported
