CONSTANTS
  Threads = {t1, t2, t3}
  Items = {a, b}
  None = None
  MaxCalls = 6
  MaxSpurious = 2

SPECIFICATION MCSpec
SYMMETRY Symmetry
CHECK_DEADLOCK FALSE

INVARIANTS
  LockReleased
