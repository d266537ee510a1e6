CONSTANTS
  Lengths <- MCLengths
  Workers <- MCWorkers

SPECIFICATION MCSpec

INVARIANTS
  CountedOnce
  ResultComplete
