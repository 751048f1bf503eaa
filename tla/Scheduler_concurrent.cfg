CONSTANTS
  None = None
  Jobs = {j1, j2, j3}
  Requesters = {r1}
  Sessions = {s1, s2}
  MaxPending = 1
  MaxAttempts = 2
  Horizon = 1
  MaxDispatches = 3
SYMMETRY Symmetry
SPECIFICATION Spec
INVARIANTS
  TypeOK
  AttemptsBounded
  ResultsAreReal
  QuotaOvershootBounded
CHECK_DEADLOCK FALSE
