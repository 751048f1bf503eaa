CONSTANTS
  None = None
  Jobs = {j1}
  Requesters = {r1}
  Sessions = {s1, s2}
  MaxPending = 1
  MaxAttempts = 2
  Horizon = 0
  MaxDispatches = 3
SPECIFICATION Spec
INVARIANTS
  DispatchesBounded
CHECK_DEADLOCK FALSE
