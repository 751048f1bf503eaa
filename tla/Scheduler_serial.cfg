CONSTANTS
  None = None
  Jobs = {j1, j2, j3}
  Requesters = {r1}
  Sessions = {s1}
  MaxPending = 2
  MaxAttempts = 2
  Horizon = 1
  MaxDispatches = 3
SPECIFICATION FairSpec
INVARIANTS
  JobAccounting
PROPERTIES
  QueuedJobsFinish
CHECK_DEADLOCK FALSE
