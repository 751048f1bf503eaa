CONSTANTS
  Labs = {l1}
  Leases = {k1}
  Runs = {r1}
  Sessions = {s1, s2}
  MaxDestroyAttempts = 2
SPECIFICATION FairSpec
INVARIANTS
  RetryBudgetKept
  ClosuresAreAudited
PROPERTIES
  RetriesAreAccountedFor
  OverdueIsClosed
  DestroyingLabsFinish
