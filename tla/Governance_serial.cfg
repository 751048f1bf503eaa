CONSTANTS
  None = None
  Labs = {l1}
  Exports = {e1}
  Sessions = {s1}
  ProfileNames = {"safe-dev", "research-persistent", "red-zone"}
  SecretNames = {}
  Limits <- DEFAULT_LIMITS
  Registry <- MCRegistry
SPECIFICATION FairSpec
INVARIANTS
  RecordsAgree
PROPERTIES
  DecisionsAreFinal
  DestroyLeavesNothing
  BlockedResourcesResolve
  BrokenLabsAreFlagged
