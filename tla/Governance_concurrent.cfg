CONSTANTS
  None = None
  Labs = {l1}
  Exports = {e1}
  Sessions = {s1, s2}
  ProfileNames = {"safe-dev", "research-persistent"}
  SecretNames = {}
  Limits <- DEFAULT_LIMITS
  Registry <- MCRegistry
SYMMETRY Symmetry
SPECIFICATION Spec
INVARIANTS
  TypeOK
  ReleaseRequiresApproval
  GatedLabsNeedApproval
  BlockedResourcesHaveOpenApproval
  EveryOutcomeIsAudited
  RecordedCopiesExist
PROPERTIES
  ImplementsGate
