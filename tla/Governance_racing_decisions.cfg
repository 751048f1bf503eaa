CONSTANTS
  None = None
  Labs = {l1}
  Exports = {}
  Sessions = {s1, s2}
  ProfileNames = {"red-zone"}
  SecretNames = {}
  Limits <- DEFAULT_LIMITS
  Registry <- MCRegistry
SPECIFICATION Spec
PROPERTIES
  DecisionsAreFinal
