CONSTANTS
  None = None
  Labs = {l1}
  Exports = {e1}
  Sessions = {s1}
  ProfileNames = {"research-persistent"}
  SecretNames = {}
  Limits <- DEFAULT_LIMITS
  Registry <- MCRegistry
SPECIFICATION Spec
PROPERTIES
  ExportTerminalStatesAreFinal
