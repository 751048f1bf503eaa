CONSTANTS
  ProfileNames <- MCProfiles
  Registry <- MCRegistry
  SecretNames = {token}
  Limits = {small, large}
SPECIFICATION Spec
CHECK_DEADLOCK FALSE
INVARIANTS
  PlansAreWhatWasAsked
  RiskyWorkIsGated
