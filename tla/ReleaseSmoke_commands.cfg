CONSTANTS
  Locals = {local1}
  Directs = {direct1}
  Standing = standing
  Ports = {p1, p2}
SPECIFICATION FairSpec
INVARIANTS
  LeftoversHaveACause
  SuccessIsEarned
  NothingOfLocalIsLeft
PROPERTIES
  CommandsEnd
