CONSTANTS
  Renderer = {r1, r2}
  Call = {1, 2}
SPECIFICATION BridgeFairSpec
INVARIANTS
  AnsweredByEngine
PROPERTIES
  DisposedStartsNothing
  CallsSettle
CHECK_DEADLOCK FALSE
