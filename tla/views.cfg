CONSTANTS
  v1 = v1
  View = {v1}
  Placements <- OneView
  Id = {1, 2}
  Controller = {1, 2, 3}
  NoController = 0
  Ordered = TRUE
  MaxVersions = 1
  MaxReads = 3
SPECIFICATION ViewsFairSpec
INVARIANTS
  GoneIsGone
  QuietIsCurrent
PROPERTIES
  ChangesAreShown
CHECK_DEADLOCK FALSE
