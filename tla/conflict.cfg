CONSTANTS
  Client = {c1, c2}
  Edits <- SomeEdits
  Managers <- SomeManagers
  Overrides <- SomeOverrides
  NoStrategy = NoStrategy
  NoReply = NoReply
  Bumps = {0}
  MaxEdits = 3
  MaxChanges = 1
SPECIFICATION ResolutionFairSpec
PROPERTIES
  OneConflictIsMerged
  ConflictsEnd
CHECK_DEADLOCK FALSE
