CONSTANTS
  Entity = {e1, e2}
  MutationId = {m1, m2}
  NoEntity = NoEntity
  NoMutation = NoMutation
  MaxLog = 3
  MaxBase = 2
SPECIFICATION MCSpec
SYMMETRY Symmetry
INVARIANTS
  AtMostOnceInWindow
  StoreMatchesLog
  ReplyHasEveryChange
  AppliedToLatest
  AcknowledgedIsApplied
