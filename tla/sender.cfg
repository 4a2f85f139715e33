CONSTANTS
  Mutation = {1, 2}
  Call = {s1, s2}
  TransportError <- Errors
  Limit = 2
  MaxRetries = 1
  Faults = {"crash", "storage", "overlap"}
  MaxFaults = 2
  MaxResolved = 1
SPECIFICATION FairSpec
INVARIANTS
  SentInOrder
  StatusIsTrue
PROPERTIES
  ResultsMatchQueue
  EveryMutationSettles
CHECK_DEADLOCK FALSE
