CONSTANTS
  a1 = a1
  a2 = a2
  t1 = t1
  t2 = t2
  t3 = t3
  Adapter = {a1, a2}
  Task = {t1, t2, t3}
  AdapterOf <- Placement
  Key = {k1, k2}
  NoRow = NoRow
  NoAdapter = NoAdapter
  MaxWrites = 3
  MaxEvents = 1
SPECIFICATION FairSpec
INVARIANTS
  TransactionsAreOwned
  FailedLeavesNothing
PROPERTIES
  AdapterIsReleased
CHECK_DEADLOCK FALSE
