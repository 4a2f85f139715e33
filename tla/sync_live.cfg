CONSTANTS
  notes = notes
  tags = tags
  x = x
  Collection = {notes}
  EntityId = {x}
  Entity <- OneEntity
  MutationId = {m1, m2, p1}
  PeerMutation = {p1}
  NoEntity = NoEntity
  NoMutation = NoMutation
  NoDraft = NoDraft
  Nobody = Nobody
  Client = {c1}
  Task = {t1}
  BatchSize = 2
  Resolver = "LAST_WRITE_WINS"
  WriteKinds = {"put"}
  Failures = {"loss"}
  MaxSequence = 2
  MaxDelayed = 0
  MaxHorizon = 0
SPECIFICATION FairSpec
PROPERTIES
  PendingEventuallySettles
