CONSTANTS
  notes = notes
  tags = tags
  x = x
  Collection = {notes, tags}
  EntityId = {x}
  Entity <- SharedId
  MutationId = {m1, p1}
  PeerMutation = {p1}
  NoEntity = NoEntity
  NoMutation = NoMutation
  NoDraft = NoDraft
  Nobody = Nobody
  Client = {c1}
  Task = {t1}
  BatchSize = 2
  Resolver = "LAST_WRITE_WINS"
  WriteKinds = {"put"}
  Failures = {"loss", "crash", "delay", "rollback"}
  MaxSequence = 2
  MaxDelayed = 1
  MaxHorizon = 2
SPECIFICATION Spec
INVARIANTS
  SettledMeansEqual
PROPERTIES
  ImplementsContract
