CONSTANTS
  Socket = {s1, s2, s3}
  NoSocket = NoSocket
  MaxReconnectAttempts = 2
  MaxRequests = 2
SPECIFICATION FairTransportSpec
INVARIANTS
  OneSocket
  WaitingIsTimed
  ClosedIsQuiet
  StateIsBacked
PROPERTIES
  RequestsSettle
  ConnectingEnds
