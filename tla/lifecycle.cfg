CONSTANTS
  BaseInterval = 2
  BackoffMultiplier = 2
  MaxBackoff = 6
  MaxFailures = 3
  MaxListeners = 2
SPECIFICATION Spec
INVARIANTS
  OneCycle
  NoStrayTimer
  NeverAsleep
  IdleShutdownIsFinal
PROPERTIES
  BackoffNeverShortens
  TriggerObeyed
  ShutdownReturns
CHECK_DEADLOCK FALSE
