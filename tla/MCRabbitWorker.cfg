SPECIFICATION FairSpec

CONSTANTS
  m1 = m1
  m2 = m2
  m3 = m3
  Messages <- MCMessages2
  DeliveryCount = 4
  Prefetch = 2
  ConcurrentRequests = 1
  Configs <- MCConfigs
  MaxRestarts = 1

INVARIANTS
  SettledAfterHandling
  PoisonBounded
  HandledOnce
  StoppedClosed

PROPERTIES
  StopSettles
  MessagesSettle

CHECK_DEADLOCK FALSE
