SPECIFICATION Spec

CONSTANTS
  m1 = m1
  m2 = m2
  m3 = m3
  Messages <- MCMessages3
  DeliveryCount = 3
  Prefetch = 3
  ConcurrentRequests = 1
  Configs <- MCExplicit
  MaxRestarts = 1

SYMMETRY MCSymmetry

PROPERTY StopSparesHandlers

CHECK_DEADLOCK FALSE
