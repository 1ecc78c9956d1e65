SPECIFICATION FairSpec

CONSTANTS
  s1 = s1
  s2 = s2
  MessageCount = 2
  Sessions <- MCSessions
  Slots <- MCSlots
  MaxDeliveries = 2
  Configs <- MCConfigs

INVARIANTS
  SettledAfterHandling
  ServedOnceInOrder
  StoppedClosed

PROPERTIES
  StopsAndServes

CHECK_DEADLOCK FALSE
