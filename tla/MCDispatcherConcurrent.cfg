SPECIFICATION Spec

CONSTANTS
  LaneCount = 2
  ItemCount = 4
  Keyed = FALSE
  KeyOf <- MCKeyOf
  CatchExceptions = TRUE
  SequentialPerKey = FALSE
  LaneSets <- MCLaneSets

INVARIANTS
  NoLostWakeup

PROPERTIES
  QuiesceSound
  ImplementsContract

CHECK_DEADLOCK FALSE
