SPECIFICATION FairSpec

CONSTANTS
  LaneCount = 2
  ItemCount = 4
  Keyed = TRUE
  KeyOf <- MCKeyOf
  CatchExceptions = FALSE
  SequentialPerKey = TRUE
  LaneSets <- MCNoLaneSets

INVARIANTS
  PerKeyFifo

PROPERTIES
  BlockedWriteSettles
  DrainSettles

CHECK_DEADLOCK FALSE
