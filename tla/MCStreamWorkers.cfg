SPECIFICATION FairSpec

CONSTANTS
  Partitions <- MCPartitions
  Published <- MCPublished
  MaxBatch = 2
  Configs <- MCConfigs
  MaxRestarts = 1
  MaxRejects = 1
  MaxRebalances = 1

INVARIANTS
  DurableCovered
  ReplayBounded

PROPERTIES
  StopsAndAttempts

CHECK_DEADLOCK FALSE
