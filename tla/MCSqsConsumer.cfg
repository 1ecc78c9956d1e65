SPECIFICATION FairSpec

CONSTANTS
  Limit = 2
  Period = 2
  PerPeriod = 1
  MaxTime = 3
  MessageCount = 2
  MaxNumberOfMessages = 2
  MaxBatches = 2
  MaxFaults = 1
  Cost <- MCCost
  Configs <- MCConfigs

INVARIANTS
  DeletedHandled
  FanOutBounded
  RateBounded

PROPERTIES
  BatchesEnd

CHECK_DEADLOCK FALSE
