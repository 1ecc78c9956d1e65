SPECIFICATION FairSpec

CONSTANTS
  FeedLength = 3
  MaxItemCount = 2
  Configs <- MCConfigs
  MaxRestarts = 1

INVARIANTS
  DurableCovered
  PassedCovered
  HandledOnce

PROPERTIES
  FeedProgresses

CHECK_DEADLOCK FALSE
