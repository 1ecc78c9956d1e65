SPECIFICATION FairSpec

CONSTANTS
  Runs = {r1, r2}
  Stages <- ThreeStages
  Compensable = {"a", "b", "c"}
  MaxAttempts = 2
  Overlap = FALSE
  StoreFails = TRUE

INVARIANTS
  AllOrNothing
  OrphansReported
  NoDoubleEffect
  LastInFirstOut

PROPERTIES
  RunsEnd

CHECK_DEADLOCK FALSE
