SPECIFICATION FairSpec
CONSTANTS
  MaxEvents = 6
  MaxBatch = 2
  MaxBreaks = 4
  MaxRetries = 2
INVARIANT NothingIsMissed
PROPERTIES RefinesEventStream CatchesUp
CHECK_DEADLOCK FALSE
