\* Calls of start and stop at any moment, mismatches and lacks of memory.
SPECIFICATION FairSpec
CONSTANTS
  w1 = w1
  w2 = w2
  Workers <- TwoWorkers
  MaxTests = 2
INVARIANT VerdictIsTrue
PROPERTIES OverlapOnlyThroughWindows StopEnds
CHECK_DEADLOCK FALSE
