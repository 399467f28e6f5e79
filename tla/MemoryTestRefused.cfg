\* A second test is not always refused while one runs.
SPECIFICATION Spec
CONSTANTS
  w1 = w1
  w2 = w2
  Workers <- TwoWorkers
  MaxTests = 2
INVARIANT OneTestAtATime
CHECK_DEADLOCK FALSE
