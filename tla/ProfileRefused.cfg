\* A save that fails, and a later start.
SPECIFICATION Spec
CONSTANTS
  Layouts <- TwoLayouts
  Tastes <- TwoTastes
  Masters <- TwoMasters
  UndoLimit = 1
  MaxActions = 1
  MaxMasters = 0
  MaxFailures = 1
  MaxStops = 1
  MaxEvents = 3
INVARIANT RefusedIsForgotten
CHECK_DEADLOCK FALSE
