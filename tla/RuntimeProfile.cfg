\* Actions of the window with changes of the master GPU, failed saves and stops.
SPECIFICATION FairSpec
CONSTANTS
  Layouts <- TwoLayouts
  Tastes <- OneTaste
  Masters <- TwoMasters
  UndoLimit = 1
  MaxActions = 3
  MaxMasters = 1
  MaxFailures = 1
  MaxStops = 1
  MaxEvents = 4
INVARIANTS NoBlindWrite AnswersAreTrue
PROPERTY QueueDrains
CHECK_DEADLOCK FALSE
