\* Two controls, overlapping commands, sends of up to the seven seconds of the worker.
SPECIFICATION FairMarksSpec
CONSTANTS
  Commands <- MCCommands
  Targets <- MCTargets
  TargetOf <- MCTargetOf
  WithStatus <- MCWithStatus
  SendLimit = 7
  MaxCommands = 2
  MaxEvents = 1
INVARIANT ResyncBeforeGivingUp
PROPERTY MarksEnd
CHECK_DEADLOCK FALSE
