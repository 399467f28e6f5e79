\* All interleavings of sends, timers, settings, bursts, reconnects and inventories,
\* of the resync and of the poller.
SPECIFICATION QueriesSpec
CONSTANTS
  Tags <- MCTags
  NumCommands <- MCNumCommands
  MaxRetries = 2
  MaxChanges = 4
  FullCycle <- MCFullCycle
  BurstCycle <- MCBurstCycle
  MaxTurns = 5
INVARIANTS RoundsInOrder OneLoop
PROPERTIES NoSendToAbsent EveryNodeSettles NoStaleEffect EverythingPolled
CHECK_DEADLOCK FALSE
