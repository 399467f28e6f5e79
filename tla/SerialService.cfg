\* A claim while the port is closed, opened again and lost.
SPECIFICATION FairSpec
CONSTANTS
  Claims <- OneClaim
  Parts = 2
  MaxAttempts = 2
  OverlappingCalls = FALSE
  MaxCalls = 3
  MaxConnections = 2
  MaxFailures = 1
INVARIANTS PortIsRead ClaimOnOnePort
PROPERTY EveryCallEnds
CHECK_DEADLOCK FALSE
