\* One command through v1 and Fabric roots, BLE, pairing changes and restarts.
SPECIFICATION FairSpec
CONSTANTS
  c1 = c1
  c2 = c2
  owner = owner
  m1 = m1
  m2 = m2
  NoMac = NoMac
  Wake = Wake
  Stop = Stop
  Commands <- OneCommand
  Owners <- OneOwner
  Macs <- TwoMacs
  OwnerOf <- OwnerOfAll
  RootVersions <- AnyVersion
  BleReachable = TRUE
  PairingChanges = TRUE
  Restarts = TRUE
  MislabelsResults = FALSE
  MaxConnections = 2
  MaxRootSessions = 2

INVARIANTS TypeOK RejectedNeverRuns ReplaysAreFaithful
PROPERTIES KeepsPromise PendingResolves
