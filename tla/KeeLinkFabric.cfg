\* Two Fabric commands, a root that mislabels results, two connections, two boots.
SPECIFICATION Spec
CONSTANTS
  c1 = c1
  c2 = c2
  owner = owner
  m1 = m1
  m2 = m2
  NoMac = NoMac
  Wake = Wake
  Stop = Stop
  Commands <- TwoCommands
  Owners <- OneOwner
  Macs <- OneMac
  OwnerOf <- OwnerOfAll
  RootVersions <- FabricOnly
  BleReachable = FALSE
  PairingChanges = FALSE
  Restarts = FALSE
  MislabelsResults = TRUE
  MaxConnections = 2
  MaxRootSessions = 2
SYMMETRY Symmetry
INVARIANTS AtMostOneEffect AnsweredRan NoResultSwallowed
PROPERTY NoLateWrite
