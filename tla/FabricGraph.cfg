\* Revisions, boots, samples and faulty pages over two connections, with a
\* root of each kind.
SPECIFICATION Spec
CONSTANTS
  m1 = m1
  m2 = m2
  lamp = lamp
  heater = heater
  NoMac = NoMac
  Macs <- BothMacs
  Tags <- BothTags
  Graphs <- ThreeGraphs
  PagesOf <- SomePages
  PageOf <- PageOfNode
  RootKinds <- EveryTrait
  MaxConnections = 2
  MaxBoots = 2
  MaxRevisions = 2
  MaxFrames = 3
INVARIANTS InventoryIsPublished CursorsAreExact QuietMeansCurrent
CHECK_DEADLOCK FALSE
