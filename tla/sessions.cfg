SPECIFICATION Spec
CONSTANTS
  Path <- SessionPaths
  Root = "/"
  Proper <- SessionProper
  Prefix = {"/q"}
  Name <- MCName
  Parent <- MCParent
  ChildName <- MCChildName
  Suffixed <- MCSuffixed
  CversionMax = 10
  Data = {"d", "e"}
  MaxSession = 2
  NoNode = NoNode
  NoMulti = NoMulti
  Requests <- SessionWorkload
  Faults = {}
  MaxZxid = 5
INVARIANTS OwnedNodesAreIndexedLeaves IndexHoldsOnlyOwnNodes NewSessionIdsAreFresh SequenceFollowsAge NeverPanics
PROPERTIES PersistentNodesRestored SessionTakesItsNodes
