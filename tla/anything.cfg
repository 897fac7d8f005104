SPECIFICATION Spec
CONSTANTS
  Path <- AnyPaths
  Root = "/"
  Proper <- AnyProper
  Prefix = {"/q"}
  Name <- MCName
  Parent <- MCParent
  ChildName <- MCChildName
  Suffixed <- MCSuffixed
  CversionMax = 3
  Data = {"d", "e"}
  MaxSession = 1
  NoNode = NoNode
  NoMulti = NoMulti
  Requests <- AnyWorkload
  Faults = {"sync"}
  MaxZxid = 4
INVARIANTS TreeShape OwnedNodesAreIndexedLeaves WatchIndexesAgree
