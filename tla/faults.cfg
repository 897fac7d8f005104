SPECIFICATION Spec
CONSTANTS
  Path <- FaultPaths
  Root = "/"
  Proper <- FaultProper
  Prefix = {}
  Name <- MCName
  Parent <- MCParent
  ChildName <- MCChildName
  Suffixed <- MCSuffixed
  CversionMax = 7
  Data = {"d", "e"}
  MaxSession = 2
  NoNode = NoNode
  NoMulti = NoMulti
  Requests <- FaultWorkload
  Faults = {"write", "rotate"}
  MaxZxid = 5
INVARIANTS LogIsOrdered NewSessionIdsAreFresh
PROPERTIES AcknowledgedIsDurable
