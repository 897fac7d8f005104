SPECIFICATION Spec
CONSTANTS
  Path <- DeletePaths
  Root = "/"
  Proper <- DeleteProper
  Prefix = {}
  Name <- MCName
  Parent <- MCParent
  ChildName <- MCChildName
  Suffixed <- MCSuffixed
  CversionMax = 7
  Data = {"d", "e"}
  MaxSession = 1
  NoNode = NoNode
  NoMulti = NoMulti
  Requests <- DeleteWorkload
  Faults = {}
  MaxZxid = 6
INVARIANTS NeverPanics
