SPECIFICATION Spec
CONSTANTS
  Path <- TreePaths
  Root = "/"
  Proper <- TreeProper
  Prefix = {}
  Name <- MCName
  Parent <- MCParent
  ChildName <- MCChildName
  Suffixed <- MCSuffixed
  CversionMax = 2
  Data = {"d", "e"}
  MaxSession = 2
  NoNode = NoNode
  NoMulti = NoMulti
  Requests <- TreeWorkload
  Faults = {}
  MaxZxid = 7
INVARIANTS TypeOK TreeShape StampsAgree LogIsOrdered NeverPanics
PROPERTIES RestartRestoresTree RefusedChangesNothing VersionIdentifiesData ChildChangeIsStamped
