SPECIFICATION Spec
CONSTANTS
  Path <- TreePaths
  Root = "/"
  Proper <- TreeProper
  Prefix = {}
  Name <- MCName
  Parent <- MCParent
  ChildName <- MCChildName
  Suffixed <- MCSuffixed
  CversionMax = 7
  Data = {"d", "e"}
  MaxSession = 2
  NoNode = NoNode
  NoMulti = NoMulti
  Requests <- WatchWorkload
  Faults = {}
  MaxZxid = 4
INVARIANTS WatchIndexesAgree
PROPERTIES WatchersAreTold WatchesFireOnce
