SPECIFICATION FairSpec
CONSTANTS
  Conn = {c1, c2}
  Path = {p1, p2}
  Capacity = 2
  MayStall = {c1}
  MaxRequests = 2
INVARIANTS TypeOK NothingLost OnlyWatchersLoseStep
PROPERTIES NobodyIsStuck
CHECK_DEADLOCK FALSE
