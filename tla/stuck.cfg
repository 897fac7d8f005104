SPECIFICATION FairSpec
CONSTANTS
  Conn = {c1}
  Path = {p1, p2}
  Capacity = 1
  MayStall = {}
  MaxRequests = 3
PROPERTIES NobodyIsStuck
CHECK_DEADLOCK FALSE
