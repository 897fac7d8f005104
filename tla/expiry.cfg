SPECIFICATION FairSpec
CONSTANTS
  Interval = 2
  Timeouts <- MCTimeouts
  MaxNow = 5
  MaxSession = 2
INVARIANTS TypeOK QueueAgrees
PROPERTIES ExpiredStaysDead OnlySilentAreDoomed SilentSessionsEnd
