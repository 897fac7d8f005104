SPECIFICATION FairSpec
CONSTANTS
  Interval = 2
  Timeouts = {2}
  MaxNow = 4
  MaxSession = 1
PROPERTIES AbandonedSessionsEnd
