SPECIFICATION Spec
CONSTANTS
  MaxSegment = 2
  Faults = {"tear"}
  MaxIndex = 3
  MaxLack = 1
INVARIANTS AcknowledgedIsReadable
CHECK_DEADLOCK FALSE
