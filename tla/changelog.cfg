SPECIFICATION Spec
CONSTANTS
  MaxSegment = 2
  Faults <- AnyFault
  MaxIndex = 4
  MaxLack = 1
INVARIANTS TypeOK SegmentsInOrder
PROPERTIES ImplementsWal
