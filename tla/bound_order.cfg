SPECIFICATION Spec
CONSTANTS
  BufferCapacity = 2
  ThreadCount = 2
  Rounds = 2
CHECK_DEADLOCK FALSE
INVARIANTS
  ConsumesInOrder
