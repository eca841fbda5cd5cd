SPECIFICATION FairSpec
CONSTANTS
  UnitCount = 3
  ProducerCount = 2
  ConsumerCount = 2
  MemoryMayEnd = TRUE
  ThreadsMayEnd = TRUE
CHECK_DEADLOCK FALSE
INVARIANTS
  TypeOK
  UnitsAccounted
  NobodyUsesFreedMemory
  AllUnitsConsumed
PROPERTIES
  Termination
