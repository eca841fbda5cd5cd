SPECIFICATION FairSpec
CONSTANTS
  UnitCount = 2
  ProducerCount = 2
  ConsumerCount = 2
  MemoryMayEnd = FALSE
  ThreadsMayEnd = TRUE
CHECK_DEADLOCK FALSE
PROPERTIES
  FailureIsReported
