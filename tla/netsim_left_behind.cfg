SPECIFICATION Spec
CONSTANTS
  Packages = 1
  ConsumerCount = 1
  LossPercent = 50
  TargetSpace = 65536
CHECK_DEADLOCK FALSE
INVARIANTS
  AllDispatched
