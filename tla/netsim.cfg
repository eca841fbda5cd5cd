SPECIFICATION FairSpec
CONSTANTS
  Packages = 4
  ConsumerCount = 2
  LossPercent = 50
  TargetSpace = 65536
CHECK_DEADLOCK FALSE
INVARIANTS
  TypeOK
  Conservation
  NoMoreMessagesArrive
  NeverAborts
  OnlyForwardedLeftBehind
  TwoStreamsInOrder
PROPERTIES
  Termination
