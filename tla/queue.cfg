SPECIFICATION FairSpec
CONSTANTS
  p1 = p1
  p2 = p2
  c1 = c1
  c2 = c2
  o1 = o1
  a = a
  b = b
  NoData = NoData
  NoThread = NoThread
  Producers <- MCProducers
  Consumers <- MCConsumers
  Observers <- MCObservers
  Data <- MCData
  MaxLen = 3
INVARIANTS
  TypeOK
  PermitAccounting
  NeverFrontOfEmpty
PROPERTIES
  ImplementsFifo
  SomeElementLeaves
