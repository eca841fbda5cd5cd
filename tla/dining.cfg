SPECIFICATION FairReceiveSpec
CONSTANTS
  NPhilosophers = 4
INVARIANTS
  TypeOK
  NeighboursNeverEatTogether
  ChopsticksAccounted
  WaiterNeverWaitsInVain
PROPERTIES
  NoStarvation
