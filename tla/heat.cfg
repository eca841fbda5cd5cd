SPECIFICATION HeatSpec
CONSTANTS
  Rows = 5
  Columns = 4
  Temperature <- MCTemperature
  NewTemperature <- MCNewTemperature
  Change <- MCChange
  Epsilon = 1
  InitialPlates <- MCInitialPlates
  t1 = t1
  t2 = t2
  Team <- MCTeam
  ThreadCounts = {1, 2, 3, 4}
CHECK_DEADLOCK FALSE
INVARIANTS
  TypeOK
  ResultSettled
  PthreadTypeOK
  EachRowOnce
PROPERTIES
  ImplementsSerial
  StatesAreSweeps
