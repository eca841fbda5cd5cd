SPECIFICATION ProgramsSpec
CONSTANTS
  MostProcesses = 5
  CountsOf <- MCCountsOf
  RingNumbers <- MCRingNumbers
  WinScores = {0, 1, 2}
  MostServices = 3
  LuckyNumbers = {0, 1, 3}
  Ranges <- MCRanges
  ThreadCount = 2
  Shapes <- MCShapes
  PlateRows = 4
  MostStates = 2
CHECK_DEADLOCK FALSE
INVARIANTS
  TypesOK
  TurnsTaken
  ResultsAgree
  WorkDividedOnce
PROPERTIES
  ProgramsEnd
