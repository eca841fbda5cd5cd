SPECIFICATION ProgramsSpec
CONSTANTS
  MostProcesses = 2
  CountsOf <- MCOnlyHybrid
  RingNumbers <- MCRingNumbers
  WinScores = {1}
  MostServices = 1
  LuckyNumbers = {0}
  Ranges <- MCExample
  ThreadCount = 3
  Shapes = {}
  PlateRows = 4
  MostStates = 1
CHECK_DEADLOCK FALSE
INVARIANTS
  PartsOfTheRange
