SPECIFICATION ThreadsSpec
CONSTANTS
  TeamSize = 3
  HitsAvailable = 4
  HitsOfThread <- MCHits
  Atoms = 4
  Dancers = 5
  BufferCapacity = 2
  Rounds = 3
  JobFiles <- MCJobs
  MostClients = 2
  MostAddresses = 2
  Requests <- MCRequests
  Vectors <- MCVectors
  Callers = {t1, t2}
  Address = {n1, n2, n3, n4}
  Data = {1, 2}
  NULL = NULL
CHECK_DEADLOCK FALSE
INVARIANTS
  TypesOK
  TurnsRespected
  GroupsAreWhole
  MemoryOutlivesThreads
  ListIsWhole
PROPERTIES
  FirstInFirstOut
  ProgramsEnd
