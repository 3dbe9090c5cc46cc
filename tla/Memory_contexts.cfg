CONSTANTS
  PIDS = {0, 1, 2}
  MemoryMap <- MCMap
  Program <- MCProgram
  Reserved <- MCReserved
  SectionPages = 2
  DirPages = 1
  StackPages = 1
  ArgsPages = 2
  NumPages = 30
  SparsePages = 1
  HeapPages = 1
  HeapRequests = {1}
  MaxJobs = 2
  MaxKills = 1
  MaxPrivate = 2
SPECIFICATION Spec
INVARIANTS PagesOwned 
CHECK_DEADLOCK FALSE
