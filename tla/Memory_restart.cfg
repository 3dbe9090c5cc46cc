CONSTANTS
  PIDS = {0, 1}
  MemoryMap <- MCMap
  Program <- MCProgram
  Reserved <- MCReserved
  SectionPages = 2
  DirPages = 1
  StackPages = 1
  ArgsPages = 2
  NumPages = 40
  SparsePages = 1
  HeapPages = 1
  HeapRequests = {1}
  MaxJobs = 2
  MaxKills = 0
  MaxPrivate = 1
SPECIFICATION Spec
INVARIANT BufferKept
CHECK_DEADLOCK FALSE
