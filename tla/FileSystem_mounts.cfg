\* A server below another one, a directory with a file.
CONSTANTS
  Clients = {"c1"}
  Servers = {"tmp", "net"}
  Root = "root"
  Recovery = "recovery"
  MountPath <- TwoMounts
  Paths <- TwoPaths
  Directories <- TwoDirectories
  Program <- ServerProgram
  MaxMounts = 2
  MaxClientMounts = 1
  MaxMade = 2
  Restartable = {"tmp"}
  MaxRestarts = 1
  None = None
SPECIFICATION FairSpec
INVARIANTS FileReached 
PROPERTIES CallReturns RestartEnds
CHECK_DEADLOCK FALSE
