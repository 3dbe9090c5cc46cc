CONSTANTS
  Clients = {c1}
  Hosts = {h1}
  Broadcast = bc
  MaxPackets = 2
  QueueSize = 1
  MaxRetries = 1
  Timeout = 1
  MaxWait = 1
  MaxReceived = 1
  None = None
SPECIFICATION MCSpec
INVARIANTS PacketsAccounted 
PROPERTIES WriteAnswered TimedWaitAnswered
