SPECIFICATION RestartSpec
CONSTANTS
  Clients = {c1}
  Server = srv
  None = none
  NumIds = 2
  Capacity = 1
  MaxEvents = 2
  MaxFifo = 2
  Readers = {}
  MaxOrphans = 1
INVARIANTS AnswersMatch
CHECK_DEADLOCK FALSE
