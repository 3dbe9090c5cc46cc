SPECIFICATION LiveSpec
CONSTANTS
  Clients = {c1, c2}
  Server = srv
  None = none
  NumIds = 1
  Capacity = 1
  MaxEvents = 1
  MaxFifo = 1
  Readers = {c1}
  MaxOrphans = 0
INVARIANTS ServerWakes
PROPERTIES WriteAnswered CharacterDelivered
CHECK_DEADLOCK FALSE
