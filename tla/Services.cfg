SPECIFICATION Spec
INVARIANTS  CoresRight     RequestsRight
CHECK_DEADLOCK FALSE
