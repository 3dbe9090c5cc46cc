SPECIFICATION Spec
INVARIANTS  TextRight LoadedRight ProgramsRight   InterruptsRight MachineRight
CHECK_DEADLOCK FALSE
