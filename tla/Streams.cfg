SPECIFICATION Spec
CONSTANTS
  Client = {"c1", "c2", "c3"}
  Kinds <- MCKinds
  MaxCommands <- MCMaxCommands
  None = None
CHECK_DEADLOCK FALSE
INVARIANTS
  AloneIsAccepted
  CommandsAlone
PROPERTIES
  ReadReturns
