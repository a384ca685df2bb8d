SPECIFICATION Spec
CONSTANTS
  Client = {"c1"}
  Kinds <- MCAllKinds
  MaxCommands <- MCTwoCommands
  None = None
CHECK_DEADLOCK FALSE
INVARIANT RepliesWhole
