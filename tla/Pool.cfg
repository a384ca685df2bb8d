SPECIFICATION Spec
CONSTANTS
  Worker = {w1, w2}
  Task = {t1, t2, t3}
  None = None
CHECK_DEADLOCK FALSE
INVARIANTS
  PopSucceeds
  NoTaskTwice
  StrandedOnlyByRace
PROPERTIES
  ShutdownReturns
