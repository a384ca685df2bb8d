SPECIFICATION Spec
CONSTANTS
  Key = {"a", "b"}
  Value <- MCScore
  LongKey = {}
  Garbage = Garbage
  Absent = Absent
  NumThreads = 3
  TestCounts = {2, 3, 7}
  None = None
CHECK_DEADLOCK FALSE
INVARIANTS
  TypeOK
  NoRace
  SearchFinds
PROPERTIES
  MainReturns
