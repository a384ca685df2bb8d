SPECIFICATION Spec
CONSTANTS
  Key = {m1}
  Value = {1}
  LongKey = {}
  Garbage = Garbage
  Absent = Absent
  NaN = NaN
  None = None
  Client = {c1, c2}
  Name = {k1}
  Signals = {}
  TimeSlot = 1
  MaxTimers = 1
  Lines <- MCCommandLines
CHECK_DEADLOCK FALSE
INVARIANTS
  TypeOK
  ConfigApplied
PROPERTIES
  RequestsAnswered
