SPECIFICATION Spec
CONSTANTS
  Key = {m1}
  Value = {1}
  LongKey = {}
  Garbage = Garbage
  Absent = Absent
  NaN = NaN
  None = None
  Client = {c1, c2}
  Name = {k1, k2}
  Signals = {"SIGTERM"}
  TimeSlot = 1
  MaxTimers = 2
  Lines <- MCExpiryLines
CHECK_DEADLOCK FALSE
INVARIANTS
  AlarmChain
PROPERTIES
  OnlyTimersErase
  TimersFire
  SignalStops
