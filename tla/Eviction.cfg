SPECIFICATION Spec
CONSTANTS
  Key = {1, 2, 3}
  Value = {1, 2}
  LongKey = {3}
  Garbage = Garbage
  Absent = Absent
  Addr = {a1, a2, a3}
  Header = Header
  Null = Null
  MaxLevel = 2
  UintMod = 2
  Capacities = {1, 2}
SYMMETRY MCSymmetry
CHECK_DEADLOCK FALSE
INVARIANTS
  IndexMatchesList
PROPERTIES
  ImplementsZSet
