SPECIFICATION Spec
CONSTANTS
  Key = {1, 2, 3}
  Value = {1, 2}
  LongKey = {}
  Garbage = Garbage
  Absent = Absent
  Addr = {a1, a2, a3}
  Header = Header
  Null = Null
  MaxLevel = 2
  UintMod = 8
  Capacities = {0}
SYMMETRY MCSymmetry
CHECK_DEADLOCK FALSE
INVARIANT DestructorReleasesAll
