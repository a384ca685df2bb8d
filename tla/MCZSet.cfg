SPECIFICATION Spec
CONSTANTS
  Key = {1, 2, 3}
  Value <- MCScore
  LongKey = {3}
  Garbage = Garbage
  Absent = Absent
  Capacities = {0, 1, 2}
INVARIANTS
  TrackedArePresent
  UntrackedArePending
  PendingUntracked
PROPERTIES
  StoreRestoresBound
  DropsOnlyOldest
  StoresUnlessPending
