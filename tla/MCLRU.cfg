SPECIFICATION LRUSpec
CONSTANTS
  Key = {1, 2, 3}
  Value = {7}
  LongKey = {3}
  Garbage = Garbage
  CapacityArgs <- MCCapacities
  MaxClock = 5
INVARIANTS
  IndexMatchesList
  WithinCapacity
  RecencyOrder
PROPERTIES
  EvictsLeastRecent
  EvictionsReported
