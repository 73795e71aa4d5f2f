SPECIFICATION Spec
CONSTANTS
  Group = 2
  RegionPages = 4
  HeaderPages = 0
  InitialRegions = 2
  TrackerCapacity = 4
  InitialPages = 3
  MaxRegions = 3
  MaxAllocations = 3
  MaxCommits = 2
  MaxOpens = 1
CHECK_DEADLOCK FALSE
INVARIANTS RegionAssertsHold BlocksDisjoint FreeAtLargestOrder SmallestFound
PROPERTIES ImplementsFileLength
