SPECIFICATION MCFairSpec
CONSTANTS
  NAddrs = 2
  NWords = 1
  NVals = 2
  DLines = 1
  ILines = 1
  Roots <- MCRoots
INVARIANTS FetchFresh AckMeansClean PortHeld
PROPERTIES DataIsMemory Served
