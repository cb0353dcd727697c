SPECIFICATION FairSpec
CONSTANTS
  WORDS = 2
  LINE = 2
  MAX_OPS = 3
  Accesses <- MCAccesses
  RawStores <- MCRawStores
  CellWidths = {1, 2, 4}
  Limits = {1}
  MEM <- MCMem
  DIRT <- MCDirt
INVARIANTS TypeOK LoadsRight ExpectExact NeverDiverges
PROPERTIES PortIsMemory CallsReturn
CHECK_DEADLOCK FALSE
