SPECIFICATION Spec
CONSTANTS
  WORDS_PER_LINE = 2
  ASSOCIATIVITY = 1
  SET_NUM = 1
  LRU_MAX = 0
  NUM_INPUTS = 2
  d1 = d1
  d2 = d2
  c1 = c1
  c2 = c2
  u1 = u1
  lo = lo
  b0 = b0
  b1 = b1
  b2 = b2
  Tags = {d1, d2, c1, c2}
  ZeroTag = d1
  Lanes = {lo}
  Byte = {b0, b1, b2}
  Zero = b0
  LowLanes <- Low
  InitMem <- MCInitMem
  ReqAddrs <- Data
  ReqWords <- Stored
  Fetches <- Code
  RESET_CYCLES = 2
  MAX_HITS = 1
INVARIANTS BusHeld FetchedIsCode
PROPERTIES DataSideAlone FetchSideAlone
