SPECIFICATION Spec
CONSTANTS
  WORDS_PER_LINE = 2
  ASSOCIATIVITY = 2
  SET_NUM = 2
  LRU_MAX = 0
  t1 = t1
  t2 = t2
  t3 = t3
  t4 = t4
  lo = lo
  hi = hi
  b0 = b0
  b1 = b1
  Tags = {t1, t2, t3, t4}
  ZeroTag = t1
  Lanes = {lo}
  Byte = {b0, b1}
  Zero = b0
  InitMem <- MCInitMem
  ReqAddrs <- TwoSets
  ReqWords <- OneWord
  RESET_CYCLES = 3
  MAX_HITS = 1
INVARIANTS TypeOK UniqueTag CleanLineIsMemory TransactionHeld
PROPERTIES AtomicMemory VictimStable ResetClears
