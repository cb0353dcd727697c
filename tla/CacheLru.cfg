SPECIFICATION FairSpec
CONSTANTS
  WORDS_PER_LINE = 2
  ASSOCIATIVITY = 2
  SET_NUM = 1
  LRU_MAX = 7
  t1 = t1
  t2 = t2
  t3 = t3
  t4 = t4
  lo = lo
  hi = hi
  b0 = b0
  b1 = b1
  Tags = {t1, t2, t3}
  ZeroTag = t1
  Lanes = {lo, hi}
  Byte = {b0, b1}
  Zero = b0
  InitMem <- MCInitMem
  ReqAddrs <- OneSet
  ReqWords <- OneWord
  RESET_CYCLES = 2
  MAX_HITS = 4
PROPERTIES HitIsYoungest EventuallyAnswered AtomicMemory
