SPECIFICATION FairSpec
CONSTANTS
  Q = 1
  Operands = {1, 6, 11, 15}
  Factors = {11, 15}
  Dividends = {6, 8, 13, 15}
  Divisors = {0, 1, 4, 10, 15}
  FLUSH_DIVISION = FALSE
INVARIANTS TypeOK UnitsRight AluRight NoBitLost
PROPERTIES DoneStays LeavesExecute
