SPECIFICATION Spec
CONSTANTS
  Q = 1
  Operands = {1, 6, 11, 15}
  Factors = {3}
  Dividends = {1, 2}
  Divisors = {1, 2}
  FLUSH_DIVISION = TRUE
INVARIANTS DividerContract
