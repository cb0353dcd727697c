SPECIFICATION FairSpec
CONSTANTS
  total = 3
  MAX_WORKERS = 3
INVARIANTS TypeOK RunOnce Verdict HooksOnce FlagAlive
PROPERTIES Ends
CHECK_DEADLOCK FALSE
