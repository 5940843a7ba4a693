SPECIFICATION FairSpec
CONSTANTS
  NChildren = 4
  Workers = 3
  FailFast = TRUE
  MaxSlots = 1
  Budget = 3
  StallRetries = 1
  MaxTurns = 3
INVARIANTS SlotsAccounted
PROPERTIES TurnsAnswered TurnsEnd
CHECK_DEADLOCK FALSE
