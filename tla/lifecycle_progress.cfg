SPECIFICATION FairSpec
CONSTANTS
  t1 = t1
  s1 = s1
  Task = {t1}
  SessionOf <- OneSession
  Ops = {"stop", "timeout", "session-end", "shutdown", "crash", "straddle", "persist-fails", "escape"}
  MaxLives = 3
  MaxStops = 2
PROPERTIES ImplementsContract  EndIsReached
CHECK_DEADLOCK FALSE
