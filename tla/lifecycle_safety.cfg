SPECIFICATION Spec
CONSTANTS
  t1 = t1
  s1 = s1
  Task = {t1}
  SessionOf <- OneSession
  Ops = {"stop", "timeout", "background", "session-end", "shutdown", "crash", "straddle", "persist-fails", "escape", "runner-killed"}
  MaxLives = 2
  MaxStops = 2
INVARIANTS RecordsAgree RequestedKillSticks ExitLoggedOnce  LiveGroupOwned
CHECK_DEADLOCK FALSE
