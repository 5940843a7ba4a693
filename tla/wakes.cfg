SPECIFICATION FairSpec
CONSTANTS
  Task = {t, u}
  Background = {u}
  Ops = {"drop", "crash", "exhaust", "abort", "look"}
  MaxFaults = 1
CHECK_DEADLOCK FALSE
INVARIANTS ToldOnce StillRunningTrue
PROPERTIES WakeComes
