SPECIFICATION Spec
CONSTANTS
  Shell = {s}
  Mon = {m}
  w1 = w1
  w2 = w2
  Children <- MCOneChild
  Retain = 0
  FinishedCap = 2
  Ops = {"drop", "exhaust", "fail", "restart", "stop", "timeout"}
  MaxOps = 2
CHECK_DEADLOCK FALSE
PROPERTIES RowsLookedAfter ListComplete ListHonest
