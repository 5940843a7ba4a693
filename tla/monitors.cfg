SPECIFICATION FairSpec
CONSTANTS
  MaxLines = 2
  Ops = {"drop", "upgrade", "exhaust", "limit", "timeout", "stop"}
  MaxFaults = 1
  MaxRare = 1
CHECK_DEADLOCK FALSE
INVARIANTS LinesInOrder EndIsLast 
PROPERTIES EndIsTold
