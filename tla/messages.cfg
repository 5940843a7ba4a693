CONSTANTS
  k1 = k1
  k2 = k2
  k3 = k3
  r1 = r1
  r2 = r2
  n1 = n1
  n2 = n2
  Registry <- MCRegistry
  RunOf <- MCRunOf
  NameOf <- MCNameOf
  Capacity = 2
  LogLimit = 2
  Talker = {k1, k2}
  MaxCalls = 3
  MaxAgain = 1
SPECIFICATION Spec
INVARIANTS DeliveryAccounted AnswersKept
CHECK_DEADLOCK FALSE
