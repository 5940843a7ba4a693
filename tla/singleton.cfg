SPECIFICATION FairSpec
CONSTANTS
  d1 = d1
  d2 = d2
  c1 = c1
  c2 = c2
  e1 = e1
  e2 = e2
  Proc = {d1, d2}
  Cli = {c1, c2}
  Ext = {e1}
  Ops = {"crash", "shutdown", "doctor", "slow"}
  MaxFaults = 1
  MaxClients = 2
INVARIANTS OneManager
PROPERTIES FilesKept CliAnswers
CHECK_DEADLOCK FALSE
