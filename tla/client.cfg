SPECIFICATION FairSpec
CONSTANTS
  MaxConn = 2
  Start = {s}
  Plain = {}
  Once = {o}
  Ops = {"drop", "slow", "timeout", "upgrade-fails", "crash", "shutdown", "close", "takeover"}
  MaxFaults = 1
  MaxUpgrades = 1
CHECK_DEADLOCK FALSE
INVARIANTS StartedOnce SessionBound
PROPERTIES RequestsEnd IdleDaemonStops
