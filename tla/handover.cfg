SPECIFICATION FairSpec
CONSTANTS
  Ops = {"stop", "timeout", "shutdown", "slow", "stuck", "exec-fails", "restore-fails"}
  MaxBytes = 3
  MaxUpgrades = 2
CHECK_DEADLOCK FALSE
INVARIANTS ReportCounts
PROPERTIES OutputWhole OutputArrives StopStillKills
