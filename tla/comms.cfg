SPECIFICATION FairSpec
CONSTANTS
  Child = {a, b}
  Label = {x}
  MaxTurns = 3
  MaxAsks = 1
INVARIANTS TurnsTold
PROPERTIES PromptsFilled ParentFreed
CHECK_DEADLOCK FALSE
