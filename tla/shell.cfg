SPECIFICATION FairSpec
CONSTANTS
  Tools = {"bash", "background", "child"}
  Limits = {1, 3}
  Budget = 1
  Slice = 1
  Window = 1
  MaxSize = 2
  Ops = {"unavailable", "drop", "crash", "timeout", "no-shell", "session-end"}
  MaxFaults = 2
INVARIANTS AnswersTrue
PROPERTIES CallAnswers AbortStops
CHECK_DEADLOCK FALSE
