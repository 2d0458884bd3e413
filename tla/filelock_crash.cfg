\* One call may die or fail its token write; actions take less than a tick.
SPECIFICATION FairSpec
CONSTANTS
  Calls = {a, b, c}
  Faulty = {a}
  Slow = {}
  HoldMax = 0
  StaleMs = 2
  WaitMs = 3
  PromptPolls = TRUE
  LastStart = 1
  MaxTime = 9
INVARIANTS NoLeak OneCrashDelaysNobody
PROPERTIES Termination
