\* Nobody dies; an action takes up to StaleMs ticks.
SPECIFICATION FairSpec
CONSTANTS
  Calls = {a, b, c}
  Faulty = {}
  Slow = {}
  HoldMax = 2
  StaleMs = 2
  WaitMs = 3
  PromptPolls = TRUE
  LastStart = 1
  MaxTime = 9
INVARIANTS TypeOK MutualExclusion
PROPERTIES ReleaseOnlyOwn ImplementsMutex
