\* One holder dies and two waiters find its stale lock.
SPECIFICATION Spec
CONSTANTS
  Calls = {a, b, c}
  Faulty = {a}
  Slow = {}
  HoldMax = 0
  StaleMs = 2
  WaitMs = 3
  PromptPolls = TRUE
  LastStart = 1
  MaxTime = 9
INVARIANT MutualExclusion
