\* Two humans approve at once.
SPECIFICATION Spec
CONSTANTS
  Lockers = {}
  Approvers = {p1, p2}
  Statuses = {}
  Unlockers = {}
  CiRuns = {}
  StrictRuns = {}
  Humans = {p1, p2}
  Faulty = {}
  Late = {}
  Contents = {c1, c2}
  Unpinned = {}
  Texts = {t1}
  Hidden = {}
  NoLock = NoLock
  BadLock = BadLock
  StartStates = {"locked"}
  MaxEdits = 1
INVARIANT NoFalseLockdown
