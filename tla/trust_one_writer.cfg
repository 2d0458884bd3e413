\* A human and an agent run approve beside a reconciliation; when these have ended
\* an agent runs lock --mode strict and unlock.
SPECIFICATION Spec
CONSTANTS
  Lockers = {k}
  Approvers = {p, g}
  Statuses = {s}
  Unlockers = {w}
  CiRuns = {}
  StrictRuns = {k}
  Humans = {p}
  Faulty = {}
  Late = {k, w}
  Contents = {c1, c2}
  Unpinned = {}
  Texts = {t1, th}
  Hidden = {th}
  NoLock = NoLock
  BadLock = BadLock
  StartStates = {"locked"}
  MaxEdits = 2
INVARIANTS TypeOK NoFalseLockdown NoEntryLost OnlyReviewed NoHiddenBaseline PassMeansReviewed
PROPERTY OnlyHumansRebase
