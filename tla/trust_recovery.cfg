\* Two locks and an unlock, two at a time, on a disk in any state; one lock and the
\* unlock may die anywhere.  Then a human approves or unlocks.
SPECIFICATION Spec
CONSTANTS
  Lockers = {k, l}
  Approvers = {p}
  Statuses = {}
  Unlockers = {u1, u2}
  CiRuns = {k}
  StrictRuns = {}
  Humans = {p, u1, u2}
  Faulty = {k, u1}
  Late = {p, u2}
  Contents = {c1, c2}
  Unpinned = {}
  Texts = {t1}
  Hidden = {}
  NoLock = NoLock
  BadLock = BadLock
  StartStates = {"unlocked", "locked", "any"}
  MaxEdits = 0
CONSTRAINT AtMostTwo
INVARIANTS ApprovalRestores UnlockClears
