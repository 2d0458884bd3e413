\* Two branches land in either order, with records, edits and deletions, under
\* either kind of branch protection.
CONSTANTS
  x = x
  y = y
  none = none
  lax = lax
  strict = strict
  foreign = foreign
  Topics = {t, u}
  Contents = {none, x, y}
  Absent = none
  Settings = {lax, strict, foreign}
  Foreign = {foreign}
  Rejected <- StrictRejectsY
  Protected = {TRUE, FALSE}
  MaxRecords = 2
  MaxEdits = 2
SPECIFICATION Spec
CHECK_DEADLOCK FALSE
SYMMETRY Interchangeable
INVARIANTS TypeOK RecordedVerifies
PROPERTY LandedWasRecorded
