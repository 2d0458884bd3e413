\* An addition, a project install and a check, two at a time, the installs killed
\* or failing anywhere, beside an edit that brings no old lockfile back.
CONSTANTS
  Additions = {a}
  ProjectInstalls = {p}
  Checks = {k}
  Faulty = {a, p}
  Undo = FALSE
  Contents = {none, x, y}
  Absent = none
  MaxEdits = 1
SPECIFICATION Spec
SYMMETRY InterchangeableContents
CONSTRAINT AtMostTwo
INVARIANTS TypeOK Unforked InstalledWasEvaluated RecordBindsInstalled
PROPERTY ImplementsStore
