\* authorize and attest, while the branch is edited, committed, updated and
\* landed under them.
CONSTANTS
  x = x
  y = y
  none = none
  lax = lax
  strict = strict
  foreign = foreign
  Topics = {t}
  Contents = {none, x, y}
  Absent = none
  Settings = {lax, strict}
  Foreign = {}
  Rejected <- StrictRejectsY
  Protected = {TRUE}
  None = None
  MaxRecords = 1
  MaxEdits = 1
SPECIFICATION AuthorizationSpec
CHECK_DEADLOCK FALSE
INVARIANTS AuthorizationTypeOK AuthorizedIsAcceptable AcceptedAllowIsBacked
