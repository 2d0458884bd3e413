\* Two setups and a person's edit beside an agent's tool calls.
SPECIFICATION MCSpec
CONSTANTS
  g = g
  i = i
  Clients = {"claude", "codex", "cursor"}
  Hooks = {}
  Setups = {g, i}
  Inits = {i}
  Forced = {}
  Guarding = {g, i}
  Locking = {i}
  Asked <- AskedNames
  Present = {}
  Faulty = {g}
  Absent = Absent
  Broken = Broken
  NoLock = NoLock
  BadLock = BadLock
  MaxEdits = 2
  Paths <- PathSet
  Calls = {k}
  Issued <- Lines
  None = None
CONSTRAINT Phases
CHECK_DEADLOCK FALSE
INVARIANTS SessionTypeOK GuardedOnce InitProtects SuggestionAccepted
PROPERTIES   RemoteNeedsConsent DriftStops 
