CONSTANTS
  p1 = p1
  p2 = p2
  codex = codex
  pi = pi
  d1 = d1
  d2 = d2
  e1 = e1
  e2 = e2
  NoDoc = NoDoc
  NoRow = NoRow
  None = None
  ConfigFile = ConfigFile
  Proc = {p1, p2}
  Host = {codex, pi}
  Targets <- Enrolled
  Commit <- ThreeCommits
  DocOf <- Reverting
  Edits = {e1}
  MaxEdits = 1
  MaxCrashes = 1
  MaxFaults = 1
CHECK_DEADLOCK FALSE
SYMMETRY Symmetric
SPECIFICATION Spec
INVARIANTS ContentKept
PROPERTIES RollbackComplete JournalBlocks SyncIsAtomic
