CONSTANTS
  p1 = p1
  p2 = p2
  s1 = s1
  s2 = s2
  a = a
  b = b
  r1 = r1
  r2 = r2
  e1 = e1
  e2 = e2
  t1 = t1
  t2 = t2
  shared = shared
  NoRow = NoRow
  NoProc = NoProc
  NoCall = NoCall
  Bytes <- MCBytes
  InitialBytes <- NoRules
  Proc = {p1, p2}
  Session = {s1, s2}
  Scope = {a, b}
  Targets <- SharedFile
  Edits <- AddOne
  Event = {e1, e2}
  Token = {t1, t2}
  MaxClock = 3
  EventTTL = 2
  SessionTTL = 2
  ProposalTTL = 2
  PruneInterval = 1
CHECK_DEADLOCK FALSE
SPECIFICATION Spec
SYMMETRY Symmetric
INVARIANTS FailedCommitUndone CurrentPromptKept
PROPERTIES ConfirmedAsShown TokensLeave EventsOnlyAge
