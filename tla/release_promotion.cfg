CONSTANTS
  o1 = o1
  o2 = o2
  w1 = w1
  w2 = w2
  b1 = b1
  b2 = b2
  b3 = b3
  c1 = c1
  c2 = c2
  None = None
  NoBuild = NoBuild
  NoPlan = NoPlan
  Operator = {o1}
  Resolver = {w1}
  Build = {b1, b2, b3}
  Commit = {c1, c2}
  CommitOf <- Commits
  Tag = c1
  Directories <- Dirs
  Attempts = 2
  MaxRuns = 1
  MaxChanges = 1
CHECK_DEADLOCK FALSE
SPECIFICATION FairSpec
INVARIANTS ResolvedWhole
PROPERTIES PublishesThePlan ReceiptTrue CallsEnd
