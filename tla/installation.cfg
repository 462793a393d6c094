CONSTANTS
  v1 = v1
  v2 = v2
  d1 = d1
  d2 = d2
  None = None
  Version = {v1, v2}
  Doc = {d1, d2}
  MaxEvent = 3
  OldEvents = 2
  MaxCommands = 2
  MaxCrashes = 1
  MaxFaults = 1
  MaxOutside = 1
  RulesMeanwhile = FALSE
CHECK_DEADLOCK FALSE
SYMMETRY Symmetric
SPECIFICATION Spec
INVARIANTS HooksRunnable WholeInstallation ApprovalsOnce SetupRepairs
PROPERTIES SkillKept
