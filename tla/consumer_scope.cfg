CONSTANTS
  p1 = p1
  p2 = p2
  boot = boot
  sidecar = sidecar
  local = local
  bootstrap = bootstrap
  review = review
  Project = {p1, p2}
  Inventory <- Sorted
  Skill = {boot, sidecar, local}
  Capability = {bootstrap, review}
  NameOf <- Names
  Sees <- Seen
  Desired = Desired
  Patched = Patched
  Old = Old
  Unreadable = Unreadable
  MaxChanges = 1
CHECK_DEADLOCK FALSE
SPECIFICATION Spec
INVARIANTS PackAccepted ReadyIsTrue ReadyWasTrue
