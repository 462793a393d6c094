CONSTANTS
  r1 = r1
  r2 = r2
  o1 = o1
  o2 = o2
  None = None
  Release = {r1, r2}
  Owner = {o1, o2}
  MaxRuns = 2
  MaxTroubles = 2
CHECK_DEADLOCK FALSE
SYMMETRY Symmetric
SPECIFICATION Spec
INVARIANTS OldKept RetrySucceeds
PROPERTIES ReceiptTrue
