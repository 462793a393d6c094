CONSTANTS
  p1 = p1
  p2 = p2
  r1 = r1
  r2 = r2
  e1 = e1
  e2 = e2
  t1 = t1
  t2 = t2
  t3 = t3
  NoProc = NoProc
  NoTx = NoTx
  NoPlan = NoPlan
  NoOp = NoOp
  Bytes <- MCBytes
  GlobalScope <- Global
  Proc = {p1, p2}
  Tx = {t1, t2}
  Event = {e1}
  Path = {1, 2}
  Scopes <- GlobalOnly
  InitialBytes <- FirstRule
  Edits <- AddOrRemove
  Budget <- OneCrash
CHECK_DEADLOCK FALSE
SPECIFICATION FairSpec
PROPERTIES JournalsSettle CallsEnd
