SPECIFICATION Spec
CONSTANTS
  Clients = {c1, c2, c3}
  NoClient = NoClient
  CacheSize = 2
  MaxTime = 4
  MaxReq = 2
  MaxRuns = 2
INVARIANT CacheInv
PROPERTY RunsAgainOnlyWhenFull
CHECK_DEADLOCK FALSE
