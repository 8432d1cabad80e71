SPECIFICATION Spec
CONSTANTS
  c1 = c1  c2 = c2  w1 = w1  w2 = w2  None = None
  Conns = {c1, c2}
  Workers = {w1, w2}
  Login <- MixedLogin
  Chunks <- TwoChunks
  N = 11
  Key = 3
  DPs <- TwoWork
  Claims <- NoClaims
  Requests = {"PING", "WORK_REQ", "UNKNOWN"}
  MaxBatch = 1
  MaxRows = 0
  MaxWork = 3
  Sleepers = {w1, w2}
  MaxReports = 0
  MaxFaults = 1
INVARIANT NewestOnly
PROPERTY WorkIdsAreForever
