SPECIFICATION Spec
CONSTANTS
  c1 = c1  c2 = c2  w1 = w1  w2 = w2  None = None
  Conns = {c1, c2}
  Workers = {w1, w2}
  Login <- OwnLogin
  Chunks <- OneChunk
  N = 11
  Key = 3
  DPs <- FourPoints
  Claims <- TheClaims
  Requests = {"DP_BATCH", "DP_SUBMIT", "SOLUTION"}
  MaxBatch = 2
  MaxRows = 3
  MaxWork = 0
  Sleepers = {}
  MaxReports = 1
  MaxFaults = 1
INVARIANTS TypeOK CreditMatchesRows CollisionCaught OnlyTheKey
SYMMETRY SwapRigs
