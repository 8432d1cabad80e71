SPECIFICATION FairSpec
CONSTANTS
  c1 = c1  c2 = c2  w1 = w1  w2 = w2  None = None
  Conns = {c1, c2}
  Workers = {w1, w2}
  Login <- OwnLogin
  Chunks <- OneChunk
  N = 11
  Key = 3
  DPs <- TwoHalves
  Claims <- TheClaims
  Requests = {"WORK_REQ", "DP_BATCH", "STATS_REQ", "SOLUTION"}
  MaxBatch = 1
  MaxRows = 2
  MaxWork = 2
  Sleepers = {}
  MaxReports = 1
  MaxFaults = 0
PROPERTIES Answered StoreLiveSpec
