SPECIFICATION FairSpec
CONSTANTS
  MaxQueue = 1
  MaxBatch = 1
  Garbage = {99}
  MaxDPs = 2
  MaxWork = 0
  MaxFrames = 1
  Unasked = FALSE
  MaxConns = 1
INVARIANT TypeOK
PROPERTIES CallsReturn Flushed
