SPECIFICATION Spec

CONSTANTS
  MaxQueue = 2
  MaxBatch = 2
  Garbage = {99}
  MaxDPs = 2
  MaxWork = 1
  MaxFrames = 1
  Unasked = TRUE
  MaxConns = 2

INVARIANT EachDPOnce
INVARIANT SequencesCount

