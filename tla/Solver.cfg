SPECIFICATION FairSpec
CHECK_DEADLOCK FALSE
CONSTANTS
  t1 = t1  t2 = t2
  Threads = {t1, t2}
  Low = 256
  High = 511
  Key = 381
  Top = 391
  X <- MCX
  Hash <- MCHash
  Stray <- MCStray
  NumJumps = 2
  WordBits = 16
  DpBits = 1
  UserMaxSteps = 5
  TameOffsets <- MCTame
  WildOffsets <- MCWild
  HashOffsets <- MCHashOffsets
  Aliased = {FALSE}
  WorkFile = TRUE
  Files <- MCFiles
  MaxRuns = 2
  MaxTotal = 8
INVARIANTS TypeOK KeyIsRight SecondSees PoolCanSolve
PROPERTIES Returns
