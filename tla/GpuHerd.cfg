CONSTANTS
  FieldSize = 67
  Order = 79
  Gx = 2
  Gy = 22
  Gpus = {g1, g2}
  Targets <- MCTargets
  TameStarts <- MCTames
  NumJumps = 4
  JumpDistance <- MCJumps
  DpMod = 4
  StepsPerRound = 2
  LowMod = 64
  DistMod = 118
SPECIFICATION Spec
INVARIANTS PositionsHold SamePointKey
PROPERTIES Returns
