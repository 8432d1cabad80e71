CONSTANTS
  Gpus = {g1, g2}
  Order = 67
  Width = 256
  HalfRange = 8
  Keys = {5}
  Offsets = {16}
  Tames <- MCTames
  Wilds <- MCWilds
  Reach = 9
  XMod = 8
  LowD = 8
  ListSize = 3
  MaxDPs = 2
  MaxPoints = 3
  MaxSolves = 2
  NoKey = NoKey
SPECIFICATION Spec
INVARIANTS ListKept PairGivesKey
PROPERTIES Returns
