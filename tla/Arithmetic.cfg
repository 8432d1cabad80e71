CONSTANTS
  Half = 8
  K = 3
  FieldSize = 67
  Order = 79
  Gx = 2
  Gy = 22
  Bits = 7
  WindowSize = 2
  NumWindows = 4
  Beta = 37
  A1 = 7
  B1 = 3
  A2 = 10
  G1 = 363
  G2 = 156
  Shift = 12
  Width = 8
  WindowBits = 2
  MaxWindow = 3
  KeysPerThread = 3
  MaxSteps = 2
  Operands <- MCOperands
  Addends <- MCAddends
  Lengths <- MCLengths
SPECIFICATION Spec
CHECK_DEADLOCK FALSE
INVARIANTS FieldAgrees CurvesAgree DigestsAgree
