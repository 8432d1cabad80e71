SPECIFICATION GpuFairSpec
CONSTANTS
  Low <- MCLow
  High <- MCHigh
  Batch = 3
  Limit = 32
  Targets = {23}
  MaxKills = 1
  MaxQuits = 1
  Backends = {"cuda", "metal"}
  NumDevices = 2
  MaxFaults = 1
  MaxTroubles = 2
INVARIANTS
  TypeOK
  NothingSkipped
PROPERTIES
  ZoneSpec
  Ends
CHECK_DEADLOCK FALSE
