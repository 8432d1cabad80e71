SPECIFICATION FairManagerSpec
CHECK_DEADLOCK FALSE
CONSTANTS
  MaxAttempts = 3
  MaxSessions = 3
  MaxDPs = 4
INVARIANTS ManagerTypeOK OneOwner EveryDPCounted
PROPERTIES SessionSpec
