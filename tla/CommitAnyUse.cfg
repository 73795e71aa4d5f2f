CONSTANTS
  MaxRoots = 3
  MaxId = 7
  CommitKinds = {"one_phase", "two_phase", "quick_repair"}
  HeaderWrites = "parts"
  CrashDuring = {"repair", "first_commit"}
  CheckAfterNonDurable = TRUE
SPECIFICATION Spec
CHECK_DEADLOCK FALSE
PROPERTY CloseSavesAllocatorState
