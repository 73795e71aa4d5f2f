CONSTANTS
  MaxRoots = 3
  MaxId = 7
  CommitKinds = {"one_phase", "two_phase", "quick_repair"}
  HeaderWrites = "torn"
  CrashDuring = {}
  CheckAfterNonDurable = FALSE
SPECIFICATION Spec
CHECK_DEADLOCK FALSE
INVARIANT CrashSafe
