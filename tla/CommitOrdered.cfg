CONSTANTS
  MaxRoots = 3
  MaxId = 8
  CommitKinds = {"one_phase", "two_phase", "quick_repair"}
  HeaderWrites = "ordered"
  CrashDuring = {"repair", "first_commit"}
  CheckAfterNonDurable = FALSE
SPECIFICATION FairSpec
CHECK_DEADLOCK FALSE
INVARIANT CrashSafe
PROPERTY OperationsEnd
PROPERTY ImplementsDurableStore
