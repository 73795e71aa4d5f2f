SPECIFICATION Spec
CONSTANTS
  Pages = {p1,p2,p3,p4}
  Readers = {}
  MaxId = 9
  MaxSavepoint = 1
  MaxNewPages = 1
  Uses = {"persistent", "reopen", "quick_repair"}
SYMMETRY Interchangeable
CHECK_DEADLOCK FALSE
INVARIANT EachPageOnce
INVARIANT QuickRepairAgrees
INVARIANT PersistentSavepointsValid
