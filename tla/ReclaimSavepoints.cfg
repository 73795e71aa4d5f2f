SPECIFICATION Spec
CONSTANTS
  Pages = {p1,p2,p3}
  Readers = {}
  MaxId = 7
  MaxSavepoint = 2
  MaxNewPages = 1
  Uses = {"ephemeral", "persistent", "non_durable"}
SYMMETRY Interchangeable
CHECK_DEADLOCK FALSE
INVARIANT SavepointsSafe
INVARIANT AllocatedTableLive
INVARIANT AssertsHold
INVARIANT ReferencesOwned
