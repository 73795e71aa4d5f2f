SPECIFICATION Spec
CONSTANTS
  Pages = {p1,p2,p3,p4}
  Readers = {r1,r2}
  MaxId = 7
  MaxSavepoint = 0
  MaxNewPages = 1
  Uses = {"non_durable"}
SYMMETRY Interchangeable
CHECK_DEADLOCK FALSE
INVARIANT ReadersSafe
INVARIANT CommitsSafe
INVARIANT NoLeak
