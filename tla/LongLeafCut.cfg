SPECIFICATION Spec
CONSTANTS
  Blocks <- MCBlocks
  Readers = {r1, r2}
  LockStripes = 1
  MaxReadCacheBytes = 2
  MaxWriteBufferBytes = 2
  Leaves <- MCLongLeaves
  Branches <- MCShortBranches
  MaxWrites = 3
SYMMETRY MCSymmetry
CHECK_DEADLOCK FALSE
INVARIANT ReadsReturnWritten
